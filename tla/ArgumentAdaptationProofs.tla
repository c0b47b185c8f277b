--------------------- MODULE ArgumentAdaptationProofs ---------------------
(***************************************************************************)
(* Theorems about OCLTypeToSPIRV, for every program and every order of the *)
(* functions on its work list:                                             *)
(*                                                                         *)
(*   IInv     the list takes every function once, and the type it makes of *)
(*            a function stays true to the types of its arguments;         *)
(*   Reasons  an argument has a type only when metadata or a sampler gives *)
(*            it and calls hand it on;                                     *)
(*   AInv     in an orderly program every argument gets the types it       *)
(*            should have: what each stage has still to do is on the       *)
(*            traces, on the list, or in the function at hand.             *)
(***************************************************************************)
EXTENDS ArgumentAdaptation, FiniteSetTheorems, SequenceTheorems, TLAPS

(***************************************************************************)
(* Induction over the natural numbers for a set of numbers, and what it    *)
(* gives for functions defined by recursion.  The sets stand where the     *)
(* theorems of the library have an operator as their parameter.            *)
(***************************************************************************)
\* A set of numbers has a least one: of the intervals 0 .. n up to its elements, one
\* contains no other.
LEMMA LeastNumber ==
  ASSUME NEW X \in SUBSET Nat, X # {}
  PROVE  \E n \in X : \A m \in X : n <= m
<1> DEFINE R == StrictSubsetOrdering(Nat)
           T == {0 .. n : n \in X}
<1>1. T \in SUBSET FiniteSubsetsOf(Nat)
  <2>1. \A n \in X : IsFiniteSet(0 .. n) /\ 0 .. n \in SUBSET Nat
    <3> TAKE n \in X
    <3>1. 0 \in Int /\ n \in Int
      OBVIOUS
    <3> QED BY <3>1, FS_Interval
  <2> QED BY <2>1 DEF FiniteSubsetsOf
<1>2. IsWellFoundedOn(R, FiniteSubsetsOf(Nat))
  BY FS_StrictSubsetOrderingWellFounded
<1>3. \E s \in T : \A t \in T : ~(<<t, s>> \in R)
  <2>1. T # {}
    OBVIOUS
  <2> HIDE DEF R, T
  <2> QED BY <1>1, <1>2, <2>1, WFMin
<1>4. PICK n \in X : \A m \in X : ~(<<0 .. m, 0 .. n>> \in R)
  BY <1>3
<1>5. ASSUME NEW m \in X, m < n PROVE FALSE
  <2>1. 0 .. m \subseteq 0 .. n /\ 0 .. m # 0 .. n /\ 0 .. n \in SUBSET Nat /\ 0 .. m \in SUBSET Nat
    BY <1>5
  <2>2. <<0 .. m, 0 .. n>> \in R
    BY <2>1 DEF StrictSubsetOrdering
  <2> QED BY <1>4, <2>2
<1> QED BY <1>5

\* Induction: the numbers for which something holds are all of them.
LEMMA SetInduction ==
  ASSUME NEW X \in SUBSET Nat, 0 \in X, \A n \in X : n + 1 \in X
  PROVE  X = Nat
<1> SUFFICES ASSUME Nat \ X # {} PROVE FALSE
  OBVIOUS
<1>1. Nat \ X \in SUBSET Nat
  OBVIOUS
<1>2. PICK n \in Nat \ X : \A m \in Nat \ X : n <= m
  BY <1>1, LeastNumber
<1>3. n - 1 \in Nat /\ n - 1 \notin Nat \ X
  BY <1>2
<1> QED BY <1>2, <1>3

(***************************************************************************)
(* The values x, step[x], step[step[x]] ... as a function of the number of *)
(* steps.                                                                  *)
(***************************************************************************)
IsRun(f, n, x, step) ==
  f[0] = x /\ \A i \in 0 .. n - 1 : f[i + 1] = step[f[i]]

LEMMA RunsExist ==
  ASSUME NEW S, NEW x \in S, NEW step \in [S -> S]
  PROVE  \A n \in Nat : \E f \in [Nat -> S] : IsRun(f, n, x, step)
<1> DEFINE X == {n \in Nat : \E f \in [Nat -> S] : IsRun(f, n, x, step)}
<1>1. 0 \in X
  <2>1. [i \in Nat |-> x] \in [Nat -> S] /\ IsRun([i \in Nat |-> x], 0, x, step)
    BY DEF IsRun
  <2> QED BY <2>1
<1>2. ASSUME NEW n \in X PROVE n + 1 \in X
  <2>1. PICK f \in [Nat -> S] : IsRun(f, n, x, step)
    OBVIOUS
  <2>2. PICK g : g = [i \in Nat |-> IF i = n + 1 THEN step[f[n]] ELSE f[i]]
    OBVIOUS
  <2>3. g \in [Nat -> S]
    BY <2>2
  <2>4. IsRun(g, n + 1, x, step)
    <3>1. g[0] = x
      BY <2>1, <2>2 DEF IsRun
    <3>2. ASSUME NEW i \in 0 .. n PROVE g[i + 1] = step[g[i]]
      <4>1. CASE i = n
        BY <2>2, <4>1
      <4>2. CASE i # n
        BY <2>1, <2>2, <4>2 DEF IsRun
      <4> QED BY <4>1, <4>2
    <3> QED BY <3>1, <3>2 DEF IsRun
  <2> QED BY <2>3, <2>4
<1>3. X = Nat
  <2> HIDE DEF X
  <2>1. X \in SUBSET Nat
    BY DEF X
  <2> QED BY <1>1, <1>2, <2>1, SetInduction
<1> QED BY <1>3

LEMMA RunsAgree ==
  ASSUME NEW S, NEW x \in S, NEW step \in [S -> S],
         NEW f, NEW g, NEW m \in Nat, NEW n \in Nat,
         IsRun(f, m, x, step), IsRun(g, n, x, step)
  PROVE  \A i \in Nat : i <= m /\ i <= n => f[i] = g[i]
<1> DEFINE X == {i \in Nat : i <= m /\ i <= n => f[i] = g[i]}
<1>1. 0 \in X
  BY DEF IsRun
<1>2. ASSUME NEW i \in X PROVE i + 1 \in X
  <2> SUFFICES ASSUME i + 1 <= m, i + 1 <= n PROVE f[i + 1] = g[i + 1]
    OBVIOUS
  <2>1. i \in 0 .. m - 1 /\ i \in 0 .. n - 1 /\ f[i] = g[i]
    OBVIOUS
  <2>2. f[i + 1] = step[f[i]] /\ g[i + 1] = step[g[i]]
    BY <2>1 DEF IsRun
  <2> QED BY <2>1, <2>2
<1>3. X = Nat
  <2> HIDE DEF X
  <2>1. X \in SUBSET Nat
    BY DEF X
  <2> QED BY <1>1, <1>2, <2>1, SetInduction
<1> QED BY <1>3

LEMMA Iteration ==
  ASSUME NEW S, NEW x \in S, NEW step \in [S -> S]
  PROVE  \E f \in [Nat -> S] : f[0] = x /\ \A n \in Nat : f[n + 1] = step[f[n]]
<1> DEFINE run(n) == CHOOSE f \in [Nat -> S] : IsRun(f, n, x, step)
<1>1. \A n \in Nat : run(n) \in [Nat -> S] /\ IsRun(run(n), n, x, step)
  BY RunsExist
<1> HIDE DEF run
<1>2. PICK f : f = [n \in Nat |-> run(n)[n]]
  OBVIOUS
<1>3. f \in [Nat -> S]
  BY <1>1, <1>2
<1>4. f[0] = x
  BY <1>1, <1>2 DEF IsRun
<1>5. ASSUME NEW n \in Nat PROVE f[n + 1] = step[f[n]]
  <2>1. IsRun(run(n), n, x, step) /\ IsRun(run(n + 1), n + 1, x, step) /\ n + 1 \in Nat
    BY <1>1
  <2>2. run(n)[n] = run(n + 1)[n]
    <3>1. n <= n /\ n <= n + 1
      OBVIOUS
    <3> QED BY <2>1, <3>1, RunsAgree
  <2>3. run(n + 1)[n + 1] = step[run(n + 1)[n]]
    BY <2>1 DEF IsRun
  <2> QED BY <1>2, <2>1, <2>2, <2>3
<1> QED BY <1>3, <1>4, <1>5

(***************************************************************************)
(* Subsets of a finite set T that grow from step to step stop growing      *)
(* after at most Cardinality(T) steps.                                     *)
(***************************************************************************)
LEMMA Saturation ==
  ASSUME NEW T, IsFiniteSet(T), NEW step \in [SUBSET T -> SUBSET T],
         \A A \in SUBSET T : A \subseteq step[A],
         NEW w \in [Nat -> SUBSET T], \A n \in Nat : w[n + 1] = step[w[n]]
  PROVE  /\ Cardinality(T) \in Nat
         /\ step[w[Cardinality(T)]] = w[Cardinality(T)]
<1>1. Cardinality(T) \in Nat
  BY FS_CardinalityType
<1>2. \A n \in Nat : IsFiniteSet(w[n]) /\ Cardinality(w[n]) \in Nat /\ Cardinality(w[n]) <= Cardinality(T)
                     /\ (Cardinality(w[n]) = Cardinality(T) => w[n] = T)
  <2> TAKE n \in Nat
  <2>1. w[n] \in SUBSET T
    OBVIOUS
  <2> QED BY <2>1, FS_Subset, FS_CardinalityType
<1> DEFINE X == {n \in Nat : step[w[n]] = w[n] \/ n <= Cardinality(w[n])}
<1>3. 0 \in X
  BY <1>2
<1>4. ASSUME NEW n \in X PROVE n + 1 \in X
  <2>1. CASE step[w[n]] = w[n]
    BY <2>1
  <2>2. CASE step[w[n]] # w[n] /\ n <= Cardinality(w[n])
    <3>1. n \in Nat /\ n + 1 \in Nat
      OBVIOUS
    <3>2. w[n] \in SUBSET T /\ w[n + 1] = step[w[n]]
      BY <3>1
    <3>3. w[n] \in SUBSET w[n + 1] /\ w[n] # w[n + 1]
      BY <2>2, <3>2
    <3>4. IsFiniteSet(w[n + 1])
      BY <1>2, <3>1
    <3>5. Cardinality(w[n]) <= Cardinality(w[n + 1]) /\ Cardinality(w[n]) # Cardinality(w[n + 1])
      BY <3>3, <3>4, FS_Subset
    <3>6. PICK a \in Nat : a = Cardinality(w[n])
      BY <1>2, <3>1
    <3>7. PICK b \in Nat : b = Cardinality(w[n + 1])
      BY <1>2, <3>1
    <3>8. n + 1 <= b
      <4>1. n <= a /\ a <= b /\ a # b
        BY <2>2, <3>5, <3>6, <3>7
      <4> HIDE DEF X
      <4> QED BY <3>1, <4>1
    <3> QED BY <3>1, <3>7, <3>8
  <2> QED BY <2>1, <2>2
<1>5. X = Nat
  <2> HIDE DEF X
  <2>1. X \in SUBSET Nat
    BY DEF X
  <2> QED BY <1>3, <1>4, <2>1, SetInduction
<1>6. CASE Cardinality(T) <= Cardinality(w[Cardinality(T)])
  <2>1. Cardinality(w[Cardinality(T)]) = Cardinality(T)
    <3>1. PICK n \in Nat : n = Cardinality(T)
      BY <1>1
    <3>2. PICK a \in Nat : a = Cardinality(w[n])
      BY <1>2
    <3>3. a <= n /\ n <= a
      BY <1>2, <1>6, <3>1, <3>2
    <3>4. a = n
      BY <3>3
    <3> QED BY <3>1, <3>2, <3>4
  <2>2. w[Cardinality(T)] = T
    BY <1>1, <1>2, <2>1
  <2>3. step[T] \in SUBSET T /\ T \subseteq step[T]
    OBVIOUS
  <2> QED BY <1>1, <2>2, <2>3
<1> QED BY <1>1, <1>5, <1>6

(***************************************************************************)
(* The closure of a set under a step that grows and is monotone: it is     *)
(* closed, and the least set that is.                                      *)
(***************************************************************************)
Grows(step, T)    == \A A \in SUBSET T : A \subseteq step[A]
Monotone(step, T) == \A A, B \in SUBSET T : A \subseteq B => step[A] \subseteq step[B]
Iterates(w, step) == \A n \in Nat : w[n + 1] = step[w[n]]

IsClosure(c, x, step, T) ==
  /\ c \in SUBSET T /\ x \subseteq c /\ step[c] = c
  /\ \A C \in SUBSET T : x \subseteq C /\ step[C] \subseteq C => c \subseteq C

LEMMA Closure ==
  ASSUME NEW T, IsFiniteSet(T), NEW step \in [SUBSET T -> SUBSET T],
         Grows(step, T), Monotone(step, T),
         NEW w \in [Nat -> SUBSET T], Iterates(w, step),
         NEW c, c = w[Cardinality(T)]
  PROVE  IsClosure(c, w[0], step, T)
<1> USE DEF Grows, Monotone, Iterates
<1>1. Cardinality(T) \in Nat /\ step[c] = c
  BY Saturation
<1>2. c \in SUBSET T
  BY <1>1
<1>3. w[0] \subseteq c
  <2> DEFINE X == {n \in Nat : w[0] \subseteq w[n]}
  <2>1. 0 \in X
    OBVIOUS
  <2>2. ASSUME NEW n \in X PROVE n + 1 \in X
    <3>1. n \in Nat /\ w[n] \in SUBSET T /\ w[0] \subseteq w[n]
      OBVIOUS
    <3>2. w[n + 1] = step[w[n]] /\ w[n] \subseteq step[w[n]]
      BY <3>1
    <3> QED BY <3>1, <3>2
  <2>3. X = Nat
    <3> HIDE DEF X
    <3>1. X \in SUBSET Nat
      BY DEF X
    <3> QED BY <2>1, <2>2, <3>1, SetInduction
  <2> QED BY <1>1, <2>3
<1>4. ASSUME NEW C \in SUBSET T, w[0] \subseteq C, step[C] \subseteq C
      PROVE  c \subseteq C
  <2> DEFINE X == {n \in Nat : w[n] \subseteq C}
  <2>1. 0 \in X
    BY <1>4
  <2>2. ASSUME NEW n \in X PROVE n + 1 \in X
    <3>1. n \in Nat /\ w[n] \in SUBSET T /\ w[n] \subseteq C
      OBVIOUS
    <3>2. w[n + 1] = step[w[n]] /\ step[w[n]] \subseteq step[C]
      BY <3>1
    <3> QED BY <1>4, <3>1, <3>2
  <2>3. X = Nat
    <3> HIDE DEF X
    <3>1. X \in SUBSET Nat
      BY DEF X
    <3> QED BY <2>1, <2>2, <3>1, SetInduction
  <2> QED BY <1>1, <2>3
<1> QED BY <1>1, <1>2, <1>3, <1>4 DEF IsClosure

(***************************************************************************)
(* The inductive invariant.  The type of a function can only go wrong      *)
(* later, through a call of it: that calls spare the functions which have  *)
(* a type is not enough, the function that is worked on does not have its  *)
(* type yet (Gathered), and it must not be on the list again (WorkIsOpen). *)
(***************************************************************************)
Types  == Adapted \cup {"own"}
Frames == {t \in [func : Functions, index : Nat, left : SUBSET (DOMAIN prog.calls)] :
             t.index \in 1 .. prog.arity[t.func] /\ t.left \subseteq Users(t.func)}
Shapes ==
  /\ IsProgram(prog)
  /\ \A a \in DOMAIN argType : argType[a] \in Adapted
  /\ work \subseteq Functions
  /\ untraced \subseteq prog.builtins
  /\ traces \in Seq(Frames)
Phases ==
  /\ phase \in {"metadata", "samplers"} => current = Idle /\ DOMAIN funcType = {}
  /\ phase # "samplers" => traces = << >>
  /\ current # Idle => phase = "working"
Gathered ==
  current # Idle =>
    /\ current.func \in Functions \ DOMAIN funcType
    /\ current.next \in 1 .. prog.arity[current.func] + 1
    /\ current.types \in Seq(Types)
    /\ Len(current.types) = current.next - 1
    /\ current = [func |-> current.func, next |-> current.next, types |-> current.types]
    /\ ~CallsItself(current.func) =>
         /\ current.func \notin work
         /\ \A n \in 1 .. current.next - 1 : current.types[n] = TypeOf(<<current.func, n>>)
WorkIsOpen == \A f \in work \cap DOMAIN funcType : CallsItself(f)
IInv == Shapes /\ Phases /\ Gathered /\ WorkIsOpen /\ TypesAgree /\ AdaptedOnce

\* What IsProgram says of functions and calls.
LEMMA ProgramShape ==
  ASSUME IsProgram(prog)
  PROVE  /\ Functions \subseteq Nat \ {0}
         /\ \A f \in Functions : prog.arity[f] \in Nat
         /\ prog.builtins \subseteq {f \in Functions : prog.arity[f] >= 2}
         /\ \A i \in DOMAIN prog.calls :
              /\ prog.calls[i].caller \in Functions
              /\ prog.calls[i].callee \in Functions
              /\ prog.calls[i].args \in [1 .. prog.arity[prog.calls[i].callee]
                                          -> 0 .. prog.arity[prog.calls[i].caller]]
BY DEF IsProgram, Functions

\* What appending does to the positions of a sequence.
LEMMA AppendShape ==
  ASSUME NEW S, NEW s \in Seq(S), NEW e \in S, NEW k \in Nat \ {0}, Len(s) = k - 1
  PROVE  /\ Append(s, e) \in Seq(S)
         /\ Len(Append(s, e)) = k
         /\ \A n \in 1 .. k - 1 : Append(s, e)[n] = s[n]
         /\ Append(s, e)[k] = e
<1>1. Len(s) + 1 = k /\ DOMAIN s = 1 .. k - 1
  OBVIOUS
<1> QED BY <1>1

LEMMA InitInv == Init => IInv
<1> SUFFICES ASSUME Init PROVE IInv
  OBVIOUS
<1>1. Shapes
  BY ProgramsAssumption DEF Init, Shapes
<1> QED BY <1>1 DEF Init, IInv, Phases, Gathered, WorkIsOpen, TypesAgree, AdaptedOnce

\* A step that leaves the program and what adaptFunction has made alone.
LEMMA Untouched ==
  ASSUME IInv, UNCHANGED <<prog, funcType, current>>, Shapes', Phases',
         phase' = "failed" => phase = "failed",
         \/ DOMAIN funcType = {} /\ current = Idle
         \/ UNCHANGED argType /\ work' \subseteq work
  PROVE  IInv'
<1>1. /\ Functions' = Functions /\ \A f : CallsItself(f)' <=> CallsItself(f)
      /\ Idle' = Idle
  BY DEF Functions, CallsItself, Users, Idle
<1>2. CASE DOMAIN funcType = {} /\ current = Idle
  BY <1>1, <1>2 DEF IInv, Gathered, WorkIsOpen, TypesAgree, AdaptedOnce
<1>3. CASE UNCHANGED argType /\ work' \subseteq work
  <2>1. \A a : TypeOf(a)' = TypeOf(a)
    BY <1>3 DEF TypeOf
  <2>2. Gathered'
    BY <1>1, <1>3, <2>1 DEF IInv, Gathered, Types
  <2>3. WorkIsOpen'
    BY <1>1, <1>3 DEF IInv, WorkIsOpen
  <2>4. TypesAgree'
    BY <1>1, <2>1 DEF IInv, TypesAgree
  <2>5. AdaptedOnce'
    BY <1>1 DEF IInv, AdaptedOnce
  <2> QED BY <2>2, <2>3, <2>4, <2>5 DEF IInv
<1> QED BY <1>2, <1>3

LEMMA AdaptByMetadataInv == IInv /\ AdaptByMetadata => IInv'
<1> SUFFICES ASSUME IInv, AdaptByMetadata PROVE IInv'
  OBVIOUS
<1> DEFINE known == {a \in Arguments : prog.metadata[a[1]][a[2]] # "none"}
<1>1. IsProgram(prog) /\ phase = "metadata" /\ phase' = "samplers"
      /\ argType' = [a \in known |-> prog.metadata[a[1]][a[2]]]
      /\ work' = {a[1] : a \in known}
      /\ UNCHANGED <<prog, funcType, untraced, traces, current>>
  BY DEF AdaptByMetadata, IInv, Shapes
<1>2. \A a \in known : a[1] \in Functions /\ prog.metadata[a[1]][a[2]] \in Adapted
  BY <1>1 DEF Arguments, Functions, IsProgram
<1>3. Shapes'
  BY <1>1, <1>2 DEF IInv, Shapes, Functions, Frames, Users
<1>4. Phases'
  BY <1>1 DEF IInv, Phases, Idle
<1>5. DOMAIN funcType = {} /\ current = Idle
  BY <1>1 DEF IInv, Phases
<1> QED BY <1>1, <1>3, <1>4, <1>5, Untouched

\* The innermost activation of TraceArg, and what TraceArg does to the activations.
LEMMA TopShape ==
  ASSUME IInv, traces # << >>
  PROVE  /\ phase = "samplers" /\ DOMAIN funcType = {} /\ current = Idle
         /\ Len(traces) \in Nat \ {0}
         /\ Top \in Frames
         /\ Front(traces) \in Seq(Frames)
         /\ \A i \in Top.left : Past(i) \in Seq(Frames)
<1>1. traces \in Seq(Frames) /\ Len(traces) \in Nat \ {0} /\ Top \in Frames
  BY DEF IInv, Shapes, Top
<1>2. Front(traces) \in Seq(Frames)
  BY <1>1 DEF Front
<1>3. ASSUME NEW i \in Top.left PROVE Past(i) \in Seq(Frames)
  <2>1. [Top EXCEPT !.left = @ \ {i}] \in Frames
    BY <1>1 DEF Frames
  <2> QED BY <1>1, <2>1 DEF Past, Top
<1> QED BY <1>1, <1>2, <1>3 DEF IInv, Phases

LEMMA TracedShape ==
  ASSUME IInv, NEW f \in Functions, NEW n \in 1 .. prog.arity[f], NEW ts \in Seq(Frames)
  PROVE  Traced(f, n, ts) \in Seq(Frames)
<1>1. prog.arity[f] \in Nat
  BY ProgramShape DEF IInv, Shapes
<1>2. [func |-> f, index |-> n, left |-> Users(f)] \in Frames
  BY <1>1 DEF Frames, Users
<1> QED BY <1>2 DEF Traced

LEMMA TraceBuiltinInv == IInv /\ TraceBuiltin => IInv'
<1> SUFFICES ASSUME IInv, phase = "samplers", traces = << >>, NEW b \in untraced,
                    untraced' = untraced \ {b}, traces' = Traced(b, 2, traces),
                    UNCHANGED <<prog, argType, funcType, work, current, phase>>
             PROVE  IInv'
  BY DEF TraceBuiltin
<1>1. b \in Functions /\ 2 \in 1 .. prog.arity[b] /\ traces \in Seq(Frames)
  BY ProgramShape DEF IInv, Shapes
<1>2. traces' \in Seq(Frames)
  BY <1>1, TracedShape
<1>3. Shapes' /\ Phases'
  BY <1>2 DEF IInv, Shapes, Phases, Frames, Functions, Users, Idle
<1> QED BY <1>3, Untouched

LEMMA PassUserInv == IInv /\ PassUser => IInv'
<1> SUFFICES ASSUME IInv, traces # << >>, NEW i \in Top.left, traces' = Past(i),
                    UNCHANGED <<prog, argType, funcType, work, untraced, current, phase>>
             PROVE  IInv'
  BY DEF PassUser
<1>1. Shapes' /\ Phases'
  BY TopShape DEF IInv, Shapes, Phases, Frames, Functions, Users, Idle
<1> QED BY <1>1, Untouched

LEMMA StopTraceInv == IInv /\ (StopTrace \/ ReturnTrace) => IInv'
<1> SUFFICES ASSUME IInv, traces # << >>, traces' = Front(traces),
                    UNCHANGED <<prog, argType, funcType, work, untraced, current, phase>>
             PROVE  IInv'
  BY DEF StopTrace, ReturnTrace
<1>1. Shapes' /\ Phases'
  BY TopShape DEF IInv, Shapes, Phases, Frames, Functions, Users, Idle
<1> QED BY <1>1, Untouched

LEMMA TraceUserInv == IInv /\ TraceUser => IInv'
<1> SUFFICES ASSUME IInv, traces # << >>, NEW i \in Top.left, Unknown(i),
                    argType' = Put(argType, ArgOf(i, Top.index), "sampler"),
                    work' = work \cup {ArgOf(i, Top.index)[1]},
                    traces' = Traced(ArgOf(i, Top.index)[1], ArgOf(i, Top.index)[2], Past(i)),
                    UNCHANGED <<prog, funcType, untraced, current, phase>>
             PROVE  IInv'
  BY DEF TraceUser
<1> DEFINE f == prog.calls[i].caller
           n == prog.calls[i].args[Top.index]
<1>1. i \in DOMAIN prog.calls /\ prog.calls[i].callee = Top.func
      /\ Top.index \in 1 .. prog.arity[Top.func]
  BY TopShape DEF Frames, Users
<1>2. f \in Functions /\ n \in 1 .. prog.arity[f]
  <2>1. f \in Functions /\ prog.arity[f] \in Nat /\ n \in 0 .. prog.arity[f]
    <3>1. IsProgram(prog)
      BY DEF IInv, Shapes
    <3>2. prog.calls[i].args \in [1 .. prog.arity[Top.func] -> 0 .. prog.arity[f]]
      BY <1>1, <3>1, ProgramShape
    <3> QED BY <1>1, <3>1, <3>2, ProgramShape
  <2>2. n # 0
    BY DEF Unknown, IsArg
  <2> QED BY <2>1, <2>2
<1>3. traces' \in Seq(Frames)
  BY <1>2, TopShape, TracedShape DEF ArgOf
<1>4. \A a \in DOMAIN argType' : argType'[a] \in Adapted
  BY DEF IInv, Shapes, Put, Adapted
<1>5. Shapes' /\ Phases'
  BY <1>2, <1>3, <1>4, TopShape DEF IInv, Shapes, Phases, Frames, Functions, Users, Idle, ArgOf
<1> QED BY <1>5, TopShape, Untouched

LEMMA EndSamplersInv == IInv /\ EndSamplers => IInv'
<1> SUFFICES ASSUME IInv, EndSamplers PROVE IInv'
  OBVIOUS
<1>1. Shapes' /\ Phases'
  BY DEF EndSamplers, IInv, Shapes, Phases, Frames, Functions, Users, Idle
<1> QED BY <1>1, Untouched DEF EndSamplers

LEMMA TakeWorkInv == IInv /\ TakeWork => IInv'
<1> SUFFICES ASSUME IInv, phase = "working", current = Idle, NEW f \in work,
                    f \notin DOMAIN funcType,
                    current' = [func |-> f, next |-> 1, types |-> << >>],
                    work' = work \ {f},
                    UNCHANGED <<prog, argType, funcType, untraced, traces, phase>>
             PROVE  IInv'
  BY DEF TakeWork, WithoutFirst
<1>1. f \in Functions /\ f # 0 /\ prog.arity[f] \in Nat /\ Functions' = Functions
  BY ProgramShape DEF IInv, Shapes, Functions
<1>2. \A a, g : TypeOf(a)' = TypeOf(a) /\ (CallsItself(g)' <=> CallsItself(g))
  BY DEF TypeOf, CallsItself, Users
<1>3. Shapes' /\ Phases'
  BY DEF IInv, Shapes, Phases, Frames, Functions, Users
<1>4. Gathered'
  BY <1>1, <1>2 DEF Gathered, Types
<1>5. WorkIsOpen'
  BY <1>2 DEF IInv, WorkIsOpen
<1>6. TypesAgree' /\ AdaptedOnce'
  BY <1>1, <1>2 DEF IInv, TypesAgree, AdaptedOnce
<1> QED BY <1>3, <1>4, <1>5, <1>6 DEF IInv

LEMMA AdaptedBeforeInv == IInv /\ AdaptedBefore => IInv'
<1> SUFFICES ASSUME IInv, AdaptedBefore PROVE IInv'
  OBVIOUS
<1>1. Functions' = Functions
      /\ \A a, g : TypeOf(a)' = TypeOf(a) /\ (CallsItself(g)' <=> CallsItself(g))
  BY DEF AdaptedBefore, TypeOf, CallsItself, Users, Functions
<1>2. Shapes' /\ Phases' /\ Gathered' /\ TypesAgree' /\ WorkIsOpen'
  BY <1>1 DEF AdaptedBefore, IInv, Shapes, Phases, Gathered, TypesAgree, WorkIsOpen, Frames,
              Functions, Users, Idle, Types
<1>3. AdaptedOnce'
  BY <1>1 DEF AdaptedBefore, IInv, Shapes, WorkIsOpen, AdaptedOnce
<1> QED BY <1>2, <1>3 DEF IInv

\* adaptFunction gives types only to arguments of functions that have none yet, and of
\* the function it works on only if that calls itself.
LEMMA AdaptArgumentInv == IInv /\ AdaptArgument => IInv'
<1> DEFINE f      == current.func
           a      == <<current.func, current.next>>
           handed == IF a \in DOMAIN argType THEN HandedTo(a[1], a[2]) ELSE {}
           params == {<<prog.calls[i].callee, ArgIndex(i, a[2])>> : i \in handed}
<1> SUFFICES ASSUME IInv, current.func # 0, current.next <= prog.arity[current.func],
                    current' = [current EXCEPT !.next = @ + 1, !.types = Append(@, TypeOf(a))],
                    argType' = [b \in DOMAIN argType \cup params |->
                                  IF b \in params THEN argType[a] ELSE argType[b]],
                    work' = work \cup {b[1] : b \in params},
                    UNCHANGED <<prog, funcType, untraced, traces, phase>>
             PROVE  IInv'
  BY DEF AdaptArgument
<1>1. /\ current # Idle /\ IsProgram(prog)
      /\ Functions' = Functions /\ \A g : CallsItself(g)' <=> CallsItself(g)
  BY DEF IInv, Shapes, Idle, Functions, CallsItself, Users
<1>2. /\ f \in Functions \ DOMAIN funcType
      /\ current.next \in 1 .. prog.arity[f] /\ prog.arity[f] \in Nat
      /\ current.types \in Seq(Types) /\ Len(current.types) = current.next - 1
      /\ current = [func |-> f, next |-> current.next, types |-> current.types]
  BY <1>1, ProgramShape DEF IInv, Gathered
<1>3. \A b \in params : /\ b[1] \in Functions \ DOMAIN funcType
                        /\ b[1] = f => CallsItself(f)
                        /\ a \in DOMAIN argType
  <2>1. ASSUME NEW b \in params
        PROVE  \E i \in handed : b[1] = prog.calls[i].callee
    <3>1. PICK i \in handed : b = <<prog.calls[i].callee, ArgIndex(i, a[2])>>
      OBVIOUS
    <3> QED BY <3>1
  <2>2. ASSUME NEW i \in handed
        PROVE  a \in DOMAIN argType /\ i \in HandedTo(f, current.next)
    OBVIOUS
  <2>3. ASSUME NEW i \in HandedTo(f, current.next)
        PROVE  /\ prog.calls[i].callee \in Functions \ DOMAIN funcType
               /\ prog.calls[i].callee = f => CallsItself(f)
    <3>1. i \in DOMAIN prog.calls /\ prog.calls[i].caller = f /\ Open(prog.calls[i].callee)
      BY DEF HandedTo
    <3> QED BY <1>1, <3>1, ProgramShape DEF Open, CallsItself, Users
  <2>4. ASSUME NEW b \in params
        PROVE  b[1] \in Functions \ DOMAIN funcType /\ (b[1] = f => CallsItself(f)) /\ a \in DOMAIN argType
    <3>1. PICK i \in handed : b[1] = prog.calls[i].callee
      BY <2>1
    <3>2. a \in DOMAIN argType /\ i \in HandedTo(f, current.next)
      BY <2>2
    <3> HIDE DEF f, a, handed, params
    <3> QED BY <2>3, <3>1, <3>2
  <2> QED BY <2>4
<1>4. TypeOf(a) \in Types
  BY DEF IInv, Shapes, TypeOf, Types
<1>5. \A b : b \notin params => TypeOf(b)' = TypeOf(b)
  BY DEF TypeOf
<1>6. Shapes'
  <2>1. \A b \in DOMAIN argType' : argType'[b] \in Adapted
    BY <1>3 DEF IInv, Shapes
  <2>2. work' \subseteq Functions'
    BY <1>1, <1>3 DEF IInv, Shapes
  <2> QED BY <2>1, <2>2 DEF IInv, Shapes, Functions, Frames, Users
<1>7. current' = [func |-> f, next |-> current.next + 1, types |-> Append(current.types, TypeOf(a))]
  BY <1>2
<1>8. Gathered'
  <2>1. /\ Append(current.types, TypeOf(a)) \in Seq(Types)
        /\ Len(Append(current.types, TypeOf(a))) = current.next
        /\ \A n \in 1 .. current.next - 1 : Append(current.types, TypeOf(a))[n] = current.types[n]
        /\ Append(current.types, TypeOf(a))[current.next] = TypeOf(a)
    BY <1>2, <1>4, AppendShape
  <2>2. ASSUME ~CallsItself(f)
        PROVE  /\ f \notin work'
               /\ \A n \in 1 .. current.next : current'.types[n] = TypeOf(<<f, n>>)'
    <3>1. f \notin work /\ \A n \in 1 .. current.next - 1 : current.types[n] = TypeOf(<<f, n>>)
      BY <1>1, <2>2 DEF IInv, Gathered
    <3>2. \A n : TypeOf(<<f, n>>)' = TypeOf(<<f, n>>)
      BY <1>3, <1>5, <2>2
    <3>3. f \notin work'
      BY <1>3, <2>2, <3>1
    <3>4. \A n \in 1 .. current.next : current'.types[n] = TypeOf(<<f, n>>)
      <4>1. ASSUME NEW n \in 1 .. current.next
            PROVE  n = current.next \/ n \in 1 .. current.next - 1
        BY <1>2
      <4> QED BY <1>7, <2>1, <3>1, <4>1
    <3> QED BY <3>2, <3>3, <3>4
  <2>3. current'.func = f /\ current'.next = current.next + 1
        /\ current'.types = Append(current.types, TypeOf(a))
    BY <1>7
  <2>4. /\ current'.next \in 1 .. prog'.arity[f] + 1
        /\ current'.next - 1 = current.next
    BY <1>2, <2>3
  <2> QED BY <1>1, <1>2, <1>7, <2>1, <2>2, <2>3, <2>4 DEF Gathered, Types
<1>9. WorkIsOpen'
  BY <1>1, <1>3 DEF IInv, WorkIsOpen
<1>10. TypesAgree'
  <2>1. \A g \in DOMAIN funcType, n \in Nat : TypeOf(<<g, n>>)' = TypeOf(<<g, n>>)
    BY <1>3, <1>5
  <2>2. \A g : prog.arity'[g] = prog.arity[g]
    OBVIOUS
  <2> QED BY <1>1, <2>1 DEF IInv, TypesAgree
<1>11. Phases' /\ AdaptedOnce'
  BY <1>1, <1>7 DEF IInv, Phases, AdaptedOnce
<1> QED BY <1>6, <1>8, <1>9, <1>10, <1>11 DEF IInv

LEMMA FinishFunctionInv == IInv /\ FinishFunction => IInv'
<1> DEFINE f == current.func
<1> SUFFICES ASSUME IInv, current.func # 0, current.next > prog.arity[current.func],
                    \/ funcType' = funcType
                    \/ funcType' = Put(funcType, current.func, current.types),
                    current' = Idle,
                    UNCHANGED <<prog, argType, work, untraced, traces, phase>>
             PROVE  IInv'
  BY DEF FinishFunction
<1>1. current # Idle /\ f \in Functions /\ f \notin DOMAIN funcType
  BY DEF IInv, Gathered, Idle
<1>2. ~CallsItself(f) => f \notin work
        /\ \A n \in 1 .. prog.arity[f] : current.types[n] = TypeOf(<<f, n>>)
  <2>1. prog.arity[f] \in Nat /\ current.next = prog.arity[f] + 1
    BY <1>1, ProgramShape DEF IInv, Shapes, Gathered
  <2> QED BY <1>1, <2>1 DEF IInv, Gathered
<1>3. /\ Functions' = Functions
      /\ \A b, g : TypeOf(b)' = TypeOf(b) /\ (CallsItself(g)' <=> CallsItself(g))
  BY DEF TypeOf, CallsItself, Users, Functions
<1>4. Shapes' /\ Phases' /\ Gathered'
  BY <1>1 DEF IInv, Shapes, Phases, Gathered, Frames, Functions, Users, Idle
<1>5. /\ DOMAIN funcType' \subseteq DOMAIN funcType \cup {f}
      /\ \A g \in DOMAIN funcType' : funcType'[g] = IF g = f THEN current.types ELSE funcType[g]
  BY <1>1 DEF Put
<1>6. WorkIsOpen'
  BY <1>2, <1>3, <1>5 DEF IInv, WorkIsOpen
<1>7. TypesAgree'
  BY <1>2, <1>3, <1>5 DEF IInv, TypesAgree
<1>8. AdaptedOnce'
  BY <1>3 DEF IInv, AdaptedOnce
<1> QED BY <1>4, <1>6, <1>7, <1>8 DEF IInv

LEMMA FinishInv == IInv /\ Finish => IInv'
<1> SUFFICES ASSUME IInv, Finish PROVE IInv'
  OBVIOUS
<1>1. Shapes' /\ Phases'
  BY DEF Finish, IInv, Shapes, Phases, Frames, Functions, Users, Idle
<1> QED BY <1>1, Untouched DEF Finish

LEMMA NextInv == IInv /\ [Next]_vars => IInv'
<1> SUFFICES ASSUME IInv, [Next]_vars PROVE IInv'
  OBVIOUS
<1>1. CASE UNCHANGED vars
  <2>1. Shapes' /\ Phases'
    BY <1>1 DEF vars, IInv, Shapes, Phases, Frames, Functions, Users, Idle
  <2> QED BY <1>1, <2>1, Untouched DEF vars
<1>2. CASE Next
  BY <1>2, AdaptByMetadataInv, TraceBuiltinInv, PassUserInv, StopTraceInv, TraceUserInv,
     EndSamplersInv, TakeWorkInv, AdaptedBeforeInv, AdaptArgumentInv, FinishFunctionInv,
     FinishInv DEF Next
<1> QED BY <1>1, <1>2

\* Every stage of the pass, and every choice from the work list, keeps the invariant.
THEOREM Invariance == Spec => []IInv
BY InitInv, NextInv, PTL DEF Spec

(***************************************************************************)
(* For every program and every order of the work list: the type that       *)
(* getAdaptedType() gives of a function is made of the types that it gives *)
(* of the arguments.                                                       *)
(***************************************************************************)
THEOREM TypesAgreeHolds == Spec => []TypesAgree
<1>1. IInv => TypesAgree
  BY DEF IInv
<1> QED BY <1>1, Invariance, PTL

(***************************************************************************)
(* For every program: the assertion of adaptFunction, that a function is   *)
(* not adapted twice, can only fail for a function that calls itself.      *)
(***************************************************************************)
THEOREM AdaptedOnceHolds == Spec => []AdaptedOnce
<1>1. IInv => AdaptedOnce
  BY DEF IInv
<1> QED BY <1>1, Invariance, PTL

(***************************************************************************)
(* What Reach computes.  A module has finitely many arguments.             *)
(***************************************************************************)
LEMMA ArgumentShape ==
  ASSUME IsProgram(prog)
  PROVE  \A a : a \in Arguments <=> \E f \in Functions : \E n \in 1 .. prog.arity[f] : a = <<f, n>>
BY DEF Arguments

LEMMA ArityBound ==
  ASSUME IsProgram(prog)
  PROVE  \E m \in Nat : \A f \in Functions : prog.arity[f] <= m
<1> DEFINE Bounded(F) == \E m \in Nat : \A f \in F : prog.arity[f] <= m
           X == {n \in Nat : \A F \in SUBSET Functions : Cardinality(F) = n => Bounded(F)}
<1>1. IsFiniteSet(Functions) /\ \A f \in Functions : prog.arity[f] \in Nat
  BY DEF IsProgram, Functions
<1>2. 0 \in X
  <2> SUFFICES ASSUME NEW F \in SUBSET Functions, Cardinality(F) = 0 PROVE Bounded(F)
    OBVIOUS
  <2>1. F = {}
    BY <1>1, FS_Subset, FS_EmptySet
  <2>2. 0 \in Nat /\ \A f \in F : prog.arity[f] <= 0
    BY <2>1
  <2> QED BY <2>2
<1>3. ASSUME NEW n \in X PROVE n + 1 \in X
  <2>1. n \in Nat /\ \A F \in SUBSET Functions : Cardinality(F) = n => Bounded(F)
    OBVIOUS
  <2> SUFFICES ASSUME NEW F \in SUBSET Functions, Cardinality(F) = n + 1 PROVE Bounded(F)
    BY <2>1
  <2>2. IsFiniteSet(F)
    BY <1>1, FS_Subset
  <2>3. F # {}
    BY <2>1, FS_EmptySet
  <2>4. PICK f \in F : TRUE
    BY <2>3
  <2>5. Cardinality(F \ {f}) = n
    <3>1. Cardinality(F \ {f}) = Cardinality(F) - 1
      BY <2>2, <2>4, FS_RemoveElement
    <3> QED BY <2>1, <3>1
  <2>6. PICK m \in Nat : \A g \in F \ {f} : prog.arity[g] <= m
    BY <2>1, <2>5
  <2>7. PICK a \in Nat : a = prog.arity[f]
    BY <1>1, <2>4
  <2>8. PICK b \in Nat : b = m + a
    OBVIOUS
  <2>9. \A g \in F : prog.arity[g] <= b
    <3> TAKE g \in F
    <3>1. PICK c \in Nat : c = prog.arity[g]
      BY <1>1
    <3>2. c <= m \/ c = a
      BY <2>6, <2>7, <3>1
    <3> QED BY <2>8, <3>1, <3>2
  <2> QED BY <2>9
<1>4. X = Nat
  <2> HIDE DEF X
  <2>1. X \in SUBSET Nat
    BY DEF X
  <2> QED BY <1>2, <1>3, <2>1, SetInduction
<1>5. Cardinality(Functions) \in Nat
  BY <1>1, FS_CardinalityType
<1> QED BY <1>4, <1>5

LEMMA ArgumentsFinite ==
  ASSUME IsProgram(prog)
  PROVE  IsFiniteSet(Arguments)
<1>1. PICK m \in Nat : \A f \in Functions : prog.arity[f] <= m
  BY ArityBound
<1>2. IsFiniteSet(Functions) /\ \A f \in Functions : prog.arity[f] \in Nat
  BY DEF IsProgram, Functions
<1>3. IsFiniteSet(1 .. m)
  BY FS_Interval
<1>4. IsFiniteSet(Functions \X (1 .. m))
  BY <1>2, <1>3, FS_Product
<1>5. Arguments \in SUBSET (Functions \X (1 .. m))
  <2> SUFFICES ASSUME NEW a \in Arguments PROVE a \in Functions \X (1 .. m)
    OBVIOUS
  <2>1. PICK f \in Functions : \E n \in 1 .. prog.arity[f] : a = <<f, n>>
    BY ArgumentShape
  <2>2. PICK n \in 1 .. prog.arity[f] : a = <<f, n>>
    BY <2>1
  <2>3. n \in 1 .. m
    BY <1>1, <1>2
  <2> QED BY <2>2, <2>3
<1> QED BY <1>4, <1>5, FS_Subset

Inside(links, T) == links \subseteq T \X T
Along(S, links)  == S \cup {l[2] : l \in {k \in links : k[1] \in S}}

\* Reach is the value, after as many steps as there are arguments, of the sets that
\* start with the given arguments and take in what their members are linked with.
ReachBy(links, from, T, step, w) ==
  /\ \A S \in SUBSET T : step[S] = Along(S, links)
  /\ w[0] = from
  /\ Iterates(w, step)
  /\ Reach(links, from) = w[Cardinality(T)]

LEMMA ReachIterates ==
  ASSUME NEW T, T = Arguments, NEW links, Inside(links, T), NEW from \in SUBSET T
  PROVE  \E step \in [SUBSET T -> SUBSET T] : \E w \in [Nat -> SUBSET T] : ReachBy(links, from, T, step, w)
<1>1. \A S \in SUBSET T : Along(S, links) \in SUBSET T
  BY DEF Along, Inside
<1>2. PICK step : step = [S \in SUBSET T |-> Along(S, links)]
  OBVIOUS
<1>3. step \in [SUBSET T -> SUBSET T] /\ \A S \in SUBSET T : step[S] = Along(S, links)
  BY <1>1, <1>2
<1>4. PICK S0 : S0 = SUBSET T
  OBVIOUS
<1>5. PICK f \in [Nat -> SUBSET T] : f[0] = from /\ \A n \in Nat : f[n + 1] = step[f[n]]
  <2>1. PICK x \in S0 : x = from
    BY <1>4
  <2>2. step \in [S0 -> S0]
    BY <1>3, <1>4
  <2>3. PICK f \in [Nat -> S0] : f[0] = x /\ \A n \in Nat : f[n + 1] = step[f[n]]
    BY <2>2, Iteration
  <2> QED BY <1>4, <2>1, <2>3
<1>6. f \in [Nat -> S0]
  BY <1>4
<1> DEFINE Eq(g) == g = [n \in Nat |-> IF n = 0 THEN from ELSE Along(g[n - 1], links)]
           within == CHOOSE g : Eq(g)
<1>7. Eq(f)
  <2>1. f = [n \in Nat |-> f[n]]
    BY <1>5
  <2>2. ASSUME NEW n \in Nat PROVE f[n] = IF n = 0 THEN from ELSE Along(f[n - 1], links)
    <3>1. CASE n = 0
      BY <1>5, <3>1
    <3>2. CASE n # 0
      <4>1. PICK m : m = n - 1
        OBVIOUS
      <4>2. m \in Nat /\ n = m + 1
        BY <3>2, <4>1
      <4>3. f[m + 1] = step[f[m]] /\ f[m] \in S0
        BY <1>4, <1>5, <4>2
      <4>4. step[f[m]] = Along(f[m], links)
        BY <1>3, <1>4, <4>3
      <4> QED BY <3>2, <4>1, <4>2, <4>3, <4>4
    <3> QED BY <3>1, <3>2
  <2> QED BY <2>1, <2>2
<1>8. Eq(within)
  BY <1>7
<1>9. Reach(links, from) = within[Cardinality(T)]
  BY DEF Reach, Along
<1> HIDE DEF within
<1>10. PICK w : w = within
  OBVIOUS
<1>11. w = [n \in Nat |-> IF n = 0 THEN from ELSE Along(w[n - 1], links)]
  BY <1>8, <1>10
<1>12. w[0] = from /\ \A n \in Nat : w[n + 1] = Along(w[n], links)
  <2>1. w[0] = from
    BY <1>11
  <2>2. ASSUME NEW n \in Nat PROVE w[n + 1] = Along(w[n], links)
    <3>1. PICK m : m = n + 1
      OBVIOUS
    <3>2. m \in Nat /\ m # 0 /\ m - 1 = n
      BY <3>1
    <3>3. w[m] = Along(w[m - 1], links)
      BY <1>11, <3>2
    <3> QED BY <3>1, <3>2, <3>3
  <2> QED BY <2>1, <2>2
<1> DEFINE X == {n \in Nat : w[n] \in SUBSET T}
<1>13. X = Nat
  <2>1. 0 \in X
    BY <1>12
  <2>2. \A n \in X : n + 1 \in X
    BY <1>1, <1>12
  <2>3. X \in SUBSET Nat
    OBVIOUS
  <2> HIDE DEF X
  <2> QED BY <2>1, <2>2, <2>3, SetInduction
<1>14. w \in [Nat -> SUBSET T]
  <2>1. \A n \in Nat : w[n] \in SUBSET T
    BY <1>13
  <2>2. w = [n \in Nat |-> w[n]]
    BY <1>11
  <2> QED BY <2>1, <2>2
<1>15. \A n \in Nat : w[n + 1] = step[w[n]]
  BY <1>3, <1>12, <1>14
<1>16. ReachBy(links, from, T, step, w)
  BY <1>3, <1>9, <1>10, <1>12, <1>15 DEF ReachBy, Iterates
<1> QED BY <1>3, <1>14, <1>16

Leads(links, S) == \A l \in links : l[1] \in S => l[2] \in S

LEMMA ReachCloses ==
  ASSUME IsProgram(prog), NEW links \in SUBSET (Arguments \X Arguments), NEW from \in SUBSET Arguments
  PROVE  /\ Reach(links, from) \in SUBSET Arguments
         /\ from \subseteq Reach(links, from)
         /\ Leads(links, Reach(links, from))
         /\ \A C \in SUBSET Arguments : from \subseteq C /\ Leads(links, C) => Reach(links, from) \subseteq C
<1>1. PICK T : T = Arguments
  OBVIOUS
<1>2. Inside(links, T) /\ from \in SUBSET T /\ IsFiniteSet(T)
  BY <1>1, ArgumentsFinite DEF Inside
<1>3. PICK step \in [SUBSET T -> SUBSET T], w \in [Nat -> SUBSET T] : ReachBy(links, from, T, step, w)
  BY <1>1, <1>2, ReachIterates
<1>4. /\ \A S \in SUBSET T : step[S] = Along(S, links)
      /\ w[0] = from /\ Iterates(w, step) /\ Reach(links, from) = w[Cardinality(T)]
  BY <1>3 DEF ReachBy
<1>5. Grows(step, T)
  <2>1. \A A \in SUBSET T : A \subseteq Along(A, links)
    BY DEF Along
  <2> QED BY <1>4, <2>1 DEF Grows
<1>6. Monotone(step, T)
  <2>1. \A A, B \in SUBSET T : A \subseteq B => Along(A, links) \subseteq Along(B, links)
    BY DEF Along
  <2> QED BY <1>4, <2>1 DEF Monotone
<1>7. PICK c : c = w[Cardinality(T)]
  OBVIOUS
<1>8. IsClosure(c, w[0], step, T)
  BY <1>2, <1>4, <1>5, <1>6, <1>7, Closure
<1>9. \A S \in SUBSET T : step[S] \subseteq S <=> Leads(links, S)
  <2>1. \A S \in SUBSET T : Along(S, links) \subseteq S <=> Leads(links, S)
    BY DEF Along, Leads
  <2> QED BY <1>4, <2>1
<1> QED BY <1>1, <1>4, <1>7, <1>8, <1>9 DEF IsClosure

(***************************************************************************)
(* An argument is passed to a parameter: both are arguments.               *)
(***************************************************************************)
LEMMA PassingShape ==
  ASSUME IsProgram(prog)
  PROVE  \A p : p \in Passings <=>
           \E i \in DOMAIN prog.calls : \E n \in DOMAIN prog.calls[i].args :
             p = <<i, n>> /\ prog.calls[i].args[n] # 0
BY DEF Passings, IsArg

LEMMA PassingEnds ==
  ASSUME IsProgram(prog), NEW p \in Passings
  PROVE  /\ p[1] \in DOMAIN prog.calls /\ p[2] \in DOMAIN prog.calls[p[1]].args
         /\ p = <<p[1], p[2]>>
         /\ Param(p) \in Arguments /\ Passed(p) \in Arguments
         /\ Param(p)[1] = prog.calls[p[1]].callee /\ Param(p)[2] = p[2]
         /\ Passed(p)[1] = prog.calls[p[1]].caller /\ Passed(p)[2] = prog.calls[p[1]].args[p[2]]
         /\ Passed(p)[1] \in Functions \ prog.builtins /\ Passed(p)[2] \in Nat \ {0}
<1>0. PICK i \in DOMAIN prog.calls : \E n \in DOMAIN prog.calls[i].args :
        p = <<i, n>> /\ prog.calls[i].args[n] # 0
  BY PassingShape
<1>1. PICK n \in DOMAIN prog.calls[i].args : p = <<i, n>> /\ prog.calls[i].args[n] # 0
  BY <1>0
<1>2. /\ prog.calls[i].caller \in Functions \ prog.builtins
      /\ prog.calls[i].callee \in Functions
      /\ prog.calls[i].args \in [1 .. prog.arity[prog.calls[i].callee] -> 0 .. prog.arity[prog.calls[i].caller]]
      /\ prog.arity[prog.calls[i].caller] \in Nat /\ prog.arity[prog.calls[i].callee] \in Nat
  BY DEF IsProgram, Functions
<1>3. n \in 1 .. prog.arity[prog.calls[i].callee]
      /\ prog.calls[i].args[n] \in 1 .. prog.arity[prog.calls[i].caller]
      /\ prog.calls[i].args[n] \in Nat \ {0}
  BY <1>1, <1>2
<1> QED BY <1>1, <1>2, <1>3, ArgumentShape DEF Param, Passed, ArgOf

Onward  == {<<Passed(p), Param(p)>> : p \in Passings}
Back    == {<<Param(p), Passed(p)>> : p \in Passings}

LEMMA LinkShape ==
  ASSUME IsProgram(prog)
  PROVE  /\ Onward \in SUBSET (Arguments \X Arguments)
         /\ Back \in SUBSET (Arguments \X Arguments)
         /\ SamplerUse \in SUBSET Arguments
         /\ \A S : Leads(Onward, S) <=> \A p \in Passings : Passed(p) \in S => Param(p) \in S
         /\ \A S : Leads(Back, S) <=> \A p \in Passings : Param(p) \in S => Passed(p) \in S
<1>1. \A p \in Passings : Param(p) \in Arguments /\ Passed(p) \in Arguments
  BY PassingEnds
<1> HIDE DEF Passings
<1>2. \A S : Leads(Onward, S) <=> \A p \in Passings : Passed(p) \in S => Param(p) \in S
  <2> TAKE S
  <2>1. ASSUME Leads(Onward, S), NEW p \in Passings, Passed(p) \in S PROVE Param(p) \in S
    <3>1. PICK l : l = <<Passed(p), Param(p)>>
      OBVIOUS
    <3>2. l \in Onward /\ l[1] = Passed(p) /\ l[2] = Param(p)
      BY <3>1 DEF Onward
    <3> QED BY <2>1, <3>2 DEF Leads
  <2>2. ASSUME \A p \in Passings : Passed(p) \in S => Param(p) \in S, NEW l \in Onward, l[1] \in S
        PROVE  l[2] \in S
    <3>1. PICK p \in Passings : l = <<Passed(p), Param(p)>>
      BY DEF Onward
    <3> QED BY <2>2, <3>1
  <2> QED BY <2>1, <2>2 DEF Leads
<1>3. \A S : Leads(Back, S) <=> \A p \in Passings : Param(p) \in S => Passed(p) \in S
  <2> TAKE S
  <2>1. ASSUME Leads(Back, S), NEW p \in Passings, Param(p) \in S PROVE Passed(p) \in S
    <3>1. PICK l : l = <<Param(p), Passed(p)>>
      OBVIOUS
    <3>2. l \in Back /\ l[1] = Param(p) /\ l[2] = Passed(p)
      BY <3>1 DEF Back
    <3> QED BY <2>1, <3>2 DEF Leads
  <2>2. ASSUME \A p \in Passings : Param(p) \in S => Passed(p) \in S, NEW l \in Back, l[1] \in S
        PROVE  l[2] \in S
    <3>1. PICK p \in Passings : l = <<Param(p), Passed(p)>>
      BY DEF Back
    <3> QED BY <2>2, <3>1
  <2> QED BY <2>1, <2>2 DEF Leads
<1> QED BY <1>1, <1>2, <1>3 DEF Onward, Back, SamplerUse

\* The arguments that are samplers by their use are those the builtins are given, and
\* those passed on to them.
LEMMA SamplerArgsClosed ==
  ASSUME IsProgram(prog)
  PROVE  /\ SamplerArgs \in SUBSET Arguments
         /\ \A p \in Passings : Param(p) \in prog.builtins \X {2} => Passed(p) \in SamplerArgs
         /\ \A p \in Passings : Param(p) \in SamplerArgs => Passed(p) \in SamplerArgs
         /\ \A C \in SUBSET Arguments :
              /\ \A p \in Passings : Param(p) \in prog.builtins \X {2} => Passed(p) \in C
              /\ \A p \in Passings : Param(p) \in C => Passed(p) \in C
              => SamplerArgs \subseteq C
<1>1. SamplerArgs = Reach(Back, SamplerUse)
  BY DEF SamplerArgs, Back
<1>2. \A S : SamplerUse \subseteq S <=>
               \A p \in Passings : Param(p) \in prog.builtins \X {2} => Passed(p) \in S
  BY DEF SamplerUse
<1>3. /\ Back \in SUBSET (Arguments \X Arguments) /\ SamplerUse \in SUBSET Arguments
      /\ \A S : Leads(Back, S) <=> \A p \in Passings : Param(p) \in S => Passed(p) \in S
  BY LinkShape
<1>4. /\ SamplerArgs \in SUBSET Arguments
      /\ SamplerUse \subseteq SamplerArgs /\ Leads(Back, SamplerArgs)
      /\ \A C \in SUBSET Arguments : SamplerUse \subseteq C /\ Leads(Back, C) => SamplerArgs \subseteq C
  BY <1>1, <1>3, ReachCloses
<1> QED BY <1>2, <1>3, <1>4

LEMMA GivenShape ==
  ASSUME IsProgram(prog), NEW y
  PROVE  /\ Given(y) \in SUBSET Arguments
         /\ \A a \in Arguments : prog.metadata[a[1]][a[2]] = y => a \in Given(y)
         /\ y = "sampler" /\ ~prog.typed => SamplerArgs \subseteq Given(y)
         /\ \A a \in Given(y) : \/ prog.metadata[a[1]][a[2]] = y
                                \/ y = "sampler" /\ ~prog.typed /\ a \in SamplerArgs
<1>1. SamplerArgs \in SUBSET Arguments
  BY SamplerArgsClosed
<1> QED BY <1>1 DEF Given

LEMMA CarriedClosed ==
  ASSUME IsProgram(prog), NEW y
  PROVE  /\ Carried(y) \in SUBSET Arguments
         /\ Given(y) \subseteq Carried(y)
         /\ \A p \in Passings : Passed(p) \in Carried(y) => Param(p) \in Carried(y)
         /\ \A C \in SUBSET Arguments :
              /\ Given(y) \subseteq C
              /\ \A p \in Passings : Passed(p) \in C => Param(p) \in C
              => Carried(y) \subseteq C
<1>1. Carried(y) = Reach(Onward, Given(y))
  BY DEF Carried, Onward
<1>2. /\ Onward \in SUBSET (Arguments \X Arguments) /\ Given(y) \in SUBSET Arguments
      /\ \A S : Leads(Onward, S) <=> \A p \in Passings : Passed(p) \in S => Param(p) \in S
  BY LinkShape, GivenShape
<1>3. /\ Carried(y) \in SUBSET Arguments
      /\ Given(y) \subseteq Carried(y) /\ Leads(Onward, Carried(y))
      /\ \A C \in SUBSET Arguments : Given(y) \subseteq C /\ Leads(Onward, C) => Carried(y) \subseteq C
  BY <1>1, <1>2, ReachCloses
<1> QED BY <1>2, <1>3

LEMMA IntendedShape ==
  \A a, y : <<a, y>> \in Intended <=> y \in Adapted /\ a \in Carried(y)
BY DEF Intended
(***************************************************************************)
(* Every type in the table has a reason: the argument is among those that  *)
(* the type is carried to.  Of an activation of TraceArg, the argument is  *)
(* the sampler of a builtin or is a sampler by its use.                    *)
(***************************************************************************)
Justified == \A a \in DOMAIN argType : a \in Carried(argType[a])
Sampled(t) == \/ t.func \in prog.builtins /\ t.index = 2
              \/ <<t.func, t.index>> \in SamplerArgs
Reasons   == Justified /\ \A k \in 1 .. Len(traces) : Sampled(traces[k])

CarriedFrom(G) == Reach({<<Passed(p), Param(p)>> : p \in Passings}, G)

\* What only depends on the program stays as it is.
LEMMA SameProgram ==
  ASSUME prog' = prog
  PROVE  /\ Functions' = Functions /\ Arguments' = Arguments /\ Passings' = Passings
         /\ SamplerArgs' = SamplerArgs
         /\ \A y : Given(y)' = Given(y) /\ Carried(y)' = Carried(y)
         /\ \A p : Param(p)' = Param(p) /\ Passed(p)' = Passed(p)
         /\ \A t : Sampled(t)' <=> Sampled(t)
         /\ Intended' = Intended /\ (Orderly' <=> Orderly)
<1>1. Functions' = Functions /\ Arguments' = Arguments /\ Passings' = Passings
  BY DEF Functions, Arguments, Passings, IsArg
<1>2. \A p : Param(p)' = Param(p) /\ Passed(p)' = Passed(p)
  BY DEF Param, Passed, ArgOf
<1>3. SamplerArgs' = SamplerArgs
  BY DEF SamplerArgs, SamplerUse, Reach, Arguments, Functions, Passings, IsArg, Param, Passed, ArgOf
<1>4. \A y : Given(y)' = Given(y)
  BY <1>1, <1>3 DEF Given
<1>5. \A y : Carried(y)' = Carried(y)
  <2> TAKE y
  <2>1. \A G : CarriedFrom(G)' = CarriedFrom(G)
    BY DEF CarriedFrom, Reach, Arguments, Functions, Passings, IsArg, Param, Passed, ArgOf
  <2>2. PICK G : G = Given(y)
    OBVIOUS
  <2>3. G = Given(y)'
    BY <1>4, <2>2
  <2>4. Carried(y) = CarriedFrom(G)
    BY <2>2 DEF Carried, CarriedFrom
  <2>5. Carried(y)' = CarriedFrom(G)'
    BY <2>3 DEF Carried, CarriedFrom
  <2> QED BY <2>1, <2>4, <2>5
<1>6. Intended' = Intended
  BY <1>5 DEF Intended
<1>7. Orderly' <=> Orderly
  BY <1>1, <1>3, <1>6 DEF Orderly, IsArg, ArgOf
<1>8. \A t : Sampled(t)' <=> Sampled(t)
  BY <1>3 DEF Sampled
<1> QED BY <1>1, <1>2, <1>3, <1>4, <1>5, <1>6, <1>7, <1>8

\* The reasons stay when no type is given and no argument is traced.
LEMMA ReasonsKept ==
  ASSUME Reasons, UNCHANGED <<prog, argType>>,
         \/ traces' = << >>
         \/ UNCHANGED traces
         \/ traces \in Seq(Frames) /\ traces # << >> /\ traces' = Front(traces)
  PROVE  Reasons'
<1>1. Justified'
  BY SameProgram DEF Reasons, Justified
<1>2. \A k \in 1 .. Len(traces') : k \in 1 .. Len(traces) /\ traces'[k] = traces[k]
  <2>1. CASE traces' = << >>
    BY <2>1
  <2>2. CASE traces \in Seq(Frames) /\ traces # << >> /\ traces' = Front(traces)
    BY <2>2 DEF Front
  <2>3. CASE UNCHANGED traces
    BY <2>3
  <2> QED BY <2>1, <2>2, <2>3
<1> QED BY <1>1, <1>2, SameProgram DEF Reasons

\* A call of TraceArg is one more activation, at the end.
LEMMA TracedLast ==
  ASSUME NEW f, NEW n, NEW S, NEW ts \in Seq(S)
  PROVE  \A k \in 1 .. Len(Traced(f, n, ts)) :
           \/ k \in 1 .. Len(ts) /\ Traced(f, n, ts)[k] = ts[k]
           \/ Traced(f, n, ts)[k].func = f /\ Traced(f, n, ts)[k].index = n
<1>1. CASE f \in processed
  BY <1>1 DEF Traced
<1>2. CASE f \notin processed
  <2>1. PICK t : t = [func |-> f, index |-> n, left |-> Users(f)]
    OBVIOUS
  <2>2. Traced(f, n, ts) = Append(ts, t) /\ t.func = f /\ t.index = n
    BY <1>2, <2>1 DEF Traced
  <2>3. PICK m \in Nat : m = Len(ts)
    OBVIOUS
  <2>4. /\ Len(Append(ts, t)) = m + 1 /\ Append(ts, t)[m + 1] = t
        /\ \A k \in 1 .. m : Append(ts, t)[k] = ts[k]
    BY <2>3
  <2>5. \A k \in 1 .. m + 1 : k \in 1 .. m \/ k = m + 1
    BY <2>3
  <2> QED BY <2>2, <2>3, <2>4, <2>5
<1> QED BY <1>1, <1>2

\* The loop of TraceArg goes past a call.
LEMMA PastShape ==
  ASSUME IInv, traces # << >>, NEW i \in Top.left
  PROVE  /\ Past(i) \in Seq(Frames) /\ Len(Past(i)) = Len(traces) /\ Len(traces) \in Nat \ {0}
         /\ \A k \in 1 .. Len(traces) :
              /\ Past(i)[k].func = traces[k].func /\ Past(i)[k].index = traces[k].index
              /\ Past(i)[k].left = IF k = Len(traces) THEN traces[k].left \ {i} ELSE traces[k].left
<1>1. traces \in Seq(Frames) /\ Len(traces) \in Nat \ {0} /\ Past(i) \in Seq(Frames)
  BY TopShape DEF IInv, Shapes
<1>2. PICK t : t = [traces[Len(traces)] EXCEPT !.left = @ \ {i}]
  OBVIOUS
<1>3. Past(i) = [traces EXCEPT ![Len(traces)] = t]
  BY <1>2 DEF Past
<1>4. Len(Past(i)) = Len(traces) /\ DOMAIN traces = 1 .. Len(traces)
  BY <1>1, <1>3
<1>5. \A k \in 1 .. Len(traces) : Past(i)[k] = IF k = Len(traces) THEN t ELSE traces[k]
  BY <1>1, <1>3
<1>6. traces[Len(traces)] \in Frames
  BY <1>1
<1>7. /\ t.func = traces[Len(traces)].func /\ t.index = traces[Len(traces)].index
      /\ t.left = traces[Len(traces)].left \ {i}
  BY <1>2, <1>6 DEF Frames
<1> QED BY <1>1, <1>4, <1>5, <1>7

\* The passing that the innermost activation of TraceArg comes to.
LEMMA TopPassing ==
  ASSUME IInv, traces # << >>, NEW i \in Top.left, IsArg(i, Top.index)
  PROVE  /\ <<i, Top.index>> \in Passings
         /\ Param(<<i, Top.index>>) = <<Top.func, Top.index>>
         /\ Passed(<<i, Top.index>>) = ArgOf(i, Top.index)
<1>1. /\ i \in DOMAIN prog.calls /\ prog.calls[i].callee = Top.func
      /\ Top.index \in 1 .. prog.arity[Top.func]
  BY TopShape DEF Frames, Users
<1>2. IsProgram(prog)
  BY DEF IInv, Shapes
<1>3. Top.index \in DOMAIN prog.calls[i].args
  BY <1>1, <1>2, ProgramShape
<1>4. <<i, Top.index>> \in Passings
  BY <1>1, <1>2, <1>3, PassingShape DEF IsArg
<1> QED BY <1>1, <1>4 DEF Param, Passed

LEMMA SampledAlike ==
  \A t, u : t.func = u.func /\ t.index = u.index /\ Sampled(t) => Sampled(u)
BY DEF Sampled

LEMMA SampledFrame ==
  \A t, f, n : t.func = f /\ t.index = n =>
                 (Sampled(t) <=> (f \in prog.builtins /\ n = 2) \/ <<f, n>> \in SamplerArgs)
BY DEF Sampled

LEMMA InitReasons == Init => Reasons
BY DEF Init, Reasons, Justified

LEMMA AdaptByMetadataReasons == IInv /\ Reasons /\ AdaptByMetadata => Reasons'
<1> SUFFICES ASSUME IInv, Reasons, AdaptByMetadata PROVE Reasons'
  OBVIOUS
<1>1. /\ IsProgram(prog) /\ prog' = prog /\ traces = << >> /\ traces' = << >>
      /\ argType' = [a \in {b \in Arguments : prog.metadata[b[1]][b[2]] # "none"} |-> prog.metadata[a[1]][a[2]]]
  BY DEF AdaptByMetadata, IInv, Shapes, Phases
<1>2. ASSUME NEW a \in DOMAIN argType' PROVE a \in Carried(argType'[a])
  <2>1. a \in Arguments /\ argType'[a] = prog.metadata[a[1]][a[2]]
    BY <1>1
  <2>2. PICK y : y = argType'[a]
    OBVIOUS
  <2>3. a \in Given(y)
    BY <1>1, <2>1, <2>2, GivenShape
  <2> QED BY <1>1, <2>2, <2>3, CarriedClosed
<1>3. Justified'
  BY <1>1, <1>2, SameProgram DEF Justified
<1> QED BY <1>1, <1>3 DEF Reasons

LEMMA TraceBuiltinReasons == IInv /\ Reasons /\ TraceBuiltin => Reasons'
<1> SUFFICES ASSUME IInv, Reasons, traces = << >>, NEW b \in untraced, traces' = Traced(b, 2, traces),
                    UNCHANGED <<prog, argType>>
             PROVE  Reasons'
  BY DEF TraceBuiltin
<1>1. b \in prog.builtins /\ traces \in Seq(Frames)
  BY DEF IInv, Shapes
<1>2. \A k \in 1 .. Len(traces') : Sampled(traces'[k])
  <2> TAKE k \in 1 .. Len(traces')
  <2>1. traces'[k].func = b /\ traces'[k].index = 2
    <3>1. \/ k \in 1 .. Len(traces)
          \/ traces'[k].func = b /\ traces'[k].index = 2
      <4>1. PICK S : S = Frames
        OBVIOUS
      <4>2. PICK ts \in Seq(S) : ts = traces
        BY <1>1, <4>1
      <4>3. \A j \in 1 .. Len(Traced(b, 2, ts)) :
              \/ j \in 1 .. Len(ts) /\ Traced(b, 2, ts)[j] = ts[j]
              \/ Traced(b, 2, ts)[j].func = b /\ Traced(b, 2, ts)[j].index = 2
        BY TracedLast
      <4> QED BY <4>2, <4>3
    <3>2. 1 .. Len(traces) = {}
      OBVIOUS
    <3> QED BY <3>1, <3>2
  <2> QED BY <1>1, <2>1, SampledFrame
<1>3. Justified'
  BY SameProgram DEF Reasons, Justified
<1> QED BY <1>2, <1>3, SameProgram DEF Reasons

LEMMA PassUserReasons == IInv /\ Reasons /\ PassUser => Reasons'
<1> SUFFICES ASSUME IInv, Reasons, traces # << >>, NEW i \in Top.left, traces' = Past(i),
                    UNCHANGED <<prog, argType>>
             PROVE  Reasons'
  BY DEF PassUser
<1>1. \A k \in 1 .. Len(traces') : Sampled(traces'[k])
  BY PastShape, SampledAlike DEF Reasons
<1>2. Justified'
  BY SameProgram DEF Reasons, Justified
<1> QED BY <1>1, <1>2, SameProgram DEF Reasons

LEMMA TraceUserReasons == IInv /\ Reasons /\ TraceUser => Reasons'
<1> SUFFICES ASSUME IInv, Reasons, traces # << >>, ~prog.typed, NEW i \in Top.left, Unknown(i),
                    argType' = Put(argType, ArgOf(i, Top.index), "sampler"),
                    traces' = Traced(ArgOf(i, Top.index)[1], ArgOf(i, Top.index)[2], Past(i)),
                    prog' = prog
             PROVE  Reasons'
  BY DEF TraceUser
<1>1. PICK a : a = ArgOf(i, Top.index)
  OBVIOUS
<1>2. IsProgram(prog) /\ IsArg(i, Top.index) /\ Len(traces) \in Nat \ {0}
  BY TopShape DEF IInv, Shapes, Unknown
<1>3. a \in SamplerArgs
  <2>1. PICK p : p = <<i, Top.index>>
    OBVIOUS
  <2>2. p \in Passings /\ Param(p) = <<Top.func, Top.index>> /\ Passed(p) = a
    BY <1>1, <1>2, <2>1, TopPassing
  <2>3. Sampled(Top)
    BY <1>2 DEF Reasons, Top
  <2> QED BY <1>2, <2>2, <2>3, SamplerArgsClosed DEF Sampled
<1>4. a \in Carried("sampler")
  BY <1>2, <1>3, GivenShape, CarriedClosed
<1>5. a = <<a[1], a[2]>>
  BY <1>1 DEF ArgOf
<1>6. \A k \in 1 .. Len(traces') : Sampled(traces'[k])
  <2> TAKE k \in 1 .. Len(traces')
  <2>1. \/ k \in 1 .. Len(Past(i)) /\ traces'[k] = Past(i)[k]
        \/ traces'[k].func = a[1] /\ traces'[k].index = a[2]
    BY <1>1, PastShape, TracedLast
  <2>2. CASE k \in 1 .. Len(Past(i)) /\ traces'[k] = Past(i)[k]
    BY <2>2, PastShape, SampledAlike DEF Reasons
  <2>3. CASE traces'[k].func = a[1] /\ traces'[k].index = a[2]
    BY <1>3, <1>5, <2>3, SampledFrame
  <2> QED BY <2>1, <2>2, <2>3
<1>7. \A b \in DOMAIN argType' : b \in Carried(argType'[b])
  BY <1>1, <1>4 DEF Put, Reasons, Justified
<1>8. Justified'
  BY <1>7, SameProgram DEF Justified
<1> QED BY <1>6, <1>8, SameProgram DEF Reasons

\* getArgIndex finds a place of the argument.
LEMMA ArgIndexPlace ==
  ASSUME IsProgram(prog), NEW i \in DOMAIN prog.calls, NEW n \in Range(prog.calls[i].args)
  PROVE  ArgIndex(i, n) \in DOMAIN prog.calls[i].args /\ prog.calls[i].args[ArgIndex(i, n)] = n
<1> DEFINE args == prog.calls[i].args
           X    == {k \in DOMAIN args : args[k] = n}
<1>1. PICK m \in Nat : DOMAIN args = 1 .. m
  BY DEF IsProgram
<1>2. X \in SUBSET Nat /\ X # {}
  BY <1>1 DEF Range
<1>3. PICK k \in X : \A j \in X : k <= j
  <2> HIDE DEF X
  <2> QED BY <1>2, LeastNumber
<1>4. \A j \in 1 .. k - 1 : args[j] # n
  <2> SUFFICES ASSUME NEW j \in 1 .. k - 1, args[j] = n PROVE FALSE
    OBVIOUS
  <2>1. k \in 1 .. m
    BY <1>1
  <2>2. j \in 1 .. m /\ ~(k <= j)
    BY <2>1
  <2> QED BY <1>1, <1>3, <2>2
<1>5. /\ k \in DOMAIN args /\ args[k] = n
      /\ \A j \in 1 .. k - 1 : args[j] # n
  BY <1>4
<1> QED BY <1>5 DEF ArgIndex

\* What adaptFunction hands on goes from an argument to the parameter it is passed to.
LEMMA HandedPassing ==
  ASSUME IsProgram(prog), NEW f \in Functions, NEW n \in Nat \ {0}, NEW i \in HandedTo(f, n)
  PROVE  /\ <<i, ArgIndex(i, n)>> \in Passings
         /\ Param(<<i, ArgIndex(i, n)>>) = <<prog.calls[i].callee, ArgIndex(i, n)>>
         /\ Passed(<<i, ArgIndex(i, n)>>) = <<f, n>>
         /\ prog.calls[i].callee \notin DOMAIN funcType
<1>1. i \in DOMAIN prog.calls /\ prog.calls[i].caller = f /\ n \in Range(prog.calls[i].args)
      /\ prog.calls[i].callee \notin DOMAIN funcType
  BY DEF HandedTo, Open
<1>2. PICK k : k = ArgIndex(i, n)
  OBVIOUS
<1>3. k \in DOMAIN prog.calls[i].args /\ prog.calls[i].args[k] = n
  BY <1>1, <1>2, ArgIndexPlace
<1>4. <<i, k>> \in Passings
  BY <1>1, <1>3, PassingShape
<1> QED BY <1>1, <1>2, <1>3, <1>4 DEF Param, Passed, ArgOf

\* What AdaptArgument does: the argument a that it comes to, the passings it hands the
\* type of a on along, and the parameters that get it.
Onto(a)     == IF a \in DOMAIN argType THEN HandedTo(a[1], a[2]) ELSE {}
HandsOn(a, params) ==
  /\ a = <<current.func, current.next>> /\ a[1] = current.func /\ a[2] = current.next
  /\ a[1] \in Functions /\ a[2] \in Nat \ {0} /\ a[2] \in 1 .. prog.arity[a[1]]
  /\ current # Idle /\ current'.func = a[1] /\ current'.next = a[2] + 1
  /\ \A b : b \in params <=> \E i \in Onto(a) : b = <<prog.calls[i].callee, ArgIndex(i, a[2])>>
  /\ DOMAIN argType' = DOMAIN argType \cup params
  /\ \A b \in DOMAIN argType' : argType'[b] = IF b \in params THEN argType[a] ELSE argType[b]
  /\ \A f : f \in work' <=> f \in work \/ \E b \in params : f = b[1]

LEMMA AdaptArgumentSteps ==
  ASSUME IInv, AdaptArgument
  PROVE  \E a, params : HandsOn(a, params)
<1> DEFINE a      == <<current.func, current.next>>
           params == {<<prog.calls[i].callee, ArgIndex(i, a[2])>> : i \in Onto(a)}
<1>1. /\ current.func # 0 /\ current.next <= prog.arity[current.func]
      /\ current' = [current EXCEPT !.next = @ + 1, !.types = Append(@, TypeOf(a))]
      /\ argType' = [b \in DOMAIN argType \cup params |-> IF b \in params THEN argType[a] ELSE argType[b]]
      /\ work' = work \cup {b[1] : b \in params}
  BY DEF AdaptArgument, Onto
<1>2. current # Idle /\ IsProgram(prog)
  BY <1>1 DEF IInv, Shapes, Idle
<1>3. /\ current.func \in Functions /\ current.next \in 1 .. prog.arity[current.func] + 1
      /\ current = [func |-> current.func, next |-> current.next, types |-> current.types]
      /\ prog.arity[current.func] \in Nat
  BY <1>2, ProgramShape DEF IInv, Gathered
<1>4. current.next \in 1 .. prog.arity[current.func] /\ current.next \in Nat \ {0}
  BY <1>1, <1>3
<1>5. current'.func = current.func /\ current'.next = current.next + 1
  BY <1>1, <1>3
<1>6. \A b : b \in params <=> \E i \in Onto(a) : b = <<prog.calls[i].callee, ArgIndex(i, a[2])>>
  OBVIOUS
<1> HIDE DEF params
<1>7. /\ DOMAIN argType' = DOMAIN argType \cup params
      /\ \A b \in DOMAIN argType' : argType'[b] = IF b \in params THEN argType[a] ELSE argType[b]
      /\ \A f : f \in work' <=> f \in work \/ \E b \in params : f = b[1]
  BY <1>1
<1>8. HandsOn(a, params)
  BY <1>2, <1>3, <1>4, <1>5, <1>6, <1>7 DEF HandsOn
<1> QED BY <1>8

\* A parameter that gets a type is one the argument is passed to.
LEMMA HandedParam ==
  ASSUME IInv, NEW a, NEW params, HandsOn(a, params), NEW b \in params
  PROVE  /\ a \in DOMAIN argType
         /\ \E p \in Passings : Passed(p) = a /\ Param(p) = b
         /\ b[1] \notin DOMAIN funcType
<1>1. PICK i \in Onto(a) : b = <<prog.calls[i].callee, ArgIndex(i, a[2])>>
  BY DEF HandsOn
<1>2. a \in DOMAIN argType /\ i \in HandedTo(a[1], a[2])
  BY <1>1 DEF Onto
<1>3. IsProgram(prog) /\ a[1] \in Functions /\ a[2] \in Nat \ {0} /\ a = <<a[1], a[2]>>
  BY DEF IInv, Shapes, HandsOn
<1>4. PICK p : p = <<i, ArgIndex(i, a[2])>>
  OBVIOUS
<1>5. p \in Passings /\ Param(p) = b /\ Passed(p) = a /\ b[1] \notin DOMAIN funcType
  BY <1>1, <1>2, <1>3, <1>4, HandedPassing
<1> QED BY <1>2, <1>5

LEMMA AdaptArgumentReasons == IInv /\ Reasons /\ AdaptArgument => Reasons'
<1> SUFFICES ASSUME IInv, Reasons, AdaptArgument PROVE Reasons'
  OBVIOUS
<1>1. IsProgram(prog) /\ prog' = prog /\ traces' = traces
  BY DEF AdaptArgument, IInv, Shapes
<1>2. PICK a, params : HandsOn(a, params)
  BY AdaptArgumentSteps
<1>3. ASSUME NEW b \in DOMAIN argType' PROVE b \in Carried(argType'[b])
  <2>1. CASE b \in params
    <3>1. a \in DOMAIN argType /\ \E p \in Passings : Passed(p) = a /\ Param(p) = b
      BY <1>2, <2>1, HandedParam
    <3>2. PICK y : y = argType[a]
      OBVIOUS
    <3>3. a \in Carried(y) /\ argType'[b] = y
      BY <1>2, <1>3, <2>1, <3>1, <3>2 DEF Reasons, Justified, HandsOn
    <3> QED BY <1>1, <3>1, <3>3, CarriedClosed
  <2>2. CASE b \notin params
    BY <1>2, <1>3, <2>2 DEF HandsOn, Reasons, Justified
  <2> QED BY <2>1, <2>2
<1>4. Justified'
  BY <1>1, <1>3, SameProgram DEF Justified
<1> QED BY <1>1, <1>4, SameProgram DEF Reasons

LEMMA NextReasons == IInv /\ Reasons /\ [Next]_vars => Reasons'
<1> SUFFICES ASSUME IInv, Reasons, [Next]_vars PROVE Reasons'
  OBVIOUS
<1>1. traces \in Seq(Frames)
  BY DEF IInv, Shapes
<1>2. CASE UNCHANGED vars
  BY <1>2, ReasonsKept DEF vars
<1>3. CASE StopTrace \/ ReturnTrace
  BY <1>1, <1>3, ReasonsKept DEF StopTrace, ReturnTrace
<1>4. CASE EndSamplers \/ TakeWork \/ AdaptedBefore \/ FinishFunction \/ Finish
  BY <1>4, ReasonsKept DEF EndSamplers, TakeWork, AdaptedBefore, FinishFunction, Finish
<1>5. CASE AdaptByMetadata \/ TraceBuiltin \/ PassUser \/ TraceUser \/ AdaptArgument
  BY <1>5, AdaptByMetadataReasons, TraceBuiltinReasons, PassUserReasons, TraceUserReasons,
     AdaptArgumentReasons
<1> QED BY <1>2, <1>3, <1>4, <1>5 DEF Next

\* An argument that the pass gives a type has a reason for it, in every state.
THEOREM ReasonsInvariance == Spec => []Reasons
BY Invariance, InitReasons, NextReasons, PTL DEF Spec

(***************************************************************************)
(* For every program and every order of the work list: an argument has a   *)
(* type only if the metadata or its use by a builtin gives it that type,   *)
(* or a chain of calls carries it there.                                   *)
(***************************************************************************)
THEOREM OnlyIntendedHolds == Spec => []OnlyIntended
<1>1. IInv /\ Reasons => OnlyIntended
  <2> SUFFICES ASSUME IInv, Reasons, NEW a \in DOMAIN argType PROVE <<a, argType[a]>> \in Intended
    BY DEF OnlyIntended
  <2>1. argType[a] \in Adapted
    BY DEF IInv, Shapes
  <2> QED BY <2>1, IntendedShape DEF Reasons, Justified
<1> QED BY <1>1, Invariance, ReasonsInvariance, PTL
(***************************************************************************)
(* What an orderly program is, argument by argument.                       *)
(***************************************************************************)
Needed(a) == \E y \in Adapted : a \in Carried(y)

Descending   == \A i \in DOMAIN prog.calls : prog.calls[i].caller < prog.calls[i].callee
KernelsOnly  == \A i \in DOMAIN prog.calls : \A n \in DOMAIN prog.calls[i].args :
                  prog.metadata[prog.calls[i].callee][n] = "none"
PassedOnce   == \A i \in DOMAIN prog.calls : \A m, n \in DOMAIN prog.calls[i].args :
                  m # n /\ IsArg(i, m) => prog.calls[i].args[m] # prog.calls[i].args[n]
SamplerAlone == \A i \in DOMAIN prog.calls : \A a \in SamplerArgs : \A b, c :
                  /\ a[1] = prog.calls[i].callee /\ b[1] = prog.calls[i].callee /\ c[1] = prog.calls[i].callee
                  /\ Needed(b) /\ Needed(c)
                  => b = c
AlwaysPassed == \A i \in DOMAIN prog.calls : \A a :
                  a[1] = prog.calls[i].callee /\ Needed(a) =>
                    \/ Needed(ArgOf(i, a[2]))
                    \/ \E b \in SamplerArgs : b[1] = prog.calls[i].callee
OneType      == \A y, z \in Adapted : \A a \in Carried(y) \cap Carried(z) : y = z
OneSampler   == \A a, b \in SamplerArgs : a[1] = b[1] => a = b
Ordered == Descending /\ KernelsOnly /\ PassedOnce /\ SamplerAlone /\ AlwaysPassed /\ OneType /\ OneSampler

LEMMA IntendedFinite ==
  ASSUME IsProgram(prog)
  PROVE  IsFiniteSet(Intended)
<1>1. IsFiniteSet(Adapted)
  <2>1. IsFiniteSet({"sampler"}) /\ IsFiniteSet({"read"}) /\ IsFiniteSet({"write"})
    BY FS_Singleton
  <2>2. IsFiniteSet({"sampler"} \cup {"read"})
    BY <2>1, FS_Union
  <2>3. IsFiniteSet(({"sampler"} \cup {"read"}) \cup {"write"})
    BY <2>1, <2>2, FS_Union
  <2>4. Adapted = ({"sampler"} \cup {"read"}) \cup {"write"}
    BY DEF Adapted
  <2> QED BY <2>3, <2>4
<1>2. IsFiniteSet(Arguments \X Adapted)
  BY <1>1, ArgumentsFinite, FS_Product
<1>3. Intended \in SUBSET (Arguments \X Adapted)
  <2>1. \A y \in Adapted : Carried(y) \in SUBSET Arguments
    BY CarriedClosed
  <2> QED BY <2>1 DEF Intended
<1> QED BY <1>2, <1>3, FS_Subset

LEMMA AtMostOne ==
  ASSUME NEW S, IsFiniteSet(S), Cardinality(S) <= 1, NEW x \in S, NEW y \in S
  PROVE  x = y
<1>1. Cardinality(S) \in Nat /\ Cardinality(S) # 0
  BY FS_CardinalityType, FS_EmptySet
<1>2. Cardinality(S) = 1
  BY <1>1
<1>3. PICK z : S = {z}
  BY <1>2, FS_Singleton
<1> QED BY <1>3

LEMMA OrderlyMeans ==
  ASSUME IsProgram(prog), Orderly
  PROVE  Ordered
<1> DEFINE needed(f)   == {s \in Intended : s[1][1] = f}
           samplers(f) == {a \in SamplerArgs : a[1] = f}
<1>1. \A i \in DOMAIN prog.calls :
        LET c == prog.calls[i] IN
          /\ c.caller < c.callee
          /\ \A n \in DOMAIN c.args : prog.metadata[c.callee][n] = "none"
          /\ \A m, n \in DOMAIN c.args : m # n /\ IsArg(i, m) => c.args[m] # c.args[n]
          /\ samplers(c.callee) # {} => Cardinality(needed(c.callee)) = 1
          /\ \A s \in needed(c.callee) : samplers(c.callee) = {} => <<ArgOf(i, s[1][2]), s[2]>> \in Intended
  BY DEF Orderly
<1>2. /\ \A s, t \in Intended : s[1] = t[1] => s = t
      /\ \A f \in Functions : Cardinality(samplers(f)) <= 1
  BY DEF Orderly
<1>3. Descending /\ KernelsOnly /\ PassedOnce
  BY <1>1 DEF Descending, KernelsOnly, PassedOnce
<1>4. \A a : Needed(a) => \E y \in Adapted : <<a, y>> \in needed(a[1])
  BY IntendedShape DEF Needed
<1>5. \A f, a, y : <<a, y>> \in needed(f) => y \in Adapted /\ a \in Carried(y) /\ a[1] = f
  BY IntendedShape
<1>6. \A f : IsFiniteSet(needed(f)) /\ IsFiniteSet(samplers(f))
  <2> TAKE f
  <2>1. needed(f) \in SUBSET Intended /\ samplers(f) \in SUBSET Arguments
    BY SamplerArgsClosed
  <2> QED BY <2>1, IntendedFinite, ArgumentsFinite, FS_Subset
<1>7. ASSUME NEW i \in DOMAIN prog.calls, NEW a \in SamplerArgs, NEW b, NEW c,
             a[1] = prog.calls[i].callee, b[1] = prog.calls[i].callee, c[1] = prog.calls[i].callee,
             Needed(b), Needed(c)
      PROVE  b = c
  <2>1. PICK f : f = prog.calls[i].callee
    OBVIOUS
  <2>2. a \in samplers(f)
    BY <1>7, <2>1
  <2>3. Cardinality(needed(f)) = 1
    BY <1>1, <2>1, <2>2
  <2>4. PICK y \in Adapted : <<b, y>> \in needed(f)
    BY <1>4, <1>7, <2>1
  <2>5. PICK z \in Adapted : <<c, z>> \in needed(f)
    BY <1>4, <1>7, <2>1
  <2>6. PICK N : N = needed(f)
    OBVIOUS
  <2>7. IsFiniteSet(N) /\ Cardinality(N) = 1 /\ <<b, y>> \in N /\ <<c, z>> \in N
    BY <1>6, <2>3, <2>4, <2>5, <2>6
  <2>8. Cardinality(N) <= 1
    BY <2>7
  <2>9. <<b, y>> = <<c, z>>
    BY <2>7, <2>8, AtMostOne
  <2> QED BY <2>9
<1>8. ASSUME NEW i \in DOMAIN prog.calls, NEW a, a[1] = prog.calls[i].callee, Needed(a),
             ~ \E b \in SamplerArgs : b[1] = prog.calls[i].callee
      PROVE  Needed(ArgOf(i, a[2]))
  <2>1. PICK f : f = prog.calls[i].callee
    OBVIOUS
  <2>2. PICK y \in Adapted : <<a, y>> \in needed(f)
    BY <1>4, <1>8, <2>1
  <2>3. PICK s : s = <<a, y>>
    OBVIOUS
  <2>4. samplers(f) = {}
    BY <1>8, <2>1
  <2>5. <<ArgOf(i, s[1][2]), s[2]>> \in Intended
    BY <1>1, <2>1, <2>2, <2>3, <2>4
  <2>6. s[1] = a /\ s[2] = y
    BY <2>3
  <2>7. PICK c : c = ArgOf(i, a[2])
    OBVIOUS
  <2>8. <<c, y>> \in Intended
    BY <2>5, <2>6, <2>7
  <2> QED BY <2>7, <2>8, IntendedShape DEF Needed
<1>9. ASSUME NEW y \in Adapted, NEW z \in Adapted, NEW a \in Carried(y) \cap Carried(z)
      PROVE  y = z
  <2>1. PICK s, t : s = <<a, y>> /\ t = <<a, z>>
    OBVIOUS
  <2>2. s \in Intended /\ t \in Intended /\ s[1] = t[1] /\ s[2] = y /\ t[2] = z
    BY <2>1, IntendedShape
  <2>3. s = t
    BY <1>2, <2>2
  <2> QED BY <2>2, <2>3
<1>10. ASSUME NEW a \in SamplerArgs, NEW b \in SamplerArgs, a[1] = b[1] PROVE a = b
  <2>1. a[1] \in Functions
    BY SamplerArgsClosed, ArgumentShape
  <2>2. PICK S : S = samplers(a[1])
    OBVIOUS
  <2>3. IsFiniteSet(S) /\ Cardinality(S) <= 1 /\ a \in S /\ b \in S
    BY <1>2, <1>6, <1>10, <2>1, <2>2
  <2> QED BY <2>3, AtMostOne
<1>11. SamplerAlone
  BY <1>7 DEF SamplerAlone
<1>12. AlwaysPassed
  BY <1>8 DEF AlwaysPassed
<1>13. OneType /\ OneSampler
  BY <1>9, <1>10 DEF OneType, OneSampler
<1> QED BY <1>3, <1>11, <1>12, <1>13 DEF Ordered

(***************************************************************************)
(* The invariant for orderly programs.  While samplers are traced, an      *)
(* argument that a known sampler is passed from is known or an activation  *)
(* of TraceArg will come to it.  While functions are worked on:            *)
(*                                                                         *)
(*   WorkNeeds   a function on the list has all the types it needs, or     *)
(*               the function that is worked on will still hand them on    *)
(*               (functions come on the list at the first type they get);  *)
(*   DoneNeeds   a function that is worked on, or was, has them all, so    *)
(*               that it does not matter that calls spare it later;        *)
(*   HandedOn    what a function was past its types went to all its calls; *)
(*   KnownWorked no function that has a type is forgotten.                 *)
(***************************************************************************)
Known      == DOMAIN argType
OfMetadata == {a \in Arguments : prog.metadata[a[1]][a[2]] # "none"}
Pending(p) == \E k \in 1 .. Len(traces) :
                traces[k].func = Param(p)[1] /\ traces[k].index = p[2] /\ p[1] \in traces[k].left
Live(a)    == a \in Known \/ (a[1] \in prog.builtins \cap processed /\ a[2] = 2)

Start == phase = "metadata" => Known = {} /\ processed = {} /\ untraced = prog.builtins
MetadataKnown == phase # "metadata" => OfMetadata \subseteq Known

BuiltinsTraced == prog.builtins \subseteq untraced \cup processed
SamplersPassed == ~prog.typed =>
                    \A p \in Passings : Live(Param(p)) => Passed(p) \in Known \/ Pending(p)
ProcessedFor   == \A f \in processed :
                    f \in prog.builtins \/ \E a \in Known : a \in SamplerArgs /\ a[1] = f
KnownEarly     == \A a \in Known : a \in OfMetadata \/ (~prog.typed /\ a \in SamplerArgs)
WorkEarly      == \A f : f \in work <=> \E a \in Known : a[1] = f
Tracing == phase = "samplers" =>
             BuiltinsTraced /\ SamplersPassed /\ ProcessedFor /\ KnownEarly /\ WorkEarly

AtWork == phase \in {"working", "done"}
GivenKnown == AtWork => \A y \in Adapted : Given(y) \subseteq Known

InHand(f)   == current # Idle /\ f = current.func
Coming(a)   == \E p \in Passings : /\ Param(p) = a /\ Passed(p) \in Known
                                   /\ InHand(Passed(p)[1]) /\ current.next <= Passed(p)[2]
WentPast(a) == a[1] \in DOMAIN funcType \/ (InHand(a[1]) /\ a[2] < current.next)

WorkNeeds   == \A a : Needed(a) /\ a[1] \in work => a \in Known \/ Coming(a)
DoneNeeds   == \A a : Needed(a) /\ (a[1] \in DOMAIN funcType \/ InHand(a[1])) => a \in Known
HandedOn    == \A p \in Passings : Passed(p) \in Known /\ WentPast(Passed(p)) => Param(p) \in Known
KnownWorked == \A a \in Known : a[1] \in work \cup DOMAIN funcType \/ InHand(a[1])
Working == /\ AtWork => WorkNeeds /\ DoneNeeds /\ HandedOn /\ KnownWorked
           /\ phase = "done" => work = {} /\ current = Idle

AInv == Start /\ MetadataKnown /\ Tracing /\ GivenKnown /\ Working

LEMMA SameNeeds ==
  ASSUME prog' = prog
  PROVE  /\ \A a : Needed(a)' <=> Needed(a)
         /\ OfMetadata' = OfMetadata
<1>1. \A y : Carried(y)' = Carried(y)
  BY SameProgram
<1> QED BY <1>1, SameProgram DEF Needed, OfMetadata

\* Known arguments are arguments, and types of an orderly program are needed.
LEMMA KnownShape ==
  ASSUME IInv, Reasons
  PROVE  /\ Known \in SUBSET Arguments
         /\ \A a \in Known : argType[a] \in Adapted /\ a \in Carried(argType[a]) /\ Needed(a)
<1>1. IsProgram(prog) /\ \A a \in Known : argType[a] \in Adapted /\ a \in Carried(argType[a])
  BY DEF IInv, Shapes, Reasons, Justified, Known
<1>2. \A y : Carried(y) \in SUBSET Arguments
  BY <1>1, CarriedClosed
<1>3. \A a \in Known : a \in Arguments
  BY <1>1, <1>2
<1> QED BY <1>1, <1>3 DEF Needed

LEMMA NeededPassed ==
  ASSUME IsProgram(prog), NEW p \in Passings, Needed(Passed(p))
  PROVE  Needed(Param(p))
BY CarriedClosed DEF Needed

\* A step of the search for samplers.
LEMMA OnlyTracing ==
  ASSUME AInv, phase = "samplers", phase' = "samplers", prog' = prog, Known \subseteq Known', 
         BuiltinsTraced', SamplersPassed', ProcessedFor', KnownEarly', WorkEarly'
  PROVE  AInv'
BY SameNeeds DEF AInv, Start, MetadataKnown, Tracing, GivenKnown, Working, AtWork

\* A step of the work on functions.
LEMMA OnlyWorking ==
  ASSUME AInv, AtWork, phase' \in {"working", "done", "failed"}, prog' = prog, Known \subseteq Known',
         Working'
  PROVE  AInv'
<1>1. \A y : Given(y)' = Given(y)
  BY SameProgram
<1>2. MetadataKnown' /\ GivenKnown'
  BY <1>1, SameNeeds DEF AInv, AtWork, MetadataKnown, GivenKnown
<1> QED BY <1>2 DEF AInv, AtWork, Start, Tracing

LEMMA InitAInv == Init => AInv
BY DEF Init, AInv, Start, MetadataKnown, Tracing, GivenKnown, Working, AtWork, Known

LEMMA AdaptByMetadataAInv ==
  ASSUME IInv, Ordered, AInv, AdaptByMetadata
  PROVE  AInv'
<1>1. /\ phase = "metadata" /\ phase' = "samplers" /\ IsProgram(prog)
      /\ Known' = OfMetadata
      /\ work' = {a[1] : a \in OfMetadata}
      /\ UNCHANGED <<prog, processed, untraced>>
  BY DEF AdaptByMetadata, IInv, Shapes, Known, OfMetadata
<1>2. processed' = {} /\ untraced' = prog'.builtins
  BY <1>1 DEF AInv, Start
<1>3. OfMetadata' = OfMetadata
  BY <1>1, SameNeeds
<1>4. BuiltinsTraced' /\ ProcessedFor' /\ KnownEarly'
  BY <1>1, <1>2, <1>3 DEF BuiltinsTraced, ProcessedFor, KnownEarly
<1>5. WorkEarly'
  BY <1>1 DEF WorkEarly
<1>6. ASSUME NEW p \in Passings PROVE Param(p) \notin OfMetadata
  <2>1. /\ p[1] \in DOMAIN prog.calls /\ p[2] \in DOMAIN prog.calls[p[1]].args
        /\ Param(p)[1] = prog.calls[p[1]].callee /\ Param(p)[2] = p[2]
    BY <1>1, PassingEnds
  <2> QED BY <2>1 DEF Ordered, KernelsOnly, OfMetadata
<1>7. SamplersPassed'
  BY <1>1, <1>2, <1>6, SameProgram DEF SamplersPassed, Live
<1>8. MetadataKnown'
  BY <1>1, <1>3 DEF MetadataKnown
<1> QED BY <1>1, <1>4, <1>5, <1>7, <1>8 DEF AInv, Start, Tracing, GivenKnown, Working, AtWork
(***************************************************************************)
(* The search for samplers.                                                *)
(***************************************************************************)
\* An argument that TraceArg adapts is a sampler by its use, of a function that was
\* not traced.
LEMMA TracedSampler ==
  ASSUME IInv, Reasons, traces # << >>, NEW i \in Top.left, Unknown(i)
  PROVE  /\ ArgOf(i, Top.index) \in SamplerArgs
         /\ ArgOf(i, Top.index)[1] \notin prog.builtins
<1>1. PICK p : p = <<i, Top.index>>
  OBVIOUS
<1>2. IsProgram(prog) /\ IsArg(i, Top.index) /\ Len(traces) \in Nat \ {0}
  BY TopShape DEF IInv, Shapes, Unknown
<1>3. p \in Passings /\ Param(p) = <<Top.func, Top.index>> /\ Passed(p) = ArgOf(i, Top.index)
  BY <1>1, <1>2, TopPassing
<1>4. Sampled(Top)
  BY <1>2 DEF Reasons, Top
<1>5. Passed(p) \in SamplerArgs
  BY <1>2, <1>3, <1>4, SamplerArgsClosed DEF Sampled
<1>6. Passed(p)[1] \notin prog.builtins
  BY <1>2, <1>3, PassingEnds
<1> QED BY <1>3, <1>5, <1>6

\* A pending passing that the loop of TraceArg goes past was that of the call.
LEMMA PendingPast ==
  ASSUME IInv, traces # << >>, NEW i \in Top.left, NEW p \in Passings, Pending(p)
  PROVE  \/ \E k \in 1 .. Len(Past(i)) : /\ Past(i)[k].func = Param(p)[1] /\ Past(i)[k].index = p[2]
                                         /\ p[1] \in Past(i)[k].left
         \/ p = <<i, Top.index>>
<1>1. PICK k \in 1 .. Len(traces) :
        traces[k].func = Param(p)[1] /\ traces[k].index = p[2] /\ p[1] \in traces[k].left
  BY DEF Pending
<1>2. k \in 1 .. Len(Past(i)) /\ Past(i)[k].func = Param(p)[1] /\ Past(i)[k].index = p[2]
  BY <1>1, PastShape
<1>3. p = <<p[1], p[2]>>
  <2>1. IsProgram(prog)
    BY DEF IInv, Shapes
  <2> QED BY <2>1, PassingEnds
<1>4. CASE k = Len(traces) /\ p[1] = i
  BY <1>1, <1>3, <1>4 DEF Top
<1>5. CASE ~(k = Len(traces) /\ p[1] = i)
  <2>1. p[1] \in Past(i)[k].left
    <3>1. CASE k = Len(traces)
      BY <1>1, <1>5, <3>1, PastShape
    <3>2. CASE k # Len(traces)
      BY <1>1, <3>2, PastShape
    <3> QED BY <3>1, <3>2
  <2> QED BY <1>2, <2>1
<1> QED BY <1>4, <1>5

LEMMA TraceBuiltinAInv ==
  ASSUME IInv, AInv, phase = "samplers", traces = << >>, NEW b \in untraced,
         untraced' = untraced \ {b}, traces' = Traced(b, 2, traces), processed' = processed \cup {b},
         UNCHANGED <<prog, argType, funcType, work, current, phase>>
  PROVE  AInv'
<1>1. b \in prog.builtins /\ traces \in Seq(Frames) /\ IsProgram(prog)
  BY DEF IInv, Shapes
<1>2. Known' = Known
  BY DEF Known
<1>3. BuiltinsTraced /\ SamplersPassed /\ ProcessedFor /\ KnownEarly /\ WorkEarly
  BY DEF AInv, Tracing
<1>4. BuiltinsTraced' /\ ProcessedFor' /\ KnownEarly' /\ WorkEarly'
  <2>1. BuiltinsTraced'
    BY <1>3 DEF BuiltinsTraced
  <2>2. ProcessedFor'
    BY <1>1, <1>2, <1>3, SameProgram DEF ProcessedFor
  <2>3. KnownEarly' /\ WorkEarly'
    BY <1>2, <1>3, SameNeeds, SameProgram DEF KnownEarly, WorkEarly
  <2> QED BY <2>1, <2>2, <2>3
<1>5. ASSUME ~prog.typed, NEW p \in Passings, Live(Param(p))'
      PROVE  Passed(p) \in Known \/ Pending(p)'
  <2>1. \A q \in Passings : ~Pending(q)
    <3>1. 1 .. Len(traces) = {}
      OBVIOUS
    <3> QED BY <3>1 DEF Pending
  <2>2. CASE Live(Param(p))
    BY <1>3, <1>5, <2>1, <2>2 DEF SamplersPassed
  <2>3. CASE ~Live(Param(p))
    <3>1. Param(p)[1] = b /\ Param(p)[2] = 2 /\ b \notin processed
      <4>1. Param(p) \in Known' \/ (Param(p)[1] \in prog.builtins \cap processed' /\ Param(p)[2] = 2)
        BY <1>5, SameProgram DEF Live
      <4> QED BY <1>1, <1>2, <2>3, <4>1 DEF Live
    <3>2. p[1] \in Users(b) /\ p[2] = 2
      BY <1>1, <3>1, PassingEnds DEF Users
    <3>3. PICK t : t = [func |-> b, index |-> 2, left |-> Users(b)]
      OBVIOUS
    <3>4. traces' = <<t>>
      BY <3>1, <3>3 DEF Traced
    <3>5. 1 \in 1 .. Len(traces') /\ traces'[1] = t
      BY <3>4
    <3>6. t.func = Param(p)[1] /\ t.index = p[2] /\ p[1] \in t.left
      BY <3>1, <3>2, <3>3
    <3>7. Param(p)' = Param(p)
      BY SameProgram
    <3> QED BY <3>5, <3>6, <3>7 DEF Pending
  <2> QED BY <2>2, <2>3
<1>6. SamplersPassed'
  <2>1. \A p : Param(p)' = Param(p) /\ Passed(p)' = Passed(p)
    BY SameProgram
  <2>2. Passings' = Passings
    BY SameProgram
  <2>3. \A p \in Passings : ~prog.typed /\ Live(Param(p))' => Passed(p) \in Known \/ Pending(p)'
    BY <1>5
  <2> QED BY <1>2, <2>1, <2>2, <2>3 DEF SamplersPassed
<1> QED BY <1>2, <1>4, <1>6, OnlyTracing
\* A step that only goes back or on in the activations of TraceArg.
LEMMA OnlyTraces ==
  ASSUME IInv, AInv, phase = "samplers",
         UNCHANGED <<prog, argType, funcType, work, processed, untraced, current, phase>>,
         ~prog.typed => \A p \in Passings : Pending(p) => Passed(p) \in Known \/ Pending(p)'
  PROVE  AInv'
<1>1. Known' = Known
  BY DEF Known
<1>2. BuiltinsTraced /\ SamplersPassed /\ ProcessedFor /\ KnownEarly /\ WorkEarly
  BY DEF AInv, Tracing
<1>3. BuiltinsTraced' /\ ProcessedFor' /\ KnownEarly' /\ WorkEarly'
  BY <1>1, <1>2, SameNeeds, SameProgram DEF BuiltinsTraced, ProcessedFor, KnownEarly, WorkEarly
<1>4. \A p : Param(p)' = Param(p) /\ Passed(p)' = Passed(p) /\ (Live(Param(p))' <=> Live(Param(p)))
  <2>1. \A p : Param(p)' = Param(p) /\ Passed(p)' = Passed(p)
    BY SameProgram
  <2> QED BY <1>1, <2>1 DEF Live
<1>5. Passings' = Passings
  BY SameProgram
<1>6. SamplersPassed'
  BY <1>1, <1>2, <1>4, <1>5 DEF SamplersPassed
<1> QED BY <1>1, <1>3, <1>6, OnlyTracing

LEMMA PassUserAInv ==
  ASSUME IInv, AInv, traces # << >>, NEW i \in Top.left, ~Unknown(i), traces' = Past(i),
         UNCHANGED <<prog, argType, funcType, work, processed, untraced, current, phase>>
  PROVE  AInv'
<1>1. ASSUME NEW p \in Passings, Pending(p) PROVE Passed(p) \in Known \/ Pending(p)'
  <2>1. CASE \E k \in 1 .. Len(Past(i)) : /\ Past(i)[k].func = Param(p)[1] /\ Past(i)[k].index = p[2]
                                          /\ p[1] \in Past(i)[k].left
    <3>1. Param(p)' = Param(p)
      BY SameProgram
    <3> QED BY <2>1, <3>1 DEF Pending
  <2>2. CASE p = <<i, Top.index>>
    <3>1. prog.calls[p[1]].args[p[2]] # 0
      <4>1. IsProgram(prog)
        BY DEF IInv, Shapes
      <4>2. Passed(p)[2] = prog.calls[p[1]].args[p[2]] /\ Passed(p)[2] \in Nat \ {0}
        BY <4>1, PassingEnds
      <4> QED BY <4>2
    <3>2. IsArg(i, Top.index) /\ Passed(p) = ArgOf(i, Top.index)
      BY <2>2, <3>1 DEF IsArg, Passed
    <3> QED BY <3>2 DEF Unknown, Known
  <2> QED BY <1>1, <2>1, <2>2, PendingPast
<1>2. phase = "samplers"
  BY TopShape
<1> QED BY <1>1, <1>2, OnlyTraces

LEMMA StopTraceAInv ==
  ASSUME IInv, AInv, StopTrace
  PROVE  AInv'
<1>1. phase = "samplers" /\ prog.typed
  BY TopShape DEF StopTrace
<1> QED BY <1>1, OnlyTraces DEF StopTrace

LEMMA ReturnTraceAInv ==
  ASSUME IInv, AInv, traces # << >>, Top.left = {}, traces' = Front(traces),
         UNCHANGED <<prog, argType, funcType, work, processed, untraced, current, phase>>
  PROVE  AInv'
<1>1. phase = "samplers" /\ Len(traces) \in Nat \ {0} /\ traces \in Seq(Frames)
  BY TopShape DEF IInv, Shapes
<1>2. /\ Len(traces') = Len(traces) - 1
      /\ \A k \in 1 .. Len(traces) : k # Len(traces) => k \in 1 .. Len(traces') /\ traces'[k] = traces[k]
  <2>1. PICK S : S = Frames
    OBVIOUS
  <2>2. PICK ts \in Seq(S) : ts = traces
    BY <1>1, <2>1
  <2>3. PICK m \in Nat \ {0} : m = Len(ts)
    BY <1>1, <2>2
  <2>4. PICK us : us = SubSeq(ts, 1, m - 1)
    OBVIOUS
  <2>5. Len(us) = m - 1 /\ \A k \in 1 .. m - 1 : us[k] = ts[k]
    BY <2>3, <2>4
  <2>6. traces' = us
    BY <2>2, <2>3, <2>4 DEF Front
  <2>7. \A k \in 1 .. m : k # m => k \in 1 .. m - 1
    OBVIOUS
  <2> QED BY <2>2, <2>3, <2>5, <2>6, <2>7
<1>3. ASSUME NEW p \in Passings, Pending(p) PROVE Pending(p)'
  <2>1. PICK k \in 1 .. Len(traces) :
          traces[k].func = Param(p)[1] /\ traces[k].index = p[2] /\ p[1] \in traces[k].left
    BY <1>3 DEF Pending
  <2>2. k # Len(traces)
    BY <2>1 DEF Top
  <2>3. k \in 1 .. Len(traces') /\ traces'[k] = traces[k]
    BY <1>2, <2>2
  <2>4. Param(p)' = Param(p)
    BY SameProgram
  <2> QED BY <2>1, <2>3, <2>4 DEF Pending
<1> QED BY <1>1, <1>3, OnlyTraces

LEMMA TraceUserAInv ==
  ASSUME IInv, Reasons, Ordered, AInv, traces # << >>, ~prog.typed, NEW i \in Top.left, Unknown(i),
         NEW a, a = ArgOf(i, Top.index),
         argType' = Put(argType, a, "sampler"), work' = work \cup {a[1]},
         traces' = Traced(a[1], a[2], Past(i)), processed' = processed \cup {a[1]},
         UNCHANGED <<prog, funcType, untraced, current, phase>>
  PROVE  AInv'
<1>1. phase = "samplers" /\ IsProgram(prog)
  BY TopShape DEF IInv, Shapes
<1>2. a \in SamplerArgs /\ a[1] \notin prog.builtins /\ a \notin Known
  BY TracedSampler DEF Unknown, Known
<1>3. Known' = Known \cup {a}
  BY DEF Known, Put
<1>4. BuiltinsTraced /\ SamplersPassed /\ ProcessedFor /\ KnownEarly /\ WorkEarly
  BY <1>1 DEF AInv, Tracing
<1>5. a[1] \notin processed
  BY <1>2, <1>4 DEF ProcessedFor, Ordered, OneSampler
<1>6. PICK t : t = [func |-> a[1], index |-> a[2], left |-> Users(a[1])]
  OBVIOUS
<1>7. PICK S : S = Frames
  OBVIOUS
<1>8. PICK ts \in Seq(S) : ts = Past(i)
  BY <1>7, PastShape
<1>9. traces' = Append(ts, t)
  BY <1>5, <1>6, <1>8 DEF Traced
<1>10. /\ Len(traces') = Len(ts) + 1 /\ traces'[Len(ts) + 1] = t
       /\ \A k \in 1 .. Len(ts) : traces'[k] = ts[k]
       /\ Len(ts) + 1 \in 1 .. Len(traces')
       /\ \A k \in 1 .. Len(ts) : k \in 1 .. Len(traces')
  <2>1. PICK m \in Nat : m = Len(ts)
    OBVIOUS
  <2>2. Len(Append(ts, t)) = m + 1 /\ Append(ts, t)[m + 1] = t /\ \A k \in 1 .. m : Append(ts, t)[k] = ts[k]
    BY <2>1
  <2>3. m + 1 \in 1 .. m + 1 /\ \A k \in 1 .. m : k \in 1 .. m + 1
    BY <2>1
  <2> QED BY <1>9, <2>1, <2>2, <2>3
<1>11. BuiltinsTraced' /\ ProcessedFor' /\ KnownEarly' /\ WorkEarly'
  <2>1. BuiltinsTraced'
    BY <1>4 DEF BuiltinsTraced
  <2>2. ProcessedFor'
    BY <1>2, <1>3, <1>4, SameProgram DEF ProcessedFor
  <2>3. KnownEarly'
    BY <1>2, <1>3, <1>4, SameNeeds, SameProgram DEF KnownEarly
  <2>4. WorkEarly'
    BY <1>3, <1>4 DEF WorkEarly
  <2> QED BY <2>1, <2>2, <2>3, <2>4
<1>12. ASSUME NEW p \in Passings, Live(Param(p))'
       PROVE  Passed(p) \in Known' \/ Pending(p)'
  <2>1. Param(p)' = Param(p)
    BY SameProgram
  <2>2. CASE Param(p) = a
    <3>1. p[1] \in Users(a[1]) /\ p[2] = a[2]
      BY <1>1, <2>2, PassingEnds DEF Users
    <3>2. t.func = Param(p)[1] /\ t.index = p[2] /\ p[1] \in t.left
      BY <1>6, <2>2, <3>1
    <3>3. PICK k \in 1 .. Len(traces') : traces'[k] = t
      BY <1>10
    <3> QED BY <2>1, <3>2, <3>3 DEF Pending
  <2>3. CASE Param(p) # a
    <3>1. Live(Param(p))
      <4>1. Param(p) \in Known' \/ (Param(p)[1] \in prog.builtins \cap processed' /\ Param(p)[2] = 2)
        BY <1>12, <2>1 DEF Live
      <4> QED BY <1>2, <1>3, <2>3, <4>1 DEF Live
    <3>2. Passed(p) \in Known \/ Pending(p)
      BY <1>4, <3>1 DEF SamplersPassed
    <3>3. CASE \E k \in 1 .. Len(Past(i)) : /\ Past(i)[k].func = Param(p)[1] /\ Past(i)[k].index = p[2]
                                            /\ p[1] \in Past(i)[k].left
      BY <1>8, <1>10, <2>1, <3>3 DEF Pending
    <3>4. CASE p = <<i, Top.index>>
      <4>1. Passed(p) = a
        BY <3>4 DEF Passed
      <4> QED BY <1>3, <4>1
    <3> QED BY <1>3, <3>2, <3>3, <3>4, PendingPast
  <2> QED BY <2>2, <2>3
<1>13. SamplersPassed'
  <2>1. \A p : Param(p)' = Param(p) /\ Passed(p)' = Passed(p)
    BY SameProgram
  <2>2. Passings' = Passings
    BY SameProgram
  <2>3. \A p \in Passings : Live(Param(p))' => Passed(p) \in Known' \/ Pending(p)'
    BY <1>12
  <2> QED BY <2>1, <2>2, <2>3 DEF SamplersPassed
<1> QED BY <1>1, <1>3, <1>11, <1>13, OnlyTracing
\* When the search ends, all samplers by use are known.
LEMMA SamplersKnown ==
  ASSUME IInv, Reasons, AInv, phase = "samplers", untraced = {}, traces = << >>, ~prog.typed
  PROVE  SamplerArgs \subseteq Known
<1>1. IsProgram(prog) /\ Known \in SUBSET Arguments
  BY KnownShape DEF IInv, Shapes
<1>2. BuiltinsTraced /\ SamplersPassed
  BY DEF AInv, Tracing
<1>3. \A p \in Passings : ~Pending(p)
  <2>1. 1 .. Len(traces) = {}
    OBVIOUS
  <2> QED BY <2>1 DEF Pending
<1>4. \A p \in Passings : Live(Param(p)) => Passed(p) \in Known
  BY <1>2, <1>3 DEF SamplersPassed
<1>5. ASSUME NEW p \in Passings, Param(p) \in prog.builtins \X {2} PROVE Passed(p) \in Known
  <2>1. Live(Param(p))
    BY <1>2, <1>5 DEF Live, BuiltinsTraced
  <2> QED BY <1>4, <2>1
<1>6. \A p \in Passings : Param(p) \in Known => Passed(p) \in Known
  BY <1>4 DEF Live
<1> QED BY <1>1, <1>5, <1>6, SamplerArgsClosed

\* A function that no call calls needs only the types it is given.
LEMMA UncalledGiven ==
  ASSUME IsProgram(prog), NEW f, \A i \in DOMAIN prog.calls : prog.calls[i].callee # f,
         NEW y, NEW a \in Carried(y), a[1] = f
  PROVE  a \in Given(y)
<1>1. PICK C : C = {c \in Carried(y) : c[1] = f => c \in Given(y)}
  OBVIOUS
<1>2. C \in SUBSET Arguments /\ Given(y) \subseteq C
  BY <1>1, CarriedClosed
<1>3. ASSUME NEW p \in Passings, Passed(p) \in C PROVE Param(p) \in C
  <2>1. Param(p) \in Carried(y)
    BY <1>1, <1>3, CarriedClosed
  <2>2. Param(p)[1] # f
    BY PassingEnds
  <2> QED BY <1>1, <2>1, <2>2
<1>4. Carried(y) \subseteq C
  BY <1>2, <1>3, CarriedClosed
<1> QED BY <1>1, <1>4

LEMMA EndSamplersAInv ==
  ASSUME IInv, Reasons, Ordered, AInv, phase = "samplers", untraced = {}, traces = << >>,
         phase' = "working",
         UNCHANGED <<prog, argType, funcType, work, processed, untraced, traces, current>>
  PROVE  AInv'
<1>1. /\ IsProgram(prog) /\ Known \in SUBSET Arguments /\ Known' = Known
      /\ current = Idle /\ DOMAIN funcType = {}
  BY KnownShape DEF IInv, Shapes, Phases, Known
<1>2. KnownEarly /\ WorkEarly /\ OfMetadata \subseteq Known
  BY DEF AInv, Tracing, MetadataKnown
<1>3. \A y \in Adapted : Given(y) \subseteq Known
  <2> TAKE y \in Adapted
  <2>1. y # "none"
    BY DEF Adapted
  <2>2. ASSUME NEW a \in Given(y) PROVE a \in Known
    <3>1. CASE prog.metadata[a[1]][a[2]] = y
      <4>1. a \in Arguments
        BY <1>1, GivenShape
      <4> QED BY <1>2, <2>1, <3>1, <4>1 DEF OfMetadata
    <3>2. CASE ~prog.typed /\ a \in SamplerArgs
      BY <3>2, SamplersKnown
    <3> QED BY <1>1, <3>1, <3>2, GivenShape
  <2> QED BY <2>2
<1>4. ASSUME NEW a, Needed(a), a[1] \in work PROVE a \in Known
  <2>1. PICK b \in Known : b[1] = a[1]
    BY <1>2, <1>4 DEF WorkEarly
  <2>2. CASE \E i \in DOMAIN prog.calls : prog.calls[i].callee = a[1]
    <3>1. PICK i \in DOMAIN prog.calls : prog.calls[i].callee = a[1]
      BY <2>2
    <3>2. b \notin OfMetadata
      <4>1. PICK f \in Functions : \E n \in 1 .. prog.arity[f] : b = <<f, n>>
        BY <1>1, ArgumentShape
      <4>2. b[1] = f /\ b[2] \in 1 .. prog.arity[f]
        BY <4>1
      <4>3. b[2] \in DOMAIN prog.calls[i].args
        BY <1>1, <2>1, <3>1, <4>2, ProgramShape
      <4> QED BY <2>1, <3>1, <4>3 DEF Ordered, KernelsOnly, OfMetadata
    <3>3. b \in SamplerArgs
      BY <1>2, <3>2 DEF KnownEarly
    <3>4. Needed(b)
      BY KnownShape
    <3>5. a = b
      BY <1>4, <2>1, <3>1, <3>3, <3>4 DEF Ordered, SamplerAlone
    <3> QED BY <3>5
  <2>3. CASE \A i \in DOMAIN prog.calls : prog.calls[i].callee # a[1]
    <3>1. PICK y \in Adapted : a \in Carried(y)
      BY <1>4 DEF Needed
    <3>2. a \in Given(y)
      <4>1. PICK f : f = a[1]
        OBVIOUS
      <4> QED BY <1>1, <2>3, <3>1, <4>1, UncalledGiven
    <3> QED BY <1>3, <3>2
  <2> QED BY <2>2, <2>3
<1>5. AtWork' /\ phase' # "done" /\ phase' # "samplers" /\ phase' # "metadata"
  BY DEF AtWork
<1>6. GivenKnown'
  <2>1. \A y : Given(y)' = Given(y)
    BY SameProgram
  <2> QED BY <1>1, <1>3, <2>1 DEF GivenKnown
<1>7. MetadataKnown'
  BY <1>1, <1>2, SameNeeds DEF MetadataKnown
<1>8. \A f : ~InHand(f)' /\ ~InHand(f)
  BY <1>1 DEF InHand, Idle
<1>9. WorkNeeds' /\ DoneNeeds'
  BY <1>1, <1>4, <1>8, SameNeeds DEF WorkNeeds, DoneNeeds
<1>10. HandedOn'
  BY <1>1, <1>8 DEF HandedOn, WentPast
<1>11. KnownWorked'
  BY <1>1, <1>2 DEF KnownWorked, WorkEarly
<1> QED BY <1>5, <1>6, <1>7, <1>9, <1>10, <1>11 DEF AInv, Start, Tracing, Working
(***************************************************************************)
(* The work on functions.                                                  *)
(***************************************************************************)
LEMMA TakeWorkAInv ==
  ASSUME IInv, Reasons, AInv, phase = "working", current = Idle, NEW f \in work,
         current' = [func |-> f, next |-> 1, types |-> << >>], work' = work \ {f},
         UNCHANGED <<prog, argType, funcType, processed, untraced, traces, phase>>
  PROVE  AInv'
<1>1. /\ IsProgram(prog) /\ AtWork /\ AtWork' /\ f \in Functions /\ f # 0
      /\ Known' = Known /\ Passings' = Passings
      /\ \A a : WentPast(a) <=> a[1] \in DOMAIN funcType
      /\ \A a : InHand(a) <=> FALSE
  <2>1. IsProgram(prog) /\ f \in Functions
    BY DEF IInv, Shapes
  <2>2. f # 0
    BY <2>1, ProgramShape
  <2>3. \A a : ~InHand(a)
    BY DEF InHand
  <2> QED BY <2>1, <2>2, <2>3, SameProgram DEF AtWork, Known, WentPast
<1>2. WorkNeeds /\ DoneNeeds /\ HandedOn /\ KnownWorked
  BY <1>1 DEF AInv, Working
<1>3. \A a : ~Coming(a)
  BY <1>1 DEF Coming
<1>4. current'.func = f /\ current'.next = 1 /\ \A g : InHand(g)' <=> g = f
  BY <1>1 DEF InHand, Idle
<1>5. WorkNeeds' /\ DoneNeeds'
  BY <1>1, <1>2, <1>3, <1>4, SameNeeds DEF WorkNeeds, DoneNeeds
<1>6. HandedOn'
  <2>1. \A p : Param(p)' = Param(p) /\ Passed(p)' = Passed(p)
    BY SameProgram
  <2>2. \A p \in Passings : Passed(p)[2] \in Nat \ {0}
    BY <1>1, PassingEnds
  <2>3. \A p \in Passings : WentPast(Passed(p))' => Passed(p)[1] \in DOMAIN funcType
    <3> SUFFICES ASSUME NEW p \in Passings, WentPast(Passed(p))' PROVE Passed(p)[1] \in DOMAIN funcType
      OBVIOUS
    <3>1. Passed(p)[1] \in DOMAIN funcType \/ Passed(p)[2] < 1
      BY <1>4, <2>1 DEF WentPast
    <3>2. ~(Passed(p)[2] < 1)
      BY <2>2
    <3> QED BY <3>1, <3>2
  <2> QED BY <1>1, <1>2, <2>1, <2>3 DEF HandedOn
<1>7. KnownWorked'
  BY <1>1, <1>2, <1>4 DEF KnownWorked
<1>8. Working'
  BY <1>5, <1>6, <1>7 DEF Working
<1> QED BY <1>1, <1>8, OnlyWorking

\* A function that is not its own caller leaves no types behind when it gets none.
LEMMA FinishFunctionAInv ==
  ASSUME IInv, Reasons, Ordered, AInv, current.func # 0, current.next > prog.arity[current.func],
         \/ funcType' = funcType /\ Range(current.types) \subseteq {"own"}
         \/ funcType' = Put(funcType, current.func, current.types),
         current' = Idle,
         UNCHANGED <<prog, argType, work, processed, untraced, traces, phase>>
  PROVE  AInv'
<1> DEFINE f == current.func
<1>1. /\ IsProgram(prog) /\ phase = "working" /\ current # Idle /\ AtWork /\ AtWork'
      /\ Known' = Known /\ Passings' = Passings
      /\ f \in Functions /\ prog.arity[f] \in Nat /\ current.next = prog.arity[f] + 1
      /\ Len(current.types) = prog.arity[f] /\ current.types \in Seq(Types)
  <2>1. IsProgram(prog) /\ current # Idle
    BY DEF IInv, Shapes, Idle
  <2>2. phase = "working"
    BY <2>1 DEF IInv, Phases
  <2>3. /\ f \in Functions /\ current.next \in 1 .. prog.arity[f] + 1
        /\ Len(current.types) = current.next - 1 /\ current.types \in Seq(Types)
    BY <2>1 DEF IInv, Gathered
  <2>4. prog.arity[f] \in Nat
    BY <2>1, <2>3, ProgramShape
  <2>5. current.next = prog.arity[f] + 1
    BY <2>3, <2>4
  <2> QED BY <2>1, <2>2, <2>3, <2>4, <2>5, SameProgram DEF AtWork, Known
<1>2. WorkNeeds /\ DoneNeeds /\ HandedOn /\ KnownWorked
  BY <1>1 DEF AInv, Working
<1>3. \A g : (InHand(g) <=> g = f) /\ ~InHand(g)'
  BY <1>1 DEF InHand
<1>4. \A p \in Passings : Passed(p)[1] = f => Passed(p)[2] < current.next
  <2> SUFFICES ASSUME NEW p \in Passings, Passed(p)[1] = f PROVE Passed(p)[2] < current.next
    OBVIOUS
  <2>1. PICK g \in Functions : \E n \in 1 .. prog.arity[g] : Passed(p) = <<g, n>>
    BY <1>1, PassingEnds, ArgumentShape
  <2>2. Passed(p)[2] \in 1 .. prog.arity[f]
    BY <2>1
  <2> QED BY <1>1, <2>2
<1>5. \A a : ~Coming(a)
  <2> SUFFICES ASSUME NEW a, Coming(a) PROVE FALSE
    OBVIOUS
  <2>1. PICK p \in Passings : Passed(p)[1] = f /\ current.next <= Passed(p)[2]
    BY <1>3 DEF Coming
  <2>2. Passed(p)[2] < current.next /\ Passed(p)[2] \in Nat /\ current.next \in Nat
    BY <1>1, <1>4, <2>1, PassingEnds
  <2> QED BY <2>1, <2>2
<1>6. DOMAIN funcType \subseteq DOMAIN funcType' /\ DOMAIN funcType' \subseteq DOMAIN funcType \cup {f}
  BY DEF Put
<1>7. WorkNeeds'
  BY <1>1, <1>2, <1>5, SameNeeds DEF WorkNeeds
<1>8. DoneNeeds'
  BY <1>1, <1>2, <1>3, <1>6, SameNeeds DEF DoneNeeds
<1>9. HandedOn'
  <2>1. \A p : Param(p)' = Param(p) /\ Passed(p)' = Passed(p)
    BY SameProgram
  <2>2. ASSUME NEW p \in Passings, WentPast(Passed(p))' PROVE WentPast(Passed(p))
    <3>1. Passed(p)[1] \in DOMAIN funcType'
      BY <1>3, <2>1, <2>2 DEF WentPast
    <3> QED BY <1>3, <1>4, <1>6, <3>1 DEF WentPast
  <2> QED BY <1>1, <1>2, <2>1, <2>2 DEF HandedOn
<1>10. KnownWorked'
  <2>1. CASE funcType' = Put(funcType, f, current.types)
    <3>1. f \in DOMAIN funcType'
      BY <2>1 DEF Put
    <3> QED BY <1>1, <1>2, <1>3, <1>6, <3>1 DEF KnownWorked
  <2>2. CASE funcType' = funcType /\ Range(current.types) \subseteq {"own"}
    <3>1. ~CallsItself(f)
      <4> SUFFICES ASSUME NEW i \in DOMAIN prog.calls, prog.calls[i].callee = f, prog.calls[i].caller = f
                   PROVE  FALSE
        BY DEF CallsItself, Users
      <4>1. f < f /\ f \in Nat
        BY <1>1, ProgramShape DEF Ordered, Descending
      <4> QED BY <4>1
    <3>2. \A n \in 1 .. prog.arity[f] : current.types[n] = TypeOf(<<f, n>>)
      BY <1>1, <3>1 DEF IInv, Gathered
    <3>3. ASSUME NEW a \in Known, a[1] = f PROVE FALSE
      <4>1. PICK g \in Functions : \E n \in 1 .. prog.arity[g] : a = <<g, n>>
        BY <1>1, KnownShape, ArgumentShape
      <4>2. PICK n \in 1 .. prog.arity[f] : a = <<f, n>>
        BY <3>3, <4>1
      <4>3. current.types[n] = argType[a]
        BY <3>2, <4>2 DEF TypeOf, Known
      <4>4. current.types[n] \in Range(current.types)
        BY <1>1, <4>2 DEF Range
      <4>5. argType[a] = "own"
        BY <2>2, <4>3, <4>4
      <4>6. argType[a] \in Adapted
        BY KnownShape
      <4> QED BY <4>5, <4>6 DEF Adapted
    <3> QED BY <1>1, <1>2, <1>3, <2>2, <3>3 DEF KnownWorked
  <2> QED BY <2>1, <2>2
<1>11. Working'
  BY <1>1, <1>7, <1>8, <1>9, <1>10 DEF Working
<1> QED BY <1>1, <1>11, OnlyWorking

LEMMA FinishAInv ==
  ASSUME IInv, AInv, Finish
  PROVE  AInv'
<1>1. /\ phase = "working" /\ phase' = "done" /\ current = Idle /\ work = {} /\ AtWork /\ AtWork'
      /\ UNCHANGED <<prog, argType, funcType, work, current>>
      /\ Known' = Known /\ Passings' = Passings
  BY SameProgram DEF Finish, AtWork, Known
<1>2. WorkNeeds /\ DoneNeeds /\ HandedOn /\ KnownWorked
  BY <1>1 DEF AInv, Working
<1>3. \A g : InHand(g)' <=> InHand(g)
  BY <1>1 DEF InHand, Idle
<1>4. \A p : Param(p)' = Param(p) /\ Passed(p)' = Passed(p)
  BY <1>1, SameProgram
<1>5. WorkNeeds' /\ DoneNeeds' /\ KnownWorked'
  BY <1>1, <1>2, <1>3, SameNeeds DEF WorkNeeds, DoneNeeds, KnownWorked
<1>6. HandedOn'
  BY <1>1, <1>2, <1>3, <1>4 DEF HandedOn, WentPast
<1>7. Working'
  BY <1>1, <1>5, <1>6 DEF Working, Idle
<1> QED BY <1>1, <1>7, OnlyWorking

LEMMA AdaptedBeforeAInv ==
  ASSUME IInv, AInv, AdaptedBefore
  PROVE  AInv'
<1>1. AtWork /\ phase' = "failed" /\ prog' = prog /\ Known' = Known
  BY DEF AdaptedBefore, AtWork, Known
<1>2. Working'
  BY <1>1 DEF Working, AtWork
<1> QED BY <1>1, <1>2, OnlyWorking
\* The type of an argument goes to every parameter it is passed to, unless the type of
\* the function that has the parameter is made.
LEMMA AllHanded ==
  ASSUME IInv, Ordered, NEW a, NEW params, HandsOn(a, params), a \in DOMAIN argType,
         NEW p \in Passings, Passed(p) = a, Param(p)[1] \notin DOMAIN funcType
  PROVE  Param(p) \in params
<1>1. IsProgram(prog)
  BY DEF IInv, Shapes
<1>2. PICK i \in DOMAIN prog.calls : i = p[1] /\ p[2] \in DOMAIN prog.calls[i].args
  BY <1>1, PassingEnds
<1>3. /\ Param(p) = <<prog.calls[i].callee, p[2]>>
      /\ a[1] = prog.calls[i].caller /\ a[2] = prog.calls[i].args[p[2]] /\ a[2] \in Nat \ {0}
      /\ prog.calls[i].callee \notin DOMAIN funcType
  BY <1>1, <1>2, PassingEnds DEF Param
<1>4. a[2] \in Range(prog.calls[i].args)
  BY <1>2, <1>3 DEF Range
<1>5. i \in Onto(a)
  BY <1>2, <1>3, <1>4 DEF Onto, HandedTo, Open
<1>6. PICK k : k = ArgIndex(i, a[2])
  OBVIOUS
<1>7. k \in DOMAIN prog.calls[i].args /\ prog.calls[i].args[k] = a[2]
  BY <1>1, <1>2, <1>4, <1>6, ArgIndexPlace
<1>8. k = p[2]
  BY <1>2, <1>3, <1>7 DEF Ordered, PassedOnce, IsArg
<1>9. Param(p) = <<prog.calls[i].callee, ArgIndex(i, a[2])>>
  BY <1>3, <1>6, <1>8
<1> QED BY <1>5, <1>9 DEF HandsOn

LEMMA NoSelfCall ==
  ASSUME IsProgram(prog), Ordered
  PROVE  /\ \A p \in Passings : Param(p)[1] # Passed(p)[1]
         /\ \A f : ~CallsItself(f)
<1>1. \A i \in DOMAIN prog.calls : prog.calls[i].caller # prog.calls[i].callee
  <2> TAKE i \in DOMAIN prog.calls
  <2>1. prog.calls[i].caller \in Nat /\ prog.calls[i].callee \in Nat
        /\ prog.calls[i].caller < prog.calls[i].callee
    BY ProgramShape DEF Ordered, Descending
  <2> QED BY <2>1
<1>2. \A p \in Passings : Param(p)[1] # Passed(p)[1]
  BY <1>1, PassingEnds
<1>3. \A f : ~CallsItself(f)
  BY <1>1 DEF CallsItself, Users
<1> QED BY <1>2, <1>3

LEMMA AdaptArgumentAInv ==
  ASSUME IInv, Reasons, Ordered, AInv, AdaptArgument
  PROVE  AInv'
<1>1. PICK a, params : HandsOn(a, params)
  BY AdaptArgumentSteps
<1>2. /\ IsProgram(prog) /\ prog' = prog /\ funcType' = funcType /\ phase' = phase
      /\ Known' = Known \cup params /\ Passings' = Passings
      /\ \A p : Param(p)' = Param(p) /\ Passed(p)' = Passed(p)
  <2>1. prog' = prog /\ funcType' = funcType /\ phase' = phase
    BY DEF AdaptArgument
  <2> QED BY <1>1, <2>1, SameProgram DEF IInv, Shapes, HandsOn, Known
<1>3. /\ a = <<a[1], a[2]>> /\ a[1] \in Functions /\ a[1] # 0 /\ a[2] \in Nat \ {0}
      /\ current.next = a[2] /\ current'.next = a[2] + 1
      /\ \A g : (InHand(g) <=> g = a[1]) /\ (InHand(g)' <=> g = a[1])
  <2>1. /\ a = <<current.func, current.next>> /\ a[1] = current.func /\ a[2] = current.next
        /\ a[1] \in Functions /\ a[2] \in Nat \ {0}
        /\ current # Idle /\ current'.func = a[1] /\ current'.next = a[2] + 1
    BY <1>1 DEF HandsOn
  <2>2. a[1] # 0
    BY <1>2, <2>1, ProgramShape
  <2>3. current' # Idle'
    BY <2>1, <2>2 DEF Idle
  <2> QED BY <2>1, <2>2, <2>3 DEF InHand
<1>4. AtWork /\ AtWork' /\ phase = "working"
  <2>1. current # Idle
    BY <1>1 DEF HandsOn
  <2> QED BY <1>2, <2>1 DEF IInv, Phases, AtWork
<1>5. WorkNeeds /\ DoneNeeds /\ HandedOn /\ KnownWorked
  BY <1>4 DEF AInv, Working
<1>6. \A g \in work : g \notin DOMAIN funcType
  BY <1>2, NoSelfCall DEF IInv, WorkIsOpen
<1>7. \A p \in Passings : Passed(p) \in Known /\ Passed(p) = a /\ Param(p)[1] \notin DOMAIN funcType
                            => Param(p) \in params
  BY <1>1, AllHanded DEF Known
<1>8. \A b \in params : /\ a \in Known
                        /\ \E p \in Passings : Passed(p) = a /\ Param(p) = b
                        /\ b[1] \notin DOMAIN funcType
  BY <1>1, HandedParam DEF Known
<1>9. \A p \in Passings : /\ Passed(p) = <<Passed(p)[1], Passed(p)[2]>>
                          /\ Passed(p)[1] \in Functions /\ Passed(p)[2] \in Nat \ {0}
  <2>1. \A p \in Passings : Passed(p)[1] \in Functions /\ Passed(p)[2] \in Nat \ {0}
    BY <1>2, PassingEnds
  <2>2. \A p : Passed(p) = <<Passed(p)[1], Passed(p)[2]>>
    BY DEF Passed, ArgOf
  <2> QED BY <2>1, <2>2
<1>10. ASSUME NEW b, NEW p \in Passings, Param(p) = b, Passed(p) \in Known, Passed(p)[1] = a[1],
              a[2] <= Passed(p)[2], b[1] \notin DOMAIN funcType
       PROVE  b \in params \/ Coming(b)'
  <2>1. CASE Passed(p)[2] = a[2]
    <3>1. Passed(p) = a
      BY <1>3, <1>9, <1>10, <2>1
    <3> QED BY <1>7, <1>10, <3>1
  <2>2. CASE Passed(p)[2] # a[2]
    <3>1. a[2] + 1 <= Passed(p)[2]
      <4>1. Passed(p)[2] \in Nat /\ a[2] \in Nat
        BY <1>3, <1>9
      <4> QED BY <1>10, <2>2, <4>1
    <3>2. Passed(p) \in Known' /\ InHand(Passed(p)[1])'
      BY <1>2, <1>3, <1>10
    <3> QED BY <1>2, <1>3, <1>10, <3>1, <3>2 DEF Coming
  <2> QED BY <2>1, <2>2
<1>11. ASSUME NEW b, Needed(b), b[1] \in work PROVE b \in Known' \/ Coming(b)'
  <2>1. CASE b \in Known
    BY <1>2, <2>1
  <2>2. CASE Coming(b)
    <3>1. PICK p \in Passings : /\ Param(p) = b /\ Passed(p) \in Known
                                /\ Passed(p)[1] = a[1] /\ a[2] <= Passed(p)[2]
      BY <1>3, <2>2 DEF Coming
    <3> QED BY <1>2, <1>6, <1>10, <1>11, <3>1
  <2> QED BY <1>5, <1>11, <2>1, <2>2 DEF WorkNeeds
<1>12. ASSUME NEW b, Needed(b), NEW c \in params, b[1] = c[1] PROVE b \in Known' \/ Coming(b)'
  <2>1. PICK q \in Passings : Passed(q) = a /\ Param(q) = c
    BY <1>8
  <2>2. PICK i \in DOMAIN prog.calls : i = q[1]
    BY <1>2, PassingEnds
  <2>3. prog.calls[i].caller = a[1] /\ prog.calls[i].callee = c[1]
    BY <1>2, <2>1, <2>2, PassingEnds
  <2>4. a \in Known /\ Needed(a) /\ Needed(c) /\ c[1] \notin DOMAIN funcType
    BY <1>2, <1>8, <2>1, KnownShape, NeededPassed
  <2>5. CASE \E s \in SamplerArgs : s[1] = prog.calls[i].callee
    <3>1. b = c
      BY <1>12, <2>3, <2>4, <2>5 DEF Ordered, SamplerAlone
    <3> QED BY <1>2, <3>1
  <2>6. CASE Needed(ArgOf(i, b[2]))
    <3>1. PICK d : d = ArgOf(i, b[2])
      OBVIOUS
    <3>2. b \in Arguments /\ d \in Arguments
      BY <1>2, <1>12, <2>6, <3>1, CarriedClosed DEF Needed
    <3>3. /\ b[2] \in 1 .. prog.arity[b[1]] /\ b = <<b[1], b[2]>>
      <4>1. PICK g \in Functions : \E n \in 1 .. prog.arity[g] : b = <<g, n>>
        BY <1>2, <3>2, ArgumentShape
      <4> QED BY <4>1
    <3>4. d[2] # 0
      <4>1. PICK g \in Functions : \E n \in 1 .. prog.arity[g] : d = <<g, n>>
        BY <1>2, <3>2, ArgumentShape
      <4>2. PICK n \in 1 .. prog.arity[g] : d = <<g, n>>
        BY <4>1
      <4>3. prog.arity[g] \in Nat
        BY <1>2, ProgramShape
      <4> QED BY <4>2, <4>3
    <3>5. d[1] = a[1] /\ d[2] = prog.calls[i].args[b[2]]
      BY <2>3, <3>1 DEF ArgOf
    <3>6. b[2] \in DOMAIN prog.calls[i].args
      BY <1>2, <1>12, <2>3, <3>3, ProgramShape
    <3>7. PICK p : p = <<i, b[2]>>
      OBVIOUS
    <3>8. p \in Passings
      BY <1>2, <3>4, <3>5, <3>6, <3>7, PassingShape
    <3>9. Param(p) = b /\ Passed(p) = d
      BY <1>12, <2>3, <3>1, <3>3, <3>7 DEF Param, Passed
    <3>10. d \in Known
      BY <1>3, <1>5, <2>6, <3>1, <3>5 DEF DoneNeeds
    <3>11. CASE a[2] <= d[2]
      BY <1>2, <1>10, <1>12, <2>4, <3>5, <3>8, <3>9, <3>10, <3>11
    <3>12. CASE ~(a[2] <= d[2])
      <4>1. d[2] < a[2]
        <5>1. d[2] \in Nat /\ a[2] \in Nat
          BY <1>3, <1>9, <3>8, <3>9
        <5> QED BY <3>12, <5>1
      <4>2. WentPast(d)
        BY <1>3, <3>5, <4>1 DEF WentPast
      <4>3. b \in Known
        BY <1>5, <3>8, <3>9, <3>10, <4>2 DEF HandedOn
      <4> QED BY <1>2, <4>3
    <3> QED BY <3>11, <3>12
  <2> QED BY <1>12, <2>3, <2>5, <2>6 DEF Ordered, AlwaysPassed
<1>13. WorkNeeds'
  <2>1. \A b : b[1] \in work' => b[1] \in work \/ \E c \in params : b[1] = c[1]
    BY <1>1 DEF HandsOn
  <2>2. \A b : Needed(b)' <=> Needed(b)
    BY <1>2, SameNeeds
  <2> QED BY <1>11, <1>12, <2>1, <2>2 DEF WorkNeeds
<1>14. DoneNeeds'
  BY <1>2, <1>3, <1>5, SameNeeds DEF DoneNeeds
<1>15. HandedOn'
  <2> SUFFICES ASSUME NEW p \in Passings, Passed(p) \in Known', WentPast(Passed(p))'
               PROVE  Param(p) \in Known'
    BY <1>2 DEF HandedOn
  <2>1. \/ Passed(p)[1] \in DOMAIN funcType
        \/ Passed(p)[1] = a[1] /\ Passed(p)[2] < a[2] + 1
    BY <1>2, <1>3 DEF WentPast
  <2>2. Passed(p) \in Known
    <3> SUFFICES ASSUME Passed(p) \in params PROVE FALSE
      BY <1>2
    <3>1. PICK q \in Passings : Passed(q) = a /\ Param(q) = Passed(p)
      BY <1>8
    <3>2. Passed(p)[1] # a[1]
      BY <1>2, <3>1, NoSelfCall
    <3>3. Passed(p)[1] \notin DOMAIN funcType
      BY <1>8
    <3> QED BY <2>1, <3>2, <3>3
  <2>3. CASE WentPast(Passed(p))
    BY <1>2, <1>5, <2>2, <2>3 DEF HandedOn
  <2>4. CASE ~WentPast(Passed(p))
    <3>1. Passed(p)[1] = a[1] /\ Passed(p)[2] < a[2] + 1 /\ ~(Passed(p)[2] < a[2])
      BY <1>3, <2>1, <2>4 DEF WentPast
    <3>2. Passed(p)[2] = a[2]
      <4>1. Passed(p)[2] \in Nat /\ a[2] \in Nat
        BY <1>3, <1>9
      <4> QED BY <3>1, <4>1
    <3>3. Passed(p) = a
      BY <1>3, <1>9, <3>1, <3>2
    <3>4. CASE Param(p)[1] \notin DOMAIN funcType
      BY <1>2, <1>7, <2>2, <3>3, <3>4
    <3>5. CASE Param(p)[1] \in DOMAIN funcType
      <4>1. Needed(Param(p))
        BY <1>2, <2>2, KnownShape, NeededPassed
      <4> QED BY <1>2, <1>5, <3>5, <4>1 DEF DoneNeeds
    <3> QED BY <3>4, <3>5
  <2> QED BY <2>3, <2>4
<1>16. KnownWorked'
  <2>1. \A f : f \in work' <=> f \in work \/ \E b \in params : f = b[1]
    BY <1>1 DEF HandsOn
  <2> QED BY <1>2, <1>3, <1>5, <2>1 DEF KnownWorked
<1>17. Working'
  BY <1>2, <1>4, <1>13, <1>14, <1>15, <1>16 DEF Working
<1> QED BY <1>2, <1>4, <1>17, OnlyWorking

LEMMA NextAInv == IInv /\ Reasons /\ (Orderly => AInv) /\ [Next]_vars => (Orderly => AInv)'
<1> SUFFICES ASSUME IInv, Reasons, Orderly => AInv, [Next]_vars, Orderly' PROVE AInv'
  OBVIOUS
<1>1. prog' = prog
  BY DEF Next, vars, AdaptByMetadata, TraceBuiltin, PassUser, StopTrace, TraceUser, ReturnTrace,
         EndSamplers, TakeWork, AdaptedBefore, AdaptArgument, FinishFunction, Finish
<1>2. AInv /\ Ordered
  <2>1. IsProgram(prog)
    BY DEF IInv, Shapes
  <2> QED BY <1>1, <2>1, SameProgram, OrderlyMeans
<1>3. CASE UNCHANGED vars
  <2>1. /\ \A a : (Needed(a)' <=> Needed(a)) /\ (InHand(a)' <=> InHand(a))
        /\ \A p : Param(p)' = Param(p) /\ Passed(p)' = Passed(p)
        /\ \A y : Given(y)' = Given(y)
        /\ Known' = Known /\ Passings' = Passings /\ OfMetadata' = OfMetadata /\ SamplerArgs' = SamplerArgs
    BY <1>3, SameNeeds, SameProgram DEF vars, InHand, Idle, Known
  <2>2. \A p : (Pending(p)' <=> Pending(p)) /\ (Live(Param(p))' <=> Live(Param(p)))
    BY <1>3, <2>1 DEF vars, Pending, Live
  <2>3. Start' /\ MetadataKnown' /\ GivenKnown'
    BY <1>2, <1>3, <2>1 DEF vars, AInv, Start, MetadataKnown, GivenKnown, AtWork
  <2>4. Tracing'
    BY <1>2, <1>3, <2>1, <2>2 DEF vars, AInv, Tracing, BuiltinsTraced, SamplersPassed, ProcessedFor,
                                  KnownEarly, WorkEarly
  <2>5. /\ \A a : Coming(a)' <=> Coming(a)
        /\ \A p : WentPast(Passed(p))' <=> WentPast(Passed(p))
    BY <1>3, <2>1 DEF vars, Coming, WentPast
  <2>6. Working'
    BY <1>2, <1>3, <2>1, <2>5 DEF vars, AInv, Working, AtWork, WorkNeeds, DoneNeeds, HandedOn, KnownWorked, Idle
  <2> QED BY <2>3, <2>4, <2>6 DEF AInv
<1>4. CASE AdaptByMetadata
  BY <1>2, <1>4, AdaptByMetadataAInv
<1>5. CASE TraceBuiltin
  BY <1>2, <1>5, TraceBuiltinAInv DEF TraceBuiltin
<1>6. CASE PassUser
  BY <1>2, <1>6, PassUserAInv DEF PassUser
<1>7. CASE StopTrace
  BY <1>2, <1>7, StopTraceAInv
<1>8. CASE TraceUser
  <2>1. PICK i \in Top.left :
          LET a == ArgOf(i, Top.index) IN
          /\ Unknown(i) /\ argType' = Put(argType, a, "sampler") /\ work' = work \cup {a[1]}
          /\ traces' = Traced(a[1], a[2], Past(i)) /\ processed' = processed \cup {a[1]}
    BY <1>8 DEF TraceUser
  <2>2. PICK a : a = ArgOf(i, Top.index)
    OBVIOUS
  <2> QED BY <1>2, <1>8, <2>1, <2>2, TraceUserAInv DEF TraceUser
<1>9. CASE ReturnTrace
  BY <1>2, <1>9, ReturnTraceAInv DEF ReturnTrace
<1>10. CASE EndSamplers
  BY <1>2, <1>10, EndSamplersAInv DEF EndSamplers
<1>11. CASE TakeWork
  BY <1>2, <1>11, TakeWorkAInv DEF TakeWork, WithoutFirst
<1>12. CASE AdaptedBefore
  BY <1>2, <1>12, AdaptedBeforeAInv
<1>13. CASE AdaptArgument
  BY <1>2, <1>13, AdaptArgumentAInv
<1>14. CASE FinishFunction
  BY <1>2, <1>14, FinishFunctionAInv DEF FinishFunction
<1>15. CASE Finish
  BY <1>2, <1>15, FinishAInv
<1>16. Next \/ UNCHANGED vars
  OBVIOUS
<1> QED BY <1>3, <1>4, <1>5, <1>6, <1>7, <1>8, <1>9, <1>10, <1>11, <1>12, <1>13, <1>14, <1>15, <1>16 DEF Next

\* At the end the known types are closed along the calls, and hold what is given.
LEMMA AllKnown ==
  ASSUME IInv, Reasons, Ordered, AInv, phase = "done", NEW y \in Adapted, NEW a \in Carried(y)
  PROVE  a \in Known /\ argType[a] = y
<1>1. /\ IsProgram(prog) /\ work = {} /\ current = Idle
      /\ GivenKnown /\ HandedOn /\ KnownWorked /\ AtWork
  BY DEF IInv, Shapes, AInv, Working, AtWork
<1>2. ASSUME NEW b \in Known, b \in Carried(y) PROVE argType[b] = y
  BY <1>2, KnownShape DEF Ordered, OneType
<1>3. PICK C : C = {b \in Known : b \in Carried(y)}
  OBVIOUS
<1>4. C \in SUBSET Arguments
  BY <1>3, KnownShape
<1>5. Given(y) \subseteq C
  BY <1>1, <1>3, CarriedClosed DEF GivenKnown
<1>6. ASSUME NEW p \in Passings, Passed(p) \in C PROVE Param(p) \in C
  <2>1. Passed(p)[1] \in DOMAIN funcType
    BY <1>1, <1>3, <1>6 DEF KnownWorked, InHand
  <2>2. Param(p) \in Known
    BY <1>1, <1>3, <1>6, <2>1 DEF HandedOn, WentPast
  <2>3. Param(p) \in Carried(y)
    BY <1>1, <1>3, <1>6, CarriedClosed
  <2> QED BY <1>3, <2>2, <2>3
<1>7. Carried(y) \subseteq C
  BY <1>1, <1>4, <1>5, <1>6, CarriedClosed
<1> QED BY <1>2, <1>3, <1>7

(***************************************************************************)
(* For every orderly program and every order of the work list: in the end  *)
(* every argument that a type is given to, or carried to along calls, has  *)
(* that type, and no other argument has one.                               *)
(***************************************************************************)
THEOREM OrderlyAdaptedHolds == Spec => []OrderlyAdapted
<1>1. IInv /\ Reasons /\ (Orderly => AInv) => OrderlyAdapted
  <2> SUFFICES ASSUME IInv, Reasons, AInv, Orderly, phase = "done"
               PROVE  Intended = {<<a, argType[a]>> : a \in DOMAIN argType}
    BY DEF OrderlyAdapted
  <2>1. Ordered
    BY OrderlyMeans DEF IInv, Shapes
  <2>2. ASSUME NEW s \in Intended PROVE s \in {<<a, argType[a]>> : a \in DOMAIN argType}
    <3>1. PICK y \in Adapted : s \in Carried(y) \X {y}
      BY DEF Intended
    <3>2. PICK a \in Carried(y) : s = <<a, y>>
      BY <3>1
    <3>3. a \in DOMAIN argType /\ argType[a] = y
      BY <2>1, AllKnown DEF Known
    <3> QED BY <3>2, <3>3
  <2>3. ASSUME NEW a \in DOMAIN argType PROVE <<a, argType[a]>> \in Intended
    BY KnownShape, IntendedShape DEF Known
  <2> QED BY <2>2, <2>3
<1>2. Init => (Orderly => AInv)
  BY InitAInv
<1> QED BY <1>1, <1>2, Invariance, ReasonsInvariance, NextAInv, PTL DEF Spec
=============================================================================
