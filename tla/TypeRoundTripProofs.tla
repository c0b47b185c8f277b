------------------------ MODULE TypeRoundTripProofs ------------------------
(***************************************************************************)
(* Theorems about the types of a module on their way into a file and back, *)
(* for every program and every number of times it is written:              *)
(*                                                                         *)
(*   the translation    TranslationInv says what each activation of        *)
(*                      transType() has done and will still do, and how    *)
(*                      the types being translated lead to each other;     *)
(*   the sort           is a sort as in TopologicalSortProofs; SInv adds   *)
(*                      what it does to functions and forward pointers,    *)
(*                      which it reaches from no operand;                  *)
(*   the file           holds each type behind what the reader looks up    *)
(*                      for it, and makes the forward pointers there were; *)
(*   circles of types   CirclesInv says why each has a forward pointer.    *)
(***************************************************************************)
EXTENDS TypeRoundTrip, FiniteSetTheorems, SequenceTheorems, TLAPS

(***************************************************************************)
(* Induction over the natural numbers for a set of numbers, and what it    *)
(* gives for functions defined by recursion.  The sets stand where the     *)
(* theorems of the library have an operator as their parameter.            *)
(***************************************************************************)
\* A set of numbers has a least one: of the intervals 0 .. n up to its elements, one
\* contains no other.
LEMMA LeastNumber ==
  ASSUME NEW X \in SUBSET Nat, X # {}
  PROVE  \E n \in X : \A m \in X : n <= m
<1> DEFINE R == StrictSubsetOrdering(Nat)
           T == {0 .. n : n \in X}
<1>1. T \in SUBSET FiniteSubsetsOf(Nat)
  <2>1. \A n \in X : IsFiniteSet(0 .. n) /\ 0 .. n \in SUBSET Nat
    <3> TAKE n \in X
    <3>1. 0 \in Int /\ n \in Int
      OBVIOUS
    <3> QED BY <3>1, FS_Interval
  <2> QED BY <2>1 DEF FiniteSubsetsOf
<1>2. IsWellFoundedOn(R, FiniteSubsetsOf(Nat))
  BY FS_StrictSubsetOrderingWellFounded
<1>3. \E s \in T : \A t \in T : ~(<<t, s>> \in R)
  <2>1. T # {}
    OBVIOUS
  <2> HIDE DEF R, T
  <2> QED BY <1>1, <1>2, <2>1, WFMin
<1>4. PICK n \in X : \A m \in X : ~(<<0 .. m, 0 .. n>> \in R)
  BY <1>3
<1>5. ASSUME NEW m \in X, m < n PROVE FALSE
  <2>1. 0 .. m \subseteq 0 .. n /\ 0 .. m # 0 .. n /\ 0 .. n \in SUBSET Nat /\ 0 .. m \in SUBSET Nat
    BY <1>5
  <2>2. <<0 .. m, 0 .. n>> \in R
    BY <2>1 DEF StrictSubsetOrdering
  <2> QED BY <1>4, <2>2
<1> QED BY <1>5

\* Induction: the numbers for which something holds are all of them.
LEMMA SetInduction ==
  ASSUME NEW X \in SUBSET Nat, 0 \in X, \A n \in X : n + 1 \in X
  PROVE  X = Nat
<1> SUFFICES ASSUME Nat \ X # {} PROVE FALSE
  OBVIOUS
<1>1. Nat \ X \in SUBSET Nat
  OBVIOUS
<1>2. PICK n \in Nat \ X : \A m \in Nat \ X : n <= m
  BY <1>1, LeastNumber
<1>3. n - 1 \in Nat /\ n - 1 \notin Nat \ X
  BY <1>2
<1> QED BY <1>2, <1>3

(***************************************************************************)
(* The values x, step[x], step[step[x]] ... as a function of the number of *)
(* steps.                                                                  *)
(***************************************************************************)
IsRun(f, n, x, step) ==
  f[0] = x /\ \A i \in 0 .. n - 1 : f[i + 1] = step[f[i]]

LEMMA RunsExist ==
  ASSUME NEW S, NEW x \in S, NEW step \in [S -> S]
  PROVE  \A n \in Nat : \E f \in [Nat -> S] : IsRun(f, n, x, step)
<1> DEFINE X == {n \in Nat : \E f \in [Nat -> S] : IsRun(f, n, x, step)}
<1>1. 0 \in X
  <2>1. [i \in Nat |-> x] \in [Nat -> S] /\ IsRun([i \in Nat |-> x], 0, x, step)
    BY DEF IsRun
  <2> QED BY <2>1
<1>2. ASSUME NEW n \in X PROVE n + 1 \in X
  <2>1. PICK f \in [Nat -> S] : IsRun(f, n, x, step)
    OBVIOUS
  <2>2. PICK g : g = [i \in Nat |-> IF i = n + 1 THEN step[f[n]] ELSE f[i]]
    OBVIOUS
  <2>3. g \in [Nat -> S]
    BY <2>2
  <2>4. IsRun(g, n + 1, x, step)
    <3>1. g[0] = x
      BY <2>1, <2>2 DEF IsRun
    <3>2. ASSUME NEW i \in 0 .. n PROVE g[i + 1] = step[g[i]]
      <4>1. CASE i = n
        BY <2>2, <4>1
      <4>2. CASE i # n
        BY <2>1, <2>2, <4>2 DEF IsRun
      <4> QED BY <4>1, <4>2
    <3> QED BY <3>1, <3>2 DEF IsRun
  <2> QED BY <2>3, <2>4
<1>3. X = Nat
  <2> HIDE DEF X
  <2>1. X \in SUBSET Nat
    BY DEF X
  <2> QED BY <1>1, <1>2, <2>1, SetInduction
<1> QED BY <1>3

LEMMA RunsAgree ==
  ASSUME NEW S, NEW x \in S, NEW step \in [S -> S],
         NEW f, NEW g, NEW m \in Nat, NEW n \in Nat,
         IsRun(f, m, x, step), IsRun(g, n, x, step)
  PROVE  \A i \in Nat : i <= m /\ i <= n => f[i] = g[i]
<1> DEFINE X == {i \in Nat : i <= m /\ i <= n => f[i] = g[i]}
<1>1. 0 \in X
  BY DEF IsRun
<1>2. ASSUME NEW i \in X PROVE i + 1 \in X
  <2> SUFFICES ASSUME i + 1 <= m, i + 1 <= n PROVE f[i + 1] = g[i + 1]
    OBVIOUS
  <2>1. i \in 0 .. m - 1 /\ i \in 0 .. n - 1 /\ f[i] = g[i]
    OBVIOUS
  <2>2. f[i + 1] = step[f[i]] /\ g[i + 1] = step[g[i]]
    BY <2>1 DEF IsRun
  <2> QED BY <2>1, <2>2
<1>3. X = Nat
  <2> HIDE DEF X
  <2>1. X \in SUBSET Nat
    BY DEF X
  <2> QED BY <1>1, <1>2, <2>1, SetInduction
<1> QED BY <1>3

LEMMA Iteration ==
  ASSUME NEW S, NEW x \in S, NEW step \in [S -> S]
  PROVE  \E f \in [Nat -> S] : f[0] = x /\ \A n \in Nat : f[n + 1] = step[f[n]]
<1> DEFINE run(n) == CHOOSE f \in [Nat -> S] : IsRun(f, n, x, step)
<1>1. \A n \in Nat : run(n) \in [Nat -> S] /\ IsRun(run(n), n, x, step)
  BY RunsExist
<1> HIDE DEF run
<1>2. PICK f : f = [n \in Nat |-> run(n)[n]]
  OBVIOUS
<1>3. f \in [Nat -> S]
  BY <1>1, <1>2
<1>4. f[0] = x
  BY <1>1, <1>2 DEF IsRun
<1>5. ASSUME NEW n \in Nat PROVE f[n + 1] = step[f[n]]
  <2>1. IsRun(run(n), n, x, step) /\ IsRun(run(n + 1), n + 1, x, step) /\ n + 1 \in Nat
    BY <1>1
  <2>2. run(n)[n] = run(n + 1)[n]
    <3>1. n <= n /\ n <= n + 1
      OBVIOUS
    <3> QED BY <2>1, <3>1, RunsAgree
  <2>3. run(n + 1)[n + 1] = step[run(n + 1)[n]]
    BY <2>1 DEF IsRun
  <2> QED BY <1>2, <2>1, <2>2, <2>3
<1> QED BY <1>3, <1>4, <1>5

(***************************************************************************)
(* Subsets of a finite set T that grow from step to step stop growing      *)
(* after at most Cardinality(T) steps.                                     *)
(***************************************************************************)
LEMMA Saturation ==
  ASSUME NEW T, IsFiniteSet(T), NEW step \in [SUBSET T -> SUBSET T],
         \A A \in SUBSET T : A \subseteq step[A],
         NEW w \in [Nat -> SUBSET T], \A n \in Nat : w[n + 1] = step[w[n]]
  PROVE  /\ Cardinality(T) \in Nat
         /\ step[w[Cardinality(T)]] = w[Cardinality(T)]
<1>1. Cardinality(T) \in Nat
  BY FS_CardinalityType
<1>2. \A n \in Nat : IsFiniteSet(w[n]) /\ Cardinality(w[n]) \in Nat /\ Cardinality(w[n]) <= Cardinality(T)
                     /\ (Cardinality(w[n]) = Cardinality(T) => w[n] = T)
  <2> TAKE n \in Nat
  <2>1. w[n] \in SUBSET T
    OBVIOUS
  <2> QED BY <2>1, FS_Subset, FS_CardinalityType
<1> DEFINE X == {n \in Nat : step[w[n]] = w[n] \/ n <= Cardinality(w[n])}
<1>3. 0 \in X
  BY <1>2
<1>4. ASSUME NEW n \in X PROVE n + 1 \in X
  <2>1. CASE step[w[n]] = w[n]
    BY <2>1
  <2>2. CASE step[w[n]] # w[n] /\ n <= Cardinality(w[n])
    <3>1. n \in Nat /\ n + 1 \in Nat
      OBVIOUS
    <3>2. w[n] \in SUBSET T /\ w[n + 1] = step[w[n]]
      BY <3>1
    <3>3. w[n] \in SUBSET w[n + 1] /\ w[n] # w[n + 1]
      BY <2>2, <3>2
    <3>4. IsFiniteSet(w[n + 1])
      BY <1>2, <3>1
    <3>5. Cardinality(w[n]) <= Cardinality(w[n + 1]) /\ Cardinality(w[n]) # Cardinality(w[n + 1])
      BY <3>3, <3>4, FS_Subset
    <3>6. PICK a \in Nat : a = Cardinality(w[n])
      BY <1>2, <3>1
    <3>7. PICK b \in Nat : b = Cardinality(w[n + 1])
      BY <1>2, <3>1
    <3>8. n + 1 <= b
      <4>1. n <= a /\ a <= b /\ a # b
        BY <2>2, <3>5, <3>6, <3>7
      <4> HIDE DEF X
      <4> QED BY <3>1, <4>1
    <3> QED BY <3>1, <3>7, <3>8
  <2> QED BY <2>1, <2>2
<1>5. X = Nat
  <2> HIDE DEF X
  <2>1. X \in SUBSET Nat
    BY DEF X
  <2> QED BY <1>3, <1>4, <2>1, SetInduction
<1>6. CASE Cardinality(T) <= Cardinality(w[Cardinality(T)])
  <2>1. Cardinality(w[Cardinality(T)]) = Cardinality(T)
    <3>1. PICK n \in Nat : n = Cardinality(T)
      BY <1>1
    <3>2. PICK a \in Nat : a = Cardinality(w[n])
      BY <1>2
    <3>3. a <= n /\ n <= a
      BY <1>2, <1>6, <3>1, <3>2
    <3>4. a = n
      BY <3>3
    <3> QED BY <3>1, <3>2, <3>4
  <2>2. w[Cardinality(T)] = T
    BY <1>1, <1>2, <2>1
  <2>3. step[T] \in SUBSET T /\ T \subseteq step[T]
    OBVIOUS
  <2> QED BY <1>1, <2>2, <2>3
<1> QED BY <1>1, <1>5, <1>6

(***************************************************************************)
(* The closure of a set under a step that grows and is monotone: it is     *)
(* closed, and the least set that is.                                      *)
(***************************************************************************)
Grows(step, T)    == \A A \in SUBSET T : A \subseteq step[A]
Monotone(step, T) == \A A, B \in SUBSET T : A \subseteq B => step[A] \subseteq step[B]
Iterates(w, step) == \A n \in Nat : w[n + 1] = step[w[n]]

IsClosure(c, x, step, T) ==
  /\ c \in SUBSET T /\ x \subseteq c /\ step[c] = c
  /\ \A C \in SUBSET T : x \subseteq C /\ step[C] \subseteq C => c \subseteq C

LEMMA Closure ==
  ASSUME NEW T, IsFiniteSet(T), NEW step \in [SUBSET T -> SUBSET T],
         Grows(step, T), Monotone(step, T),
         NEW w \in [Nat -> SUBSET T], Iterates(w, step),
         NEW c, c = w[Cardinality(T)]
  PROVE  IsClosure(c, w[0], step, T)
<1> USE DEF Grows, Monotone, Iterates
<1>1. Cardinality(T) \in Nat /\ step[c] = c
  BY Saturation
<1>2. c \in SUBSET T
  BY <1>1
<1>3. w[0] \subseteq c
  <2> DEFINE X == {n \in Nat : w[0] \subseteq w[n]}
  <2>1. 0 \in X
    OBVIOUS
  <2>2. ASSUME NEW n \in X PROVE n + 1 \in X
    <3>1. n \in Nat /\ w[n] \in SUBSET T /\ w[0] \subseteq w[n]
      OBVIOUS
    <3>2. w[n + 1] = step[w[n]] /\ w[n] \subseteq step[w[n]]
      BY <3>1
    <3> QED BY <3>1, <3>2
  <2>3. X = Nat
    <3> HIDE DEF X
    <3>1. X \in SUBSET Nat
      BY DEF X
    <3> QED BY <2>1, <2>2, <3>1, SetInduction
  <2> QED BY <1>1, <2>3
<1>4. ASSUME NEW C \in SUBSET T, w[0] \subseteq C, step[C] \subseteq C
      PROVE  c \subseteq C
  <2> DEFINE X == {n \in Nat : w[n] \subseteq C}
  <2>1. 0 \in X
    BY <1>4
  <2>2. ASSUME NEW n \in X PROVE n + 1 \in X
    <3>1. n \in Nat /\ w[n] \in SUBSET T /\ w[n] \subseteq C
      OBVIOUS
    <3>2. w[n + 1] = step[w[n]] /\ step[w[n]] \subseteq step[C]
      BY <3>1
    <3> QED BY <1>4, <3>1, <3>2
  <2>3. X = Nat
    <3> HIDE DEF X
    <3>1. X \in SUBSET Nat
      BY DEF X
    <3> QED BY <2>1, <2>2, <3>1, SetInduction
  <2> QED BY <1>1, <2>3
<1> QED BY <1>1, <1>2, <1>3, <1>4 DEF IsClosure

(***************************************************************************)
(* What Found computes: the least set of types that holds t and the        *)
(* elements of its members of the given kinds.                             *)
(***************************************************************************)
Into(ts, kinds) == ts \cup UNION {Range(Elems(u)) : u \in {v \in ts : Kind(v) \in kinds}}

\* Elements are types.
LEMMA ElementTypes ==
  ASSUME IsProgram(prog), NEW t \in Types
  PROVE  /\ Elems(t) \in Seq(Types)
         /\ Range(Elems(t)) \subseteq Types
         /\ \A i \in DOMAIN Elems(t) : Elems(t)[i] \in Types /\ Elems(t)[i] \in Range(Elems(t))
<1>1. Elems(t) \in Seq(Types)
  BY DEF IsProgram, Types, Elems
<1>2. \A i \in DOMAIN Elems(t) : Elems(t)[i] \in Types
  BY <1>1
<1> QED BY <1>1, <1>2 DEF Range

\* Found is the value, after as many steps as there are types, of the sets that
\* start with t and take in the elements of their members.
FoundBy(t, kinds, T, step, w) ==
  /\ \A ts \in SUBSET T : step[ts] = Into(ts, kinds)
  /\ w[0] = {t}
  /\ Iterates(w, step)
  /\ Found(t, kinds) = w[Cardinality(T)]

LEMMA FoundIterates ==
  ASSUME IsProgram(prog), NEW T, T = Types, NEW t \in T, NEW kinds
  PROVE  \E step \in [SUBSET T -> SUBSET T] : \E w \in [Nat -> SUBSET T] : FoundBy(t, kinds, T, step, w)
<1>1. \A ts \in SUBSET T : Into(ts, kinds) \in SUBSET T
  <2>1. \A u \in Types : Range(Elems(u)) \subseteq Types
    BY ElementTypes
  <2> QED BY <2>1 DEF Into
<1>2. PICK step : step = [ts \in SUBSET T |-> Into(ts, kinds)]
  OBVIOUS
<1>3. step \in [SUBSET T -> SUBSET T] /\ \A ts \in SUBSET T : step[ts] = Into(ts, kinds)
  BY <1>1, <1>2
<1>4. PICK S : S = SUBSET T
  OBVIOUS
<1>5. PICK x : x = {t}
  OBVIOUS
<1>6. x \in S /\ step \in [S -> S]
  BY <1>3, <1>4, <1>5
<1>7. PICK f \in [Nat -> S] : f[0] = x /\ \A n \in Nat : f[n + 1] = step[f[n]]
  BY <1>6, Iteration
<1> DEFINE Eq(g) == g = [n \in Nat |-> IF n = 0 THEN {t} ELSE Into(g[n - 1], kinds)]
           within == CHOOSE g : Eq(g)
<1>8. Eq(f)
  <2>1. f = [n \in Nat |-> f[n]]
    BY <1>7
  <2>2. ASSUME NEW n \in Nat PROVE f[n] = IF n = 0 THEN {t} ELSE Into(f[n - 1], kinds)
    <3>1. CASE n = 0
      BY <1>5, <1>7, <3>1
    <3>2. CASE n # 0
      <4>1. PICK m : m = n - 1
        OBVIOUS
      <4>2. m \in Nat /\ n = m + 1
        BY <3>2, <4>1
      <4>3. f[m + 1] = step[f[m]] /\ f[m] \in S
        BY <1>7, <4>2
      <4>4. step[f[m]] = Into(f[m], kinds)
        BY <1>3, <1>4, <4>3
      <4> QED BY <3>2, <4>1, <4>2, <4>3, <4>4
    <3> QED BY <3>1, <3>2
  <2> QED BY <2>1, <2>2
<1>9. Eq(within)
  BY <1>8
<1>10. Found(t, kinds) = within[Cardinality(T)]
  BY DEF Found, Into
<1> HIDE DEF within
<1>11. PICK w : w = within
  OBVIOUS
<1>12. w = [n \in Nat |-> IF n = 0 THEN {t} ELSE Into(w[n - 1], kinds)]
  BY <1>9, <1>11
<1>13. w[0] = {t} /\ \A n \in Nat : w[n + 1] = Into(w[n], kinds)
  <2>1. w[0] = {t}
    BY <1>12
  <2>2. ASSUME NEW n \in Nat PROVE w[n + 1] = Into(w[n], kinds)
    <3>1. PICK m : m = n + 1
      OBVIOUS
    <3>2. m \in Nat /\ m # 0 /\ m - 1 = n
      BY <3>1
    <3>3. w[m] = Into(w[m - 1], kinds)
      BY <1>12, <3>2
    <3> QED BY <3>1, <3>2, <3>3
  <2> QED BY <2>1, <2>2
<1> DEFINE X == {n \in Nat : w[n] \in SUBSET T}
<1>14. X = Nat
  <2>1. 0 \in X
    BY <1>13
  <2>2. \A n \in X : n + 1 \in X
    BY <1>1, <1>13
  <2>3. X \in SUBSET Nat
    OBVIOUS
  <2> HIDE DEF X
  <2> QED BY <2>1, <2>2, <2>3, SetInduction
<1>15. w \in [Nat -> SUBSET T]
  <2>1. \A n \in Nat : w[n] \in SUBSET T
    BY <1>14
  <2>2. w = [n \in Nat |-> w[n]]
    BY <1>12
  <2> QED BY <2>1, <2>2
<1>16. \A n \in Nat : w[n + 1] = step[w[n]]
  BY <1>3, <1>13, <1>15
<1>17. FoundBy(t, kinds, T, step, w)
  BY <1>3, <1>10, <1>11, <1>13, <1>16 DEF FoundBy, Iterates
<1> QED BY <1>3, <1>15, <1>17

\* Found is closed, holds t, and is the least such set.
LEMMA FoundCloses ==
  ASSUME IsProgram(prog), NEW t \in Types, NEW kinds
  PROVE  /\ Found(t, kinds) \in SUBSET Types
         /\ t \in Found(t, kinds)
         /\ Into(Found(t, kinds), kinds) = Found(t, kinds)
         /\ \A C \in SUBSET Types : t \in C /\ Into(C, kinds) \subseteq C => Found(t, kinds) \subseteq C
<1>1. PICK T : T = Types
  OBVIOUS
<1>2. t \in T
  BY <1>1
<1>3. PICK step \in [SUBSET T -> SUBSET T], w \in [Nat -> SUBSET T] : FoundBy(t, kinds, T, step, w)
  BY <1>1, <1>2, FoundIterates
<1>4. /\ \A ts \in SUBSET T : step[ts] = Into(ts, kinds)
      /\ w[0] = {t} /\ Iterates(w, step) /\ Found(t, kinds) = w[Cardinality(T)]
  BY <1>3 DEF FoundBy
<1>5. Grows(step, T)
  <2>1. \A A \in SUBSET T : A \subseteq Into(A, kinds)
    BY DEF Into
  <2> QED BY <1>4, <2>1 DEF Grows
<1>6. Monotone(step, T)
  <2>1. \A A, B \in SUBSET T : A \subseteq B => Into(A, kinds) \subseteq Into(B, kinds)
    BY DEF Into
  <2> QED BY <1>4, <2>1 DEF Monotone
<1>7. IsFiniteSet(T)
  BY <1>1 DEF IsProgram, Types
<1>8. PICK c : c = w[Cardinality(T)]
  OBVIOUS
<1>9. IsClosure(c, w[0], step, T)
  BY <1>4, <1>5, <1>6, <1>7, <1>8, Closure
<1> QED BY <1>1, <1>4, <1>8, <1>9 DEF IsClosure

\* The set found from t holds the elements of its members of those kinds.
LEMMA FoundElements ==
  ASSUME IsProgram(prog), NEW t \in Types, NEW kinds, NEW v \in Found(t, kinds), Kind(v) \in kinds
  PROVE  Range(Elems(v)) \subseteq Found(t, kinds)
BY FoundCloses DEF Into

\* What is found from an element is found from the type.
LEMMA FoundThroughElement ==
  ASSUME IsProgram(prog), NEW t \in Types, NEW kinds, Kind(t) \in kinds,
         NEW u \in Range(Elems(t))
  PROVE  u \in Types /\ Found(u, kinds) \subseteq Found(t, kinds)
<1>1. u \in Types
  BY ElementTypes
<1>2. Found(t, kinds) \in SUBSET Types /\ Into(Found(t, kinds), kinds) = Found(t, kinds)
  BY FoundCloses
<1>3. u \in Found(t, kinds)
  BY FoundCloses, FoundElements
<1> QED BY <1>1, <1>2, <1>3, FoundCloses

(***************************************************************************)
(* The invariant of the translation.                                       *)
(***************************************************************************)
StandsFor(id, t) == id \in DOMAIN entry /\ entry[id].llvm = t

Made    == [llvm : Types, operands : Seq(Nat)]
Frame   == [type : Types, todo : SUBSET Nat, args : Seq(Nat), id : Nat, open : BOOLEAN]

\* TypeMap sends a type to one that stands for it, and knows every type made.
MapOK ==
  /\ Mapped \subseteq Types
  /\ \A t \in Mapped : StandsFor(typeMap[t], t)
  /\ \A id \in DOMAIN entry : entry[id].llvm \in Mapped

\* A frame of a struct fills the type it has opened, its early members first; a
\* frame of another type has collected the ids of its first elements.
StructFrame(c) ==
  /\ StandsFor(c.id, c.type)
  /\ c.todo \subseteq DOMAIN Elems(c.type)
  /\ c.open => c.todo \subseteq Early(c.type)

OtherFrame(c) ==
  /\ ~c.open
  /\ Len(c.args) <= Len(Elems(c.type))
  /\ c.todo = (Len(c.args) + 1) .. Len(Elems(c.type))
  /\ \A i \in DOMAIN c.args : StandsFor(c.args[i], Elems(c.type)[i])

FrameOK(c) == IF Kind(c.type) = "struct" THEN StructFrame(c) ELSE OtherFrame(c)

FramesOK == calls \in Seq(Frame) /\ \A k \in DOMAIN calls : FrameOK(calls[k])

\* The frame c will still ask for member i of the type id.
Awaits(c, id, i) ==
  /\ Kind(c.type) = "struct"
  /\ c.id = id
  /\ i \in c.todo \/ (c.open /\ i \in Late(c.type))

\* An operand stands for its element, or a frame will still ask for it.
FilledAt(id) ==
  /\ Len(entry[id].operands) = Len(Elems(entry[id].llvm))
  /\ \A i \in DOMAIN Elems(entry[id].llvm) :
       \/ StandsFor(entry[id].operands[i], Elems(entry[id].llvm)[i])
       \/ \E k \in DOMAIN calls : Awaits(calls[k], id, i)

Filled == \A id \in DOMAIN entry : FilledAt(id)

\* The type graph leads from t to u in one step or more.
LeadsTo(t, u) == \E v \in Range(Elems(t)) : u \in Found(v, Kinds)

\* Each frame was called for a type its callers lead to.
Called == \A m \in DOMAIN calls : \A k \in 1 .. (m - 1) : LeadsTo(calls[k].type, calls[m].type)

\* A type other than a struct that is being made a second time leads to itself.
Again ==
  \A m \in DOMAIN calls :
    Kind(calls[m].type) # "struct" /\ calls[m].type \in Mapped => OnCycle(calls[m].type)

\* A struct that is still open is not found from the types asked for since.
Apart(st, t) ==
  /\ Kind(t) # "function"
  /\ Kind(t) \in {"struct", "pointer", "array"} => st \notin Visited(t)

OpenApart ==
  ~PointersInVectors =>
    \A m \in DOMAIN calls : \A k \in 1 .. (m - 1) :
      calls[k].open => Apart(calls[k].type, calls[m].type)

\* Every type is in TypeVec or still open.
AddedOrOpen ==
  /\ typeVec \in Seq(Nat)
  /\ \A id \in DOMAIN entry :
       id \in Added \/ \E k \in DOMAIN calls : calls[k].open /\ calls[k].id = id

Phases ==
  /\ phase \in {"types", "translated", "unknown id"}
  /\ phase = "translated" => calls = << >>
  /\ status # "idle" => phase = "translated"

TranslationInv ==
  /\ IsProgram(prog)
  /\ entry \in Seq(Made)
  /\ FramesOK
  /\ MapOK
  /\ Filled
  /\ Called
  /\ Again
  /\ OpenApart
  /\ phase = "types" => AddedOrOpen
  /\ Phases
  /\ TwiceOnlyOnCycle
  /\ EveryIdKnown

-----------------------------------------------------------------------------
(***************************************************************************)
(* Facts the steps share.                                                  *)
(***************************************************************************)
LEMMA FirstOf ==
  ASSUME NEW X \in SUBSET Nat, X # {}
  PROVE  Min(X) \in X /\ \A m \in X : Min(X) <= m
BY LeastNumber DEF Min

\* The type graph never changes, and with it nothing that is read off it.
LEMMA ProgKept ==
  ASSUME prog' = prog
  PROVE  /\ IsProgram(prog) => IsProgram(prog)'
         /\ Types' = Types
         /\ \A t : Kind(t)' = Kind(t)
         /\ \A t : Elems(t)' = Elems(t)
         /\ \A t, ks : Found(t, ks)' = Found(t, ks)
<1>1. Types' = Types
  BY DEF Types
<1>2. (\A t : Kind(t)' = Kind(t)) /\ (\A t : Elems(t)' = Elems(t))
  BY DEF Kind, Elems
<1>3. ASSUME NEW t, NEW ks PROVE  Found(t, ks)' = Found(t, ks)
  BY DEF Found, Types, Kind, Elems
<1> QED BY <1>1, <1>2, <1>3

LEMMA ProgKeptMore ==
  ASSUME prog' = prog
  PROVE  /\ \A t : Early(t)' = Early(t) /\ Late(t)' = Late(t)
         /\ \A t, u : LeadsTo(t, u)' <=> LeadsTo(t, u)
         /\ \A t, u : Apart(t, u)' <=> Apart(t, u)
         /\ \A t : OnCycle(t)' <=> OnCycle(t)
         /\ PointersInVectors' <=> PointersInVectors
         /\ Made' = Made /\ Frame' = Frame
<1>1. \A t, u : Recursive(t, u)' <=> Recursive(t, u)
  BY ProgKept DEF Recursive, Visited
<1>2. \A t : Early(t)' = Early(t) /\ Late(t)' = Late(t)
  BY <1>1, ProgKept DEF Early, Late
<1>3. \A t, u : LeadsTo(t, u)' <=> LeadsTo(t, u)
  BY ProgKept DEF LeadsTo
<1>4. \A t, u : Apart(t, u)' <=> Apart(t, u)
  BY ProgKept DEF Apart, Visited
<1>5. \A t : OnCycle(t)' <=> OnCycle(t)
  BY ProgKept DEF OnCycle
<1>6. PointersInVectors' <=> PointersInVectors
  BY ProgKept DEF PointersInVectors
<1>7. Made' = Made /\ Frame' = Frame
  BY ProgKept DEF Made, Frame
<1> QED BY <1>2, <1>3, <1>4, <1>5, <1>6, <1>7

\* The types made are never taken back, and never stand for another type.
EntryGrows ==
  /\ DOMAIN entry \subseteq DOMAIN entry'
  /\ \A id \in DOMAIN entry : entry'[id].llvm = entry[id].llvm

LEMMA GrowsKeeps ==
  ASSUME prog' = prog, EntryGrows
  PROVE  /\ \A id, t : StandsFor(id, t) => StandsFor(id, t)'
         /\ \A c : FrameOK(c) => FrameOK(c)'
         /\ \A c, id, i : Awaits(c, id, i)' <=> Awaits(c, id, i)
<1>1. \A id, t : StandsFor(id, t) => StandsFor(id, t)'
  BY DEF EntryGrows, StandsFor
<1>2. \A c : StructFrame(c) => StructFrame(c)'
  BY <1>1, ProgKept, ProgKeptMore DEF StructFrame
<1>3. \A c : OtherFrame(c) => OtherFrame(c)'
  BY <1>1, ProgKept DEF OtherFrame
<1>4. \A c : FrameOK(c) => FrameOK(c)'
  BY <1>2, <1>3, ProgKept DEF FrameOK
<1>5. \A c, id, i : Awaits(c, id, i)' <=> Awaits(c, id, i)
  BY ProgKept, ProgKeptMore DEF Awaits
<1> QED BY <1>1, <1>4, <1>5

\* The next id is the length of the list of types, plus one.
LEMMA NextIdIs ==
  ASSUME entry \in Seq(Made)
  PROVE  Len(entry) \in Nat /\ DOMAIN entry = 1 .. Len(entry) /\ NextId = Len(entry) + 1
<1>1. Len(entry) \in Nat /\ DOMAIN entry = 1 .. Len(entry)
  OBVIOUS
<1>2. PICK n \in Nat : n = Len(entry)
  BY <1>1
<1>3. Cardinality(1 .. n) = n
  BY FS_Interval
<1> QED BY <1>1, <1>2, <1>3 DEF NextId

LEMMA FrameFields ==
  ASSUME calls \in Seq(Frame), NEW k \in DOMAIN calls
  PROVE  /\ calls[k] \in Frame /\ calls[k].type \in Types /\ calls[k].todo \in SUBSET Nat
         /\ calls[k].args \in Seq(Nat) /\ calls[k].id \in Nat /\ calls[k].open \in BOOLEAN
<1>1. calls[k] \in Frame
  OBVIOUS
<1> QED BY <1>1 DEF Frame

LEMMA EntryFields ==
  ASSUME entry \in Seq(Made), NEW id \in DOMAIN entry
  PROVE  entry[id] \in Made /\ entry[id].llvm \in Types /\ entry[id].operands \in Seq(Nat)
<1>1. entry[id] \in Made
  OBVIOUS
<1> QED BY <1>1 DEF Made

\* Every element of a type is found before the place of any member.
LEMMA KindOfElement ==
  ASSUME IsProgram(prog), NEW t \in Types, NEW u \in Range(Elems(t))
  PROVE  /\ u \in Types /\ Kind(u) \in Kinds /\ Kind(u) # "function"
         /\ Kind(t) \in Kinds /\ Kind(t) # "scalar"
         /\ Kind(t) = "vector" => Kind(u) \in {"scalar", "pointer"}
<1>1. u \in Types /\ Kind(t) \in Kinds /\ Kind(u) \in Kinds
  BY ElementTypes DEF IsProgram, Kind, Types
<1>2. PICK i \in DOMAIN Elems(t) : u = Elems(t)[i]
  BY DEF Range
<1>3. Kind(u) # "function"
  BY <1>2 DEF IsProgram, Kind, Types, Elems
<1>4. Kind(t) # "scalar"
  <2>1. Elems(t) # << >>
    BY <1>2
  <2> QED BY <2>1 DEF IsProgram, Kind, Types, Elems
<1>5. ASSUME Kind(t) = "vector" PROVE Kind(u) \in {"scalar", "pointer"}
  <2>1. Len(Elems(t)) = 1 /\ Kind(Elems(t)[1]) \in {"scalar", "pointer"} /\ Elems(t) \in Seq(Types)
    BY <1>5, ElementTypes DEF IsProgram, Kind, Types, Elems
  <2>2. i = 1
    BY <1>2, <2>1
  <2> QED BY <1>2, <2>1, <2>2
<1> QED BY <1>1, <1>3, <1>4, <1>5

\* LeadsTo takes in one more element.
LEMMA LeadsToElement ==
  ASSUME IsProgram(prog), NEW t \in Types, NEW u \in Types, NEW v \in Range(Elems(u))
  PROVE  /\ LeadsTo(u, v)
         /\ LeadsTo(t, u) => LeadsTo(t, v)
<1>1. v \in Types /\ Kind(u) \in Kinds
  BY KindOfElement
<1>2. LeadsTo(u, v)
  BY <1>1, FoundCloses DEF LeadsTo
<1>3. ASSUME LeadsTo(t, u) PROVE LeadsTo(t, v)
  <2>1. PICK w \in Range(Elems(t)) : u \in Found(w, Kinds)
    BY <1>3 DEF LeadsTo
  <2>2. w \in Types
    BY ElementTypes
  <2>3. v \in Found(w, Kinds)
    BY <1>1, <2>1, <2>2, FoundElements
  <2> QED BY <2>3 DEF LeadsTo
<1> QED BY <1>2, <1>3

-----------------------------------------------------------------------------
(***************************************************************************)
(* What calling, changing the last frame and returning do to the frames.   *)
(***************************************************************************)
Pushes(f) ==
  /\ DOMAIN calls' = 1 .. (Len(calls) + 1)
  /\ calls'[Len(calls) + 1] = f
  /\ \A k \in DOMAIN calls : calls'[k] = calls[k]

LEMMA PushKeeps ==
  ASSUME FramesOK, prog' = prog, EntryGrows, NEW f \in Frame, FrameOK(f)', calls' = Append(calls, f)
  PROVE  FramesOK' /\ Pushes(f)
<1>1. Pushes(f)
  BY DEF Pushes, FramesOK
<1>2. calls' \in Seq(Frame')
  BY ProgKeptMore DEF FramesOK
<1>3. ASSUME NEW k \in DOMAIN calls' PROVE FrameOK(calls[k])'
  <2>1. PICK c : c = calls'[k]
    OBVIOUS
  <2>2. c = f \/ (k \in DOMAIN calls /\ c = calls[k])
    BY <1>1, <2>1 DEF Pushes, FramesOK
  <2>3. FrameOK(c)'
    BY <2>2, GrowsKeeps DEF FramesOK
  <2> QED BY <2>1, <2>3
<1> QED BY <1>1, <1>2, <1>3 DEF FramesOK

\* The last frame goes on as g.
Becomes(g) ==
  /\ DOMAIN calls' = DOMAIN calls
  /\ calls'[Len(calls)] = g
  /\ \A k \in DOMAIN calls : k # Len(calls) => calls'[k] = calls[k]

LEMMA ChangeKeeps ==
  ASSUME FramesOK, prog' = prog, EntryGrows, calls # << >>, NEW g \in Frame, FrameOK(g)',
         calls' = [calls EXCEPT ![Len(calls)] = g]
  PROVE  FramesOK' /\ Becomes(g)
<1>1. Len(calls) \in DOMAIN calls /\ calls \in Seq(Frame)
  BY DEF FramesOK
<1>2. Becomes(g)
  BY <1>1 DEF Becomes
<1>3. calls' \in Seq(Frame')
  BY <1>1, ProgKeptMore
<1>4. ASSUME NEW k \in DOMAIN calls' PROVE FrameOK(calls[k])'
  <2>1. PICK c : c = calls'[k]
    OBVIOUS
  <2>2. c = g \/ (k \in DOMAIN calls /\ c = calls[k])
    BY <1>2, <2>1 DEF Becomes
  <2>3. FrameOK(c)'
    BY <2>2, GrowsKeeps DEF FramesOK
  <2> QED BY <2>1, <2>3
<1> QED BY <1>2, <1>3, <1>4 DEF FramesOK

Pops ==
  /\ DOMAIN calls' = 1 .. (Len(calls) - 1)
  /\ \A k \in DOMAIN calls' : k \in DOMAIN calls /\ calls'[k] = calls[k]

LEMMA PopKeeps ==
  ASSUME FramesOK, prog' = prog, EntryGrows, calls # << >>, calls' = Front(calls)
  PROVE  FramesOK' /\ Pops
<1>1. Len(calls) \in DOMAIN calls /\ calls \in Seq(Frame)
  BY DEF FramesOK
<1>2. Pops
  BY <1>1 DEF Pops, Front
<1>3. calls' \in Seq(Frame')
  BY <1>1, ProgKeptMore DEF Front
<1>4. ASSUME NEW k \in DOMAIN calls' PROVE FrameOK(calls[k])'
  <2>1. PICK c : c = calls'[k]
    OBVIOUS
  <2>2. k \in DOMAIN calls /\ c = calls[k]
    BY <1>2, <2>1 DEF Pops
  <2>3. FrameOK(c)'
    BY <2>2, GrowsKeeps DEF FramesOK
  <2> QED BY <2>1, <2>3
<1> QED BY <1>2, <1>3, <1>4 DEF FramesOK

\* Callers keep leading to the frames they called while no frame is added.
FewerFrames ==
  \A k \in DOMAIN calls' :
    /\ k \in DOMAIN calls
    /\ calls'[k].type = calls[k].type
    /\ calls'[k].open => calls[k].open

LEMMA FewerKeeps ==
  ASSUME calls \in Seq(Frame), calls' \in Seq(Frame'), prog' = prog, FewerFrames, Called, OpenApart
  PROVE  Called' /\ OpenApart'
<1>1. \A m \in DOMAIN calls' : \A k \in 1 .. (m - 1) : k \in DOMAIN calls'
  OBVIOUS
<1>2. ASSUME NEW m \in DOMAIN calls', NEW k \in 1 .. (m - 1)
      PROVE  LeadsTo(calls[k].type, calls[m].type)'
  <2>1. LeadsTo(calls[k].type, calls[m].type)
    BY <1>1 DEF Called, FewerFrames
  <2>2. PICK t, u : t = calls[k].type /\ u = calls[m].type
    OBVIOUS
  <2>3. t = calls'[k].type /\ u = calls'[m].type
    BY <1>1, <2>2 DEF FewerFrames
  <2>4. LeadsTo(t, u)'
    BY <2>1, <2>2, ProgKeptMore
  <2> QED BY <2>3, <2>4
<1>3. ASSUME ~PointersInVectors', NEW m \in DOMAIN calls', NEW k \in 1 .. (m - 1), calls'[k].open
      PROVE  Apart(calls[k].type, calls[m].type)'
  <2>1. Apart(calls[k].type, calls[m].type)
    BY <1>1, <1>3, ProgKeptMore DEF OpenApart, FewerFrames
  <2>2. PICK t, u : t = calls[k].type /\ u = calls[m].type
    OBVIOUS
  <2>3. t = calls'[k].type /\ u = calls'[m].type
    BY <1>1, <2>2 DEF FewerFrames
  <2>4. Apart(t, u)'
    BY <2>1, <2>2, ProgKeptMore
  <2> QED BY <2>3, <2>4
<1> QED BY <1>2, <1>3 DEF Called, OpenApart

LEMMA MoreKeeps ==
  ASSUME calls \in Seq(Frame), prog' = prog, NEW f \in Frame, Pushes(f), Called, OpenApart,
         \A k \in DOMAIN calls : LeadsTo(calls[k].type, f.type),
         ~PointersInVectors => \A k \in DOMAIN calls : calls[k].open => Apart(calls[k].type, f.type)
  PROVE  Called' /\ OpenApart'
<1>1. \A m \in DOMAIN calls' : \A k \in 1 .. (m - 1) :
        k \in DOMAIN calls /\ (m \in DOMAIN calls \/ m = Len(calls) + 1)
  BY DEF Pushes
<1>2. ASSUME NEW m \in DOMAIN calls', NEW k \in 1 .. (m - 1)
      PROVE  LeadsTo(calls[k].type, calls[m].type)'
  <2>1. PICK t, u : t = calls'[k].type /\ u = calls'[m].type
    OBVIOUS
  <2>2. LeadsTo(t, u)
    <3>1. CASE m \in DOMAIN calls
      BY <1>1, <2>1, <3>1 DEF Called, Pushes
    <3>2. CASE m = Len(calls) + 1
      BY <1>1, <2>1, <3>2 DEF Pushes
    <3> QED BY <1>1, <3>1, <3>2
  <2>3. LeadsTo(t, u)'
    BY <2>2, ProgKeptMore
  <2> QED BY <2>1, <2>3
<1>3. ASSUME ~PointersInVectors', NEW m \in DOMAIN calls', NEW k \in 1 .. (m - 1), calls'[k].open
      PROVE  Apart(calls[k].type, calls[m].type)'
  <2>1. PICK t, u : t = calls'[k].type /\ u = calls'[m].type
    OBVIOUS
  <2>2. Apart(t, u)
    <3>1. CASE m \in DOMAIN calls
      BY <1>1, <1>3, <2>1, <3>1, ProgKeptMore DEF OpenApart, Pushes
    <3>2. CASE m = Len(calls) + 1
      BY <1>1, <1>3, <2>1, <3>2, ProgKeptMore DEF Pushes
    <3> QED BY <1>1, <3>1, <3>2
  <2>3. Apart(t, u)'
    BY <2>2, ProgKeptMore
  <2> QED BY <2>1, <2>3
<1> QED BY <1>2, <1>3 DEF Called, OpenApart

-----------------------------------------------------------------------------
(***************************************************************************)
(* What making a type does to the list of types and the map.               *)
(***************************************************************************)
AddsEntry(e) ==
  /\ DOMAIN entry' = 1 .. (Len(entry) + 1)
  /\ entry'[Len(entry) + 1] = e
  /\ \A id \in DOMAIN entry : entry'[id] = entry[id]

LEMMA EntryAdded ==
  ASSUME entry \in Seq(Made), prog' = prog, NEW e \in Made, entry' = Append(entry, e)
  PROVE  AddsEntry(e) /\ EntryGrows /\ entry' \in Seq(Made')
<1>1. AddsEntry(e)
  BY DEF AddsEntry
<1>2. EntryGrows
  BY <1>1 DEF AddsEntry, EntryGrows
<1> QED BY <1>1, <1>2, ProgKeptMore

LEMMA MapKeeps ==
  ASSUME entry \in Seq(Made), MapOK, prog' = prog, NEW e \in Made, AddsEntry(e), EntryGrows,
         MapType(e.llvm, NextId)
  PROVE  MapOK' /\ Mapped' = Mapped \cup {e.llvm}
<1>1. PICK t, n : t = e.llvm /\ n = Len(entry) + 1
  OBVIOUS
<1>2. t \in Types /\ n = NextId /\ n \in DOMAIN entry' /\ entry'[n].llvm = t
  BY <1>1, NextIdIs DEF AddsEntry, Made
<1>3. typeMap' = [u \in Mapped \cup {t} |-> IF u = t THEN n ELSE typeMap[u]]
  BY <1>1, <1>2 DEF MapType
<1>4. DOMAIN typeMap' = Mapped \cup {t}
  BY <1>3
<1>5. ASSUME NEW u \in DOMAIN typeMap' PROVE typeMap'[u] \in DOMAIN entry' /\ entry'[typeMap'[u]].llvm = u
  <2>1. CASE u = t
    BY <1>2, <1>3, <1>4, <2>1
  <2>2. CASE u # t
    <3>1. u \in Mapped /\ typeMap'[u] = typeMap[u]
      BY <1>3, <1>4, <2>2
    <3> QED BY <3>1 DEF MapOK, StandsFor, EntryGrows
  <2> QED BY <2>1, <2>2
<1>6. ASSUME NEW id \in DOMAIN entry' PROVE entry'[id].llvm \in DOMAIN typeMap'
  <2>1. id \in DOMAIN entry \/ id = n
    BY <1>1, NextIdIs DEF AddsEntry
  <2> QED BY <1>2, <1>4, <2>1 DEF MapOK, EntryGrows
<1>7. DOMAIN typeMap' \subseteq Types'
  BY <1>2, <1>4, ProgKept DEF MapOK
<1> QED BY <1>1, <1>4, <1>5, <1>6, <1>7 DEF MapOK, StandsFor, Mapped

LEMMA MapSame ==
  ASSUME MapOK, prog' = prog, EntryGrows, DOMAIN entry' = DOMAIN entry, typeMap' = typeMap
  PROVE  MapOK' /\ Mapped' = Mapped
BY ProgKept DEF MapOK, StandsFor, EntryGrows, Mapped

LEMMA FilledAtKeeps ==
  ASSUME entry \in Seq(Made), prog' = prog, EntryGrows, NEW id \in DOMAIN entry, entry'[id] = entry[id],
         FilledAt(id),
         \A k \in DOMAIN calls : \A i : Awaits(calls[k], id, i) =>
           \E m \in DOMAIN calls' : Awaits(calls'[m], id, i)
  PROVE  FilledAt(id)'
<1>1. PICK e : e = entry[id]
  OBVIOUS
<1>2. Elems(entry[id].llvm)' = Elems(e.llvm) /\ entry'[id] = e
  BY <1>1, ProgKept
<1>3. Len(e.operands) = Len(Elems(e.llvm))
  BY <1>1 DEF FilledAt
<1>4. ASSUME NEW i \in DOMAIN Elems(e.llvm)
      PROVE  \/ StandsFor(e.operands[i], Elems(e.llvm)[i])'
             \/ \E k \in DOMAIN calls' : Awaits(calls[k], id, i)'
  <2>1. CASE StandsFor(e.operands[i], Elems(e.llvm)[i])
    <3>1. PICK o, t : o = e.operands[i] /\ t = Elems(e.llvm)[i]
      OBVIOUS
    <3>2. t = (Elems(e.llvm)[i])'
      BY <3>1, ProgKept
    <3>3. StandsFor(o, t)'
      BY <2>1, <3>1, GrowsKeeps
    <3> QED BY <3>1, <3>2, <3>3
  <2>2. ASSUME NEW k \in DOMAIN calls, Awaits(calls[k], id, i)
        PROVE  \E m \in DOMAIN calls' : Awaits(calls[m], id, i)'
    <3>1. PICK m \in DOMAIN calls' : Awaits(calls'[m], id, i)
      BY <2>2
    <3>2. PICK c : c = calls'[m]
      OBVIOUS
    <3>3. Awaits(c, id, i)'
      BY <3>1, <3>2, GrowsKeeps
    <3> QED BY <3>2, <3>3
  <2> QED BY <1>1, <2>1, <2>2 DEF FilledAt
<1> QED BY <1>1, <1>2, <1>3, <1>4 DEF FilledAt

-----------------------------------------------------------------------------
(***************************************************************************)
(* The invariant through each step of the translation.                     *)
(***************************************************************************)
LEMMA EarlyOrLate ==
  ASSUME NEW t
  PROVE  Early(t) \subseteq DOMAIN Elems(t) /\ Late(t) \subseteq DOMAIN Elems(t)
         /\ DOMAIN Elems(t) = Early(t) \cup Late(t)
BY DEF Early, Late

\* What a type asked for has to do with the frames that are there.
AskedFor(t) ==
  /\ t \in Types
  /\ \A k \in DOMAIN calls : LeadsTo(calls[k].type, t)
  /\ ~PointersInVectors => \A k \in DOMAIN calls : calls[k].open => Apart(calls[k].type, t)

\* A struct is opened: it is mapped and made, with all of its members to come.
LEMMA CallStructKeeps ==
  ASSUME TranslationInv, phase = "types", NEW t, AskedFor(t), Kind(t) = "struct", Call(t),
         UNCHANGED <<prog, typeVec, phase, status>>
  PROVE  TranslationInv'
<1> USE DEF TranslationInv
<1>1. PICK n : n = NextId
  OBVIOUS
<1>2. PICK e : e = [llvm |-> t, operands |-> [i \in DOMAIN Elems(t) |-> 0]]
  OBVIOUS
<1>3. PICK f : f = [type |-> t, todo |-> Early(t), args |-> << >>, id |-> n, open |-> TRUE]
  OBVIOUS
<1>4. /\ t \notin Mapped /\ t \in Types
      /\ entry' = Append(entry, e) /\ calls' = Append(calls, f) /\ MapType(t, n)
  BY <1>1, <1>2, <1>3 DEF Call, MapType, AskedFor
<1>5. /\ Elems(t) \in Seq(Types) /\ n \in Nat /\ n = Len(entry) + 1 /\ Len(entry) \in Nat
      /\ DOMAIN entry = 1 .. Len(entry)
  BY <1>1, <1>4, ElementTypes, NextIdIs
<1>6. e \in Made /\ e.llvm = t /\ Len(e.operands) = Len(Elems(t))
  <2>1. e.operands \in Seq(Nat) /\ Len(e.operands) = Len(Elems(t))
    BY <1>2, <1>5
  <2> QED BY <1>2, <1>4, <2>1 DEF Made
<1>7. /\ f \in Frame
      /\ f.type = t /\ f.todo = Early(t) /\ f.id = n /\ f.open
  <2>1. Early(t) \in SUBSET Nat
    <3>1. DOMAIN Elems(t) \subseteq Nat
      BY <1>5
    <3> QED BY <3>1, EarlyOrLate
  <2>2. << >> \in Seq(Nat)
    OBVIOUS
  <2> QED BY <1>3, <1>4, <1>5, <2>1, <2>2 DEF Frame
<1>8. AddsEntry(e) /\ EntryGrows /\ entry' \in Seq(Made')
  BY <1>4, <1>6, EntryAdded
<1>9. StandsFor(n, t)'
  BY <1>5, <1>6, <1>8 DEF AddsEntry, StandsFor
<1>10. MapOK' /\ Mapped' = Mapped \cup {t}
  BY <1>1, <1>4, <1>6, <1>8, MapKeeps
<1>11. FrameOK(f)'
  <2>1. StandsFor(f.id, f.type)'
    BY <1>7, <1>9
  <2>2. f.todo \subseteq Early(f.type)' /\ f.todo \subseteq DOMAIN Elems(f.type)'
    BY <1>7, EarlyOrLate, ProgKept, ProgKeptMore
  <2> QED BY <1>7, <2>1, <2>2, ProgKept DEF FrameOK, StructFrame
<1>12. FramesOK' /\ Pushes(f)
  BY <1>4, <1>7, <1>8, <1>11, PushKeeps
<1>13. Called' /\ OpenApart'
  BY <1>7, <1>12, MoreKeeps DEF AskedFor, FramesOK
<1>14. \A k \in DOMAIN calls : k \in DOMAIN calls' /\ calls'[k] = calls[k]
  BY <1>12 DEF Pushes, FramesOK
<1>15. Len(calls) + 1 \in DOMAIN calls' /\ calls'[Len(calls) + 1] = f
  BY <1>12 DEF Pushes, FramesOK
<1>16. Filled'
  <2>1. ASSUME NEW id \in DOMAIN entry PROVE FilledAt(id)'
    BY <1>8, <1>14, <2>1, FilledAtKeeps DEF Filled, AddsEntry
  <2>2. FilledAt(n)'
    <3>1. entry'[n] = e /\ Elems(e.llvm)' = Elems(t)
      BY <1>5, <1>6, <1>8, ProgKept DEF AddsEntry
    <3>2. ASSUME NEW i \in DOMAIN Elems(t) PROVE Awaits(f, n, i)'
      <4>1. Awaits(f, n, i)
        BY <1>7, EarlyOrLate DEF Awaits
      <4> QED BY <1>8, <4>1, GrowsKeeps
    <3>3. ASSUME NEW i \in DOMAIN Elems(t) PROVE \E k \in DOMAIN calls' : Awaits(calls[k], n, i)'
      BY <1>15, <3>2
    <3>4. Elems(entry[n].llvm)' = Elems(t)
      BY <3>1, <1>6, ProgKept
    <3> QED BY <1>6, <3>1, <3>3, <3>4 DEF FilledAt
  <2>3. \A id \in DOMAIN entry' : id \in DOMAIN entry \/ id = n
    BY <1>5, <1>8 DEF AddsEntry
  <2> QED BY <2>1, <2>2, <2>3 DEF Filled
<1>17. Again'
  <2>1. ASSUME NEW m \in DOMAIN calls', Kind(calls[m].type)' # "struct", calls'[m].type \in Mapped'
        PROVE  OnCycle(calls[m].type)'
    <3>1. PICK c : c = calls'[m]
      OBVIOUS
    <3>2. Kind(c.type) # "struct"
      BY <2>1, <3>1, ProgKept
    <3>3. c # f /\ m \in DOMAIN calls
      BY <1>7, <1>12, <3>1, <3>2 DEF Pushes, FramesOK
    <3>4. c = calls[m] /\ c.type \in Mapped
      BY <1>7, <1>10, <1>14, <2>1, <3>1, <3>2, <3>3
    <3>5. OnCycle(c.type)
      BY <3>2, <3>3, <3>4 DEF Again
    <3>6. OnCycle(c.type)'
      BY <3>5, ProgKeptMore
    <3> QED BY <3>1, <3>6
  <2> QED BY <2>1 DEF Again
<1>18. AddedOrOpen'
  <2>1. ASSUME NEW id \in DOMAIN entry'
        PROVE  id \in Added' \/ \E k \in DOMAIN calls' : calls'[k].open /\ calls'[k].id = id
    <3>1. CASE id \in DOMAIN entry
      <4>1. Added' = Added
        BY DEF Added
      <4> QED BY <1>14, <3>1, <4>1 DEF AddedOrOpen
    <3>2. CASE id = n
      BY <1>7, <1>15, <3>2
    <3> QED BY <1>5, <1>8, <3>1, <3>2 DEF AddsEntry
  <2> QED BY <2>1 DEF AddedOrOpen
<1>19. TwiceOnlyOnCycle'
  <2>1. ASSUME NEW a \in DOMAIN entry', NEW b \in DOMAIN entry', entry'[a].llvm = entry'[b].llvm, a # b
        PROVE  Code(a)' # "struct" /\ OnCycle(entry[a].llvm)'
    <3>1. a \in DOMAIN entry /\ b \in DOMAIN entry
      <4>1. \A id \in DOMAIN entry : entry'[id].llvm # t
        BY <1>4, <1>8 DEF MapOK, EntryGrows
      <4>2. entry'[n].llvm = t
        BY <1>9 DEF StandsFor
      <4> QED BY <1>5, <1>8, <2>1, <4>1, <4>2 DEF AddsEntry
    <3>2. PICK u : u = entry[a].llvm
      OBVIOUS
    <3>3. u = entry'[a].llvm /\ u = entry[b].llvm
      BY <1>8, <2>1, <3>1, <3>2 DEF EntryGrows
    <3>4. Kind(u) # "struct" /\ OnCycle(u)
      BY <2>1, <3>1, <3>2, <3>3 DEF TwiceOnlyOnCycle, Code
    <3>5. Kind(u)' # "struct" /\ OnCycle(u)'
      BY <3>4, ProgKept, ProgKeptMore
    <3> QED BY <3>3, <3>5 DEF Code
  <2> QED BY <2>1 DEF TwiceOnlyOnCycle
<1>20. Phases' /\ EveryIdKnown'
  BY DEF Phases, EveryIdKnown
<1> QED BY <1>8, <1>10, <1>12, <1>13, <1>16, <1>17, <1>18, <1>19, <1>20, ProgKept

\* No type is made: a type that was made once or twice still is.
LEMMA TwiceSame ==
  ASSUME prog' = prog, EntryGrows, DOMAIN entry' = DOMAIN entry, TwiceOnlyOnCycle
  PROVE  TwiceOnlyOnCycle'
<1>1. ASSUME NEW a \in DOMAIN entry', NEW b \in DOMAIN entry', entry'[a].llvm = entry'[b].llvm, a # b
      PROVE  Code(a)' # "struct" /\ OnCycle(entry[a].llvm)'
  <2>1. PICK u : u = entry[a].llvm
    OBVIOUS
  <2>2. u = entry'[a].llvm /\ u = entry[b].llvm
    BY <1>1, <2>1 DEF EntryGrows
  <2>3. Kind(u) # "struct" /\ OnCycle(u)
    BY <1>1, <2>1, <2>2 DEF TwiceOnlyOnCycle, Code
  <2>4. Kind(u)' # "struct" /\ OnCycle(u)'
    BY <2>3, ProgKept, ProgKeptMore
  <2> QED BY <2>2, <2>4 DEF Code
<1> QED BY <1>1 DEF TwiceOnlyOnCycle

\* The map has not grown: what is made a second time was known to be.
LEMMA AgainSame ==
  ASSUME prog' = prog, Mapped' = Mapped, Again,
         \A m \in DOMAIN calls' :
           \/ m \in DOMAIN calls /\ calls'[m].type = calls[m].type
           \/ calls'[m].type \notin Mapped
  PROVE  Again'
<1>1. ASSUME NEW m \in DOMAIN calls', Kind(calls[m].type)' # "struct", calls'[m].type \in Mapped'
      PROVE  OnCycle(calls[m].type)'
  <2>1. PICK t : t = calls'[m].type
    OBVIOUS
  <2>2. Kind(t) # "struct" /\ t \in Mapped
    BY <1>1, <2>1, ProgKept
  <2>3. OnCycle(t)
    BY <2>1, <2>2 DEF Again
  <2>4. OnCycle(t)'
    BY <2>3, ProgKeptMore
  <2> QED BY <2>1, <2>4
<1> QED BY <1>1 DEF Again

\* A type other than a struct waits for its elements.
LEMMA CallOtherKeeps ==
  ASSUME TranslationInv, phase = "types", NEW t, AskedFor(t), Kind(t) # "struct", Call(t),
         UNCHANGED <<prog, typeVec, phase, status>>
  PROVE  TranslationInv'
<1> USE DEF TranslationInv
<1>1. PICK f : f = [type |-> t, todo |-> DOMAIN Elems(t), args |-> << >>, id |-> 0, open |-> FALSE]
  OBVIOUS
<1>2. /\ t \notin Mapped /\ t \in Types
      /\ entry' = entry /\ typeMap' = typeMap /\ calls' = Append(calls, f)
  BY <1>1 DEF Call, AskedFor
<1>3. Elems(t) \in Seq(Types) /\ DOMAIN Elems(t) = 1 .. Len(Elems(t)) /\ Len(Elems(t)) \in Nat
  BY <1>2, ElementTypes
<1>4. f \in Frame /\ f.type = t /\ f.todo = DOMAIN Elems(t) /\ f.args = << >> /\ ~f.open
  <2>1. DOMAIN Elems(t) \in SUBSET Nat /\ << >> \in Seq(Nat)
    BY <1>3
  <2> QED BY <1>1, <1>2, <2>1 DEF Frame
<1>5. EntryGrows /\ entry' \in Seq(Made')
  BY <1>2, ProgKeptMore DEF EntryGrows
<1>6. MapOK' /\ Mapped' = Mapped
  BY <1>2, <1>5, MapSame
<1>7. FrameOK(f)'
  <2>1. OtherFrame(f)
    BY <1>3, <1>4 DEF OtherFrame
  <2> QED BY <1>4, <1>5, <2>1, GrowsKeeps DEF FrameOK
<1>8. FramesOK' /\ Pushes(f)
  BY <1>2, <1>4, <1>5, <1>7, PushKeeps
<1>9. Called' /\ OpenApart'
  BY <1>4, <1>8, MoreKeeps DEF AskedFor, FramesOK
<1>10. \A k \in DOMAIN calls : k \in DOMAIN calls' /\ calls'[k] = calls[k]
  BY <1>8 DEF Pushes, FramesOK
<1>11. Filled'
  <2>1. ASSUME NEW id \in DOMAIN entry PROVE FilledAt(id)'
    BY <1>2, <1>5, <1>10, FilledAtKeeps DEF Filled
  <2> QED BY <1>2, <2>1 DEF Filled
<1>12. Again'
  <2>1. \A m \in DOMAIN calls' : (m \in DOMAIN calls /\ calls'[m] = calls[m]) \/ calls'[m] = f
    BY <1>8 DEF Pushes, FramesOK
  <2> QED BY <1>2, <1>4, <1>6, <2>1, AgainSame
<1>13. AddedOrOpen'
  BY <1>2, <1>10 DEF AddedOrOpen, Added
<1>14. TwiceOnlyOnCycle'
  BY <1>2, <1>5, TwiceSame
<1>15. Phases' /\ EveryIdKnown'
  BY DEF Phases, EveryIdKnown
<1> QED BY <1>5, <1>6, <1>8, <1>9, <1>11, <1>12, <1>13, <1>14, <1>15, ProgKept

LEMMA CallKeeps ==
  ASSUME TranslationInv, phase = "types", NEW t, AskedFor(t), Call(t),
         UNCHANGED <<prog, typeVec, phase, status>>
  PROVE  TranslationInv'
BY CallStructKeeps, CallOtherKeeps

\* Facts about the last frame.
LEMMA TopIs ==
  ASSUME FramesOK, calls # << >>
  PROVE  /\ Len(calls) \in DOMAIN calls /\ Top = calls[Len(calls)]
         /\ Top \in Frame /\ Top.type \in Types /\ Top.todo \in SUBSET Nat
         /\ Top.args \in Seq(Nat) /\ Top.id \in Nat /\ Top.open \in BOOLEAN
         /\ FrameOK(Top)
<1>1. Len(calls) \in DOMAIN calls /\ calls \in Seq(Frame)
  BY DEF FramesOK
<1> QED BY <1>1, FrameFields DEF Top, FramesOK

LEMMA PlaceIs ==
  ASSUME IsProgram(prog), FramesOK, calls # << >>, Top.todo # {}
  PROVE  /\ Place \in Top.todo /\ Place \in DOMAIN Elems(Top.type)
         /\ Element = Elems(Top.type)[Place]
         /\ Element \in Range(Elems(Top.type)) /\ Element \in Types
         /\ Kind(Top.type) # "struct" => Place = Len(Top.args) + 1
<1>1. Place \in Top.todo /\ \A m \in Top.todo : Place <= m
  BY TopIs, FirstOf DEF Place
<1>2. Top.todo \subseteq DOMAIN Elems(Top.type)
  <2>1. Elems(Top.type) \in Seq(Types) /\ Top.args \in Seq(Nat)
    BY TopIs, ElementTypes
  <2> QED BY <2>1, TopIs DEF FrameOK, StructFrame, OtherFrame
<1>3. Element \in Range(Elems(Top.type)) /\ Element \in Types
  BY <1>1, <1>2, TopIs, ElementTypes DEF Element
<1>4. ASSUME Kind(Top.type) # "struct" PROVE Place = Len(Top.args) + 1
  <2>1. PICK a, b : a = Len(Top.args) /\ b = Len(Elems(Top.type))
    OBVIOUS
  <2>2. a \in Nat /\ b \in Nat
    BY <2>1, TopIs, ElementTypes
  <2>3. Top.todo = (a + 1) .. b
    BY <1>4, <2>1, TopIs DEF FrameOK, OtherFrame
  <2>4. PICK p : p = Place
    OBVIOUS
  <2>5. p \in (a + 1) .. b /\ \A m \in (a + 1) .. b : p <= m
    BY <1>1, <2>3, <2>4
  <2>6. a + 1 \in (a + 1) .. b
    BY <2>2, <2>5
  <2> QED BY <2>1, <2>2, <2>4, <2>5, <2>6
<1> QED BY <1>1, <1>2, <1>3, <1>4 DEF Element

\* A step that leaves the list of types alone keeps what is in TypeVec or open.
LEMMA AddedSame ==
  ASSUME DOMAIN entry' = DOMAIN entry, typeVec' = typeVec, AddedOrOpen,
         \A k \in DOMAIN calls : calls[k].open =>
           \E m \in DOMAIN calls' : calls'[m].open /\ calls'[m].id = calls[k].id
  PROVE  AddedOrOpen'
<1>1. Added' = Added
  BY DEF Added
<1> QED BY <1>1 DEF AddedOrOpen

\* The frame c of a struct becomes g, and the type it fills becomes h: its operand p
\* is x.
MemberTaken(c, p, x, g, h) ==
  /\ calls' = [calls EXCEPT ![Len(calls)] = g]
  /\ g \in Frame /\ g.type = c.type /\ g.todo = c.todo \ {p} /\ g.args = c.args
  /\ g.id = c.id /\ g.open = c.open
  /\ h \in Made /\ h.llvm = c.type /\ Len(h.operands) = Len(Elems(c.type))
  /\ h.operands[p] = x
  /\ \A i \in DOMAIN entry[c.id].operands : i # p => h.operands[i] = entry[c.id].operands[i]
  /\ DOMAIN entry' = DOMAIN entry /\ entry'[c.id] = h
  /\ \A id \in DOMAIN entry : id # c.id => entry'[id] = entry[id]
  /\ entry' \in Seq(Made)

LEMMA TakeMemberIs ==
  ASSUME TranslationInv, Take, NEW c, c = Top, NEW p, p = Place, NEW x, x = typeMap[Element],
         Kind(c.type) = "struct"
  PROVE  /\ calls # << >> /\ c.todo # {} /\ c \in Frame /\ c.type \in Types
         /\ Len(calls) \in DOMAIN calls /\ c = calls[Len(calls)]
         /\ StructFrame(c) /\ p \in c.todo /\ p \in DOMAIN Elems(c.type)
         /\ StandsFor(x, Elems(c.type)[p]) /\ c.id \in DOMAIN entry /\ entry[c.id].llvm = c.type
         /\ entry[c.id].operands \in Seq(Nat)
         /\ Len(entry[c.id].operands) = Len(Elems(c.type))
         /\ \E g, h : MemberTaken(c, p, x, g, h)
<1> USE DEF TranslationInv
<1>1. /\ phase = "types" /\ calls # << >> /\ Top.todo # {} /\ Element \in Mapped
      /\ prog' = prog
  BY DEF Take, Running
<1>5. PICK g : g = [c EXCEPT !.todo = @ \ {p}]
  OBVIOUS
<1>6. /\ calls' = [calls EXCEPT ![Len(calls)] = g]
      /\ entry' = [entry EXCEPT ![c.id].operands[p] = x]
  <2>1. /\ entry' = [entry EXCEPT ![c.id].operands[p] = x]
        /\ calls' = [calls EXCEPT ![Len(calls)].todo = @ \ {p}]
    BY DEF Take
  <2>2. Len(calls) \in DOMAIN calls /\ c = calls[Len(calls)]
    BY <1>1, TopIs
  <2> QED BY <1>5, <2>1, <2>2
<1>7. /\ c \in Frame /\ c.type \in Types /\ c.todo \in SUBSET Nat /\ c.args \in Seq(Nat)
      /\ c.id \in Nat /\ c.open \in BOOLEAN /\ Len(calls) \in DOMAIN calls /\ c = calls[Len(calls)]
  BY <1>1, TopIs
<1>8. StructFrame(c) /\ Kind(c.type) = "struct"
  BY <1>1, TopIs DEF FrameOK
<1>9. /\ p \in c.todo /\ p \in DOMAIN Elems(c.type) /\ Element = Elems(c.type)[p]
  BY <1>1, PlaceIs
<1>10. g \in Frame /\ g.type = c.type /\ g.todo = c.todo \ {p} /\ g.args = c.args
       /\ g.id = c.id /\ g.open = c.open
  BY <1>5, <1>7 DEF Frame
<1>11. c.id \in DOMAIN entry /\ entry[c.id].llvm = c.type
  BY <1>8 DEF StructFrame, StandsFor
<1>12. StandsFor(x, Elems(c.type)[p])
  BY <1>1, <1>9 DEF MapOK
<1>13. PICK e : e = entry[c.id]
  OBVIOUS
<1>14. e \in Made /\ e.llvm = c.type /\ e.operands \in Seq(Nat) /\ Len(e.operands) = Len(Elems(c.type))
  BY <1>11, <1>13, EntryFields DEF Filled, FilledAt
<1>15. PICK h : h = [e EXCEPT !.operands = [@ EXCEPT ![p] = x]]
  OBVIOUS
<1>16. x \in Nat
  BY <1>12, NextIdIs DEF StandsFor
<1>17. p \in DOMAIN e.operands
  <2>1. Elems(c.type) \in Seq(Types)
    BY <1>7, ElementTypes
  <2> QED BY <1>9, <1>14, <2>1
<1>18. /\ h \in Made /\ h.llvm = c.type /\ Len(h.operands) = Len(Elems(c.type))
       /\ h.operands[p] = x /\ \A i \in DOMAIN e.operands : i # p => h.operands[i] = e.operands[i]
  <2>1. PICK o : o = [e.operands EXCEPT ![p] = x]
    OBVIOUS
  <2>2. o \in Seq(Nat) /\ Len(o) = Len(e.operands) /\ o[p] = x
        /\ \A i \in DOMAIN e.operands : i # p => o[i] = e.operands[i]
    BY <1>14, <1>16, <1>17, <2>1
  <2>3. h.operands = o /\ h.llvm = e.llvm /\ h \in Made
    BY <1>14, <1>15, <2>1, <2>2 DEF Made
  <2> QED BY <1>14, <2>2, <2>3
<1>19. entry' = [entry EXCEPT ![c.id] = h]
  BY <1>6, <1>11, <1>13, <1>14, <1>15 DEF Made
<1>20. /\ DOMAIN entry' = DOMAIN entry /\ entry'[c.id] = h
       /\ \A id \in DOMAIN entry : id # c.id => entry'[id] = entry[id]
       /\ entry' \in Seq(Made)
  BY <1>11, <1>18, <1>19
<1>21. MemberTaken(c, p, x, g, h)
  BY <1>6, <1>10, <1>13, <1>18, <1>20 DEF MemberTaken
<1> QED BY <1>1, <1>7, <1>8, <1>9, <1>11, <1>12, <1>13, <1>14, <1>21

\* The member type of a struct arrives.
LEMMA TakeMemberKeeps ==
  ASSUME TranslationInv, Take, Kind(Top.type) = "struct", status' = status
  PROVE  TranslationInv'
<1> USE DEF TranslationInv
<1>1. /\ phase = "types" /\ calls # << >> /\ Top.todo # {} /\ Element \in Mapped
      /\ UNCHANGED <<prog, typeVec, phase, typeMap, status>>
  BY DEF Take, Running
<1>2. PICK c, p, x : c = Top /\ p = Place /\ x = typeMap[Element]
  OBVIOUS
<1>3. PICK g, h : MemberTaken(c, p, x, g, h)
  BY <1>2, TakeMemberIs
<1>6. calls' = [calls EXCEPT ![Len(calls)] = g]
  BY <1>3 DEF MemberTaken
<1>7. /\ c \in Frame /\ c.type \in Types /\ Len(calls) \in DOMAIN calls /\ c = calls[Len(calls)]
  BY <1>2, TakeMemberIs
<1>8. StructFrame(c) /\ Kind(c.type) = "struct"
  BY <1>2, TakeMemberIs
<1>10. g \in Frame /\ g.type = c.type /\ g.todo = c.todo \ {p} /\ g.args = c.args
       /\ g.id = c.id /\ g.open = c.open
  BY <1>3 DEF MemberTaken
<1>11. c.id \in DOMAIN entry /\ entry[c.id].llvm = c.type
  BY <1>2, <1>8, TakeMemberIs
<1>12. StandsFor(x, Elems(c.type)[p])
  BY <1>2, <1>8, TakeMemberIs
<1>13. PICK e : e = entry[c.id]
  OBVIOUS
<1>14. e.llvm = c.type /\ e.operands \in Seq(Nat) /\ Len(e.operands) = Len(Elems(c.type))
  BY <1>2, <1>8, <1>13, TakeMemberIs
<1>18. /\ h \in Made /\ h.llvm = c.type /\ Len(h.operands) = Len(Elems(c.type))
       /\ h.operands[p] = x /\ \A i \in DOMAIN e.operands : i # p => h.operands[i] = e.operands[i]
  BY <1>3, <1>13 DEF MemberTaken
<1>20. /\ DOMAIN entry' = DOMAIN entry /\ entry'[c.id] = h
       /\ \A id \in DOMAIN entry : id # c.id => entry'[id] = entry[id]
       /\ entry' \in Seq(Made)
  BY <1>3 DEF MemberTaken
<1>21. EntryGrows /\ entry' \in Seq(Made')
  <2>1. EntryGrows
    BY <1>13, <1>14, <1>18, <1>20 DEF EntryGrows
  <2> QED BY <1>1, <1>20, <2>1, ProgKeptMore
<1>22. MapOK' /\ Mapped' = Mapped
  BY <1>1, <1>20, <1>21, MapSame
<1>23. FrameOK(g)'
  <2>1. StructFrame(g)
    BY <1>8, <1>10 DEF StructFrame
  <2> QED BY <1>1, <1>8, <1>10, <1>21, <2>1, GrowsKeeps DEF FrameOK
<1>24. FramesOK' /\ Becomes(g)
  BY <1>1, <1>6, <1>10, <1>21, <1>23, ChangeKeeps
<1>25. /\ DOMAIN calls' = DOMAIN calls /\ calls'[Len(calls)] = g
       /\ \A k \in DOMAIN calls : k # Len(calls) => calls'[k] = calls[k]
  BY <1>24 DEF Becomes
<1>26. \A k \in DOMAIN calls : calls'[k].type = calls[k].type /\ calls'[k].open = calls[k].open
                               /\ calls'[k].id = calls[k].id
  BY <1>7, <1>10, <1>25
<1>27. Called' /\ OpenApart'
  BY <1>1, <1>24, <1>25, <1>26, FewerKeeps DEF FewerFrames, FramesOK
<1>28. Filled'
  <2>1. ASSUME NEW id \in DOMAIN entry, id # c.id PROVE FilledAt(id)'
    <3>1. \A k \in DOMAIN calls : \A i : Awaits(calls[k], id, i) => k # Len(calls)
      BY <1>7, <2>1 DEF Awaits
    <3> QED BY <1>1, <1>20, <1>21, <1>25, <2>1, <3>1, FilledAtKeeps DEF Filled
  <2>2. FilledAt(c.id)'
    <3>1. Elems(entry[c.id].llvm)' = Elems(c.type)
      BY <1>1, <1>18, <1>20, ProgKept
    <3>2. ASSUME NEW i \in DOMAIN Elems(c.type)
          PROVE  \/ StandsFor(h.operands[i], Elems(c.type)[i])'
                 \/ \E k \in DOMAIN calls' : Awaits(calls[k], c.id, i)'
      <4>1. CASE i = p
        <5>1. PICK t : t = Elems(c.type)[i]
          OBVIOUS
        <5>2. StandsFor(x, t)' /\ t = (Elems(c.type)[i])'
          BY <1>1, <1>12, <1>21, <4>1, <5>1, GrowsKeeps, ProgKept
        <5> QED BY <1>18, <4>1, <5>1, <5>2
      <4>2. CASE i # p /\ StandsFor(e.operands[i], Elems(c.type)[i])
        <5>1. PICK o, t : o = e.operands[i] /\ t = Elems(c.type)[i]
          OBVIOUS
        <5>2. StandsFor(o, t)' /\ t = (Elems(c.type)[i])'
          BY <1>1, <1>21, <4>2, <5>1, GrowsKeeps, ProgKept
        <5>3. h.operands[i] = o
          <6>1. Elems(c.type) \in Seq(Types)
            BY <1>7, ElementTypes
          <6>2. i \in DOMAIN e.operands
            BY <1>14, <6>1
          <6> QED BY <1>18, <4>2, <5>1, <6>2
        <5> QED BY <5>1, <5>2, <5>3
      <4>3. ASSUME i # p, NEW k \in DOMAIN calls, Awaits(calls[k], c.id, i)
            PROVE  \E m \in DOMAIN calls' : Awaits(calls[m], c.id, i)'
        <5>1. PICK d : d = calls'[k]
          OBVIOUS
        <5>2. Awaits(d, c.id, i)
          <6>1. CASE k = Len(calls)
            BY <1>7, <1>8, <1>10, <1>25, <4>3, <5>1, <6>1 DEF Awaits
          <6>2. CASE k # Len(calls)
            BY <1>25, <4>3, <5>1, <6>2
          <6> QED BY <6>1, <6>2
        <5>3. Awaits(d, c.id, i)'
          BY <1>1, <1>21, <5>2, GrowsKeeps
        <5> QED BY <1>25, <5>1, <5>3
      <4>4. StandsFor(e.operands[i], Elems(c.type)[i]) \/ \E k \in DOMAIN calls : Awaits(calls[k], c.id, i)
        BY <1>11, <1>13, <1>14 DEF Filled, FilledAt
      <4> QED BY <4>1, <4>2, <4>3, <4>4
    <3> QED BY <1>18, <1>20, <3>1, <3>2 DEF FilledAt
  <2> QED BY <1>20, <2>1, <2>2 DEF Filled
<1>29. Again'
  BY <1>1, <1>22, <1>25, <1>26, AgainSame
<1>30. AddedOrOpen'
  BY <1>1, <1>20, <1>25, <1>26, AddedSame
<1>31. TwiceOnlyOnCycle'
  BY <1>1, <1>20, <1>21, TwiceSame
<1>32. Phases' /\ EveryIdKnown'
  BY <1>1 DEF Phases, EveryIdKnown
<1> QED BY <1>1, <1>21, <1>22, <1>24, <1>27, <1>28, <1>29, <1>30, <1>31, <1>32, ProgKept

\* The id of an element arrives at a type that is made later.
LEMMA TakeElementKeeps ==
  ASSUME TranslationInv, Take, Kind(Top.type) # "struct", status' = status
  PROVE  TranslationInv'
<1> USE DEF TranslationInv
<1>1. /\ phase = "types" /\ calls # << >> /\ Top.todo # {} /\ Element \in Mapped
      /\ UNCHANGED <<prog, typeVec, phase, typeMap, entry, status>>
  BY DEF Take, Running
<1>2. PICK c : c = Top
  OBVIOUS
<1>3. PICK p : p = Place
  OBVIOUS
<1>4. PICK x : x = typeMap[Element]
  OBVIOUS
<1>5. PICK g : g = [c EXCEPT !.todo = @ \ {p}, !.args = Append(@, x)]
  OBVIOUS
<1>6. /\ c \in Frame /\ c.type \in Types /\ c.todo \in SUBSET Nat /\ c.args \in Seq(Nat)
      /\ c.id \in Nat /\ c.open \in BOOLEAN /\ Len(calls) \in DOMAIN calls /\ c = calls[Len(calls)]
      /\ calls \in Seq(Frame)
  BY <1>1, <1>2, TopIs DEF FramesOK
<1>7. calls' = [calls EXCEPT ![Len(calls)] = g]
  <2>1. calls' = [[calls EXCEPT ![Len(calls)].todo = @ \ {p}] EXCEPT ![Len(calls)].args = Append(@, x)]
    BY <1>2, <1>3, <1>4 DEF Take
  <2>2. PICK n : n = Len(calls)
    OBVIOUS
  <2>3. PICK b : b = [c EXCEPT !.todo = @ \ {p}]
    OBVIOUS
  <2>4. PICK r : r = [calls EXCEPT ![n] = b]
    OBVIOUS
  <2>5. r = [calls EXCEPT ![n].todo = @ \ {p}] /\ n \in DOMAIN r /\ r[n] = b
    BY <1>6, <2>2, <2>3, <2>4
  <2>6. calls' = [r EXCEPT ![n] = [b EXCEPT !.args = Append(@, x)]]
    BY <2>1, <2>2, <2>5
  <2>7. g = [b EXCEPT !.args = Append(@, x)]
    BY <1>5, <1>6, <2>3 DEF Frame
  <2>8. calls' = [r EXCEPT ![n] = g]
    BY <2>6, <2>7
  <2> QED BY <1>6, <2>2, <2>4, <2>8
<1>8. OtherFrame(c) /\ Kind(c.type) # "struct"
  BY <1>1, <1>2, TopIs DEF FrameOK
<1>9. /\ p \in c.todo /\ p \in DOMAIN Elems(c.type) /\ Element = Elems(c.type)[p] /\ p = Len(c.args) + 1
  BY <1>1, <1>2, <1>3, PlaceIs
<1>10. StandsFor(x, Elems(c.type)[p])
  BY <1>1, <1>4, <1>9 DEF MapOK
<1>11. x \in Nat
  BY <1>10, NextIdIs DEF StandsFor
<1>12. /\ g \in Frame /\ g.type = c.type /\ g.todo = c.todo \ {p} /\ g.args = Append(c.args, x)
       /\ g.id = c.id /\ g.open = c.open
  <2>1. PICK q : q = c.todo \ {p}
    OBVIOUS
  <2>2. PICK a : a = Append(c.args, x)
    OBVIOUS
  <2>3. q \in SUBSET Nat /\ a \in Seq(Nat)
    BY <1>6, <1>11, <2>1, <2>2
  <2>4. g = [c EXCEPT !.todo = q, !.args = a]
    BY <1>5, <1>6, <2>1, <2>2 DEF Frame
  <2> QED BY <1>6, <2>1, <2>2, <2>3, <2>4 DEF Frame
<1>13. OtherFrame(g)
  <2>1. PICK a, b : a = Len(c.args) /\ b = Len(Elems(c.type))
    OBVIOUS
  <2>2. a \in Nat /\ b \in Nat /\ DOMAIN Elems(c.type) = 1 .. b
    BY <1>6, <2>1, ElementTypes
  <2>3. Len(g.args) = a + 1
    BY <1>6, <1>11, <1>12, <2>1
  <2>4. c.todo = (a + 1) .. b /\ p = a + 1 /\ a + 1 <= b
    BY <1>8, <1>9, <2>1, <2>2 DEF OtherFrame
  <2>5. ((a + 1) .. b) \ {a + 1} = ((a + 1) + 1) .. b
    BY <2>2
  <2>6. g.todo = ((a + 1) + 1) .. b
    BY <1>12, <2>4, <2>5
  <2>7. ASSUME NEW i \in DOMAIN g.args PROVE StandsFor(g.args[i], Elems(c.type)[i])
    <3>1. i \in 1 .. (a + 1)
      BY <1>6, <1>11, <1>12, <2>3
    <3>2. CASE i = a + 1
      BY <1>6, <1>10, <1>11, <1>12, <2>1, <2>4, <3>2
    <3>3. CASE i # a + 1
      <4>1. i \in DOMAIN c.args /\ g.args[i] = c.args[i]
        BY <1>6, <1>11, <1>12, <2>1, <3>1, <3>3
      <4> QED BY <1>8, <4>1 DEF OtherFrame
    <3> QED BY <3>2, <3>3
  <2> QED BY <1>8, <1>12, <2>1, <2>3, <2>4, <2>6, <2>7 DEF OtherFrame
<1>14. EntryGrows /\ entry' \in Seq(Made')
  BY <1>1, ProgKeptMore DEF EntryGrows
<1>15. MapOK' /\ Mapped' = Mapped
  BY <1>1, <1>14, MapSame
<1>16. FrameOK(g)'
  BY <1>1, <1>8, <1>12, <1>13, <1>14, GrowsKeeps DEF FrameOK
<1>17. FramesOK' /\ Becomes(g)
  BY <1>1, <1>7, <1>12, <1>14, <1>16, ChangeKeeps
<1>18. /\ DOMAIN calls' = DOMAIN calls /\ calls'[Len(calls)] = g
       /\ \A k \in DOMAIN calls : k # Len(calls) => calls'[k] = calls[k]
  BY <1>17 DEF Becomes
<1>19. \A k \in DOMAIN calls : calls'[k].type = calls[k].type /\ calls'[k].open = calls[k].open
                               /\ calls'[k].id = calls[k].id
  BY <1>6, <1>12, <1>18
<1>20. Called' /\ OpenApart'
  BY <1>1, <1>6, <1>17, <1>18, <1>19, FewerKeeps DEF FewerFrames, FramesOK
<1>21. Filled'
  <2>1. \A k \in DOMAIN calls : \A id, i : Awaits(calls[k], id, i) => calls'[k] = calls[k]
    BY <1>6, <1>8, <1>18 DEF Awaits
  <2>2. ASSUME NEW id \in DOMAIN entry PROVE FilledAt(id)'
    BY <1>1, <1>14, <1>18, <2>1, FilledAtKeeps DEF Filled
  <2> QED BY <1>1, <2>2 DEF Filled
<1>22. Again'
  BY <1>1, <1>15, <1>18, <1>19, AgainSame
<1>23. AddedOrOpen'
  BY <1>1, <1>18, <1>19, AddedSame
<1>24. TwiceOnlyOnCycle'
  BY <1>1, <1>14, TwiceSame
<1>25. Phases' /\ EveryIdKnown'
  BY <1>1 DEF Phases, EveryIdKnown
<1> QED BY <1>1, <1>14, <1>15, <1>17, <1>20, <1>21, <1>22, <1>23, <1>24, <1>25, ProgKept

LEMMA AppendAdds ==
  ASSUME typeVec \in Seq(Nat), NEW n \in Nat, typeVec' = Append(typeVec, n)
  PROVE  Added \cup {n} \subseteq Added'
<1>1. PICK v, w : v = typeVec /\ w = typeVec'
  OBVIOUS
<1>2. v \in Seq(Nat) /\ w = Append(v, n)
  BY <1>1
<1>3. /\ \A i \in DOMAIN v : i \in DOMAIN w /\ w[i] = v[i]
      /\ Len(v) + 1 \in DOMAIN w /\ w[Len(v) + 1] = n
  BY <1>2
<1>4. Range(v) \cup {n} \subseteq Range(w)
  BY <1>3 DEF Range
<1> QED BY <1>1, <1>4 DEF Added

\* A type is made of the ids that have arrived, which stand for its elements; if
\* it had been made before, one of its own elements leads back to it.
LEMMA AddTypeKeeps ==
  ASSUME TranslationInv, AddType, status' = status
  PROVE  TranslationInv'
<1> USE DEF TranslationInv
<1>1. /\ phase = "types" /\ calls # << >> /\ Top.todo = {} /\ Kind(Top.type) # "struct"
      /\ UNCHANGED <<prog, phase, status>>
  BY DEF AddType, Running
<1>2. PICK c : c = Top
  OBVIOUS
<1>3. PICK n : n = NextId
  OBVIOUS
<1>4. PICK e : e = [llvm |-> c.type, operands |-> c.args]
  OBVIOUS
<1>5. /\ entry' = Append(entry, e) /\ typeVec' = Append(typeVec, n) /\ MapType(c.type, n)
      /\ calls' = Front(calls)
  BY <1>2, <1>3, <1>4 DEF AddType
<1>6. /\ c \in Frame /\ c.type \in Types /\ c.args \in Seq(Nat)
      /\ c.open \in BOOLEAN /\ Len(calls) \in DOMAIN calls /\ c = calls[Len(calls)]
      /\ calls \in Seq(Frame)
  BY <1>1, <1>2, TopIs DEF FramesOK
<1>7. OtherFrame(c) /\ Kind(c.type) # "struct"
  BY <1>1, <1>2, TopIs DEF FrameOK
<1>8. Len(c.args) = Len(Elems(c.type)) /\ DOMAIN c.args = DOMAIN Elems(c.type)
  <2>1. PICK a, b : a = Len(c.args) /\ b = Len(Elems(c.type))
    OBVIOUS
  <2>2. a \in Nat /\ b \in Nat /\ DOMAIN Elems(c.type) = 1 .. b /\ DOMAIN c.args = 1 .. a
    BY <1>6, <2>1, ElementTypes
  <2>3. a <= b /\ (a + 1) .. b = {}
    BY <1>1, <1>2, <1>7, <2>1 DEF OtherFrame
  <2>4. a = b
    BY <2>2, <2>3
  <2> QED BY <2>1, <2>2, <2>4
<1>9. n = Len(entry) + 1 /\ Len(entry) \in Nat /\ DOMAIN entry = 1 .. Len(entry)
  BY <1>3, NextIdIs
<1>10. e \in Made /\ e.llvm = c.type /\ e.operands = c.args
  BY <1>4, <1>6 DEF Made
<1>11. AddsEntry(e) /\ EntryGrows /\ entry' \in Seq(Made')
  BY <1>1, <1>5, <1>10, EntryAdded
<1>12. MapOK' /\ Mapped' = Mapped \cup {c.type}
  BY <1>1, <1>3, <1>5, <1>10, <1>11, MapKeeps
<1>13. FramesOK' /\ Pops
  BY <1>1, <1>5, <1>11, PopKeeps
<1>14. /\ DOMAIN calls' = 1 .. (Len(calls) - 1)
       /\ \A k \in DOMAIN calls' : k \in DOMAIN calls /\ calls'[k] = calls[k]
       /\ \A k \in DOMAIN calls : k # Len(calls) => k \in DOMAIN calls' /\ calls'[k] = calls[k]
  BY <1>6, <1>13 DEF Pops
<1>15. Called' /\ OpenApart'
  BY <1>1, <1>6, <1>13, <1>14, FewerKeeps DEF FewerFrames, FramesOK
<1>16. Filled'
  <2>1. \A k \in DOMAIN calls : \A id, i : Awaits(calls[k], id, i) => k \in DOMAIN calls' /\ calls'[k] = calls[k]
    BY <1>6, <1>7, <1>14 DEF Awaits
  <2>2. ASSUME NEW id \in DOMAIN entry PROVE FilledAt(id)'
    BY <1>1, <1>11, <2>1, FilledAtKeeps DEF Filled, AddsEntry
  <2>3. FilledAt(n)'
    <3>1. entry'[n] = e /\ Elems(entry[n].llvm)' = Elems(c.type)
      BY <1>1, <1>9, <1>10, <1>11, ProgKept DEF AddsEntry
    <3>2. ASSUME NEW i \in DOMAIN Elems(c.type) PROVE StandsFor(c.args[i], Elems(c.type)[i])'
      <4>1. PICK o, t : o = c.args[i] /\ t = Elems(c.type)[i]
        OBVIOUS
      <4>2. StandsFor(o, t)
        BY <1>7, <1>8, <4>1 DEF OtherFrame
      <4>3. StandsFor(o, t)' /\ t = (Elems(c.type)[i])'
        BY <1>1, <1>11, <4>1, <4>2, GrowsKeeps, ProgKept
      <4> QED BY <4>1, <4>3
    <3> QED BY <1>8, <1>10, <3>1, <3>2 DEF FilledAt
  <2>4. \A id \in DOMAIN entry' : id \in DOMAIN entry \/ id = n
    BY <1>9, <1>11 DEF AddsEntry
  <2> QED BY <2>2, <2>3, <2>4 DEF Filled
<1>17. Again'
  <2>1. ASSUME NEW m \in DOMAIN calls', Kind(calls[m].type)' # "struct", calls'[m].type \in Mapped'
        PROVE  OnCycle(calls[m].type)'
    <3>1. PICK t : t = calls'[m].type
      OBVIOUS
    <3>2. Kind(t) # "struct" /\ m \in DOMAIN calls /\ t = calls[m].type
      BY <1>1, <1>14, <2>1, <3>1, ProgKept
    <3>3. OnCycle(t)
      <4>1. CASE t = c.type
        <5>1. m \in 1 .. (Len(calls) - 1)
          BY <1>14
        <5>2. LeadsTo(t, t)
          BY <1>6, <3>2, <4>1, <5>1 DEF Called
        <5> QED BY <5>2 DEF LeadsTo, OnCycle
      <4>2. CASE t # c.type
        BY <1>12, <2>1, <3>1, <3>2, <4>2 DEF Again
      <4> QED BY <4>1, <4>2
    <3>4. OnCycle(t)'
      BY <1>1, <3>3, ProgKeptMore
    <3> QED BY <3>1, <3>4
  <2> QED BY <2>1 DEF Again
<1>18. AddedOrOpen'
  <2>0. typeVec \in Seq(Nat) /\ typeVec' \in Seq(Nat)
    BY <1>1, <1>5, <1>9 DEF AddedOrOpen
  <2>1. Added \cup {n} \subseteq Added'
    BY <1>5, <1>9, <2>0, AppendAdds
  <2>2. ASSUME NEW id \in DOMAIN entry'
        PROVE  id \in Added' \/ \E k \in DOMAIN calls' : calls'[k].open /\ calls'[k].id = id
    <3>1. CASE id = n
      BY <2>1, <3>1
    <3>2. CASE id \in DOMAIN entry
      <4>1. \A k \in DOMAIN calls : calls[k].open => k # Len(calls)
        BY <1>6, <1>7 DEF OtherFrame
      <4> QED BY <1>1, <1>14, <2>1, <3>2, <4>1 DEF AddedOrOpen
    <3> QED BY <1>9, <1>11, <3>1, <3>2 DEF AddsEntry
  <2> QED BY <2>0, <2>2 DEF AddedOrOpen
<1>19. TwiceOnlyOnCycle'
  <2>1. ASSUME c.type \in Mapped PROVE OnCycle(c.type)
    BY <1>6, <1>7, <2>1 DEF Again
  <2>2. entry'[n].llvm = c.type /\ \A id \in DOMAIN entry' : id \in DOMAIN entry \/ id = n
    BY <1>9, <1>10, <1>11 DEF AddsEntry
  <2>3. ASSUME NEW a \in DOMAIN entry', NEW b \in DOMAIN entry', entry'[a].llvm = entry'[b].llvm, a # b
        PROVE  Code(a)' # "struct" /\ OnCycle(entry[a].llvm)'
    <3>1. PICK u : u = entry'[a].llvm
      OBVIOUS
    <3>2. Kind(u) # "struct" /\ OnCycle(u)
      <4>1. CASE a \in DOMAIN entry /\ b \in DOMAIN entry
        BY <1>11, <2>3, <3>1, <4>1 DEF TwiceOnlyOnCycle, Code, EntryGrows
      <4>2. CASE a = n \/ b = n
        <5>1. u = c.type
          BY <2>2, <2>3, <3>1, <4>2
        <5>2. u \in Mapped
          <6>1. CASE a \in DOMAIN entry
            BY <1>11, <3>1, <6>1 DEF MapOK, EntryGrows
          <6>2. CASE b \in DOMAIN entry
            BY <1>11, <2>3, <3>1, <6>2 DEF MapOK, EntryGrows
          <6> QED BY <2>2, <2>3, <6>1, <6>2
        <5> QED BY <1>7, <2>1, <5>1, <5>2
      <4> QED BY <2>2, <4>1, <4>2
    <3>3. Kind(u)' # "struct" /\ OnCycle(u)'
      BY <1>1, <3>2, ProgKept, ProgKeptMore
    <3> QED BY <3>1, <3>3 DEF Code
  <2> QED BY <2>3 DEF TwiceOnlyOnCycle
<1>20. Phases' /\ EveryIdKnown'
  BY <1>1 DEF Phases, EveryIdKnown
<1> QED BY <1>1, <1>11, <1>12, <1>13, <1>15, <1>16, <1>17, <1>18, <1>19, <1>20, ProgKept

\* A step that leaves the types and the frames alone.
LEMMA SameTypesKeep ==
  ASSUME TranslationInv, UNCHANGED <<prog, calls, typeMap, entry>>, Phases', EveryIdKnown',
         phase' = "types" => phase = "types" /\ typeVec' = typeVec
  PROVE  TranslationInv'
<1> USE DEF TranslationInv
<1>1. EntryGrows /\ DOMAIN entry' = DOMAIN entry /\ calls \in Seq(Frame)
  BY DEF EntryGrows, FramesOK
<1>2. FramesOK'
  <2>1. ASSUME NEW m \in DOMAIN calls' PROVE FrameOK(calls[m])'
    <3>1. PICK d : d = calls[m]
      OBVIOUS
    <3>2. FrameOK(d)'
      BY <1>1, <3>1, GrowsKeeps DEF FramesOK
    <3> QED BY <3>1, <3>2
  <2> QED BY <1>1, <2>1, ProgKeptMore DEF FramesOK
<1>3. MapOK' /\ Mapped' = Mapped
  BY <1>1, MapSame
<1>4. Called' /\ OpenApart'
  BY <1>1, <1>2, FewerKeeps DEF FewerFrames, FramesOK
<1>5. Filled'
  <2>1. ASSUME NEW id \in DOMAIN entry PROVE FilledAt(id)'
    BY <1>1, FilledAtKeeps DEF Filled
  <2> QED BY <2>1 DEF Filled
<1>6. Again'
  BY <1>3, AgainSame
<1>7. TwiceOnlyOnCycle'
  BY <1>1, TwiceSame
<1>8. entry' \in Seq(Made')
  BY ProgKeptMore
<1>9. phase' = "types" => AddedOrOpen'
  BY <1>1, AddedSame
<1> QED BY <1>2, <1>3, <1>4, <1>5, <1>6, <1>7, <1>8, <1>9, ProgKept

\* An id that is in no map would be a struct's that is still open; recursiveType()
\* has kept its pointers for later.
LEMMA AddTypeUnknownIdKeeps ==
  ASSUME TranslationInv, AddTypeUnknownId, status' = status
  PROVE  TranslationInv'
<1> USE DEF TranslationInv
<1>1. /\ phase = "types" /\ calls # << >> /\ Top.todo = {} /\ Kind(Top.type) # "struct"
      /\ ~Resolves(Top.type, Top.args) /\ phase' = "unknown id"
      /\ UNCHANGED <<prog, calls, typeMap, entry, typeVec, status>>
  BY DEF AddTypeUnknownId, Running
<1>2. PICK c : c = Top
  OBVIOUS
<1>3. /\ c \in Frame /\ c.type \in Types /\ c.args \in Seq(Nat)
      /\ c.open \in BOOLEAN /\ Len(calls) \in DOMAIN calls /\ c = calls[Len(calls)]
      /\ calls \in Seq(Frame)
  BY <1>1, <1>2, TopIs DEF FramesOK
<1>4. OtherFrame(c) /\ Kind(c.type) = "pointer" /\ c.args[1] \notin Added
  BY <1>1, <1>2, TopIs DEF FrameOK, Resolves
<1>5. Elems(c.type) \in Seq(Types) /\ Len(Elems(c.type)) = 1
  BY <1>3, <1>4, ElementTypes DEF IsProgram, Kind, Elems, Types
<1>6. 1 \in DOMAIN c.args
  <2>1. PICK a : a = Len(c.args)
    OBVIOUS
  <2>2. a \in Nat /\ DOMAIN c.args = 1 .. a
    BY <1>3, <2>1
  <2>3. a <= 1 /\ (a + 1) .. 1 = {}
    BY <1>1, <1>2, <1>4, <1>5, <2>1 DEF OtherFrame
  <2> QED BY <2>2, <2>3
<1>7. PICK st : st = Elems(c.type)[1]
  OBVIOUS
<1>8. StandsFor(c.args[1], st)
  BY <1>4, <1>6, <1>7 DEF OtherFrame
<1>9. st \in Types /\ st \in Range(Elems(c.type))
  BY <1>3, <1>5, <1>7, ElementTypes
<1>10. PICK k \in DOMAIN calls : calls[k].open /\ calls[k].id = c.args[1]
  BY <1>1, <1>4, <1>8 DEF AddedOrOpen, StandsFor
<1>11. k \in 1 .. (Len(calls) - 1)
  <2>1. k # Len(calls)
    BY <1>3, <1>4, <1>10 DEF OtherFrame
  <2> QED BY <1>3, <2>1
<1>12. calls[k].type = st
  BY <1>8, <1>10 DEF FramesOK, FrameOK, OtherFrame, StructFrame, StandsFor
<1>13. ASSUME ~PointersInVectors PROVE FALSE
  <2>1. Apart(st, c.type)
    BY <1>3, <1>10, <1>11, <1>12, <1>13 DEF OpenApart
  <2>2. st \notin Visited(c.type)
    BY <1>4, <2>1 DEF Apart
  <2>3. st \in Visited(c.type)
    BY <1>3, <1>4, <1>9, FoundCloses, FoundElements DEF Visited
  <2> QED BY <2>2, <2>3
<1>14. Phases' /\ EveryIdKnown'
  BY <1>1, <1>13, ProgKeptMore DEF Phases, EveryIdKnown
<1> QED BY <1>1, <1>14, SameTypesKeep

\* The struct is added; its late members take the place of the early ones.
LEMMA CloseStructKeeps ==
  ASSUME TranslationInv, CloseStruct, status' = status
  PROVE  TranslationInv'
<1> USE DEF TranslationInv
<1>1. /\ phase = "types" /\ calls # << >> /\ Top.todo = {} /\ Top.open
      /\ UNCHANGED <<prog, phase, typeMap, entry, status>>
  BY DEF CloseStruct, Running
<1>2. PICK c : c = Top
  OBVIOUS
<1>3. PICK g : g = [c EXCEPT !.open = FALSE, !.todo = Late(c.type)]
  OBVIOUS
<1>4. /\ c \in Frame /\ c.type \in Types /\ c.todo \in SUBSET Nat /\ c.args \in Seq(Nat)
      /\ c.id \in Nat /\ c.open \in BOOLEAN /\ Len(calls) \in DOMAIN calls /\ c = calls[Len(calls)]
      /\ calls \in Seq(Frame)
  BY <1>1, <1>2, TopIs DEF FramesOK
<1>5. calls' = [calls EXCEPT ![Len(calls)] = g] /\ typeVec' = Append(typeVec, c.id)
  <2>1. /\ calls' = [calls EXCEPT ![Len(calls)].open = FALSE, ![Len(calls)].todo = Late(c.type)]
        /\ typeVec' = Append(typeVec, c.id)
    BY <1>2 DEF CloseStruct
  <2>2. PICK n : n = Len(calls)
    OBVIOUS
  <2>3. PICK l : l = Late(c.type)
    OBVIOUS
  <2>4. calls' = [calls EXCEPT ![n].open = FALSE, ![n].todo = l]
    BY <2>1, <2>2, <2>3
  <2>5. g = [c EXCEPT !.open = FALSE, !.todo = l]
    BY <1>3, <2>3
  <2>6. calls' = [calls EXCEPT ![n] = g]
    BY <1>4, <2>2, <2>4, <2>5
  <2> QED BY <2>1, <2>2, <2>6
<1>6. StructFrame(c) /\ Kind(c.type) = "struct" /\ c.open /\ c.todo = {}
  BY <1>1, <1>2, TopIs DEF FrameOK, OtherFrame
<1>7. Late(c.type) \subseteq DOMAIN Elems(c.type) /\ Late(c.type) \in SUBSET Nat
  <2>1. Elems(c.type) \in Seq(Types)
    BY <1>4, ElementTypes
  <2>2. DOMAIN Elems(c.type) \in SUBSET Nat
    BY <2>1
  <2> QED BY <2>2, EarlyOrLate
<1>8. /\ g \in Frame /\ g.type = c.type /\ g.todo = Late(c.type) /\ g.id = c.id /\ g.open = FALSE
  BY <1>3, <1>4, <1>7 DEF Frame
<1>9. EntryGrows /\ entry' \in Seq(Made')
  BY <1>1, ProgKeptMore DEF EntryGrows
<1>10. MapOK' /\ Mapped' = Mapped
  BY <1>1, <1>9, MapSame
<1>11. FrameOK(g)'
  <2>1. StructFrame(g)
    BY <1>6, <1>7, <1>8 DEF StructFrame
  <2> QED BY <1>1, <1>6, <1>8, <1>9, <2>1, GrowsKeeps DEF FrameOK
<1>12. FramesOK' /\ Becomes(g)
  BY <1>1, <1>5, <1>8, <1>9, <1>11, ChangeKeeps
<1>13. /\ DOMAIN calls' = DOMAIN calls /\ calls'[Len(calls)] = g
       /\ \A k \in DOMAIN calls : k # Len(calls) => calls'[k] = calls[k]
  BY <1>12 DEF Becomes
<1>14. \A k \in DOMAIN calls : calls'[k].type = calls[k].type /\ (calls'[k].open => calls[k].open)
  BY <1>4, <1>8, <1>13
<1>15. Called' /\ OpenApart'
  BY <1>1, <1>4, <1>12, <1>13, <1>14, FewerKeeps DEF FewerFrames, FramesOK
<1>16. Filled'
  <2>1. \A k \in DOMAIN calls : \A id, i : Awaits(calls[k], id, i) => Awaits(calls'[k], id, i)
    <3>1. \A id, i : Awaits(c, id, i) => Awaits(g, id, i)
      BY <1>6, <1>8 DEF Awaits
    <3> QED BY <1>4, <1>13, <3>1
  <2>2. ASSUME NEW id \in DOMAIN entry PROVE FilledAt(id)'
    BY <1>1, <1>9, <1>13, <2>1, FilledAtKeeps DEF Filled
  <2> QED BY <1>1, <2>2 DEF Filled
<1>17. Again'
  BY <1>1, <1>10, <1>13, <1>14, AgainSame
<1>18. AddedOrOpen'
  <2>0. typeVec \in Seq(Nat) /\ typeVec' \in Seq(Nat)
    BY <1>1, <1>4, <1>5 DEF AddedOrOpen
  <2>1. Added \cup {c.id} \subseteq Added'
    BY <1>4, <1>5, <2>0, AppendAdds
  <2>2. ASSUME NEW id \in DOMAIN entry, id # c.id
        PROVE  id \in Added' \/ \E k \in DOMAIN calls' : calls'[k].open /\ calls'[k].id = id
    BY <1>1, <1>4, <1>13, <2>1, <2>2 DEF AddedOrOpen
  <2> QED BY <1>1, <2>0, <2>1, <2>2 DEF AddedOrOpen
<1>19. TwiceOnlyOnCycle'
  BY <1>1, <1>9, TwiceSame
<1>20. Phases' /\ EveryIdKnown'
  BY <1>1 DEF Phases, EveryIdKnown
<1> QED BY <1>1, <1>9, <1>10, <1>12, <1>15, <1>16, <1>17, <1>18, <1>19, <1>20, ProgKept

\* The struct is complete: nothing waited for its frame.
LEMMA ReturnStructKeeps ==
  ASSUME TranslationInv, ReturnStruct, status' = status
  PROVE  TranslationInv'
<1> USE DEF TranslationInv
<1>1. /\ phase = "types" /\ calls # << >> /\ Top.todo = {} /\ ~Top.open /\ calls' = Front(calls)
      /\ UNCHANGED <<prog, phase, typeMap, entry, typeVec, status>>
  BY DEF ReturnStruct, Running
<1>2. PICK c : c = Top
  OBVIOUS
<1>3. /\ Len(calls) \in DOMAIN calls /\ c = calls[Len(calls)] /\ calls \in Seq(Frame)
  BY <1>1, <1>2, TopIs DEF FramesOK
<1>4. EntryGrows /\ entry' \in Seq(Made')
  BY <1>1, ProgKeptMore DEF EntryGrows
<1>5. MapOK' /\ Mapped' = Mapped
  BY <1>1, <1>4, MapSame
<1>6. FramesOK' /\ Pops
  BY <1>1, <1>4, PopKeeps
<1>7. /\ DOMAIN calls' = 1 .. (Len(calls) - 1)
      /\ \A k \in DOMAIN calls' : k \in DOMAIN calls /\ calls'[k] = calls[k]
      /\ \A k \in DOMAIN calls : k # Len(calls) => k \in DOMAIN calls' /\ calls'[k] = calls[k]
  BY <1>3, <1>6 DEF Pops
<1>8. Called' /\ OpenApart'
  BY <1>1, <1>3, <1>6, <1>7, FewerKeeps DEF FewerFrames, FramesOK
<1>9. Filled'
  <2>1. \A k \in DOMAIN calls : \A id, i : Awaits(calls[k], id, i) => k \in DOMAIN calls' /\ calls'[k] = calls[k]
    BY <1>1, <1>2, <1>3, <1>7 DEF Awaits
  <2>2. ASSUME NEW id \in DOMAIN entry PROVE FilledAt(id)'
    BY <1>1, <1>4, <2>1, FilledAtKeeps DEF Filled
  <2> QED BY <1>1, <2>2 DEF Filled
<1>10. Again'
  BY <1>1, <1>5, <1>7, AgainSame
<1>11. AddedOrOpen'
  BY <1>1, <1>2, <1>3, <1>7, AddedSame
<1>12. TwiceOnlyOnCycle'
  BY <1>1, <1>4, TwiceSame
<1>13. Phases' /\ EveryIdKnown'
  BY <1>1 DEF Phases, EveryIdKnown
<1> QED BY <1>1, <1>4, <1>5, <1>6, <1>8, <1>9, <1>10, <1>11, <1>12, <1>13, ProgKept

LEMMA RootsAreTypes ==
  ASSUME IsProgram(prog), asked \in Nat, asked < Len(prog.roots)
  PROVE  prog.roots[asked + 1] \in Types
<1>1. prog.roots \in Seq(Types)
  BY DEF IsProgram, Types
<1> QED BY <1>1

\* A global or a function asks for its type: no frame is there.
LEMMA RootKeeps ==
  ASSUME TranslationInv, asked \in Nat, Root, status' = status
  PROVE  TranslationInv'
<1> USE DEF TranslationInv
<1>1. /\ phase = "types" /\ calls = << >> /\ asked < Len(prog.roots)
      /\ UNCHANGED <<prog, typeVec, forward, phase, status>>
  BY DEF Root
<1>2. PICK t : t = prog.roots[asked + 1]
  OBVIOUS
<1>3. CASE t \in Mapped
  <2>1. UNCHANGED <<calls, entry, typeMap>>
    BY <1>2, <1>3 DEF Root
  <2>2. Phases' /\ EveryIdKnown'
    BY <1>1 DEF Phases, EveryIdKnown
  <2> QED BY <1>1, <2>1, <2>2, SameTypesKeep
<1>4. CASE t \notin Mapped
  <2>1. Call(t)
    BY <1>2, <1>4 DEF Root
  <2>2. t \in Types
    BY <1>1, <1>2, RootsAreTypes
  <2>3. AskedFor(t)
    BY <1>1, <2>2 DEF AskedFor
  <2> QED BY <1>1, <2>1, <2>3, CallKeeps
<1> QED BY <1>3, <1>4

\* An element is asked for: the frames lead to it, and those of open structs only
\* ask for what does not lead back to them.
LEMMA DescendKeeps ==
  ASSUME TranslationInv, Descend, status' = status
  PROVE  TranslationInv'
<1> USE DEF TranslationInv
<1>1. /\ phase = "types" /\ calls # << >> /\ Top.todo # {} /\ Call(Element)
      /\ UNCHANGED <<prog, typeVec, forward, phase, status>>
  BY DEF Descend, Running
<1>2. PICK c : c = Top
  OBVIOUS
<1>3. PICK v : v = Element
  OBVIOUS
<1>4. /\ c.type \in Types /\ Len(calls) \in DOMAIN calls /\ c = calls[Len(calls)]
      /\ calls \in Seq(Frame) /\ FrameOK(c)
  BY <1>1, <1>2, TopIs DEF FramesOK
<1>5. PICK p : p = Place
  OBVIOUS
<1>6. v \in Range(Elems(c.type)) /\ v \in Types /\ p \in c.todo /\ v = Elems(c.type)[p]
  BY <1>1, <1>2, <1>3, <1>5, PlaceIs
<1>7. \A k \in DOMAIN calls : k # Len(calls) => k \in 1 .. (Len(calls) - 1)
  BY <1>4
<1>8. /\ Kind(v) \in Kinds /\ Kind(v) # "function" /\ Kind(c.type) \in Kinds /\ Kind(c.type) # "scalar"
      /\ Kind(c.type) = "vector" => Kind(v) \in {"scalar", "pointer"}
  BY <1>4, <1>6, KindOfElement
<1>9. ASSUME NEW k \in DOMAIN calls PROVE LeadsTo(calls[k].type, v)
  <2>1. CASE k = Len(calls)
    BY <1>4, <1>6, <2>1, LeadsToElement
  <2>2. CASE k # Len(calls)
    <3>1. LeadsTo(calls[k].type, c.type)
      BY <1>4, <1>7, <2>2 DEF Called
    <3>2. calls[k].type \in Types
      BY <1>4, FrameFields
    <3> QED BY <1>4, <1>6, <3>1, <3>2, LeadsToElement
  <2> QED BY <2>1, <2>2
<1>10. ASSUME ~PointersInVectors, NEW k \in DOMAIN calls, calls[k].open PROVE Apart(calls[k].type, v)
  <2>1. CASE k = Len(calls)
    <3>1. Kind(c.type) = "struct" /\ p \in Early(c.type)
      BY <1>4, <1>6, <1>10, <2>1 DEF FrameOK, OtherFrame, StructFrame
    <3>2. ~Recursive(c.type, v)
      BY <1>6, <3>1 DEF Early
    <3> QED BY <1>4, <1>8, <2>1, <3>2 DEF Recursive, Apart
  <2>2. CASE k # Len(calls)
    <3>1. PICK st : st = calls[k].type
      OBVIOUS
    <3>2. Apart(st, c.type)
      BY <1>4, <1>7, <1>10, <2>2, <3>1 DEF OpenApart
    <3>3. CASE Kind(c.type) = "vector"
      <4>1. Kind(v) # "pointer"
        <5>1. Len(Elems(c.type)) = 1 /\ Elems(c.type) \in Seq(Types)
          BY <1>4, <3>3, ElementTypes DEF IsProgram, Kind, Elems, Types
        <5>2. p = 1
          <6>1. PICK i \in DOMAIN Elems(c.type) : i = p
            BY <1>1, <1>2, <1>5, PlaceIs
          <6> QED BY <5>1, <6>1
        <5> QED BY <1>4, <1>6, <1>10, <3>3, <5>2 DEF PointersInVectors
      <4> QED BY <1>8, <3>1, <3>3, <4>1 DEF Apart
    <3>4. CASE Kind(c.type) \in {"struct", "pointer", "array"}
      <4>1. st \notin Found(c.type, {"struct", "pointer", "array"})
        BY <3>2, <3>4 DEF Apart, Visited
      <4>2. Found(v, {"struct", "pointer", "array"}) \subseteq Found(c.type, {"struct", "pointer", "array"})
        BY <1>4, <1>6, <3>4, FoundThroughElement
      <4> QED BY <1>8, <3>1, <4>1, <4>2 DEF Apart, Visited
    <3>5. Kind(c.type) # "function"
      BY <3>2 DEF Apart
    <3> QED BY <1>8, <3>3, <3>4, <3>5 DEF Kinds
  <2> QED BY <2>1, <2>2
<1>11. AskedFor(v)
  BY <1>6, <1>9, <1>10 DEF AskedFor
<1> QED BY <1>1, <1>3, <1>11, CallKeeps

LEMMA CreateForwardPointersKeeps ==
  ASSUME TranslationInv, CreateForwardPointers, status' = status
  PROVE  TranslationInv'
<1>1. /\ phase = "types" /\ calls = << >> /\ phase' = "translated"
      /\ UNCHANGED <<prog, calls, typeMap, entry, typeVec>>
  BY DEF CreateForwardPointers
<1>2. Phases' /\ EveryIdKnown'
  BY <1>1 DEF Phases, EveryIdKnown
<1> QED BY <1>1, <1>2, SameTypesKeep

LEMMA TranslateKeeps ==
  ASSUME TranslationInv, asked \in Nat, Translate, status' = status
  PROVE  TranslationInv'
<1>1. CASE Take
  BY <1>1, TakeMemberKeeps, TakeElementKeeps
<1> QED BY <1>1, RootKeeps, DescendKeeps, AddTypeKeeps, AddTypeUnknownIdKeeps, CloseStructKeeps,
           ReturnStructKeeps, CreateForwardPointersKeeps DEF Translate

-----------------------------------------------------------------------------
(***************************************************************************)
(* The invariant through the whole round trip: the sort, the file and the  *)
(* reader leave the types alone and only start when they are translated.   *)
(***************************************************************************)
RInv == TranslationInv /\ asked \in Nat

LEMMA RInitRInv == RInit => RInv
<1> SUFFICES ASSUME RInit PROVE RInv
  OBVIOUS
<1>1. /\ IsProgram(prog) /\ asked = 0 /\ calls = << >> /\ typeMap = << >> /\ entry = << >>
      /\ typeVec = << >> /\ phase = "types" /\ status = "idle"
  BY ProgramsAssumption DEF RInit, Init
<1>2. DOMAIN calls = {} /\ DOMAIN entry = {} /\ Mapped = {}
  BY <1>1 DEF Mapped
<1>3. entry \in Seq(Made) /\ calls \in Seq(Frame) /\ typeVec \in Seq(Nat)
  BY <1>1
<1>4. FramesOK /\ MapOK /\ Filled /\ Called /\ Again /\ OpenApart /\ AddedOrOpen
  BY <1>2, <1>3 DEF FramesOK, MapOK, Filled, Called, Again, OpenApart, AddedOrOpen
<1>5. Phases /\ TwiceOnlyOnCycle /\ EveryIdKnown
  BY <1>1, <1>2 DEF Phases, TwiceOnlyOnCycle, EveryIdKnown
<1> QED BY <1>1, <1>3, <1>4, <1>5 DEF RInv, TranslationInv

LEMMA TranslateAsked ==
  ASSUME asked \in Nat, Translate
  PROVE  asked' \in Nat
<1>1. CASE Root
  <2>1. CASE prog.roots[asked + 1] \in Mapped
    <3>1. asked' = asked + 1
      BY <1>1, <2>1 DEF Root
    <3> QED BY <3>1
  <2>2. CASE prog.roots[asked + 1] \notin Mapped
    BY <1>1, <2>2 DEF Root
  <2> QED BY <2>1, <2>2
<1>2. CASE ~Root
  <2>1. asked' = asked
    <3>1. CASE Descend
      BY <3>1 DEF Descend
    <3>2. CASE Take
      BY <3>2 DEF Take
    <3>3. CASE AddType \/ AddTypeUnknownId \/ CloseStruct \/ ReturnStruct \/ CreateForwardPointers
      BY <3>3 DEF AddType, AddTypeUnknownId, CloseStruct, ReturnStruct, CreateForwardPointers
    <3> QED BY <1>2, <3>1, <3>2, <3>3 DEF Translate
  <2> QED BY <2>1
<1> QED BY <1>1, <1>2

LEMMA SortStarted ==
  ASSUME Sort!Next
  PROVE  status = "sorting"
BY DEF Sort!Next, Sort!StartVisit, Sort!PassOperand, Sort!VisitOperand, Sort!CyclicDependency,
       Sort!FinishVisit, Sort!Finish

LEMMA RNextRInv == RInv /\ [RNext]_vars => RInv'
<1> SUFFICES ASSUME RInv, [RNext]_vars PROVE RInv'
  OBVIOUS
<1>1. TranslationInv /\ asked \in Nat /\ Phases /\ EveryIdKnown
  BY DEF RInv, TranslationInv
<1>2. CASE RTranslate
  BY <1>1, <1>2, TranslateKeeps, TranslateAsked DEF RTranslate, RInv, sortVars
<1>3. ASSUME UNCHANGED <<prog, asked, calls, typeMap, entry, phase>>,
             phase = "translated" \/ (status' = status /\ typeVec' = typeVec)
      PROVE  RInv'
  <2>1. Phases' /\ EveryIdKnown'
    BY <1>1, <1>3, ProgKeptMore DEF Phases, EveryIdKnown
  <2>2. phase' = "types" => phase = "types" /\ typeVec' = typeVec
    BY <1>3
  <2> QED BY <1>1, <1>3, <2>1, <2>2, SameTypesKeep DEF RInv
<1>4. CASE StartSort \/ Write \/ ReadType \/ ReadTypeUnknownId \/ ReadEnd
  BY <1>1, <1>3, <1>4
     DEF StartSort, Write, ReadType, ReadTypeUnknownId, ReadEnd, transVars, Phases
<1>5. CASE RSort
  BY <1>1, <1>3, <1>5, SortStarted DEF RSort, transVars, Phases
<1>6. CASE UNCHANGED vars
  BY <1>3, <1>6 DEF vars, transVars, sortVars
<1> QED BY <1>2, <1>4, <1>5, <1>6 DEF RNext

LEMMA RInvariance == RSpec => []RInv
<1>1. RInit => RInv
  BY RInitRInv
<1>2. RInv /\ [RNext]_vars => RInv'
  BY RNextRInv
<1> QED BY <1>1, <1>2, PTL DEF RSpec

\* transType() fills every member of every struct, the late ones too: when the
\* globals and functions have their types, each type refers to translations of
\* the elements of the LLVM type it was made for.
THEOREM SameStructureHolds == RSpec => []SameStructure
<1>1. RInv => SameStructure
  <2> SUFFICES ASSUME RInv, phase = "translated", NEW id \in DOMAIN entry, NEW t, t = entry[id].llvm
               PROVE  /\ Len(entry[id].operands) = Len(Elems(t))
                      /\ \A i \in DOMAIN Elems(t) :
                           /\ entry[id].operands[i] \in DOMAIN entry
                           /\ entry[entry[id].operands[i]].llvm = Elems(t)[i]
    BY DEF SameStructure
  <2>1. FilledAt(id) /\ calls = << >>
    BY DEF RInv, TranslationInv, Filled, Phases
  <2> QED BY <2>1 DEF FilledAt, StandsFor
<1> QED BY <1>1, RInvariance, PTL

\* A struct is never made twice, and another type only when it is part of itself:
\* TypeMap is entered for a struct before its members are looked at.
THEOREM TwiceOnlyOnCycleHolds == RSpec => []TwiceOnlyOnCycle
<1>1. RInv => TwiceOnlyOnCycle
  BY DEF RInv, TranslationInv
<1> QED BY <1>1, RInvariance, PTL

\* recursiveType() keeps every pointer to an open struct for later unless it is the
\* element of a vector: what is added finds its element in a map.
THEOREM EveryIdKnownHolds == RSpec => []EveryIdKnown
<1>1. RInv => EveryIdKnown
  BY DEF RInv, TranslationInv
<1> QED BY <1>1, RInvariance, PTL

-----------------------------------------------------------------------------
(***************************************************************************)
(* A type other than a struct is made after its elements, so it only       *)
(* refers to smaller ids; and only pointers get a forward declaration.     *)
(***************************************************************************)
Behind ==
  \A id \in DOMAIN entry :
    Code(id) # "struct" => \A i \in DOMAIN entry[id].operands : entry[id].operands[i] < id

OnlyPointers == \A p \in forward : p \in DOMAIN entry /\ Code(p) = "pointer"

ForwardOK ==
  /\ phase # "translated" => forward = {}
  /\ OnlyPointers

LInv == RInv /\ Behind /\ ForwardOK

LEMMA BehindSame ==
  ASSUME Behind, UNCHANGED <<prog, entry>>
  PROVE  Behind'
BY ProgKept DEF Behind, Code

LEMMA BehindCall ==
  ASSUME TranslationInv, NEW t, Call(t), prog' = prog, Behind
  PROVE  Behind'
<1> USE DEF TranslationInv
<1>1. CASE Kind(t) = "struct"
  <2>1. PICK e : e = [llvm |-> t, operands |-> [i \in DOMAIN Elems(t) |-> 0]]
    OBVIOUS
  <2>2. entry' = Append(entry, e) /\ e.llvm = t
    BY <1>1, <2>1 DEF Call
  <2>3. ASSUME NEW id \in DOMAIN entry', Code(id)' # "struct"
        PROVE  \A i \in DOMAIN entry'[id].operands : entry'[id].operands[i] < id
    <3>1. id \in DOMAIN entry \/ (id = Len(entry) + 1 /\ entry'[id] = e)
      BY <2>2
    <3>2. Kind(entry'[id].llvm) # "struct"
      BY <2>3, ProgKept DEF Code
    <3>3. id \in DOMAIN entry /\ entry'[id] = entry[id]
      BY <1>1, <2>2, <3>1, <3>2
    <3>4. Code(id) # "struct"
      BY <3>2, <3>3 DEF Code
    <3> QED BY <3>3, <3>4 DEF Behind
  <2> QED BY <2>3 DEF Behind
<1>2. CASE Kind(t) # "struct"
  BY <1>2, BehindSame DEF Call
<1> QED BY <1>1, <1>2

LEMMA BehindKeeps ==
  ASSUME TranslationInv, Behind, Translate
  PROVE  Behind'
<1> USE DEF TranslationInv
<1>1. CASE Root
  BY <1>1, BehindCall, BehindSame DEF Root
<1>2. CASE Descend
  BY <1>2, BehindCall DEF Descend
<1>3. CASE Take /\ Kind(Top.type) # "struct"
  BY <1>3, BehindSame DEF Take
<1>4. CASE Take /\ Kind(Top.type) = "struct"
  <2>1. calls # << >> /\ prog' = prog
    BY <1>4 DEF Take, Running
  <2>2. PICK x, p, n : x = typeMap[Element] /\ p = Place /\ n = Top.id
    OBVIOUS
  <2>3. entry' = [entry EXCEPT ![n].operands[p] = x]
    BY <1>4, <2>2 DEF Take
  <2>4. n \in DOMAIN entry /\ Code(n) = "struct"
    BY <1>4, <2>1, <2>2, TopIs DEF FrameOK, StructFrame, StandsFor, Code
  <2>5. DOMAIN entry' = DOMAIN entry /\ \A id \in DOMAIN entry : id # n => entry'[id] = entry[id]
    BY <2>3
  <2>6. entry'[n].llvm = entry[n].llvm
    BY <2>3, <2>4, EntryFields DEF Made
  <2>7. ASSUME NEW id \in DOMAIN entry', Code(id)' # "struct"
        PROVE  id # n /\ Code(id) # "struct"
    BY <2>1, <2>4, <2>5, <2>6, <2>7, ProgKept DEF Code
  <2> QED BY <2>5, <2>7 DEF Behind
<1>5. CASE AddType
  <2>1. calls # << >> /\ prog' = prog /\ Kind(Top.type) # "struct"
    BY <1>5 DEF AddType, Running
  <2>2. PICK e : e = [llvm |-> Top.type, operands |-> Top.args]
    OBVIOUS
  <2>3. entry' = Append(entry, e)
    BY <1>5, <2>2 DEF AddType
  <2>4. \A i \in DOMAIN Top.args : Top.args[i] \in DOMAIN entry
    BY <2>1, TopIs DEF FrameOK, OtherFrame, StandsFor
  <2>5. Len(entry) \in Nat /\ DOMAIN entry = 1 .. Len(entry)
    BY NextIdIs
  <2>6. \A i \in DOMAIN e.operands : e.operands[i] < Len(entry) + 1
    BY <2>2, <2>4, <2>5
  <2>7. ASSUME NEW id \in DOMAIN entry', Code(id)' # "struct"
        PROVE  \A i \in DOMAIN entry'[id].operands : entry'[id].operands[i] < id
    <3>1. (id \in DOMAIN entry /\ entry'[id] = entry[id]) \/ (id = Len(entry) + 1 /\ entry'[id] = e)
      BY <2>3, <2>5
    <3>2. CASE id \in DOMAIN entry /\ entry'[id] = entry[id]
      BY <2>1, <2>7, <3>2, ProgKept DEF Code, Behind
    <3> QED BY <2>6, <3>1, <3>2
  <2> QED BY <2>7 DEF Behind
<1>6. CASE AddTypeUnknownId \/ CloseStruct \/ ReturnStruct \/ CreateForwardPointers
  BY <1>6, BehindSame DEF AddTypeUnknownId, CloseStruct, ReturnStruct, CreateForwardPointers
<1> QED BY <1>1, <1>2, <1>3, <1>4, <1>5, <1>6 DEF Translate

\* Whatever the order of the types, forward pointers are pointers of the module.
LEMMA ForwardPointersAre ==
  ASSUME NEW v
  PROVE  \A p \in ForwardPointers(v) : p \in DOMAIN entry /\ Code(p) = "pointer"
BY DEF ForwardPointers

LEMMA ForwardSame ==
  ASSUME ForwardOK, UNCHANGED <<forward, prog, entry>>, phase' = phase
  PROVE  ForwardOK'
BY ProgKept DEF ForwardOK, OnlyPointers, Code

LEMMA ForwardNone ==
  ASSUME forward' = {}
  PROVE  ForwardOK'
BY DEF ForwardOK, OnlyPointers

LEMMA ForwardKeeps ==
  ASSUME ForwardOK, Translate
  PROVE  ForwardOK'
<1>1. CASE CreateForwardPointers
  <2>1. UNCHANGED <<prog, entry>> /\ forward' = ForwardPointers(typeVec) /\ phase' = "translated"
    BY <1>1 DEF CreateForwardPointers
  <2>2. OnlyPointers'
    BY <2>1, ForwardPointersAre, ProgKept DEF OnlyPointers, Code
  <2> QED BY <2>1, <2>2 DEF ForwardOK
<1>2. CASE ~CreateForwardPointers
  <2>1. phase = "types" /\ forward' = forward
    <3>1. CASE Root
      BY <3>1 DEF Root
    <3>2. CASE Descend
      BY <3>2 DEF Descend, Running
    <3>3. CASE Take
      BY <3>3 DEF Take, Running
    <3>4. CASE AddType \/ AddTypeUnknownId \/ CloseStruct \/ ReturnStruct
      BY <3>4 DEF AddType, AddTypeUnknownId, CloseStruct, ReturnStruct, Running
    <3> QED BY <1>2, <3>1, <3>2, <3>3, <3>4 DEF Translate
  <2> QED BY <2>1, ForwardNone DEF ForwardOK
<1> QED BY <1>1, <1>2

LEMMA RNextLInv == LInv /\ [RNext]_vars => LInv'
<1> SUFFICES ASSUME LInv, [RNext]_vars PROVE LInv'
  OBVIOUS
<1>1. RInv /\ Behind /\ ForwardOK
  BY DEF LInv
<1>2. RInv'
  BY <1>1, RNextRInv
<1>3. CASE RTranslate
  BY <1>1, <1>2, <1>3, BehindKeeps, ForwardKeeps DEF RTranslate, LInv, RInv
<1>4. CASE ReadEnd
  <2>1. UNCHANGED <<prog, entry, phase>> /\ forward' = ForwardPointers(file) /\ status = "reading"
    BY <1>4 DEF ReadEnd
  <2>2. OnlyPointers'
    BY <2>1, ForwardPointersAre, ProgKept DEF OnlyPointers, Code
  <2>3. phase = "translated"
    BY <1>1, <2>1 DEF RInv, TranslationInv, Phases
  <2> QED BY <1>1, <1>2, <2>1, <2>2, <2>3, BehindSame DEF ForwardOK, LInv
<1>5. CASE StartSort \/ RSort \/ Write \/ ReadType \/ ReadTypeUnknownId \/ UNCHANGED vars
  <2>1. UNCHANGED <<prog, entry, phase, forward>>
    BY <1>5 DEF StartSort, RSort, Write, ReadType, ReadTypeUnknownId, vars, transVars
  <2> QED BY <1>1, <1>2, <2>1, BehindSame, ForwardSame DEF LInv
<1> QED BY <1>3, <1>4, <1>5 DEF RNext

LEMMA RInitLInv == RInit => LInv
<1> SUFFICES ASSUME RInit PROVE LInv
  OBVIOUS
<1>1. entry = << >> /\ forward = {}
  BY DEF RInit, Init
<1>2. DOMAIN entry = {}
  BY <1>1
<1> QED BY <1>1, <1>2, RInitRInv DEF LInv, Behind, ForwardOK, OnlyPointers

-----------------------------------------------------------------------------
(***************************************************************************)
(* The sort of the types, with what TopologicalSortProofs shows of every   *)
(* sort.  A pointer may be passed over by the sort; a function, which is   *)
(* an operand of no type, still finds all of its types before it, because  *)
(* the sort starts from the types in the order they were made.             *)
(***************************************************************************)
SortP == INSTANCE TopologicalSortProofs WITH Graphs <- {}

Sorting == status \in {"sorting", "sorted", "cyclic"}

\* The graph that is sorted is the one StartSort has made of the types.
GraphOK ==
  graph = [opcode   |-> [id \in DOMAIN entry |-> OpcodeOf[Code(id)]],
           operands |-> [id \in DOMAIN entry |-> entry[id].operands],
           forward  |-> forward]

\* What the sort reaches from no operand: the functions, which are operands of no
\* type, and the pointers it passes over.
Passed(e) == Code(e) = "function" \/ e \in forward

\* When the sort looks at such a type, it has visited every type made before it.
PassedLast ==
  \A e \in DOMAIN entry :
    Passed(e) /\ dfs[e] # "Unvisited" =>
      \A f \in DOMAIN entry : f < e => dfs[f] = "Visited"

\* Such a type stands behind every type made before it.
PassedPlaced ==
  \A i \in DOMAIN vec[3] :
    Passed(vec[3][i]) =>
      \A f \in DOMAIN entry : f < vec[3][i] => \E j \in 1 .. (i - 1) : vec[3][j] = f

\* What is looked up while an entry of the file is read stands before it.
LookedUpBefore(v) ==
  \A i \in DOMAIN v : LookedUp(v[i]) \subseteq {v[j] : j \in 1 .. (i - 1)}

FileOK == file \in Seq(DOMAIN entry) /\ (DirectlyLinked => LookedUpBefore(file))

\* The vector the translation has made: a type other than a struct stands behind
\* all types with smaller ids that are in it.
TypeOrder ==
  phase = "types" =>
    \A j \in DOMAIN typeVec :
      /\ typeVec[j] \in DOMAIN entry
      /\ Code(typeVec[j]) # "struct" => \A i \in 1 .. (j - 1) : typeVec[i] < typeVec[j]

\* A forward pointer is a member of a struct that was made before it.
ForwardBehind ==
  \A p \in forward : \E e \in DOMAIN entry :
    Code(e) = "struct" /\ p \in Members(e) /\ e < p

\* A vector holds every type and makes the forward pointers there are.
Complete(v) == ToSet(v) = DOMAIN entry /\ ForwardPointers(v) = forward

SInv ==
  /\ LInv
  /\ TypeOrder
  /\ ForwardBehind
  /\ phase # "translated" => written = 0
  /\ status \in {"idle", "sorting", "sorted", "cyclic", "reading", "unknown id"}
  /\ Sorting => GraphOK /\ SortP!IInv /\ PassedLast /\ PassedPlaced
  /\ SortP!SortedIsComplete
  /\ status = "reading" =>
       FileOK /\ declared \in Nat /\ Complete(file) /\ forward = graph.forward
  /\ status = "idle" /\ written > 0 => ToSet(typeVec) = DOMAIN entry /\ forward = graph.forward
  /\ OperandsRead

\* The types when the translation is over.
LEMMA TypesDone ==
  ASSUME LInv, phase = "translated"
  PROVE  /\ DOMAIN entry \subseteq Nat
         /\ \A e \in DOMAIN entry :
              /\ entry[e].llvm \in Types
              /\ entry[e].operands \in Seq(DOMAIN entry)
              /\ Len(entry[e].operands) = Len(Elems(entry[e].llvm))
              /\ \A i \in DOMAIN entry[e].operands :
                   /\ entry[e].operands[i] \in DOMAIN entry
                   /\ entry[entry[e].operands[i]].llvm = Elems(entry[e].llvm)[i]
<1>1. /\ TranslationInv /\ entry \in Seq(Made) /\ Filled /\ calls = << >> /\ IsProgram(prog)
  BY DEF LInv, RInv, TranslationInv, Phases
<1>2. DOMAIN entry \subseteq Nat
  BY <1>1, NextIdIs
<1>3. ASSUME NEW e \in DOMAIN entry
      PROVE  /\ entry[e].llvm \in Types
             /\ entry[e].operands \in Seq(DOMAIN entry)
             /\ Len(entry[e].operands) = Len(Elems(entry[e].llvm))
             /\ \A i \in DOMAIN entry[e].operands :
                   /\ entry[e].operands[i] \in DOMAIN entry
                   /\ entry[entry[e].operands[i]].llvm = Elems(entry[e].llvm)[i]
  <2>1. entry[e].llvm \in Types /\ entry[e].operands \in Seq(Nat)
    BY <1>1, EntryFields
  <2>2. Len(entry[e].operands) = Len(Elems(entry[e].llvm)) /\ Elems(entry[e].llvm) \in Seq(Types)
    BY <1>1, <2>1, ElementTypes DEF Filled, FilledAt
  <2>3. DOMAIN entry[e].operands = DOMAIN Elems(entry[e].llvm)
    BY <2>1, <2>2
  <2>4. \A i \in DOMAIN entry[e].operands :
          /\ entry[e].operands[i] \in DOMAIN entry
          /\ entry[entry[e].operands[i]].llvm = Elems(entry[e].llvm)[i]
    BY <1>1, <2>3 DEF Filled, FilledAt, StandsFor
  <2>5. PICK o : o = entry[e].operands
    OBVIOUS
  <2>6. o \in Seq(DOMAIN entry)
    BY <2>1, <2>4, <2>5
  <2> QED BY <2>1, <2>2, <2>4, <2>5, <2>6
<1> QED BY <1>2, <1>3

\* No type has a function among its operands.
LEMMA NoFunctionOperand ==
  ASSUME LInv, phase = "translated", NEW e \in DOMAIN entry, NEW i \in DOMAIN entry[e].operands
  PROVE  Code(entry[e].operands[i]) # "function"
<1>1. IsProgram(prog)
  BY DEF LInv, RInv, TranslationInv
<1>2. PICK t : t = entry[e].llvm
  OBVIOUS
<1>3. /\ t \in Types /\ entry[e].operands \in Seq(DOMAIN entry)
      /\ Len(entry[e].operands) = Len(Elems(t)) /\ entry[entry[e].operands[i]].llvm = Elems(t)[i]
  BY <1>2, TypesDone
<1>4. i \in DOMAIN Elems(t)
  BY <1>1, <1>3, ElementTypes
<1> QED BY <1>1, <1>3, <1>4, ElementTypes, KindOfElement DEF Code

LEMMA CodeIs ==
  ASSUME LInv, NEW e \in DOMAIN entry
  PROVE  Code(e) \in Kinds
<1>1. entry[e].llvm \in Types /\ IsProgram(prog)
  BY EntryFields DEF LInv, RInv, TranslationInv
<1> QED BY <1>1 DEF IsProgram, Code, Kind, Types

LEMMA OpcodeIs ==
  ASSUME LInv, NEW e \in DOMAIN entry
  PROVE  /\ OpcodeOf[Code(e)] \in {"TypePointer", "TypeOther"}
         /\ Code(e) = "pointer" => OpcodeOf[Code(e)] = "TypePointer"
BY CodeIs DEF Kinds, OpcodeOf

LEMMA TypesAreAGraph ==
  ASSUME LInv, phase = "translated",
         NEW g, g = [opcode   |-> [id \in DOMAIN entry |-> OpcodeOf[Code(id)]],
                     operands |-> [id \in DOMAIN entry |-> entry[id].operands],
                     forward  |-> forward]
  PROVE  SortP!IsGraph(g)
<1>1. PICK ops, opd : /\ ops = [id \in DOMAIN entry |-> OpcodeOf[Code(id)]]
                      /\ opd = [id \in DOMAIN entry |-> entry[id].operands]
  OBVIOUS
<1>2. g.opcode = ops /\ g.operands = opd /\ g.forward = forward
  BY <1>1
<1>3. \A e \in DOMAIN entry : ops[e] \in {"TypePointer", "TypeOther"}
                              /\ (Code(e) = "pointer" => ops[e] = "TypePointer")
  BY <1>1, OpcodeIs
<1>4. DOMAIN g.opcode \subseteq Nat /\ DOMAIN g.opcode = DOMAIN entry
  BY <1>1, <1>2, TypesDone
<1>5. g.opcode \in [DOMAIN entry -> SortP!OpCodes]
  BY <1>1, <1>2, <1>3 DEF SortP!OpCodes
<1>6. g.operands \in [DOMAIN entry -> Seq(DOMAIN entry)]
  BY <1>1, <1>2, TypesDone
<1>7. \A e \in DOMAIN entry : g.opcode[e] # "Function"
  BY <1>2, <1>3
<1>8. g.forward \subseteq {e \in DOMAIN entry : g.opcode[e] = "TypePointer"}
  BY <1>2, <1>3 DEF LInv, ForwardOK, OnlyPointers
<1> QED BY <1>4, <1>5, <1>6, <1>7, <1>8 DEF SortP!IsGraph

LEMMA GraphIs ==
  ASSUME LInv, phase = "translated", GraphOK
  PROVE  /\ SortP!Entries = DOMAIN entry /\ SortP!Collected = DOMAIN entry
         /\ graph.forward = forward
         /\ \A e \in DOMAIN entry :
              /\ SortP!Operands(e) = entry[e].operands
              /\ SortP!Layer(e) = 3
         /\ SortP!IsGraph(graph)
         /\ SortP!IsLayered
<1>1. PICK ops, opd : /\ ops = [id \in DOMAIN entry |-> OpcodeOf[Code(id)]]
                      /\ opd = [id \in DOMAIN entry |-> entry[id].operands]
  OBVIOUS
<1>2. graph = [opcode |-> ops, operands |-> opd, forward |-> forward]
  BY <1>1 DEF GraphOK
<1>3. graph.opcode = ops /\ graph.operands = opd /\ graph.forward = forward
  BY <1>2
<1>4. \A e \in DOMAIN entry : ops[e] \in {"TypePointer", "TypeOther"}
  BY <1>1, OpcodeIs
<1>5. DOMAIN ops = DOMAIN entry /\ DOMAIN opd = DOMAIN entry
  BY <1>1
<1>6. SortP!Entries = DOMAIN entry
  BY <1>3, <1>5 DEF SortP!Entries
<1>7. SortP!Collected = DOMAIN entry
  BY <1>3, <1>4, <1>6 DEF SortP!Collected
<1>8. \A e \in DOMAIN entry : SortP!Operands(e) = entry[e].operands /\ SortP!Layer(e) = 3
  BY <1>1, <1>3, <1>4 DEF SortP!Operands, SortP!Layer, SortP!LayerOf
<1>9. SortP!IsGraph(graph)
  <2>1. graph = [opcode   |-> [id \in DOMAIN entry |-> OpcodeOf[Code(id)]],
                 operands |-> [id \in DOMAIN entry |-> entry[id].operands],
                 forward  |-> forward]
    BY DEF GraphOK
  <2> QED BY <2>1, TypesAreAGraph
<1>10. SortP!IsLayered
  BY <1>7, <1>8 DEF SortP!IsLayered, SortP!Needed
<1> QED BY <1>3, <1>6, <1>7, <1>8, <1>9, <1>10

LEMMA PointerOpcode ==
  ASSUME LInv, phase = "translated", GraphOK, NEW p \in forward
  PROVE  graph.opcode[p] = "TypePointer"
<1>1. PICK ops, opd : /\ ops = [id \in DOMAIN entry |-> OpcodeOf[Code(id)]]
                      /\ opd = [id \in DOMAIN entry |-> entry[id].operands]
  OBVIOUS
<1>2. graph = [opcode |-> ops, operands |-> opd, forward |-> forward]
  BY <1>1 DEF GraphOK
<1>3. p \in DOMAIN entry /\ Code(p) = "pointer"
  BY DEF LInv, ForwardOK, OnlyPointers
<1>4. ops[p] = "TypePointer"
  BY <1>1, <1>3, OpcodeIs
<1> QED BY <1>2, <1>4

LEMMA SortSteps == Sort!Next => SortP!Next
BY DEF Sort!Next, Sort!StartVisit, Sort!PassOperand, Sort!VisitOperand, Sort!CyclicDependency,
       Sort!FinishVisit, Sort!Finish, Sort!Collected, Sort!Entries, Sort!HasOp, Sort!Top,
       Sort!TopOp, Sort!Advance, Sort!Pop, Sort!Operands, Sort!Skipped, Sort!Layer, Sort!Layers,
       Sort!LayerOf,
       SortP!Next, SortP!StartVisit, SortP!PassOperand, SortP!VisitOperand,
       SortP!CyclicDependency, SortP!FinishVisit, SortP!Finish, SortP!Collected, SortP!Entries,
       SortP!HasOp, SortP!Top, SortP!TopOp, SortP!Advance, SortP!Pop, SortP!Operands,
       SortP!Skipped, SortP!Layer, SortP!Layers, SortP!LayerOf

\* What the search knows of the frame it works on.
LEMMA SortTop ==
  ASSUME LInv, phase = "translated", GraphOK, SortP!IInv, stack # << >>
  PROVE  /\ SortP!Top.entry \in DOMAIN entry /\ dfs[SortP!Top.entry] = "Discovered"
         /\ SortP!HasOp /\ ~SortP!Skipped(SortP!TopOp) =>
              SortP!TopOp \in DOMAIN entry /\ ~Passed(SortP!TopOp)
         /\ dfs \in [DOMAIN entry -> {"Unvisited", "Discovered", "Visited"}]
         /\ vec[3] \in Seq(DOMAIN entry)
<1>1. SortP!TypeOK /\ SortP!StackIsPath
  BY DEF SortP!IInv
<1>2. /\ stack \in Seq(SortP!Frame) /\ vec \in [SortP!Layers -> Seq(SortP!Entries)]
      /\ dfs \in [SortP!Entries -> SortP!DFSStates]
  BY <1>1 DEF SortP!TypeOK
<1>3. SortP!Entries = DOMAIN entry
  BY GraphIs
<1>4. PICK c, n : c = stack[n] /\ n = Len(stack)
  OBVIOUS
<1>5. n \in DOMAIN stack /\ c \in SortP!Frame /\ c = SortP!Top
  BY <1>2, <1>4 DEF SortP!Top
<1>6. c.entry \in DOMAIN entry /\ c.next \in Nat \ {0}
  BY <1>3, <1>5 DEF SortP!Frame
<1>7. dfs[c.entry] = "Discovered"
  <2>1. \A k \in DOMAIN stack : dfs[stack[k].entry] = "Discovered"
    BY <1>1 DEF SortP!StackIsPath
  <2> QED BY <1>4, <1>5, <2>1
<1>8. ASSUME SortP!HasOp, ~SortP!Skipped(SortP!TopOp)
      PROVE  SortP!TopOp \in DOMAIN entry /\ ~Passed(SortP!TopOp)
  <2>1. c.next <= Len(SortP!Operands(c.entry))
    BY <1>5, <1>8 DEF SortP!HasOp
  <2>2. PICK o : o = entry[c.entry].operands
    OBVIOUS
  <2>3. o = SortP!Operands(c.entry) /\ o \in Seq(DOMAIN entry)
    BY <1>6, <2>2, GraphIs, TypesDone
  <2>4. c.next \in DOMAIN o /\ o[c.next] \in DOMAIN entry
    BY <1>6, <2>1, <2>3
  <2>5. SortP!TopOp = o[c.next]
    BY <1>5, <2>3 DEF SortP!TopOp
  <2>6. Code(o[c.next]) # "function"
    BY <1>6, <2>2, <2>4, NoFunctionOperand
  <2>7. o[c.next] \notin forward
    BY <1>8, <2>4, <2>5, GraphIs, PointerOpcode DEF SortP!Skipped
  <2> QED BY <2>4, <2>5, <2>6, <2>7 DEF Passed
<1>9. 3 \in SortP!Layers
  BY DEF SortP!Layers
<1> QED BY <1>2, <1>3, <1>5, <1>6, <1>7, <1>8, <1>9 DEF SortP!DFSStates

LEMMA SortKeepsPassed ==
  ASSUME LInv, phase = "translated", GraphOK, SortP!IInv, PassedLast, PassedPlaced,
         SortP!Next, UNCHANGED <<prog, entry, forward>>
  PROVE  PassedLast' /\ PassedPlaced'
<1>1. SortP!TypeOK /\ SortP!StackIsPath /\ SortP!VecsHoldVisited
  BY DEF SortP!IInv
<1>2. SortP!Entries = DOMAIN entry /\ SortP!Collected = DOMAIN entry
  BY GraphIs
<1>3. dfs \in [DOMAIN entry -> {"Unvisited", "Discovered", "Visited"}] /\ vec[3] \in Seq(DOMAIN entry)
      /\ DOMAIN vec = SortP!Layers /\ 3 \in SortP!Layers
  <2>1. /\ vec \in [SortP!Layers -> Seq(DOMAIN entry)]
        /\ dfs \in [DOMAIN entry -> SortP!DFSStates]
    BY <1>1, <1>2 DEF SortP!TypeOK
  <2>2. 3 \in SortP!Layers
    BY DEF SortP!Layers
  <2> QED BY <2>1, <2>2 DEF SortP!DFSStates
<1>4. DOMAIN entry \subseteq Nat
  BY TypesDone
<1>5. \A e : Passed(e)' <=> Passed(e)
  BY ProgKept DEF Code, Passed
<1>6. CASE SortP!PassOperand \/ SortP!CyclicDependency \/ SortP!Finish
  <2>1. dfs' = dfs /\ vec' = vec
    BY <1>6 DEF SortP!PassOperand, SortP!CyclicDependency, SortP!Finish
  <2> QED BY <1>5, <2>1 DEF PassedLast, PassedPlaced
<1>7. CASE SortP!StartVisit
  <2>1. PICK e \in DOMAIN entry :
          /\ dfs[e] = "Unvisited"
          /\ \A f \in DOMAIN entry : dfs[f] = "Unvisited" => e <= f
          /\ dfs' = [dfs EXCEPT ![e] = "Discovered"]
          /\ vec' = vec /\ stack = << >>
    BY <1>2, <1>7 DEF SortP!StartVisit
  <2>2. \A f \in DOMAIN entry : dfs[f] # "Discovered"
    <3>1. DOMAIN stack = {}
      BY <2>1
    <3> QED BY <1>1, <1>2, <3>1 DEF SortP!StackIsPath
  <2>3. \A f \in DOMAIN entry : f < e => dfs[f] = "Visited"
    BY <1>3, <1>4, <2>1, <2>2
  <2>4. ASSUME NEW x \in DOMAIN entry, Passed(x), dfs'[x] # "Unvisited",
               NEW f \in DOMAIN entry, f < x
        PROVE  dfs'[f] = "Visited"
    <3>1. dfs[f] = "Visited"
      BY <1>3, <2>1, <2>3, <2>4 DEF PassedLast
    <3> QED BY <1>3, <2>1, <3>1
  <2> QED BY <1>5, <2>1, <2>4 DEF PassedLast, PassedPlaced
<1>8. CASE SortP!VisitOperand
  <2>1. PICK op : op = SortP!TopOp
    OBVIOUS
  <2>2. /\ SortP!HasOp /\ stack # << >> /\ dfs[op] = "Unvisited"
        /\ dfs' = [dfs EXCEPT ![op] = "Discovered"] /\ vec' = vec
    BY <1>8, <2>1 DEF SortP!VisitOperand, SortP!HasOp
  <2>2a. ~SortP!Skipped(SortP!TopOp)
    BY <1>8 DEF SortP!VisitOperand
  <2>3. op \in DOMAIN entry /\ ~Passed(op)
    BY <2>1, <2>2, <2>2a, SortTop
  <2>4. ASSUME NEW x \in DOMAIN entry, Passed(x), dfs'[x] # "Unvisited",
               NEW f \in DOMAIN entry, f < x
        PROVE  dfs'[f] = "Visited"
    <3>1. x # op
      BY <2>3, <2>4
    <3>2. dfs[f] = "Visited"
      BY <1>3, <2>2, <2>4, <3>1 DEF PassedLast
    <3> QED BY <1>3, <2>2, <3>2
  <2> QED BY <1>5, <2>2, <2>4 DEF PassedLast, PassedPlaced
<1>9. CASE SortP!FinishVisit
  <2>1. PICK e : e = SortP!Top.entry
    OBVIOUS
  <2>2. stack # << >> /\ dfs' = [dfs EXCEPT ![e] = "Visited"]
    BY <1>9, <2>1 DEF SortP!FinishVisit
  <2>3. e \in DOMAIN entry /\ dfs[e] = "Discovered"
    BY <2>1, <2>2, SortTop
  <2>4. vec' = [vec EXCEPT ![3] = Append(@, e)]
    <3>1. SortP!Layer(SortP!Top.entry) = 3
      BY <2>1, <2>3, GraphIs
    <3> QED BY <1>3, <1>9, <2>1, <3>1 DEF SortP!FinishVisit
  <2>5. ASSUME NEW x \in DOMAIN entry, Passed(x), dfs'[x] # "Unvisited",
               NEW f \in DOMAIN entry, f < x
        PROVE  dfs'[f] = "Visited"
    <3>1. dfs[x] # "Unvisited"
      BY <1>3, <2>2, <2>3, <2>5
    <3>2. dfs[f] = "Visited"
      BY <2>5, <3>1 DEF PassedLast
    <3> QED BY <1>3, <2>2, <3>2
  <2>6. PICK v : v = vec[3]
    OBVIOUS
  <2>7. v \in Seq(DOMAIN entry) /\ vec'[3] = Append(v, e)
    BY <1>3, <2>4, <2>6
  <2>8. ASSUME NEW i \in DOMAIN vec'[3], Passed(vec'[3][i]),
               NEW f \in DOMAIN entry, f < vec'[3][i]
        PROVE  \E j \in 1 .. (i - 1) : vec'[3][j] = f
    <3>1. i \in 1 .. (Len(v) + 1) /\ \A j \in 1 .. Len(v) : vec'[3][j] = v[j]
      BY <2>7
    <3>2. CASE i \in 1 .. Len(v)
      <4>1. i \in DOMAIN v /\ vec'[3][i] = v[i]
        BY <2>7, <3>1, <3>2
      <4>2. PICK j \in 1 .. (i - 1) : v[j] = f
        BY <2>6, <2>8, <4>1 DEF PassedPlaced
      <4>3. j \in 1 .. Len(v)
        BY <2>7, <3>2
      <4> QED BY <3>1, <4>2, <4>3
    <3>3. CASE i = Len(v) + 1
      <4>1. vec'[3][i] = e
        BY <2>7, <3>3
      <4>2. dfs[f] = "Visited"
        BY <2>3, <2>8, <4>1 DEF PassedLast
      <4>3. f \in SortP!Elems(vec[SortP!Layer(f)])
        BY <1>1, <1>2, <4>2 DEF SortP!VecsHoldVisited
      <4>4. f \in SortP!Elems(v)
        BY <2>6, <4>3, GraphIs
      <4>5. PICK j \in DOMAIN v : v[j] = f
        BY <4>4 DEF SortP!Elems
      <4>6. j \in 1 .. Len(v) /\ j \in 1 .. (i - 1)
        BY <2>7, <3>3
      <4> QED BY <3>1, <4>5, <4>6
    <3> QED BY <2>7, <3>1, <3>2, <3>3
  <2> QED BY <1>5, <2>5, <2>8 DEF PassedLast, PassedPlaced
<1> QED BY <1>6, <1>7, <1>8, <1>9 DEF SortP!Next

LEMMA EmptyFirst ==
  ASSUME NEW S, NEW s \in Seq(S), NEW t \in Seq(S), DOMAIN s = {}
  PROVE  s \o t = t /\ t \o s = t
<1>1. s = << >>
  OBVIOUS
<1> QED BY <1>1

\* All types are in one vector: it is the file.
LEMMA EmittedIs ==
  ASSUME LInv, phase = "translated", GraphOK, SortP!IInv
  PROVE  Sort!Emitted = vec[3] /\ SortP!Emitted = vec[3] /\ vec[3] \in Seq(DOMAIN entry)
<1>1. SortP!TypeOK /\ SortP!VecsHoldVisited
  BY DEF SortP!IInv
<1>2. SortP!Entries = DOMAIN entry /\ SortP!Collected = DOMAIN entry
  BY GraphIs
<1>3. \A l \in SortP!Layers : vec[l] \in Seq(DOMAIN entry)
  BY <1>1, <1>2 DEF SortP!TypeOK
<1>4. SortP!Layers = {1, 2, 3, 4, 5}
  BY DEF SortP!Layers
<1>5. ASSUME NEW l \in SortP!Layers, l # 3 PROVE DOMAIN vec[l] = {}
  <2>1. ASSUME NEW i \in DOMAIN vec[l] PROVE FALSE
    <3>1. vec[l][i] \in DOMAIN entry /\ SortP!Layer(vec[l][i]) = l
      BY <1>1, <1>2 DEF SortP!VecsHoldVisited
    <3> QED BY <1>5, <3>1, GraphIs
  <2> QED BY <2>1
<1>6. PICK a, b, c, d, e : a = vec[1] /\ b = vec[2] /\ c = vec[3] /\ d = vec[4] /\ e = vec[5]
  OBVIOUS
<1>7. /\ a \in Seq(DOMAIN entry) /\ b \in Seq(DOMAIN entry) /\ c \in Seq(DOMAIN entry)
      /\ d \in Seq(DOMAIN entry) /\ e \in Seq(DOMAIN entry)
  BY <1>3, <1>4, <1>6
<1>8. DOMAIN a = {} /\ DOMAIN b = {} /\ DOMAIN d = {} /\ DOMAIN e = {}
  BY <1>4, <1>5, <1>6
<1>9. a \o (b \o (c \o (d \o e))) = c
  <2>1. d \o e = e
    BY <1>7, <1>8, EmptyFirst
  <2>2. c \o e = c
    BY <1>7, <1>8, EmptyFirst
  <2>3. b \o c = c
    BY <1>7, <1>8, EmptyFirst
  <2>4. a \o c = c
    BY <1>7, <1>8, EmptyFirst
  <2> QED BY <2>1, <2>2, <2>3, <2>4
<1>10. Sort!Emitted = c /\ SortP!Emitted = c
  BY <1>6, <1>9 DEF Sort!Emitted, SortP!Emitted
<1> QED BY <1>6, <1>7, <1>10

\* Where the members of types other than structs are not pointers, the file has
\* before each type what the reader looks up for it.
LEMMA EmittedFileOK ==
  ASSUME LInv, phase = "translated", GraphOK, SortP!IInv, PassedPlaced, DirectlyLinked,
         NEW v, v = vec[3]
  PROVE  LookedUpBefore(v)
<1> SUFFICES ASSUME NEW i \in DOMAIN v
             PROVE  LookedUp(v[i]) \subseteq {v[j] : j \in 1 .. (i - 1)}
  BY DEF LookedUpBefore
<1>1. v \in Seq(DOMAIN entry) /\ SortP!Emitted = v
  BY EmittedIs
<1>2. PICK e : e = v[i]
  OBVIOUS
<1>3. e \in DOMAIN entry
  BY <1>1, <1>2
<1>4. PICK o, t : o = entry[e].operands /\ t = entry[e].llvm
  OBVIOUS
<1>5. /\ t \in Types /\ o \in Seq(DOMAIN entry) /\ Len(o) = Len(Elems(t)) /\ Elems(t) \in Seq(Types)
      /\ IsProgram(prog) /\ Kind(t) = Code(e) /\ Code(e) \in Kinds
  <2>1. IsProgram(prog)
    BY DEF LInv, RInv, TranslationInv
  <2> QED BY <1>3, <1>4, <2>1, TypesDone, ElementTypes, CodeIs DEF Code
<1>6. CASE Code(e) = "struct"
  BY <1>2, <1>6 DEF LookedUp
<1>7. ASSUME Code(e) # "struct", NEW x \in LookedUp(e)
      PROVE  \E j \in 1 .. (i - 1) : v[j] = x
  <2>1. PICK k \in DOMAIN o : x = o[k]
    BY <1>4, <1>7 DEF LookedUp, Members, Range
  <2>2. x \in DOMAIN entry /\ x < e
    BY <1>3, <1>4, <1>5, <1>7, <2>1 DEF LInv, Behind
  <2>3. CASE Code(e) = "function"
    BY <1>2, <2>2, <2>3 DEF PassedPlaced, Passed
  <2>4. CASE Code(e) # "function"
    <3>1. Elems(t) # << >>
      BY <1>5, <2>1
    <3>2. Kind(t) \in {"pointer", "array", "vector"}
      BY <1>5, <1>7, <2>4, <3>1 DEF IsProgram, Kind, Elems, Types, Kinds
    <3>3. Len(Elems(t)) = 1
      BY <1>5, <3>2 DEF IsProgram, Kind, Elems, Types
    <3>4. k = 1
      BY <1>5, <2>1, <3>3
    <3>5. Kind(Elems(t)[1]) \in {"struct", "scalar"}
      BY <1>5, <3>2 DEF DirectlyLinked
    <3>6. entry[x].llvm = Elems(t)[1]
      BY <1>3, <1>4, <2>1, <3>4, TypesDone
    <3>7. x \notin forward
      BY <3>5, <3>6 DEF LInv, ForwardOK, OnlyPointers, Code
    <3>8. x \in SortP!Needed(e)
      <4>1. SortP!Operands(e) = o
        BY <1>3, <1>4, GraphIs
      <4> QED BY <2>1, <2>2, <3>7, <4>1, GraphIs DEF SortP!Needed
    <3>9. SortP!Closed(v, {}, SortP!Need)
      BY <1>1, GraphIs, SortP!EmittedClosed
    <3>10. e \in SortP!Entries /\ SortP!Need[e] = SortP!Needed(e)
      BY <1>3, GraphIs DEF SortP!Need
    <3> QED BY <1>2, <3>8, <3>9, <3>10 DEF SortP!Closed
  <2> QED BY <2>3, <2>4
<1> QED BY <1>2, <1>6, <1>7

\* The file holds every type, and the pointers passed over are the ones that stand
\* behind a struct they are a member of.
LEMMA EmittedComplete ==
  ASSUME LInv, phase = "translated", GraphOK, SortP!IInv, PassedPlaced, ForwardBehind,
         \A e \in DOMAIN entry : dfs[e] = "Visited", NEW v, v = vec[3]
  PROVE  Complete(v)
<1>1. v \in Seq(DOMAIN entry) /\ SortP!Emitted = v
  BY EmittedIs
<1>2. SortP!VecsHoldVisited /\ SortP!VecsInjective /\ 3 \in SortP!Layers
  BY DEF SortP!IInv, SortP!Layers
<1>3. /\ SortP!Entries = DOMAIN entry /\ SortP!Collected = DOMAIN entry
      /\ graph.forward = forward
      /\ \A e \in DOMAIN entry : SortP!Operands(e) = entry[e].operands /\ SortP!Layer(e) = 3
  BY GraphIs
<1>4. \A e \in DOMAIN entry : \E k \in DOMAIN v : v[k] = e
  <2> SUFFICES ASSUME NEW e \in DOMAIN entry PROVE \E k \in DOMAIN v : v[k] = e
    OBVIOUS
  <2>1. e \in SortP!Elems(vec[SortP!Layer(e)])
    BY <1>2, <1>3 DEF SortP!VecsHoldVisited
  <2>2. e \in SortP!Elems(v)
    BY <1>3, <2>1
  <2> QED BY <2>2 DEF SortP!Elems
<1>5. ToSet(v) = DOMAIN entry
  <2>1. \A k \in DOMAIN v : v[k] \in DOMAIN entry
    BY <1>1
  <2>2. {v[k] : k \in DOMAIN v} = DOMAIN entry
    BY <1>4, <2>1
  <2> QED BY <2>2 DEF ToSet
<1>6. \A i, j \in DOMAIN v : v[i] = v[j] => i = j
  BY <1>2 DEF SortP!VecsInjective
<1>7. ASSUME NEW p \in ForwardPointers(v), p \notin forward PROVE FALSE
  <2>1. /\ p \in DOMAIN entry
        /\ \E i \in DOMAIN v : p \in Members(v[i]) /\ \A j \in 1 .. i : v[j] # p
    BY <1>7 DEF ForwardPointers
  <2>2. PICK i \in DOMAIN v : p \in Members(v[i]) /\ \A j \in 1 .. i : v[j] # p
    BY <2>1
  <2>3. PICK e : e = v[i]
    OBVIOUS
  <2>4. e \in DOMAIN entry /\ p \in Members(e) /\ i \in Nat
    BY <1>1, <2>2, <2>3
  <2>5. p \in SortP!Needed(e)
    <3>1. p \in {SortP!Operands(e)[k] : k \in DOMAIN SortP!Operands(e)}
      BY <1>3, <2>4 DEF Members, Range
    <3> QED BY <1>3, <1>7, <2>1, <3>1 DEF SortP!Needed
  <2>6. SortP!Need[e] = SortP!Needed(e)
    BY <1>3, <2>4 DEF SortP!Need
  <2>7. SortP!Closed(v, {}, SortP!Need)
    BY <1>1, GraphIs, SortP!EmittedClosed
  <2>8. \E j \in 1 .. (i - 1) : v[j] = p
    BY <2>2, <2>3, <2>5, <2>6, <2>7 DEF SortP!Closed
  <2> QED BY <2>2, <2>4, <2>8
<1>8. ASSUME NEW p \in forward PROVE p \in ForwardPointers(v)
  <2>1. p \in DOMAIN entry /\ Code(p) = "pointer"
    BY DEF LInv, ForwardOK, OnlyPointers
  <2>2. PICK e \in DOMAIN entry : Code(e) = "struct" /\ p \in Members(e) /\ e < p
    BY DEF ForwardBehind
  <2>3. PICK k \in DOMAIN v : v[k] = p
    BY <1>4, <2>1
  <2>4. PICK i \in 1 .. (k - 1) : v[i] = e
    BY <2>2, <2>3 DEF PassedPlaced, Passed
  <2>5. k \in 1 .. Len(v) /\ i \in DOMAIN v
    BY <1>1, <2>3, <2>4
  <2>6. \A j \in 1 .. i : j \in DOMAIN v /\ j # k
    BY <1>1, <2>4, <2>5
  <2>7. \A j \in 1 .. i : v[j] # p
    BY <1>6, <2>3, <2>6
  <2> QED BY <2>1, <2>2, <2>4, <2>5, <2>7 DEF ForwardPointers
<1> QED BY <1>5, <1>7, <1>8 DEF Complete

\* The sort starts with nothing visited.
LEMMA StartKeeps ==
  ASSUME LInv, StartSort
  PROVE  GraphOK' /\ SortP!IInv' /\ PassedLast' /\ PassedPlaced'
<1>1. /\ phase = "translated" /\ UNCHANGED <<prog, entry, forward, phase>>
      /\ graph' = [opcode   |-> [id \in DOMAIN entry |-> OpcodeOf[Code(id)]],
                   operands |-> [id \in DOMAIN entry |-> entry[id].operands],
                   forward  |-> forward]
      /\ dfs' = [id \in DOMAIN entry |-> "Unvisited"]
      /\ stack' = << >> /\ vec' = [l \in Sort!Layers |-> << >>] /\ status' = "sorting"
  BY DEF StartSort, transVars
<1>2. \A e : Code(e)' = Code(e)
  BY <1>1, ProgKept DEF Code
<1>3. GraphOK'
  BY <1>1, <1>2 DEF GraphOK
<1>4. PassedLast'
  BY <1>1 DEF PassedLast
<1>5. DOMAIN stack' = {} /\ DOMAIN vec' = SortP!Layers /\ 3 \in SortP!Layers
      /\ \A l \in SortP!Layers : vec'[l] = << >> /\ DOMAIN vec'[l] = {}
  BY <1>1 DEF Sort!Layers, SortP!Layers
<1>6. PassedPlaced'
  BY <1>5 DEF PassedPlaced
<1>7. PICK g : g = graph'
  OBVIOUS
<1>8. SortP!IsGraph(g) /\ DOMAIN g.opcode = DOMAIN entry
  <2>1. DOMAIN g.opcode = DOMAIN entry
    BY <1>1, <1>7
  <2> QED BY <1>1, <1>7, <2>1, TypesAreAGraph
<1>9. SortP!TypeOK'
  <2>1. SortP!IsGraph(graph)'
    BY <1>7, <1>8 DEF SortP!IsGraph, SortP!OpCodes
  <2>2. dfs' \in [SortP!Entries' -> SortP!DFSStates]
    BY <1>1, <1>7, <1>8 DEF SortP!Entries, SortP!DFSStates
  <2>3. stack' \in Seq(SortP!Frame') /\ status' \in {"sorting", "sorted", "cyclic"}
    BY <1>1
  <2>4. vec' \in [SortP!Layers -> Seq(SortP!Entries')]
    BY <1>5, <1>1 DEF Sort!Layers, SortP!Layers
  <2> QED BY <2>1, <2>2, <2>3, <2>4 DEF SortP!TypeOK, SortP!DFSStates, SortP!Layers
<1>10. SortP!VecsHoldVisited' /\ SortP!VecsInjective' /\ SortP!FramesDone' /\ SortP!StackIsPath'
  <2>1. \A e \in DOMAIN entry : dfs'[e] = "Unvisited"
    BY <1>1
  <2>2. SortP!Collected' \subseteq DOMAIN entry /\ SortP!Entries' = DOMAIN entry
    BY <1>7, <1>8 DEF SortP!Collected, SortP!Entries
  <2> QED BY <1>5, <2>1, <2>2
          DEF SortP!VecsHoldVisited, SortP!VecsInjective, SortP!FramesDone, SortP!StackIsPath
<1>11. SortP!VecsClosed'
  BY <1>5 DEF SortP!VecsClosed, SortP!Closed
<1>12. SortP!IInv'
  BY <1>9, <1>10, <1>11 DEF SortP!IInv
<1> QED BY <1>3, <1>4, <1>6, <1>12

LEMMA TranslateProg == Translate => prog' = prog
<1> SUFFICES ASSUME Translate PROVE prog' = prog
  OBVIOUS
<1>1. CASE Root
  BY <1>1 DEF Root
<1>2. CASE Descend
  BY <1>2 DEF Descend
<1>3. CASE Take
  BY <1>3 DEF Take
<1>4. CASE AddType \/ AddTypeUnknownId \/ CloseStruct \/ ReturnStruct \/ CreateForwardPointers
  BY <1>4 DEF AddType, AddTypeUnknownId, CloseStruct, ReturnStruct, CreateForwardPointers
<1> QED BY <1>1, <1>2, <1>3, <1>4 DEF Translate

LEMMA TranslateInTypes == Translate => phase = "types"
BY DEF Translate, Root, Descend, Take, AddType, AddTypeUnknownId, CloseStruct,
       ReturnStruct, CreateForwardPointers, Running

\* The types that are made keep the LLVM type they stand for.
LEMMA CodesKeep ==
  ASSUME TranslationInv, Translate
  PROVE  prog' = prog /\ \A id \in DOMAIN entry : id \in DOMAIN entry' /\ Code(id)' = Code(id)
<1> USE DEF TranslationInv
<1>1. prog' = prog
  BY TranslateProg
<1> DEFINE Same == \A id \in DOMAIN entry : id \in DOMAIN entry' /\ entry'[id].llvm = entry[id].llvm
<1>2. Same => prog' = prog /\ \A id \in DOMAIN entry : id \in DOMAIN entry' /\ Code(id)' = Code(id)
  BY <1>1, ProgKept DEF Code
<1>11. ASSUME NEW e, entry' = Append(entry, e) PROVE Same
  BY <1>11
<1>12. entry' = entry => Same
  OBVIOUS
<1>3. \A t : Call(t) => Same
  BY <1>11, <1>12 DEF Call
<1> HIDE DEF Same
<1>4. CASE Root
  <2>1. entry' = entry \/ Call(prog.roots[asked + 1])
    BY <1>4 DEF Root
  <2> QED BY <1>2, <1>3, <1>12, <2>1
<1>5. CASE Descend
  BY <1>2, <1>3, <1>5 DEF Descend
<1>6. CASE Take
  <2>1. calls # << >>
    BY <1>6 DEF Take, Running
  <2>2. CASE Kind(Top.type) # "struct"
    <3>1. entry' = entry
      BY <1>6, <2>2 DEF Take
    <3> QED BY <1>2, <1>12, <3>1
  <2>3. CASE Kind(Top.type) = "struct"
    <3>1. PICK x, p, n : x = typeMap[Element] /\ p = Place /\ n = Top.id
      OBVIOUS
    <3>2. entry' = [entry EXCEPT ![n].operands[p] = x]
      BY <1>6, <2>3, <3>1 DEF Take
    <3>3. n \in DOMAIN entry
      BY <2>1, <2>3, <3>1, TopIs DEF FrameOK, StructFrame, StandsFor
    <3>4. DOMAIN entry' = DOMAIN entry /\ \A id \in DOMAIN entry : id # n => entry'[id] = entry[id]
      BY <3>2
    <3>5. entry'[n].llvm = entry[n].llvm
      BY <3>2, <3>3, EntryFields DEF Made
    <3>6. Same
      BY <3>4, <3>5 DEF Same
    <3> QED BY <1>2, <3>6
  <2> QED BY <2>2, <2>3
<1>7. CASE AddType
  <2>1. entry' = Append(entry, [llvm |-> Top.type, operands |-> Top.args])
    BY <1>7 DEF AddType
  <2> QED BY <1>2, <1>11, <2>1
<1>8. CASE AddTypeUnknownId \/ CloseStruct \/ ReturnStruct \/ CreateForwardPointers
  BY <1>2, <1>12, <1>8 DEF AddTypeUnknownId, CloseStruct, ReturnStruct, CreateForwardPointers
<1> QED BY <1>1, <1>4, <1>5, <1>6, <1>7, <1>8 DEF Translate

\* A pointer that is added after a struct has a larger id, in the vector that the
\* translation makes.
LEMMA TypeOrderKeeps ==
  ASSUME TranslationInv, TypeOrder, Translate
  PROVE  TypeOrder'
<1> USE DEF TranslationInv
<1>1. phase = "types" /\ typeVec \in Seq(Nat) /\ DOMAIN entry \subseteq Nat
  <2>1. phase = "types"
    BY TranslateInTypes
  <2> QED BY <2>1, NextIdIs DEF AddedOrOpen
<1>2. PICK v, w : v = typeVec /\ w = typeVec'
  OBVIOUS
<1>3. /\ v \in Seq(Nat)
      /\ \A j \in DOMAIN v : v[j] \in DOMAIN entry
      /\ \A j \in DOMAIN v : Code(v[j]) # "struct" => \A i \in 1 .. (j - 1) : v[i] < v[j]
  BY <1>1, <1>2 DEF TypeOrder
<1>4. prog' = prog /\ \A id \in DOMAIN entry : id \in DOMAIN entry' /\ Code(id)' = Code(id)
  BY CodesKeep
<1>5. CASE typeVec' = typeVec
  <2>1. \A j \in DOMAIN v : Code(v[j])' = Code(v[j]) /\ v[j] \in DOMAIN entry'
    BY <1>3, <1>4
  <2> QED BY <1>2, <1>3, <1>5, <2>1 DEF TypeOrder
<1>6. ASSUME NEW n \in Nat, w = Append(v, n), n \in DOMAIN entry',
             Code(n)' # "struct" => \A id \in DOMAIN entry : id < n
      PROVE  TypeOrder'
  <2>1. ASSUME NEW j \in DOMAIN w
        PROVE  w[j] \in DOMAIN entry' /\ (Code(w[j])' # "struct" => \A i \in 1 .. (j - 1) : w[i] < w[j])
    <3>1. j \in 1 .. (Len(v) + 1) /\ \A i \in 1 .. Len(v) : w[i] = v[i] /\ i \in DOMAIN v
      BY <1>3, <1>6
    <3>2. CASE j \in 1 .. Len(v)
      <4>1. /\ j \in DOMAIN v /\ w[j] = v[j] /\ v[j] \in DOMAIN entry
            /\ \A i \in 1 .. (j - 1) : w[i] = v[i]
        BY <1>3, <3>1, <3>2
      <4>2. v[j] \in DOMAIN entry' /\ Code(v[j])' = Code(v[j])
        BY <1>4, <4>1
      <4> QED BY <1>3, <4>1, <4>2
    <3>3. CASE j = Len(v) + 1
      <4>1. w[j] = n
        BY <1>3, <1>6, <3>3
      <4>2. \A i \in 1 .. (j - 1) : w[i] \in DOMAIN entry
        BY <1>3, <3>1, <3>3
      <4> QED BY <1>6, <4>1, <4>2
    <3> QED BY <1>3, <3>1, <3>2, <3>3
  <2> QED BY <1>2, <2>1 DEF TypeOrder
<1>7. CASE AddType
  <2>1. PICK n : n = NextId
    OBVIOUS
  <2>2. /\ calls # << >> /\ typeVec' = Append(typeVec, n)
        /\ entry' = Append(entry, [llvm |-> Top.type, operands |-> Top.args])
    BY <1>7, <2>1 DEF AddType, Running
  <2>3. n \in Nat /\ n = Len(entry) + 1 /\ DOMAIN entry = 1 .. Len(entry) /\ Len(entry) \in Nat
    BY <2>1, NextIdIs
  <2>4. n \in DOMAIN entry' /\ \A id \in DOMAIN entry : id < n
    BY <2>2, <2>3
  <2> QED BY <1>2, <1>6, <2>2, <2>3, <2>4
<1>8. CASE CloseStruct
  <2>1. PICK n : n = Top.id
    OBVIOUS
  <2>2. calls # << >> /\ typeVec' = Append(typeVec, n) /\ entry' = entry /\ Top.open
    BY <1>8, <2>1 DEF CloseStruct, Running
  <2>3. Top \in Frame /\ FrameOK(Top)
    BY <2>2, TopIs
  <2>4. n \in DOMAIN entry /\ Code(n) = "struct"
    BY <2>1, <2>2, <2>3 DEF FrameOK, StructFrame, OtherFrame, StandsFor, Code
  <2> QED BY <1>1, <1>2, <1>4, <1>6, <2>2, <2>4
<1>9. CASE Root \/ Descend \/ AddTypeUnknownId \/ ReturnStruct \/ CreateForwardPointers
  BY <1>5, <1>9 DEF Root, Descend, AddTypeUnknownId, ReturnStruct, CreateForwardPointers
<1>10. CASE Take
  BY <1>5, <1>10 DEF Take
<1> QED BY <1>7, <1>8, <1>9, <1>10 DEF Translate

\* The forward pointers are the same from the end of the translation on.
LEMMA ForwardBehindKeeps ==
  ASSUME TranslationInv, TypeOrder, ForwardBehind, ForwardOK, Translate
  PROVE  ForwardBehind'
<1> USE DEF TranslationInv
<1>1. phase = "types" /\ typeVec \in Seq(Nat)
  BY TranslateInTypes DEF AddedOrOpen
<1>2. CASE forward' = forward
  BY <1>1, <1>2 DEF ForwardOK, ForwardBehind
<1>3. CASE CreateForwardPointers
  <2>1. PICK v : v = typeVec
    OBVIOUS
  <2>2. /\ v \in Seq(Nat) /\ forward' = ForwardPointers(v) /\ UNCHANGED <<prog, entry>>
        /\ calls = << >>
    BY <1>1, <1>3, <2>1 DEF CreateForwardPointers
  <2>3. \A e : Code(e)' = Code(e) /\ Members(e)' = Members(e)
    BY <2>2, ProgKept DEF Code, Members
  <2>4. \A id \in DOMAIN entry : \E j \in DOMAIN v : v[j] = id
    <3>1. DOMAIN calls = {}
      BY <2>2
    <3>2. \A id \in DOMAIN entry : id \in Added
      BY <1>1, <3>1 DEF AddedOrOpen
    <3> QED BY <2>1, <3>2 DEF Added, Range
  <2>5. ASSUME NEW p \in ForwardPointers(v)
        PROVE  \E e \in DOMAIN entry : Code(e) = "struct" /\ p \in Members(e) /\ e < p
    <3>1. PICK i \in DOMAIN v : /\ Code(v[i]) = "struct" /\ p \in Members(v[i])
                                /\ \A j \in 1 .. i : v[j] # p
      BY <2>5 DEF ForwardPointers
    <3>2. p \in DOMAIN entry /\ Code(p) = "pointer"
      BY <2>5 DEF ForwardPointers
    <3>3. PICK j \in DOMAIN v : v[j] = p
      BY <2>4, <3>2
    <3>4. i \in 1 .. (j - 1)
      BY <2>2, <3>1, <3>3
    <3>5. v[i] < v[j] /\ v[i] \in DOMAIN entry
      BY <1>1, <2>1, <3>2, <3>3, <3>4 DEF TypeOrder
    <3> QED BY <3>1, <3>3, <3>5
  <2> QED BY <2>2, <2>3, <2>5 DEF ForwardBehind
<1>4. CASE forward' # forward
  BY <1>4, <1>3 DEF Translate, Root, Descend, Take, AddType, AddTypeUnknownId, CloseStruct, ReturnStruct
<1> QED BY <1>2, <1>4

-----------------------------------------------------------------------------
(***************************************************************************)
(* The round trip.                                                         *)
(***************************************************************************)
LEMMA RInitSInv == RInit => SInv
<1> SUFFICES ASSUME RInit PROVE SInv
  OBVIOUS
<1>1. /\ status = "idle" /\ forward = {} /\ typeVec = << >> /\ written = 0
  BY DEF RInit, Init
<1>2. LInv
  BY RInitLInv
<1>3. TypeOrder /\ ForwardBehind
  BY <1>1 DEF TypeOrder, ForwardBehind
<1>4. SortP!SortedIsComplete
  BY <1>1 DEF SortP!SortedIsComplete
<1> QED BY <1>1, <1>2, <1>3, <1>4 DEF SInv, Sorting, OperandsRead

\* The actions that do not touch the types or the forward pointers.
LEMMA TypesKept ==
  ASSUME UNCHANGED <<prog, entry, forward, typeVec, phase>>
  PROVE  /\ TypeOrder => TypeOrder'
         /\ ForwardBehind => ForwardBehind'
         /\ (DirectlyLinked)' <=> DirectlyLinked
         /\ \A v : Complete(v)' <=> Complete(v)
         /\ \A e : LookedUp(e)' = LookedUp(e)
BY ProgKept DEF TypeOrder, ForwardBehind, DirectlyLinked, Complete, ForwardPointers, LookedUp,
                Members, Code, Types, Kind, Elems

LEMMA FileKept ==
  ASSUME UNCHANGED <<prog, entry, forward, typeVec, phase, file>>, FileOK
  PROVE  FileOK'
<1>1. /\ (DirectlyLinked)' <=> DirectlyLinked
      /\ \A e : LookedUp(e)' = LookedUp(e)
  BY TypesKept
<1> QED BY <1>1 DEF FileOK, LookedUpBefore

LEMMA FileComplete ==
  ASSUME UNCHANGED <<prog, entry, forward, typeVec, phase, file>>, Complete(file)
  PROVE  Complete(file)'
<1>1. PICK v : v = file
  OBVIOUS
<1>2. Complete(v)'
  BY <1>1, TypesKept
<1> QED BY <1>1, <1>2

\* What is looked up while the next entry is read has been read.
LEMMA NextIsKnown ==
  ASSUME FileOK, declared \in Nat, declared < Len(file), DirectlyLinked
  PROVE  LookedUp(file[declared + 1]) \subseteq Known
<1>1. PICK f, d : f = file /\ d = declared
  OBVIOUS
<1>2. f \in Seq(DOMAIN entry) /\ d \in Nat /\ d < Len(f)
  BY <1>1 DEF FileOK
<1>3. d + 1 \in DOMAIN f /\ 1 .. d = 1 .. ((d + 1) - 1)
  BY <1>2
<1>4. PICK i : i = d + 1
  OBVIOUS
<1>5. LookedUp(f[i]) \subseteq {f[j] : j \in 1 .. (i - 1)}
  <2>1. LookedUpBefore(f)
    BY <1>1 DEF FileOK
  <2>2. i \in DOMAIN f
    BY <1>3, <1>4
  <2> QED BY <2>1, <2>2 DEF LookedUpBefore
<1>6. {f[j] : j \in 1 .. (i - 1)} = {f[j] : j \in 1 .. d}
  BY <1>3, <1>4
<1> QED BY <1>1, <1>4, <1>5, <1>6 DEF Known

LEMMA SortingKeeps ==
  ASSUME SInv, RSort
  PROVE  SInv'
<1> USE DEF SInv
<1>1. status = "sorting" /\ phase = "translated"
  BY SortStarted DEF RSort, LInv, RInv, TranslationInv, Phases
<1>2. SortP!Next /\ UNCHANGED <<transVars, fileVars>>
  BY SortSteps DEF RSort
<1>3. UNCHANGED <<prog, entry, forward, typeVec, phase, written>>
  BY <1>2 DEF transVars, fileVars
<1>4. LInv'
  BY RNextLInv DEF RNext
<1>5. GraphOK /\ SortP!IInv /\ PassedLast /\ PassedPlaced
  BY <1>1 DEF Sorting
<1>6. SortP!IInv'
  BY <1>2, <1>5, SortP!NextIInv
<1>7. PassedLast' /\ PassedPlaced'
  BY <1>1, <1>2, <1>3, <1>5, SortKeepsPassed
<1>8. graph' = graph /\ status' \in {"sorting", "sorted", "cyclic"}
  BY <1>1, <1>2 DEF SortP!Next, SortP!StartVisit, SortP!PassOperand, SortP!VisitOperand,
                    SortP!CyclicDependency, SortP!FinishVisit, SortP!Finish
<1>9. GraphOK'
  <2>1. \A e : Code(e)' = Code(e)
    BY <1>3, ProgKept DEF Code
  <2> QED BY <1>3, <1>5, <1>8, <2>1 DEF GraphOK
<1>10. SortP!SortedIsComplete'
  BY <1>1, <1>2 DEF SortP!SortedIsComplete, SortP!Next, SortP!StartVisit, SortP!PassOperand,
                    SortP!VisitOperand, SortP!CyclicDependency, SortP!FinishVisit, SortP!Finish,
                    SortP!Collected, SortP!Entries
<1>11. TypeOrder' /\ ForwardBehind'
  BY <1>3, TypesKept
<1> QED BY <1>1, <1>3, <1>4, <1>6, <1>7, <1>8, <1>9, <1>10, <1>11 DEF OperandsRead

LEMMA WriteKeeps ==
  ASSUME SInv, Write
  PROVE  SInv'
<1> USE DEF SInv
<1>1. /\ status = "sorted" /\ status' = "reading" /\ declared' = 0
      /\ UNCHANGED <<prog, entry, forward, typeVec, phase, graph>> /\ file' = Sort!Emitted
  BY DEF Write, transVars
<1>2. phase = "translated" /\ LInv /\ LInv'
  BY <1>1, RNextLInv DEF RNext, LInv, RInv, TranslationInv, Phases
<1>3. GraphOK /\ SortP!IInv /\ PassedLast /\ PassedPlaced
  BY <1>1 DEF Sorting
<1>4. PICK v : v = vec[3]
  OBVIOUS
<1>5. file' = v /\ v \in Seq(DOMAIN entry)
  BY <1>1, <1>2, <1>3, <1>4, EmittedIs
<1>6. SortP!Collected = DOMAIN entry /\ graph.forward = forward
  BY <1>2, <1>3, GraphIs
<1>7. Complete(v)
  BY <1>1, <1>2, <1>3, <1>4, <1>6, EmittedComplete DEF SortP!SortedIsComplete
<1>8. FileOK'
  <2>1. /\ (DirectlyLinked)' <=> DirectlyLinked
        /\ \A e : LookedUp(e)' = LookedUp(e)
    BY <1>1, TypesKept
  <2>2. DirectlyLinked => LookedUpBefore(v)
    BY <1>2, <1>3, <1>4, EmittedFileOK
  <2>3. LookedUpBefore(v)' <=> LookedUpBefore(v)
    BY <2>1 DEF LookedUpBefore
  <2>4. (DirectlyLinked)' => LookedUpBefore(v)'
    BY <2>1, <2>2, <2>3
  <2>5. (DirectlyLinked)' => LookedUpBefore(file)'
    BY <1>5, <2>4
  <2> QED BY <1>1, <1>5, <2>5 DEF FileOK
<1>9. Complete(file)'
  <2>1. Complete(v)'
    BY <1>1, <1>7, TypesKept
  <2> QED BY <1>5, <2>1
<1>10. SortP!SortedIsComplete'
  BY <1>1 DEF SortP!SortedIsComplete
<1>11. TypeOrder' /\ ForwardBehind'
  BY <1>1, TypesKept
<1> QED BY <1>1, <1>2, <1>6, <1>8, <1>9, <1>10, <1>11 DEF OperandsRead, Sorting

LEMMA ReadingKeeps ==
  ASSUME SInv, ReadType \/ ReadTypeUnknownId \/ ReadEnd
  PROVE  SInv'
<1> USE DEF SInv
<1>1. /\ status = "reading" /\ UNCHANGED <<prog, entry, phase, graph, file, written>>
  BY DEF ReadType, ReadTypeUnknownId, ReadEnd, transVars, sortVars, fileVars
<1>2. phase = "translated" /\ LInv /\ LInv'
  BY <1>1, RNextLInv DEF RNext, LInv, RInv, TranslationInv, Phases
<1>3. FileOK /\ declared \in Nat /\ Complete(file) /\ forward = graph.forward
  BY <1>1
<1>4. CASE ReadType
  <2>1. UNCHANGED <<forward, typeVec>> /\ status' = status /\ declared' \in Nat
    BY <1>3, <1>4 DEF ReadType, transVars, sortVars
  <2>2. TypeOrder' /\ ForwardBehind' /\ FileOK'
    BY <1>1, <1>3, <2>1, TypesKept, FileKept
  <2>3. Complete(file)'
    BY <1>1, <1>3, <2>1, FileComplete
  <2> QED BY <1>1, <1>2, <1>3, <2>1, <2>2, <2>3
          DEF OperandsRead, Sorting, SortP!SortedIsComplete
<1>5. CASE ReadTypeUnknownId
  <2>1. UNCHANGED <<forward, typeVec>> /\ status' = "unknown id" /\ declared < Len(file)
        /\ ~(LookedUp(file[declared + 1]) \subseteq Known)
    BY <1>5 DEF ReadTypeUnknownId, transVars
  <2>5. ~DirectlyLinked
    BY <1>3, <2>1, NextIsKnown
  <2>6. TypeOrder' /\ ForwardBehind' /\ ~(DirectlyLinked)'
    BY <1>1, <2>1, <2>5, TypesKept
  <2> QED BY <1>1, <1>2, <2>1, <2>6 DEF OperandsRead, Sorting, SortP!SortedIsComplete
<1>6. CASE ReadEnd
  <2>1. forward' = ForwardPointers(file) /\ typeVec' = file /\ status' = "idle"
    BY <1>6 DEF ReadEnd
  <2>2. forward' = forward /\ ToSet(typeVec') = DOMAIN entry
    BY <1>3, <2>1 DEF Complete
  <2>3. ForwardBehind'
    BY <1>1, <2>2, ProgKept DEF ForwardBehind, Code, Members
  <2>4. TypeOrder'
    BY <1>1, <1>2 DEF TypeOrder
  <2> QED BY <1>1, <1>2, <1>3, <2>1, <2>2, <2>3, <2>4
          DEF OperandsRead, Sorting, SortP!SortedIsComplete
<1> QED BY <1>4, <1>5, <1>6

LEMMA RNextSInv == SInv /\ [RNext]_vars => SInv'
<1> SUFFICES ASSUME SInv, [RNext]_vars PROVE SInv'
  OBVIOUS
<1>1. LInv'
  BY RNextLInv DEF SInv
<1>2. CASE RTranslate
  <2>1. Translate /\ UNCHANGED <<graph, dfs, stack, vec, status, file, declared, written>>
    BY <1>2 DEF RTranslate, sortVars, fileVars
  <2>2. phase = "types" /\ TranslationInv /\ ForwardOK /\ TypeOrder /\ ForwardBehind
    BY <2>1, TranslateInTypes DEF SInv, LInv, RInv
  <2>3. status = "idle" /\ written = 0
    BY <2>2 DEF TranslationInv, Phases, SInv
  <2>4. TypeOrder' /\ ForwardBehind'
    BY <2>1, <2>2, TypeOrderKeeps, ForwardBehindKeeps
  <2> QED BY <1>1, <2>1, <2>3, <2>4 DEF SInv, Sorting, SortP!SortedIsComplete, OperandsRead
<1>3. CASE StartSort
  <2>1. /\ UNCHANGED <<prog, entry, forward, typeVec, phase>> /\ status' = "sorting"
        /\ phase = "translated"
    BY <1>3 DEF StartSort, transVars
  <2>2. GraphOK' /\ SortP!IInv' /\ PassedLast' /\ PassedPlaced'
    BY <1>3, StartKeeps DEF SInv
  <2>3. TypeOrder' /\ ForwardBehind'
    BY <2>1, TypesKept DEF SInv
  <2> QED BY <1>1, <2>1, <2>2, <2>3 DEF SInv, SortP!SortedIsComplete, OperandsRead
<1>4. CASE RSort
  BY <1>4, SortingKeeps
<1>5. CASE Write
  BY <1>5, WriteKeeps
<1>6. CASE ReadType \/ ReadTypeUnknownId \/ ReadEnd
  BY <1>6, ReadingKeeps
<1>7. CASE UNCHANGED vars
  <2>1. /\ UNCHANGED <<prog, entry, forward, typeVec, phase, file, graph, dfs, stack, vec, status,
                       declared, written>>
    BY <1>7 DEF vars, transVars, sortVars, fileVars
  <2>2. TypeOrder' /\ ForwardBehind' /\ (FileOK => FileOK') /\ (OperandsRead => OperandsRead')
    BY <2>1, TypesKept, FileKept DEF SInv, OperandsRead
  <2>3. GraphOK => GraphOK'
    BY <2>1, ProgKept DEF GraphOK, Code
  <2>4. SortP!IInv => SortP!IInv'
    BY <2>1, SortP!NextIInv DEF SortP!vars
  <2>5. (PassedLast => PassedLast') /\ (PassedPlaced => PassedPlaced')
    BY <2>1, ProgKept DEF PassedLast, PassedPlaced, Passed, Code
  <2>6. SortP!SortedIsComplete'
    BY <2>1 DEF SInv, SortP!SortedIsComplete, SortP!Collected, SortP!Entries
  <2>7. Complete(file) => Complete(file)'
    BY <2>1, FileComplete
  <2> QED BY <1>1, <2>1, <2>2, <2>3, <2>4, <2>5, <2>6, <2>7 DEF SInv, Sorting
<1> QED BY <1>2, <1>3, <1>4, <1>5, <1>6, <1>7 DEF RNext

\* Whatever the types, if recursive ones are linked as clang links them, the
\* assertion "Id is not in map" does not fire when the file is read: each type
\* stands behind what the decoder and addEntry() look up for it.
THEOREM OperandsReadHolds == RSpec => []OperandsRead
<1>1. RInit => SInv
  BY RInitSInv
<1>2. SInv /\ [RNext]_vars => SInv'
  BY RNextSInv
<1>3. SInv => OperandsRead
  BY DEF SInv
<1> QED BY <1>1, <1>2, <1>3, PTL DEF RSpec

\* The module that is read holds every type, and its forward pointers are the ones
\* it was written with, in every round.
THEOREM SameForwardHolds == RSpec => []SameForward
<1>1. RInit => SInv
  BY RInitSInv
<1>2. SInv /\ [RNext]_vars => SInv'
  BY RNextSInv
<1>3. SInv => SameForward
  BY DEF SInv, SameForward
<1> QED BY <1>1, <1>2, <1>3, PTL DEF RSpec

-----------------------------------------------------------------------------
(***************************************************************************)
(* Why the forward pointers break the circles of types.  A pointer is      *)
(* added while the members of a struct that leads back to it are           *)
(* translated, and then it stands behind that struct; or when it is asked  *)
(* for from outside, and then all structs it leads to have their members.  *)
(***************************************************************************)
\* Each activation was called for the first element its caller has left to ask for.
CallsNext ==
  \A m \in DOMAIN calls : m < Len(calls) =>
    /\ calls[m].todo # {}
    /\ calls[m + 1].type = Elems(calls[m].type)[Min(calls[m].todo)]

\* The activations of structs: each is of a struct of its own, in TypeVec when it is
\* closed, and the places it still asks for are empty.
StructsOnce ==
  \A k, m \in DOMAIN calls :
    Kind(calls[k].type) = "struct" /\ calls[k].type = calls[m].type => k = m

ClosedAdded ==
  \A k \in DOMAIN calls :
    Kind(calls[k].type) = "struct" /\ ~calls[k].open => calls[k].id \in Added

Blank ==
  \A k \in DOMAIN calls : \A id \in DOMAIN entry : \A i \in DOMAIN Elems(calls[k].type) :
    Awaits(calls[k], id, i) => entry[id].operands[i] = 0

\* The next step makes p a member of s.
TakesNext(s, p) ==
  /\ calls # << >>
  /\ Top.todo # {}
  /\ Kind(Top.type) = "struct"
  /\ Top.id = s
  /\ Element \in Mapped
  /\ typeMap[Element] = p

\* A struct that stands before p has it for a member, or will.
Declared(p) ==
  \E i \in DOMAIN typeVec :
    /\ Code(typeVec[i]) = "struct"
    /\ \A j \in 1 .. i : typeVec[j] # p
    /\ p \in Members(typeVec[i]) \/ TakesNext(typeVec[i], p)

\* The structs p leads to have other members, and have them all.
Outside(p) ==
  \A t \in Found(entry[p].llvm, Kinds) :
    Kind(t) = "struct" =>
      /\ t \in Mapped
      /\ \A k \in DOMAIN calls : calls[k].type # t
      /\ \A e \in DOMAIN entry : entry[e].llvm = t => p \notin Members(e)

PointersDeclared ==
  DirectlyLinked =>
    \A p \in DOMAIN entry : Code(p) = "pointer" => Declared(p) \/ Outside(p)

CirclesInv ==
  /\ CallsNext
  /\ StructsOnce
  /\ ClosedAdded
  /\ Blank
  /\ PointersDeclared

\* A pointer that leads back to a struct it is a member of is passed over.
CirclesForward ==
  DirectlyLinked =>
    \A e \in DOMAIN entry : \A p \in Members(e) :
      /\ Code(e) = "struct"
      /\ Code(p) = "pointer"
      /\ entry[e].llvm \in Found(entry[p].llvm, Kinds)
      => p \in forward

CInv ==
  /\ phase = "types" => CirclesInv
  /\ phase = "translated" => CirclesForward

-----------------------------------------------------------------------------
(***************************************************************************)
(* What is found from a pointer.                                           *)
(***************************************************************************)
LEMMA FoundTrans ==
  ASSUME IsProgram(prog), NEW t \in Types, NEW kinds, NEW u \in Found(t, kinds)
  PROVE  u \in Types /\ Found(u, kinds) \subseteq Found(t, kinds)
<1>1. Found(t, kinds) \in SUBSET Types /\ Into(Found(t, kinds), kinds) = Found(t, kinds)
  BY FoundCloses
<1>2. u \in Types
  BY <1>1
<1> QED BY <1>1, <1>2, FoundCloses

LEMMA FoundElement ==
  ASSUME IsProgram(prog), NEW t \in Types, NEW u \in Found(t, Kinds), NEW v \in Range(Elems(u))
  PROVE  v \in Found(t, Kinds)
<1>1. u \in Types
  BY FoundTrans
<1>2. Kind(u) \in Kinds
  BY <1>1, KindOfElement
<1> QED BY <1>2, FoundElements

\* No function is found from another type.
LEMMA NoFunctionFound ==
  ASSUME IsProgram(prog), NEW t \in Types, Kind(t) # "function", NEW u \in Found(t, Kinds)
  PROVE  Kind(u) # "function"
<1>1. PICK C : C = {v \in Types : Kind(v) # "function"}
  OBVIOUS
<1>2. C \in SUBSET Types /\ t \in C
  BY <1>1
<1>3. Into(C, Kinds) \subseteq C
  <2>1. ASSUME NEW v \in C, NEW w \in Range(Elems(v)) PROVE w \in C
    BY <1>1, <2>1, KindOfElement
  <2> QED BY <2>1 DEF Into
<1>4. Found(t, Kinds) \subseteq C
  BY <1>2, <1>3, FoundCloses
<1> QED BY <1>1, <1>4

\* recursiveType() misses no struct where vectors hold no pointers.
LEMMA FoundIsVisited ==
  ASSUME IsProgram(prog), DirectlyLinked, NEW t \in Types, Kind(t) = "pointer",
         NEW st \in Found(t, Kinds), Kind(st) = "struct"
  PROVE  st \in Visited(t)
<1>1. PICK ks : ks = {"struct", "pointer", "array"}
  OBVIOUS
<1>2. PICK F : F = Found(t, ks)
  OBVIOUS
<1>3. F \in SUBSET Types /\ t \in F /\ Into(F, ks) = F /\ F = Visited(t)
  BY <1>1, <1>2, FoundCloses DEF Visited
<1>4. PICK C : C = F \cup {v \in Types : Kind(v) = "scalar"}
  OBVIOUS
<1>5. C \in SUBSET Types /\ t \in C
  BY <1>3, <1>4
<1>6. \A v \in F : Kind(v) # "function"
  <2>1. PICK D : D = {v \in Types : Kind(v) # "function"}
    OBVIOUS
  <2>2. Into(D, ks) \subseteq D
    <3>1. ASSUME NEW v \in D, NEW w \in Range(Elems(v)) PROVE w \in D
      BY <2>1, <3>1, KindOfElement
    <3> QED BY <3>1 DEF Into
  <2>3. D \in SUBSET Types /\ t \in D
    BY <2>1
  <2>4. F \subseteq D
    BY <1>2, <2>2, <2>3, FoundCloses
  <2> QED BY <2>1, <2>4
<1>7. Into(C, Kinds) \subseteq C
  <2>1. ASSUME NEW v \in C, NEW w \in Range(Elems(v)) PROVE w \in C
    <3>1. v \in Types
      BY <1>5
    <3>2. w \in Types /\ Kind(v) # "scalar" /\ Kind(v) \in Kinds
          /\ (Kind(v) = "vector" => Kind(w) \in {"scalar", "pointer"})
      BY <3>1, KindOfElement
    <3>3. v \in F /\ Kind(v) # "function"
      BY <1>4, <1>6, <3>2
    <3>4. CASE Kind(v) \in ks
      BY <1>3, <1>4, <3>3, <3>4 DEF Into
    <3>5. CASE Kind(v) = "vector"
      <4>1. PICK i \in DOMAIN Elems(v) : w = Elems(v)[i]
        BY DEF Range
      <4>2. Len(Elems(v)) = 1 /\ Elems(v) \in Seq(Types)
        BY <3>1, <3>5, ElementTypes DEF IsProgram, Kind, Elems, Types
      <4>3. i = 1
        BY <4>1, <4>2
      <4>4. Kind(w) \in {"struct", "scalar"}
        BY <3>1, <3>5, <4>1, <4>3 DEF DirectlyLinked
      <4> QED BY <1>4, <3>2, <3>5, <4>4
    <3> QED BY <1>1, <3>2, <3>3, <3>4, <3>5 DEF Kinds
  <2> QED BY <2>1 DEF Into
<1>8. Found(t, Kinds) \subseteq C
  BY <1>5, <1>7, FoundCloses
<1> QED BY <1>3, <1>4, <1>8

\* A pointer is an element of structs and functions only.
LEMMA PointerIn ==
  ASSUME IsProgram(prog), DirectlyLinked, NEW t \in Types, NEW i \in DOMAIN Elems(t),
         Kind(Elems(t)[i]) = "pointer"
  PROVE  Kind(t) \in {"struct", "function"}
<1>1. Elems(t) \in Seq(Types) /\ Kind(t) \in Kinds /\ Kind(t) # "scalar"
  BY ElementTypes, KindOfElement
<1>2. ASSUME Kind(t) \in {"pointer", "array", "vector"} PROVE FALSE
  <2>1. Len(Elems(t)) = 1
    BY <1>2 DEF IsProgram, Kind, Elems, Types
  <2>2. i = 1
    BY <1>1, <2>1
  <2> QED BY <1>2, <2>2 DEF DirectlyLinked
<1> QED BY <1>1, <1>2 DEF Kinds

-----------------------------------------------------------------------------
(***************************************************************************)
(* When a pointer is made.                                                 *)
(***************************************************************************)
LEMMA AwaitsType ==
  ASSUME FramesOK, NEW k \in DOMAIN calls, NEW id, NEW i, Awaits(calls[k], id, i)
  PROVE  id \in DOMAIN entry /\ entry[id].llvm = calls[k].type /\ Kind(calls[k].type) = "struct"
BY DEF FramesOK, FrameOK, StructFrame, StandsFor, Awaits

\* The caller is found from the pointer if any of the frames is.
LEMMA CallersUnfound ==
  ASSUME TranslationInv, NEW n, n = Len(calls), NEW t, t = calls[n].type, calls # << >>,
         n > 1 => calls[n - 1].type \notin Found(t, Kinds)
  PROVE  \A k \in 1 .. (n - 1) : calls[k].type \notin Found(t, Kinds)
<1> USE DEF TranslationInv
<1>1. calls \in Seq(Frame) /\ n \in DOMAIN calls /\ n \in Nat /\ t \in Types
  <2>1. calls \in Seq(Frame)
    BY DEF FramesOK
  <2>2. n \in DOMAIN calls /\ n \in Nat
    BY <2>1
  <2> QED BY <2>1, <2>2, FrameFields
<1>2. SUFFICES ASSUME NEW k \in 1 .. (n - 1), calls[k].type \in Found(t, Kinds) PROVE FALSE
  OBVIOUS
<1>3. PICK m : m = n - 1
  OBVIOUS
<1>4. m \in DOMAIN calls /\ k \in DOMAIN calls /\ n > 1 /\ (k = m \/ k \in 1 .. (m - 1))
  BY <1>1, <1>2, <1>3
<1>5. PICK u, x : u = calls[k].type /\ x = calls[m].type
  OBVIOUS
<1>6. u \in Types /\ x \in Types
  BY <1>1, <1>4, <1>5, FrameFields
<1>7. x \notin Found(t, Kinds)
  BY <1>3, <1>4, <1>5
<1>8. k \in 1 .. (m - 1)
  BY <1>2, <1>4, <1>5, <1>7
<1>9. LeadsTo(u, x)
  BY <1>4, <1>5, <1>8 DEF Called
<1>10. PICK v \in Range(Elems(u)) : x \in Found(v, Kinds)
  BY <1>9 DEF LeadsTo
<1>11. v \in Found(t, Kinds)
  BY <1>1, <1>2, <1>5, <1>10, FoundElement
<1> QED BY <1>1, <1>7, <1>10, <1>11, FoundTrans

\* Once the element of a pointer is there that no frame below is found from, so is
\* everything that is found from it.
LEMMA FoundIsMapped ==
  ASSUME TranslationInv, NEW n, n = Len(calls), NEW t, t = calls[n].type, calls # << >>,
         Kind(t) # "struct", calls[n].todo = {},
         \A k \in 1 .. (n - 1) : calls[k].type \notin Found(t, Kinds)
  PROVE  \A u \in Found(t, Kinds) : u = t \/ u \in Mapped
<1> USE DEF TranslationInv
<1>1. calls \in Seq(Frame) /\ n \in DOMAIN calls /\ n \in Nat /\ t \in Types
  <2>1. calls \in Seq(Frame)
    BY DEF FramesOK
  <2>2. n \in DOMAIN calls /\ n \in Nat
    BY <2>1
  <2> QED BY <2>1, <2>2, FrameFields
<1>2. PICK c : c = calls[n]
  OBVIOUS
<1>3. OtherFrame(c) /\ c.type = t /\ c.args \in Seq(Nat) /\ c.todo = {}
  BY <1>1, <1>2, FrameFields DEF FramesOK, FrameOK
<1>4. PICK F : F = Found(t, Kinds)
  OBVIOUS
<1>5. F \in SUBSET Types /\ t \in F
  BY <1>1, <1>4, FoundCloses
<1>6. PICK D : D = {u \in F : u = t \/ u \in Mapped}
  OBVIOUS
<1>7. D \in SUBSET Types /\ t \in D
  BY <1>5, <1>6
<1>8. ASSUME NEW u \in D, NEW i \in DOMAIN Elems(u) PROVE Elems(u)[i] \in Mapped
  <2>1. CASE u = t
    <3>1. PICK a, b : a = Len(c.args) /\ b = Len(Elems(t))
      OBVIOUS
    <3>2. a \in Nat /\ b \in Nat /\ a <= b /\ (a + 1) .. b = {} /\ DOMAIN Elems(t) = 1 .. b
          /\ DOMAIN c.args = 1 .. a
      <4>1. Elems(t) \in Seq(Types)
        BY <1>1, ElementTypes
      <4>2. a \in Nat /\ b \in Nat /\ DOMAIN Elems(t) = 1 .. b /\ DOMAIN c.args = 1 .. a
        BY <1>3, <3>1, <4>1
      <4>3. a <= b /\ (a + 1) .. b = {}
        BY <1>3, <3>1 DEF OtherFrame
      <4> QED BY <4>2, <4>3
    <3>3. a = b
      <4>1. b \notin (a + 1) .. b
        BY <3>2
      <4> QED BY <3>2, <4>1
    <3>4. StandsFor(c.args[i], Elems(t)[i])
      BY <1>3, <2>1, <3>2, <3>3 DEF OtherFrame
    <3> QED BY <2>1, <3>4 DEF StandsFor, MapOK
  <2>2. CASE u \in Mapped
    <3>1. PICK id : id = typeMap[u]
      OBVIOUS
    <3>2. id \in DOMAIN entry /\ entry[id].llvm = u
      BY <2>2, <3>1 DEF MapOK, StandsFor
    <3>3. \/ StandsFor(entry[id].operands[i], Elems(u)[i])
          \/ \E k \in DOMAIN calls : Awaits(calls[k], id, i)
      BY <3>2 DEF Filled, FilledAt
    <3>4. ASSUME NEW k \in DOMAIN calls, Awaits(calls[k], id, i) PROVE FALSE
      <4>1. calls[k].type = u /\ Kind(u) = "struct"
        BY <3>2, <3>4, AwaitsType
      <4>2. k \in 1 .. (n - 1) \/ k = n
        BY <1>1
      <4> QED BY <1>4, <1>6, <4>1, <4>2
    <3> QED BY <3>3, <3>4 DEF StandsFor, MapOK
  <2> QED BY <1>6, <2>1, <2>2
<1>9. Into(D, Kinds) \subseteq D
  <2>1. ASSUME NEW u \in D, NEW v \in Range(Elems(u)) PROVE v \in D
    <3>1. v \in F
      BY <1>1, <1>4, <1>6, FoundElement
    <3>2. v \in Mapped
      BY <1>8 DEF Range
    <3> QED BY <1>6, <3>1, <3>2
  <2> QED BY <2>1 DEF Into
<1>10. F \subseteq D
  BY <1>1, <1>4, <1>7, <1>9, FoundCloses
<1> QED BY <1>4, <1>6, <1>10

-----------------------------------------------------------------------------
(***************************************************************************)
(* What the steps leave alone.                                             *)
(***************************************************************************)
\* No frame is added, and only the last one changes.
Shrinks ==
  /\ calls' \in Seq(Frame)
  /\ Len(calls') <= Len(calls)
  /\ \A k \in DOMAIN calls' :
       /\ k \in DOMAIN calls
       /\ calls'[k].type = calls[k].type
       /\ calls'[k].id = calls[k].id
       /\ k < Len(calls') => calls'[k] = calls[k]

\* The frames are of types there were frames of, or that are asked for now.
FramesFrom ==
  \A k \in DOMAIN calls' :
    (\E m \in DOMAIN calls : calls'[k].type = calls[m].type) \/ calls'[k].type \notin Mapped

\* The structs are the ones there were, or opened now; only one with a frame changes.
StructsFrom ==
  \A e \in DOMAIN entry' : Kind(entry'[e].llvm) = "struct" =>
    \/ entry'[e].llvm \notin Mapped
    \/ /\ e \in DOMAIN entry
       /\ entry'[e].llvm = entry[e].llvm
       /\ entry'[e] = entry[e] \/ \E k \in DOMAIN calls : calls[k].type = entry[e].llvm

VecGrows == \A i \in DOMAIN typeVec : i \in DOMAIN typeVec' /\ typeVec'[i] = typeVec[i]

\* A struct that has p for a member, or takes it now, has it then.
MembersStay(p) ==
  \A s \in DOMAIN entry :
    p \in Members(s) \/ TakesNext(s, p) => p \in Range(entry'[s].operands)

\* The frames wait for no more than they did, and what they wait for does not change.
WaitsSame ==
  \A k \in DOMAIN calls' : \A id \in DOMAIN entry' : \A i \in DOMAIN Elems(calls'[k].type) :
    Awaits(calls'[k], id, i) =>
      /\ entry'[id].operands[i] = entry[id].operands[i]
      /\ \E m \in DOMAIN calls : calls[m].type = calls'[k].type /\ Awaits(calls[m], id, i)

LEMMA ShrinkKeeps ==
  ASSUME calls \in Seq(Frame), Shrinks, prog' = prog, CallsNext, StructsOnce
  PROVE  CallsNext' /\ StructsOnce' /\ FramesFrom
<1>1. ASSUME NEW m \in DOMAIN calls', m < Len(calls')
      PROVE  calls'[m].todo # {} /\ calls'[m + 1].type = Elems(calls'[m].type)[Min(calls'[m].todo)]
  <2>1. m + 1 \in DOMAIN calls' /\ m < Len(calls)
    BY <1>1 DEF Shrinks
  <2> QED BY <1>1, <2>1 DEF Shrinks, CallsNext
<1>2. CallsNext'
  <2>1. \A t : Elems(t)' = Elems(t)
    BY ProgKept
  <2> QED BY <1>1, <2>1 DEF CallsNext
<1>3. StructsOnce'
  BY ProgKept DEF Shrinks, StructsOnce
<1>4. FramesFrom
  BY DEF Shrinks, FramesFrom
<1> QED BY <1>2, <1>3, <1>4

LEMMA BlankKeeps ==
  ASSUME FramesOK, Blank, prog' = prog, EntryGrows, WaitsSame
  PROVE  Blank'
<1>1. ASSUME NEW k \in DOMAIN calls', NEW id \in DOMAIN entry',
             NEW i \in DOMAIN Elems(calls'[k].type), Awaits(calls'[k], id, i)
      PROVE  entry'[id].operands[i] = 0
  <2>1. PICK m \in DOMAIN calls : calls[m].type = calls'[k].type /\ Awaits(calls[m], id, i)
    BY <1>1 DEF WaitsSame
  <2>2. id \in DOMAIN entry
    BY <2>1, AwaitsType
  <2> QED BY <1>1, <2>1, <2>2 DEF Blank, WaitsSame
<1>2. ASSUME NEW k \in DOMAIN calls', NEW id \in DOMAIN entry',
             NEW i \in DOMAIN Elems(calls[k].type)', Awaits(calls[k], id, i)'
      PROVE  entry'[id].operands[i] = 0
  <2>1. PICK c : c = calls'[k]
    OBVIOUS
  <2>2. Awaits(c, id, i)' /\ i \in DOMAIN Elems(c.type)'
    BY <1>2, <2>1
  <2>3. Awaits(c, id, i) /\ i \in DOMAIN Elems(c.type)
    BY <2>2, GrowsKeeps, ProgKept
  <2> QED BY <1>1, <2>1, <2>3
<1> QED BY <1>2 DEF Blank

\* A pointer that was declared or outside still is.
LEMMA PointerStays ==
  ASSUME TranslationInv, TypeOrder, phase = "types", prog' = prog, EntryGrows,
         Mapped \subseteq Mapped', FramesFrom, StructsFrom, VecGrows,
         NEW p \in DOMAIN entry, MembersStay(p), Declared(p) \/ Outside(p)
  PROVE  Declared(p)' \/ Outside(p)'
<1> USE DEF TranslationInv
<1>1. CASE Declared(p)
  <2>1. PICK i \in DOMAIN typeVec : /\ Code(typeVec[i]) = "struct"
                                    /\ \A j \in 1 .. i : typeVec[j] # p
                                    /\ p \in Members(typeVec[i]) \/ TakesNext(typeVec[i], p)
    BY <1>1 DEF Declared
  <2>2. PICK s : s = typeVec[i]
    OBVIOUS
  <2>3. s \in DOMAIN entry /\ Kind(entry[s].llvm) = "struct" /\ i \in DOMAIN typeVec' /\ typeVec'[i] = s
    BY <2>1, <2>2 DEF TypeOrder, VecGrows, Code
  <2>4. p \in Range(entry'[s].operands)
    BY <2>1, <2>2, <2>3 DEF MembersStay
  <2>5. \A j \in 1 .. i : typeVec'[j] # p
    <3>1. \A j \in 1 .. i : j \in DOMAIN typeVec
      <4>1. typeVec \in Seq(Nat)
        BY DEF AddedOrOpen
      <4> QED BY <4>1
    <3> QED BY <2>1, <3>1 DEF VecGrows
  <2>6. Code(typeVec[i])' = "struct" /\ p \in Members(typeVec[i])'
    BY <2>3, <2>4, ProgKept DEF EntryGrows, Code, Members
  <2>7. Declared(p)'
    BY <2>3, <2>5, <2>6 DEF Declared
  <2> QED BY <2>7
<1>2. CASE Outside(p)
  <2>1. PICK T : T = entry[p].llvm
    OBVIOUS
  <2>2. T = entry'[p].llvm
    BY <2>1 DEF EntryGrows
  <2>3. ASSUME NEW t \in Found(T, Kinds), Kind(t) = "struct"
        PROVE  /\ t \in Mapped'
               /\ \A k \in DOMAIN calls' : calls'[k].type # t
               /\ \A e \in DOMAIN entry' : entry'[e].llvm = t => p \notin Range(entry'[e].operands)
    <3>1. /\ t \in Mapped /\ \A k \in DOMAIN calls : calls[k].type # t
          /\ \A e \in DOMAIN entry : entry[e].llvm = t => p \notin Range(entry[e].operands)
      BY <1>2, <2>1, <2>3 DEF Outside, Members
    <3>2. \A k \in DOMAIN calls' : calls'[k].type # t
      BY <3>1 DEF FramesFrom
    <3>3. ASSUME NEW e \in DOMAIN entry', entry'[e].llvm = t PROVE p \notin Range(entry'[e].operands)
      <4>1. e \in DOMAIN entry /\ entry[e].llvm = t /\ entry'[e] = entry[e]
        BY <2>3, <3>1, <3>3 DEF StructsFrom
      <4> QED BY <3>1, <4>1
    <3> QED BY <3>1, <3>2, <3>3
  <2>4. Found(entry[p].llvm, Kinds)' = Found(T, Kinds)
    BY <2>2, ProgKept
  <2>5. Outside(p)'
    BY <2>3, <2>4, ProgKept DEF Outside, Members
  <2> QED BY <2>5
<1> QED BY <1>1, <1>2

\* A step that makes no pointer keeps what is known of the pointers.
LEMMA PointersStay ==
  ASSUME TranslationInv, TypeOrder, phase = "types", prog' = prog, EntryGrows,
         Mapped \subseteq Mapped', FramesFrom, StructsFrom, VecGrows,
         \A p \in DOMAIN entry : MembersStay(p), PointersDeclared,
         \A p \in DOMAIN entry' : Kind(entry'[p].llvm) = "pointer" => p \in DOMAIN entry
  PROVE  PointersDeclared'
<1>1. (DirectlyLinked)' <=> DirectlyLinked
  BY ProgKept DEF DirectlyLinked
<1>2. ASSUME DirectlyLinked, NEW p \in DOMAIN entry', Code(p)' = "pointer"
      PROVE  Declared(p)' \/ Outside(p)'
  <2>1. Kind(entry'[p].llvm) = "pointer"
    BY <1>2, ProgKept DEF Code
  <2>2. p \in DOMAIN entry /\ Code(p) = "pointer"
    BY <2>1 DEF EntryGrows, Code
  <2>3. Declared(p) \/ Outside(p)
    BY <1>2, <2>2 DEF PointersDeclared
  <2> QED BY <2>2, <2>3, PointerStays
<1> QED BY <1>1, <1>2 DEF PointersDeclared

\* Nothing is taken now: the members stay where the types stay.
LEMMA NothingTaken ==
  ASSUME calls = << >> \/ Top.todo = {} \/ Kind(Top.type) # "struct" \/ Element \notin Mapped,
         \A e \in DOMAIN entry : entry'[e] = entry[e]
  PROVE  \A p \in DOMAIN entry : MembersStay(p)
BY DEF TakesNext, MembersStay, Members

-----------------------------------------------------------------------------
(***************************************************************************)
(* The steps of the translation keep the order that breaks the circles.    *)
(***************************************************************************)
LEMMA PushIs ==
  ASSUME calls \in Seq(Frame), NEW f \in Frame, calls' = Append(calls, f)
  PROVE  Pushes(f) /\ Len(calls) \in Nat /\ DOMAIN calls = 1 .. Len(calls)
BY DEF Pushes

\* The frame of a struct is of a type that is mapped.
LEMMA StructFrameMapped ==
  ASSUME TranslationInv, NEW k \in DOMAIN calls, Kind(calls[k].type) = "struct"
  PROVE  /\ calls[k].type \in Mapped
         /\ calls[k].id \in DOMAIN entry /\ entry[calls[k].id].llvm = calls[k].type
BY DEF TranslationInv, FramesOK, FrameOK, StructFrame, StandsFor, MapOK

\* A type that is not mapped is asked for: it gets a frame.
LEMMA PushCircles ==
  ASSUME TranslationInv, CallsNext, StructsOnce, prog' = prog, NEW f \in Frame, Pushes(f),
         f.type \notin Mapped, calls # << >> => Top.todo # {} /\ f.type = Element
  PROVE  CallsNext' /\ StructsOnce' /\ FramesFrom
<1> USE DEF TranslationInv
<1>1. PICK n : n = Len(calls)
  OBVIOUS
<1>2. n \in Nat /\ DOMAIN calls = 1 .. n /\ DOMAIN calls' = 1 .. (n + 1)
      /\ Len(calls') = n + 1
  <2>1. calls \in Seq(Frame)
    BY DEF FramesOK
  <2>2. n \in Nat /\ DOMAIN calls = 1 .. n /\ DOMAIN calls' = 1 .. (n + 1)
    BY <1>1, <2>1 DEF Pushes
  <2>3. Len(calls') = n + 1
    BY <2>2, <1>1
  <2> QED BY <2>2, <2>3
<1>3. calls'[n + 1] = f /\ \A k \in 1 .. n : calls'[k] = calls[k]
  BY <1>1, <1>2 DEF Pushes
<1>4. CallsNext'
  <2>1. ASSUME NEW m \in 1 .. n
        PROVE  calls'[m].todo # {} /\ calls'[m + 1].type = Elems(calls'[m].type)[Min(calls'[m].todo)]
    <3>1. CASE m < n
      BY <1>1, <1>2, <1>3, <3>1 DEF CallsNext
    <3>2. CASE m = n
      <4>1. calls # << >>
        BY <1>2, <3>2
      <4>2. Top.todo # {} /\ f.type = Elems(Top.type)[Min(Top.todo)] /\ Top = calls[n]
        BY <1>1, <4>1 DEF Element, Place, Top
      <4> QED BY <1>3, <3>2, <4>2
    <3> QED BY <1>2, <3>1, <3>2
  <2>2. \A t : Elems(t)' = Elems(t)
    BY ProgKept
  <2>3. \A m \in DOMAIN calls' : m < Len(calls') => m \in 1 .. n
    BY <1>2
  <2> QED BY <2>1, <2>2, <2>3 DEF CallsNext
<1>5. StructsOnce'
  <2>1. ASSUME NEW k \in 1 .. n, Kind(calls[k].type) = "struct" PROVE calls[k].type # f.type
    BY <1>2, <2>1, StructFrameMapped
  <2>2. ASSUME NEW k \in 1 .. (n + 1), NEW m \in 1 .. (n + 1),
               Kind(calls'[k].type) = "struct", calls'[k].type = calls'[m].type
        PROVE  k = m
    <3>1. (k \in 1 .. n \/ k = n + 1) /\ (m \in 1 .. n \/ m = n + 1)
      BY <1>2
    <3> QED BY <1>2, <1>3, <2>1, <2>2, <3>1 DEF StructsOnce
  <2> QED BY <1>2, <2>2, ProgKept DEF StructsOnce
<1>6. FramesFrom
  <2>1. ASSUME NEW k \in DOMAIN calls'
        PROVE  (\E m \in DOMAIN calls : calls'[k].type = calls[m].type) \/ calls'[k].type \notin Mapped
    <3>1. k \in 1 .. n \/ k = n + 1
      BY <1>2
    <3> QED BY <1>2, <1>3, <3>1
  <2> QED BY <2>1 DEF FramesFrom
<1> QED BY <1>4, <1>5, <1>6

\* A type other than a struct waits for its elements.
LEMMA CallOtherCircles ==
  ASSUME TranslationInv, TypeOrder, CirclesInv, phase = "types", NEW t \in Types, Kind(t) # "struct",
         Call(t), UNCHANGED <<prog, typeVec>>, calls # << >> => Top.todo # {} /\ t = Element
  PROVE  CirclesInv'
<1> USE DEF TranslationInv
<1>1. PICK f : f = [type |-> t, todo |-> DOMAIN Elems(t), args |-> << >>, id |-> 0, open |-> FALSE]
  OBVIOUS
<1>2. t \notin Mapped /\ calls' = Append(calls, f) /\ UNCHANGED <<entry, typeMap>>
  BY <1>1 DEF Call
<1>3. f \in Frame /\ f.type = t
  <2>1. DOMAIN Elems(t) \in SUBSET Nat
    <3>1. Elems(t) \in Seq(Types)
      BY ElementTypes
    <3> QED BY <3>1
  <2>2. << >> \in Seq(Nat)
    OBVIOUS
  <2> QED BY <1>1, <2>1, <2>2 DEF Frame
<1>4. Pushes(f) /\ calls \in Seq(Frame) /\ Len(calls) \in Nat /\ DOMAIN calls = 1 .. Len(calls)
  BY <1>2, <1>3, PushIs DEF FramesOK
<1>5. CallsNext' /\ StructsOnce' /\ FramesFrom
  BY <1>2, <1>3, <1>4, PushCircles DEF CirclesInv
<1>6. EntryGrows /\ DOMAIN entry' = DOMAIN entry /\ Mapped' = Mapped
  BY <1>2 DEF EntryGrows, Mapped
<1>7. \A k \in DOMAIN calls' : Kind(calls'[k].type) = "struct" => k \in DOMAIN calls /\ calls'[k] = calls[k]
  <2>1. \A k \in DOMAIN calls' : k \in DOMAIN calls \/ k = Len(calls) + 1
    BY <1>4 DEF Pushes
  <2> QED BY <1>3, <1>4, <2>1 DEF Pushes
<1>8. ClosedAdded'
  <2>1. Added' = Added
    BY DEF Added
  <2> QED BY <1>7, <2>1, ProgKept DEF CirclesInv, ClosedAdded
<1>9. Blank'
  <2>1. WaitsSame
    BY <1>2, <1>7 DEF WaitsSame, Awaits
  <2> QED BY <1>6, <2>1, BlankKeeps DEF CirclesInv
<1>10. PointersDeclared'
  <2>1. StructsFrom
    BY <1>2 DEF StructsFrom
  <2>2. VecGrows
    BY DEF VecGrows
  <2>3. \A p \in DOMAIN entry : MembersStay(p)
    BY <1>2, NothingTaken
  <2> QED BY <1>5, <1>6, <2>1, <2>2, <2>3, PointersStay DEF CirclesInv
<1> QED BY <1>5, <1>8, <1>9, <1>10 DEF CirclesInv

\* A struct is opened: nothing is in the places of its members yet.
LEMMA CallStructCircles ==
  ASSUME TranslationInv, TypeOrder, CirclesInv, phase = "types", NEW t \in Types, Kind(t) = "struct",
         Call(t), UNCHANGED <<prog, typeVec>>, calls # << >> => Top.todo # {} /\ t = Element
  PROVE  CirclesInv'
<1> USE DEF TranslationInv
<1>1. PICK n : n = NextId
  OBVIOUS
<1>2. PICK e : e = [llvm |-> t, operands |-> [i \in DOMAIN Elems(t) |-> 0]]
  OBVIOUS
<1>3. PICK f : f = [type |-> t, todo |-> Early(t), args |-> << >>, id |-> n, open |-> TRUE]
  OBVIOUS
<1>4. /\ t \notin Mapped /\ calls' = Append(calls, f)
      /\ entry' = Append(entry, e) /\ MapType(t, n)
  BY <1>1, <1>2, <1>3 DEF Call, MapType
<1>5. Elems(t) \in Seq(Types) /\ n \in Nat /\ n = Len(entry) + 1 /\ DOMAIN entry = 1 .. Len(entry)
  BY <1>1, ElementTypes, NextIdIs
<1>6. e \in Made /\ e.llvm = t /\ \A i \in DOMAIN Elems(t) : e.operands[i] = 0
  <2>1. e.operands \in Seq(Nat)
    BY <1>2, <1>5
  <2> QED BY <1>2, <2>1 DEF Made
<1>7. f \in Frame /\ f.type = t /\ f.id = n /\ f.open
  <2>1. Early(t) \in SUBSET Nat
    <3>1. DOMAIN Elems(t) \subseteq Nat
      BY <1>5
    <3> QED BY <3>1, EarlyOrLate
  <2>2. << >> \in Seq(Nat)
    OBVIOUS
  <2> QED BY <1>3, <1>5, <2>1, <2>2 DEF Frame
<1>8. AddsEntry(e) /\ EntryGrows
  BY <1>4, <1>6, EntryAdded
<1>9. n \notin DOMAIN entry /\ entry'[n] = e /\ \A id \in DOMAIN entry' : id = n \/ id \in DOMAIN entry
  BY <1>5, <1>8, NextIdIs DEF AddsEntry
<1>10. \A id \in DOMAIN entry : id \in DOMAIN entry' /\ entry'[id] = entry[id]
  BY <1>8 DEF AddsEntry, EntryGrows
<1>11. Pushes(f) /\ calls \in Seq(Frame) /\ Len(calls) \in Nat /\ DOMAIN calls = 1 .. Len(calls)
  BY <1>4, <1>7, PushIs DEF FramesOK
<1>12. CallsNext' /\ StructsOnce' /\ FramesFrom
  BY <1>4, <1>7, <1>11, PushCircles DEF CirclesInv
<1>13. \A k \in DOMAIN calls' : calls'[k] = f \/ (k \in DOMAIN calls /\ calls'[k] = calls[k])
  <2>1. \A k \in DOMAIN calls' : k \in DOMAIN calls \/ k = Len(calls) + 1
    BY <1>11 DEF Pushes
  <2> QED BY <1>11, <2>1 DEF Pushes
<1>14. ClosedAdded'
  <2>1. Added' = Added
    BY DEF Added
  <2> QED BY <1>7, <1>13, <2>1, ProgKept DEF CirclesInv, ClosedAdded
<1>15. Blank'
  <2>1. ASSUME NEW k \in DOMAIN calls', NEW id \in DOMAIN entry', NEW i \in DOMAIN Elems(calls[k].type)',
               Awaits(calls[k], id, i)'
        PROVE  entry'[id].operands[i] = 0
    <3>1. PICK c : c = calls'[k]
      OBVIOUS
    <3>2. Awaits(c, id, i)' /\ i \in DOMAIN Elems(c.type)'
      BY <2>1, <3>1
    <3>3. Awaits(c, id, i) /\ i \in DOMAIN Elems(c.type)
      BY <1>8, <3>2, GrowsKeeps, ProgKept
    <3>4. CASE c = f
      BY <1>6, <1>7, <1>9, <3>3, <3>4 DEF Awaits
    <3>5. CASE c # f
      <4>1. k \in DOMAIN calls /\ c = calls[k]
        BY <1>13, <3>1, <3>5
      <4>2. id \in DOMAIN entry
        BY <3>3, <4>1, AwaitsType
      <4> QED BY <1>10, <3>3, <4>1, <4>2 DEF CirclesInv, Blank
    <3> QED BY <3>4, <3>5
  <2> QED BY <2>1 DEF Blank
<1>16. PointersDeclared'
  <2>1. StructsFrom
    BY <1>4, <1>6, <1>9, <1>10 DEF StructsFrom
  <2>2. VecGrows
    BY DEF VecGrows
  <2>3. \A p \in DOMAIN entry : MembersStay(p)
    BY <1>4, <1>10, NothingTaken
  <2>4. Mapped \subseteq Mapped'
    BY <1>4 DEF MapType, Mapped
  <2>5. \A p \in DOMAIN entry' : Kind(entry'[p].llvm) = "pointer" => p \in DOMAIN entry
    BY <1>6, <1>9
  <2> QED BY <1>8, <1>12, <2>1, <2>2, <2>3, <2>4, <2>5, PointersStay DEF CirclesInv
<1> QED BY <1>12, <1>14, <1>15, <1>16 DEF CirclesInv

\* No frame is added and no type is made: what remains of the frames stays in order.
LEMMA TakeElementCircles ==
  ASSUME TranslationInv, FramesOK', TypeOrder, CirclesInv, Take, Kind(Top.type) # "struct"
  PROVE  CirclesInv'
<1> USE DEF TranslationInv
<1>1. /\ phase = "types" /\ calls # << >> /\ Top.todo # {} /\ Element \in Mapped
      /\ UNCHANGED <<prog, typeVec, typeMap, entry>>
  BY DEF Take, Running
<1>2. PICK n, c : n = Len(calls) /\ c = calls[n]
  OBVIOUS
<1>3. /\ calls \in Seq(Frame) /\ n \in DOMAIN calls /\ c \in Frame /\ c = Top
      /\ calls' \in Seq(Frame)
  <2>1. Frame' = Frame
    BY <1>1, ProgKeptMore
  <2> QED BY <1>1, <1>2, <2>1, TopIs DEF FramesOK
<1>4. /\ DOMAIN calls' = DOMAIN calls /\ calls'[n].type = c.type /\ calls'[n].id = c.id
      /\ \A k \in DOMAIN calls : k # n => calls'[k] = calls[k]
  <2>1. PICK p, x, r : p = Place /\ x = typeMap[Element] /\ r = [calls EXCEPT ![n].todo = @ \ {p}]
    OBVIOUS
  <2>2. calls' = [r EXCEPT ![n].args = Append(@, x)]
    BY <1>2, <2>1 DEF Take
  <2>3. /\ DOMAIN r = DOMAIN calls /\ r[n] = [c EXCEPT !.todo = @ \ {p}]
        /\ \A k \in DOMAIN calls : k # n => r[k] = calls[k]
    BY <1>2, <1>3, <2>1
  <2>4. /\ DOMAIN calls' = DOMAIN calls /\ calls'[n] = [r[n] EXCEPT !.args = Append(@, x)]
        /\ \A k \in DOMAIN calls : k # n => calls'[k] = calls[k]
    BY <1>3, <2>2, <2>3
  <2> QED BY <2>3, <2>4 DEF Frame
<1>5. Len(calls') = Len(calls) /\ Len(calls) \in Nat
  BY <1>3, <1>4
<1>6. Shrinks
  <2>1. ASSUME NEW k \in DOMAIN calls'
        PROVE  /\ k \in DOMAIN calls /\ calls'[k].type = calls[k].type /\ calls'[k].id = calls[k].id
               /\ k < Len(calls') => calls'[k] = calls[k]
    <3>1. k \in DOMAIN calls /\ calls'[k].type = calls[k].type /\ calls'[k].id = calls[k].id
      BY <1>2, <1>4
    <3>2. k < Len(calls') => k # n
      BY <1>2, <1>5
    <3> QED BY <1>4, <3>1, <3>2
  <2> QED BY <1>3, <1>5, <2>1 DEF Shrinks
<1>7. CallsNext' /\ StructsOnce' /\ FramesFrom
  BY <1>1, <1>3, <1>6, ShrinkKeeps DEF CirclesInv
<1>8. \A k \in DOMAIN calls' : Kind(calls'[k].type) = "struct" => k \in DOMAIN calls /\ calls'[k] = calls[k]
  BY <1>2, <1>3, <1>4
<1>9. EntryGrows /\ DOMAIN entry' = DOMAIN entry /\ Mapped' = Mapped
  BY <1>1 DEF EntryGrows, Mapped
<1>10. ClosedAdded'
  <2>1. Added' = Added
    BY <1>1 DEF Added
  <2> QED BY <1>1, <1>8, <2>1, ProgKept DEF CirclesInv, ClosedAdded
<1>11. Blank'
  <2>1. WaitsSame
    BY <1>1, <1>8 DEF WaitsSame, Awaits
  <2> QED BY <1>1, <1>9, <2>1, BlankKeeps DEF CirclesInv
<1>12. PointersDeclared'
  <2>1. StructsFrom
    BY <1>1 DEF StructsFrom
  <2>2. VecGrows
    BY <1>1 DEF VecGrows
  <2>3. \A p \in DOMAIN entry : MembersStay(p)
    BY <1>1, NothingTaken
  <2> QED BY <1>1, <1>7, <1>9, <2>1, <2>2, <2>3, PointersStay DEF CirclesInv
<1> QED BY <1>7, <1>10, <1>11, <1>12 DEF CirclesInv

\* A struct takes a member: its place was empty, no other frame fills the same type.
LEMMA TakeMemberCircles ==
  ASSUME TranslationInv, FramesOK', TypeOrder, CirclesInv, Take, Kind(Top.type) = "struct"
  PROVE  CirclesInv'
<1> USE DEF TranslationInv
<1>1. /\ phase = "types" /\ calls # << >> /\ Top.todo # {} /\ Element \in Mapped
      /\ UNCHANGED <<prog, typeVec, typeMap>>
  BY DEF Take, Running
<1>2. PICK c, p, x, n : c = Top /\ p = Place /\ x = typeMap[Element] /\ n = Len(calls)
  OBVIOUS
<1>3. /\ c \in Frame /\ n \in DOMAIN calls /\ c = calls[n] /\ StructFrame(c) /\ c.type \in Types
      /\ p \in c.todo /\ p \in DOMAIN Elems(c.type) /\ c.id \in DOMAIN entry /\ entry[c.id].llvm = c.type
      /\ entry[c.id].operands \in Seq(Nat) /\ Len(entry[c.id].operands) = Len(Elems(c.type))
      /\ StandsFor(x, Elems(c.type)[p])
  BY <1>2, TakeMemberIs
<1>4. PICK g, h : MemberTaken(c, p, x, g, h)
  BY <1>2, TakeMemberIs
<1>5. /\ g.type = c.type /\ g.todo = c.todo \ {p} /\ g.id = c.id /\ g.open = c.open
      /\ h \in Made /\ h.llvm = c.type /\ Len(h.operands) = Len(Elems(c.type)) /\ h.operands[p] = x
      /\ \A i \in DOMAIN entry[c.id].operands : i # p => h.operands[i] = entry[c.id].operands[i]
      /\ DOMAIN entry' = DOMAIN entry /\ entry'[c.id] = h
      /\ \A id \in DOMAIN entry : id # c.id => entry'[id] = entry[id]
  BY <1>4 DEF MemberTaken
<1>6. /\ DOMAIN calls' = DOMAIN calls /\ calls'[n] = g
      /\ \A k \in DOMAIN calls : k # n => calls'[k] = calls[k]
      /\ calls \in Seq(Frame) /\ calls' \in Seq(Frame)
  <2>1. calls' = [calls EXCEPT ![n] = g]
    BY <1>2, <1>4 DEF MemberTaken
  <2>2. Frame' = Frame
    BY <1>1, ProgKeptMore
  <2> QED BY <1>3, <2>1, <2>2 DEF FramesOK
<1>7. Len(calls') = Len(calls) /\ Len(calls) \in Nat
  BY <1>6
<1>8. Shrinks
  <2>1. ASSUME NEW k \in DOMAIN calls'
        PROVE  /\ k \in DOMAIN calls /\ calls'[k].type = calls[k].type /\ calls'[k].id = calls[k].id
               /\ k < Len(calls') => calls'[k] = calls[k]
    <3>1. k \in DOMAIN calls /\ calls'[k].type = calls[k].type /\ calls'[k].id = calls[k].id
      BY <1>3, <1>5, <1>6
    <3>2. k < Len(calls') => k # n
      BY <1>2, <1>7
    <3> QED BY <1>6, <3>1, <3>2
  <2> QED BY <1>6, <1>7, <2>1 DEF Shrinks
<1>9. CallsNext' /\ StructsOnce' /\ FramesFrom
  BY <1>1, <1>6, <1>8, ShrinkKeeps DEF CirclesInv
<1>10. EntryGrows /\ Mapped' = Mapped
  BY <1>1, <1>3, <1>5 DEF EntryGrows, Mapped
<1>11. ClosedAdded'
  <2>1. Added' = Added
    BY <1>1 DEF Added
  <2>2. \A k \in DOMAIN calls' : k \in DOMAIN calls /\ calls'[k].type = calls[k].type
                                 /\ calls'[k].id = calls[k].id /\ calls'[k].open = calls[k].open
    BY <1>3, <1>5, <1>6
  <2> QED BY <1>1, <2>1, <2>2, ProgKept DEF CirclesInv, ClosedAdded
<1>12. DOMAIN Elems(c.type) = DOMAIN entry[c.id].operands /\ DOMAIN h.operands = DOMAIN Elems(c.type)
  <2>1. Elems(c.type) \in Seq(Types)
    BY <1>3, ElementTypes
  <2>2. h.operands \in Seq(Nat)
    BY <1>5 DEF Made
  <2> QED BY <1>3, <1>5, <2>1, <2>2
<1>13. Awaits(c, c.id, p) /\ Kind(c.type) = "struct"
  BY <1>2, <1>3 DEF Awaits
<1>14. \A k \in DOMAIN calls : k # n => calls[k].type # c.type
  BY <1>3, <1>13 DEF CirclesInv, StructsOnce
<1>15. Blank'
  <2>1. ASSUME NEW k \in DOMAIN calls', NEW id \in DOMAIN entry', NEW i \in DOMAIN Elems(calls'[k].type),
               Awaits(calls'[k], id, i)
        PROVE  /\ entry'[id].operands[i] = entry[id].operands[i]
               /\ \E m \in DOMAIN calls : calls[m].type = calls'[k].type /\ Awaits(calls[m], id, i)
    <3>1. CASE k = n
      <4>1. id = c.id /\ Awaits(c, id, i) /\ i # p
        <5>1. Awaits(g, id, i)
          BY <1>6, <2>1, <3>1
        <5>2. id = c.id /\ Awaits(c, id, i)
          BY <1>5, <5>1 DEF Awaits
        <5>3. i = p => FALSE
          BY <1>3, <1>5, <5>1 DEF Awaits, StructFrame, Early, Late
        <5> QED BY <5>2, <5>3
      <4>2. i \in DOMAIN entry[c.id].operands
        BY <1>5, <1>6, <1>12, <2>1, <3>1
      <4> QED BY <1>3, <1>5, <1>6, <3>1, <4>1, <4>2
    <3>2. CASE k # n
      <4>1. k \in DOMAIN calls /\ calls'[k] = calls[k] /\ calls[k].type # c.type
        BY <1>6, <1>14, <3>2
      <4>2. id # c.id
        BY <1>3, <2>1, <4>1, AwaitsType
      <4> QED BY <1>5, <2>1, <4>1, <4>2
    <3> QED BY <3>1, <3>2
  <2>2. WaitsSame
    BY <2>1 DEF WaitsSame
  <2> QED BY <1>1, <1>10, <2>2, BlankKeeps DEF CirclesInv
<1>16. PointersDeclared'
  <2>1. StructsFrom
    BY <1>3, <1>5 DEF StructsFrom
  <2>2. VecGrows
    BY <1>1 DEF VecGrows
  <2>3. ASSUME NEW q \in DOMAIN entry PROVE MembersStay(q)
    <3>1. ASSUME NEW s \in DOMAIN entry, q \in Members(s) PROVE q \in Range(entry'[s].operands)
      <4>1. CASE s = c.id
        <5>1. PICK i \in DOMAIN entry[s].operands : q = entry[s].operands[i]
          BY <3>1 DEF Members, Range
        <5>2. entry[s].operands[p] = 0 /\ q # 0
          <6>1. q # 0
            BY NextIdIs
          <6> QED BY <1>3, <1>13, <4>1, <6>1 DEF CirclesInv, Blank
        <5>3. h.operands[i] = q /\ i \in DOMAIN h.operands
          BY <1>5, <1>12, <4>1, <5>1, <5>2
        <5> QED BY <1>5, <4>1, <5>3 DEF Range
      <4>2. CASE s # c.id
        BY <1>5, <3>1, <4>2 DEF Members
      <4> QED BY <4>1, <4>2
    <3>2. ASSUME NEW s \in DOMAIN entry, TakesNext(s, q) PROVE q \in Range(entry'[s].operands)
      <4>1. s = c.id /\ q = x
        BY <1>2, <3>2 DEF TakesNext
      <4> QED BY <1>3, <1>5, <1>12, <4>1 DEF Range
    <3> QED BY <3>1, <3>2 DEF MembersStay
  <2>4. \A q \in DOMAIN entry' : Kind(entry'[q].llvm) = "pointer" => q \in DOMAIN entry
    BY <1>5
  <2> QED BY <1>1, <1>9, <1>10, <2>1, <2>2, <2>3, <2>4, PointersStay DEF CirclesInv
<1> QED BY <1>9, <1>11, <1>15, <1>16 DEF CirclesInv

\* The places that are still empty are the ones a frame waits for.
LEMMA MembersOld ==
  ASSUME TranslationInv, Blank, NEW e \in DOMAIN entry
  PROVE  Members(e) \subseteq DOMAIN entry \cup {0}
<1> USE DEF TranslationInv
<1>1. PICK t : t = entry[e].llvm
  OBVIOUS
<1>2. ASSUME NEW i \in DOMAIN entry[e].operands PROVE entry[e].operands[i] \in DOMAIN entry \cup {0}
  <2>1. entry[e].operands \in Seq(Nat) /\ t \in Types
    BY <1>1, EntryFields
  <2>2. Elems(t) \in Seq(Types)
    BY <2>1, ElementTypes
  <2>3. Len(entry[e].operands) = Len(Elems(t))
    BY <1>1 DEF Filled, FilledAt
  <2>4. i \in DOMAIN Elems(t)
    BY <2>1, <2>2, <2>3
  <2>5. \/ StandsFor(entry[e].operands[i], Elems(t)[i])
        \/ \E k \in DOMAIN calls : Awaits(calls[k], e, i)
    BY <1>1, <2>4 DEF Filled, FilledAt
  <2>6. ASSUME NEW k \in DOMAIN calls, Awaits(calls[k], e, i) PROVE entry[e].operands[i] = 0
    <3>1. calls[k].type = t
      BY <1>1, <2>6, AwaitsType
    <3> QED BY <2>4, <2>6, <3>1 DEF Blank
  <2> QED BY <2>5, <2>6 DEF StandsFor
<1> QED BY <1>2 DEF Members, Range

\* What a frame asks for next is an element of its type.
LEMMA NextAsked ==
  ASSUME IsProgram(prog), FramesOK, NEW k \in DOMAIN calls, calls[k].todo # {}
  PROVE  /\ Min(calls[k].todo) \in calls[k].todo
         /\ Min(calls[k].todo) \in DOMAIN Elems(calls[k].type)
<1>1. PICK c : c = calls[k]
  OBVIOUS
<1>2. c \in Frame /\ c.type \in Types /\ c.todo \in SUBSET Nat /\ c.args \in Seq(Nat) /\ FrameOK(c)
  BY <1>1, FrameFields DEF FramesOK
<1>3. Min(c.todo) \in c.todo
  BY <1>1, <1>2, FirstOf
<1>4. Elems(c.type) \in Seq(Types)
  BY <1>2, ElementTypes
<1>5. c.todo \subseteq DOMAIN Elems(c.type)
  BY <1>2, <1>4 DEF FrameOK, StructFrame, OtherFrame
<1> QED BY <1>1, <1>3, <1>5

\* A pointer is made for a frame it leads back to: that is a struct which has its
\* other members, since recursiveType() has kept this one for later.
LEMMA CallerIsClosed ==
  ASSUME TranslationInv, CallsNext, DirectlyLinked, NEW m \in DOMAIN calls, m < Len(calls),
         NEW t, t = calls[m + 1].type, m + 1 \in DOMAIN calls, Kind(t) = "pointer",
         calls[m].type \in Found(t, Kinds)
  PROVE  Kind(calls[m].type) = "struct" /\ ~calls[m].open
<1> USE DEF TranslationInv
<1>1. PICK c, b, i : c = calls[m] /\ b = c.type /\ i = Min(c.todo)
  OBVIOUS
<1>2. c \in Frame /\ b \in Types /\ FrameOK(c) /\ c.open \in BOOLEAN /\ t \in Types
  BY <1>1, FrameFields DEF FramesOK
<1>3. c.todo # {} /\ t = Elems(b)[i]
  BY <1>1 DEF CallsNext
<1>4. i \in c.todo /\ i \in DOMAIN Elems(b)
  BY <1>1, <1>3, NextAsked
<1>5. Kind(b) \in {"struct", "function"}
  BY <1>2, <1>3, <1>4, PointerIn
<1>6. Kind(b) = "struct"
  BY <1>1, <1>2, <1>5, NoFunctionFound
<1>7. ASSUME c.open PROVE FALSE
  <2>1. i \in Early(b)
    BY <1>1, <1>2, <1>4, <1>6, <1>7 DEF FrameOK, StructFrame
  <2>2. b \notin Visited(t)
    BY <1>3, <2>1 DEF Early, Recursive
  <2> QED BY <1>1, <1>2, <1>6, <2>2, FoundIsVisited
<1> QED BY <1>1, <1>6, <1>7

\* A pointer is added: it stands behind the struct that asked for it, or it comes
\* from outside.
LEMMA AddTypeCircles ==
  ASSUME TranslationInv, FramesOK', TypeOrder, CirclesInv, AddType
  PROVE  CirclesInv'
<1> USE DEF TranslationInv
<1>1. /\ phase = "types" /\ calls # << >> /\ Top.todo = {} /\ Kind(Top.type) # "struct"
      /\ prog' = prog
  BY DEF AddType, Running
<1>2. PICK n, c, x : n = Len(calls) /\ c = Top /\ x = NextId
  OBVIOUS
<1>3. PICK e : e = [llvm |-> c.type, operands |-> c.args]
  OBVIOUS
<1>4. /\ entry' = Append(entry, e) /\ typeVec' = Append(typeVec, x) /\ MapType(c.type, x)
      /\ calls' = Front(calls)
  BY <1>2, <1>3 DEF AddType
<1>5. /\ c \in Frame /\ c.type \in Types /\ c.args \in Seq(Nat) /\ n \in DOMAIN calls /\ c = calls[n]
      /\ calls \in Seq(Frame) /\ n \in Nat /\ DOMAIN calls = 1 .. n
  <2>1. calls \in Seq(Frame)
    BY DEF FramesOK
  <2>2. n \in Nat /\ DOMAIN calls = 1 .. n
    BY <1>2, <2>1
  <2> QED BY <1>1, <1>2, <2>1, <2>2, TopIs
<1>6. e \in Made /\ e.llvm = c.type
  BY <1>3, <1>5 DEF Made
<1>7. AddsEntry(e) /\ EntryGrows
  BY <1>1, <1>4, <1>6, EntryAdded
<1>8. /\ x \notin DOMAIN entry /\ x \in Nat /\ x # 0 /\ entry'[x] = e /\ x \in DOMAIN entry'
      /\ \A id \in DOMAIN entry' : id = x \/ id \in DOMAIN entry
      /\ \A id \in DOMAIN entry : id \in DOMAIN entry' /\ entry'[id] = entry[id]
  BY <1>2, <1>7, NextIdIs DEF AddsEntry
<1>9. Pops
  BY <1>1, <1>4, <1>7, PopKeeps
<1>10. /\ DOMAIN calls' = 1 .. (n - 1) /\ calls' \in Seq(Frame) /\ Len(calls') = n - 1
       /\ \A k \in DOMAIN calls' : k \in DOMAIN calls /\ calls'[k] = calls[k]
  <2>1. Frame' = Frame
    BY <1>1, ProgKeptMore
  <2>2. DOMAIN calls' = 1 .. (n - 1) /\ calls' \in Seq(Frame)
        /\ \A k \in DOMAIN calls' : k \in DOMAIN calls /\ calls'[k] = calls[k]
    BY <1>2, <1>9, <2>1 DEF Pops, FramesOK
  <2>3. Len(calls') = n - 1
    BY <1>5, <2>2
  <2> QED BY <2>2, <2>3
<1>11. Shrinks
  BY <1>2, <1>5, <1>10 DEF Shrinks
<1>12. CallsNext' /\ StructsOnce' /\ FramesFrom
  BY <1>1, <1>5, <1>11, ShrinkKeeps DEF CirclesInv
<1>13. Mapped' = Mapped \cup {c.type} /\ typeMap'[c.type] = x
  BY <1>4 DEF MapType, Mapped
<1>14. /\ typeVec \in Seq(Nat)
       /\ \A i \in DOMAIN typeVec : i \in DOMAIN typeVec' /\ typeVec'[i] = typeVec[i]
  <2>1. typeVec \in Seq(Nat)
    BY <1>1 DEF AddedOrOpen
  <2> QED BY <1>4, <1>8, <2>1
<1>15. ClosedAdded'
  <2>1. Added \subseteq Added'
    BY <1>4, <1>8, <1>14, AppendAdds
  <2> QED BY <1>1, <1>10, <2>1, ProgKept DEF CirclesInv, ClosedAdded
<1>16. Blank'
  <2>1. ASSUME NEW k \in DOMAIN calls', NEW id \in DOMAIN entry', NEW i \in DOMAIN Elems(calls'[k].type),
               Awaits(calls'[k], id, i)
        PROVE  entry'[id].operands[i] = entry[id].operands[i]
    BY <1>8, <1>10, <2>1, AwaitsType
  <2>2. WaitsSame
    BY <1>10, <2>1 DEF WaitsSame
  <2> QED BY <1>1, <1>7, <2>2, BlankKeeps DEF CirclesInv
<1>17. ASSUME NEW p \in DOMAIN entry, Declared(p) \/ Outside(p)
       PROVE  Declared(p)' \/ Outside(p)'
  <2>1. StructsFrom
    BY <1>1, <1>2, <1>6, <1>8 DEF StructsFrom
  <2>2. VecGrows
    BY <1>14 DEF VecGrows
  <2>3. MembersStay(p)
    BY <1>1, <1>8, NothingTaken
  <2>4. Mapped \subseteq Mapped'
    BY <1>13
  <2> QED BY <1>1, <1>7, <1>12, <1>17, <2>1, <2>2, <2>3, <2>4, PointerStays
<1>18. ASSUME DirectlyLinked, Kind(c.type) = "pointer"
       PROVE  Declared(x)' \/ Outside(x)'
  <2>1. PICK t, m : t = c.type /\ m = n - 1
    OBVIOUS
  <2>2. CASE n > 1 /\ calls[m].type \in Found(t, Kinds)
    <3>1. m \in DOMAIN calls /\ m < Len(calls) /\ m + 1 = n /\ m \in DOMAIN calls' /\ Len(calls') = m
          /\ calls'[m] = calls[m] /\ calls' # << >>
      BY <1>2, <1>5, <1>10, <2>1, <2>2
    <3>2. PICK b : b = calls[m]
      OBVIOUS
    <3>3. Kind(b.type) = "struct" /\ ~b.open
      BY <1>5, <1>18, <2>1, <2>2, <3>1, <3>2, CallerIsClosed DEF CirclesInv
    <3>4. b.todo # {} /\ t = Elems(b.type)[Min(b.todo)]
      BY <1>5, <2>1, <3>1, <3>2 DEF CirclesInv, CallsNext
    <3>5. b.id \in Added /\ b.id \in DOMAIN entry /\ entry[b.id].llvm = b.type
      BY <3>1, <3>2, <3>3, StructFrameMapped DEF CirclesInv, ClosedAdded
    <3>6. PICK i \in DOMAIN typeVec : typeVec[i] = b.id
      BY <3>5 DEF Added, Range
    <3>7. i \in DOMAIN typeVec' /\ typeVec'[i] = b.id
      BY <1>14, <3>6
    <3>8. \A j \in 1 .. i : typeVec'[j] # x
      <4>1. \A j \in 1 .. i : j \in DOMAIN typeVec
        BY <1>14
      <4> QED BY <1>1, <1>8, <1>14, <4>1 DEF TypeOrder
    <3>9. Code(typeVec[i])' = "struct"
      BY <1>1, <1>8, <3>3, <3>5, <3>7, ProgKept DEF Code
    <3>10. TakesNext(b.id, x)'
      <4>1. Top' = b
        BY <3>1, <3>2 DEF Top
      <4>2. Element' = t
        BY <1>1, <3>4, <4>1, ProgKept DEF Element, Place
      <4>3. Element' \in Mapped' /\ typeMap'[Element'] = x
        BY <1>13, <2>1, <4>2
      <4>4. Top'.todo # {} /\ Top'.id = b.id /\ Kind(Top.type)' = "struct"
        BY <1>1, <3>3, <3>4, <4>1, ProgKept
      <4> QED BY <3>1, <4>3, <4>4 DEF TakesNext
    <3>11. TakesNext(typeVec[i], x)'
      BY <3>7, <3>10
    <3>12. Declared(x)'
      BY <3>7, <3>8, <3>9, <3>11 DEF Declared
    <3> QED BY <3>12
  <2>3. CASE ~(n > 1 /\ calls[m].type \in Found(t, Kinds))
    <3>1. \A k \in 1 .. (n - 1) : calls[k].type \notin Found(t, Kinds)
      BY <1>1, <1>2, <1>5, <2>1, <2>3, CallersUnfound
    <3>2. \A u \in Found(t, Kinds) : u = t \/ u \in Mapped
      BY <1>1, <1>2, <1>5, <2>1, <3>1, FoundIsMapped
    <3>3. ASSUME NEW s \in Found(t, Kinds), Kind(s) = "struct"
          PROVE  /\ s \in Mapped'
                 /\ \A k \in DOMAIN calls' : calls'[k].type # s
                 /\ \A d \in DOMAIN entry' : entry'[d].llvm = s => x \notin Range(entry'[d].operands)
      <4>1. s \in Mapped' /\ s # t
        BY <1>13, <1>18, <2>1, <3>2, <3>3
      <4>2. \A k \in DOMAIN calls' : calls'[k].type # s
        BY <1>10, <3>1, <3>3
      <4>3. ASSUME NEW d \in DOMAIN entry', entry'[d].llvm = s PROVE x \notin Range(entry'[d].operands)
        <5>1. d \in DOMAIN entry /\ entry'[d] = entry[d]
          BY <1>6, <1>8, <2>1, <4>1, <4>3
        <5>2. Range(entry[d].operands) \subseteq DOMAIN entry \cup {0}
          BY <5>1, MembersOld DEF CirclesInv, Members
        <5> QED BY <1>8, <5>1, <5>2
      <4> QED BY <4>1, <4>2, <4>3
    <3>4. Found(entry[x].llvm, Kinds)' = Found(t, Kinds)
      BY <1>1, <1>6, <1>8, <2>1, ProgKept
    <3>5. Outside(x)'
      BY <1>1, <3>3, <3>4, ProgKept DEF Outside, Members
    <3> QED BY <3>5
  <2> QED BY <2>2, <2>3
<1>19. PointersDeclared'
  <2>1. (DirectlyLinked)' <=> DirectlyLinked
    BY <1>1, ProgKept DEF DirectlyLinked
  <2>2. ASSUME DirectlyLinked, NEW p \in DOMAIN entry', Code(p)' = "pointer"
        PROVE  Declared(p)' \/ Outside(p)'
    <3>1. Kind(entry'[p].llvm) = "pointer"
      BY <1>1, <2>2, ProgKept DEF Code
    <3>2. CASE p = x
      BY <1>6, <1>8, <1>18, <2>2, <3>1, <3>2
    <3>3. CASE p # x
      <4>1. p \in DOMAIN entry /\ Code(p) = "pointer"
        BY <1>8, <3>1, <3>3 DEF Code
      <4>2. Declared(p) \/ Outside(p)
        BY <2>2, <4>1 DEF CirclesInv, PointersDeclared
      <4> QED BY <1>17, <4>1, <4>2
    <3> QED BY <3>2, <3>3
  <2> QED BY <2>1, <2>2 DEF PointersDeclared
<1> QED BY <1>12, <1>15, <1>16, <1>19 DEF CirclesInv

\* A struct is added, and waits for its late members instead of the early ones.
LEMMA CloseStructCircles ==
  ASSUME TranslationInv, FramesOK', TypeOrder, CirclesInv, CloseStruct
  PROVE  CirclesInv'
<1> USE DEF TranslationInv
<1>1. /\ phase = "types" /\ calls # << >> /\ Top.todo = {} /\ Top.open
      /\ UNCHANGED <<prog, typeMap, entry>>
  BY DEF CloseStruct, Running
<1>2. PICK n, c, l : n = Len(calls) /\ c = Top /\ l = Late(c.type)
  OBVIOUS
<1>3. /\ c \in Frame /\ c = calls[n] /\ n \in DOMAIN calls /\ calls \in Seq(Frame)
      /\ calls' \in Seq(Frame) /\ c.id \in Nat
  <2>1. Frame' = Frame
    BY <1>1, ProgKeptMore
  <2> QED BY <1>1, <1>2, <2>1, TopIs DEF FramesOK
<1>4. Kind(c.type) = "struct"
  BY <1>1, <1>2, TopIs DEF FrameOK, OtherFrame
<1>5. /\ DOMAIN calls' = DOMAIN calls /\ calls'[n].type = c.type /\ calls'[n].id = c.id
      /\ calls'[n].todo = l /\ calls'[n].open = FALSE
      /\ \A k \in DOMAIN calls : k # n => calls'[k] = calls[k]
  <2>1. calls' = [calls EXCEPT ![n].open = FALSE, ![n].todo = l]
    BY <1>2 DEF CloseStruct
  <2>2. /\ DOMAIN calls' = DOMAIN calls /\ calls'[n] = [c EXCEPT !.open = FALSE, !.todo = l]
        /\ \A k \in DOMAIN calls : k # n => calls'[k] = calls[k]
    BY <1>3, <2>1
  <2> QED BY <1>3, <2>2 DEF Frame
<1>6. Len(calls') = Len(calls) /\ Len(calls) \in Nat
  BY <1>3, <1>5
<1>7. Shrinks
  <2>1. ASSUME NEW k \in DOMAIN calls'
        PROVE  /\ k \in DOMAIN calls /\ calls'[k].type = calls[k].type /\ calls'[k].id = calls[k].id
               /\ k < Len(calls') => calls'[k] = calls[k]
    <3>1. k \in DOMAIN calls /\ calls'[k].type = calls[k].type /\ calls'[k].id = calls[k].id
      BY <1>3, <1>5
    <3>2. k < Len(calls') => k # n
      BY <1>2, <1>6
    <3> QED BY <1>5, <3>1, <3>2
  <2> QED BY <1>3, <1>6, <2>1 DEF Shrinks
<1>8. CallsNext' /\ StructsOnce' /\ FramesFrom
  BY <1>1, <1>3, <1>7, ShrinkKeeps DEF CirclesInv
<1>9. EntryGrows /\ DOMAIN entry' = DOMAIN entry /\ Mapped' = Mapped
  BY <1>1 DEF EntryGrows, Mapped
<1>10. typeVec \in Seq(Nat) /\ typeVec' = Append(typeVec, c.id)
  BY <1>1, <1>2 DEF AddedOrOpen, CloseStruct
<1>11. ClosedAdded'
  <2>1. Added \cup {c.id} \subseteq Added'
    BY <1>3, <1>10, AppendAdds
  <2>2. ASSUME NEW k \in DOMAIN calls', Kind(calls'[k].type) = "struct", ~calls'[k].open
        PROVE  calls'[k].id \in Added'
    <3>1. CASE k = n
      BY <1>5, <2>1, <3>1
    <3>2. CASE k # n
      BY <1>5, <2>1, <2>2, <3>2 DEF CirclesInv, ClosedAdded
    <3> QED BY <3>1, <3>2
  <2> QED BY <1>1, <2>2, ProgKept DEF ClosedAdded
<1>12. Blank'
  <2>1. ASSUME NEW k \in DOMAIN calls', NEW id \in DOMAIN entry', NEW i \in DOMAIN Elems(calls'[k].type),
               Awaits(calls'[k], id, i)
        PROVE  \E m \in DOMAIN calls : calls[m].type = calls'[k].type /\ Awaits(calls[m], id, i)
    <3>1. CASE k = n
      BY <1>1, <1>2, <1>3, <1>5, <2>1, <3>1 DEF Awaits
    <3>2. CASE k # n
      BY <1>5, <2>1, <3>2
    <3> QED BY <3>1, <3>2
  <2>2. WaitsSame
    BY <1>1, <2>1 DEF WaitsSame
  <2> QED BY <1>1, <1>9, <2>2, BlankKeeps DEF CirclesInv
<1>13. PointersDeclared'
  <2>1. StructsFrom
    BY <1>1 DEF StructsFrom
  <2>2. VecGrows
    BY <1>3, <1>10 DEF VecGrows
  <2>3. \A p \in DOMAIN entry : MembersStay(p)
    BY <1>1, NothingTaken
  <2> QED BY <1>1, <1>8, <1>9, <2>1, <2>2, <2>3, PointersStay DEF CirclesInv
<1> QED BY <1>8, <1>11, <1>12, <1>13 DEF CirclesInv

\* A struct has its members.
LEMMA ReturnStructCircles ==
  ASSUME TranslationInv, FramesOK', TypeOrder, CirclesInv, ReturnStruct
  PROVE  CirclesInv'
<1> USE DEF TranslationInv
<1>1. /\ phase = "types" /\ calls # << >> /\ Top.todo = {} /\ calls' = Front(calls)
      /\ UNCHANGED <<prog, typeMap, entry, typeVec>>
  BY DEF ReturnStruct, Running
<1>2. PICK n : n = Len(calls)
  OBVIOUS
<1>3. EntryGrows /\ DOMAIN entry' = DOMAIN entry /\ Mapped' = Mapped
  BY <1>1 DEF EntryGrows, Mapped
<1>4. /\ DOMAIN calls' = 1 .. (n - 1) /\ calls' \in Seq(Frame) /\ Len(calls') = n - 1
      /\ \A k \in DOMAIN calls' : k \in DOMAIN calls /\ calls'[k] = calls[k]
      /\ n \in Nat /\ calls \in Seq(Frame)
  <2>1. Frame' = Frame
    BY <1>1, ProgKeptMore
  <2>2. Pops
    BY <1>1, <1>3, PopKeeps
  <2>3. DOMAIN calls' = 1 .. (n - 1) /\ calls' \in Seq(Frame)
        /\ \A k \in DOMAIN calls' : k \in DOMAIN calls /\ calls'[k] = calls[k]
    BY <1>2, <2>1, <2>2 DEF Pops, FramesOK
  <2>4. n \in Nat /\ calls \in Seq(Frame) /\ n # 0
    BY <1>1, <1>2 DEF FramesOK
  <2>5. Len(calls') = n - 1
    BY <2>3, <2>4
  <2> QED BY <2>3, <2>4, <2>5
<1>5. Shrinks
  BY <1>2, <1>4 DEF Shrinks
<1>6. CallsNext' /\ StructsOnce' /\ FramesFrom
  BY <1>1, <1>4, <1>5, ShrinkKeeps DEF CirclesInv
<1>7. ClosedAdded'
  <2>1. Added' = Added
    BY <1>1 DEF Added
  <2> QED BY <1>1, <1>4, <2>1, ProgKept DEF CirclesInv, ClosedAdded
<1>8. Blank'
  <2>1. WaitsSame
    BY <1>1, <1>4 DEF WaitsSame
  <2> QED BY <1>1, <1>3, <2>1, BlankKeeps DEF CirclesInv
<1>9. PointersDeclared'
  <2>1. StructsFrom
    BY <1>1 DEF StructsFrom
  <2>2. VecGrows
    BY <1>1 DEF VecGrows
  <2>3. \A p \in DOMAIN entry : MembersStay(p)
    BY <1>1, NothingTaken
  <2> QED BY <1>1, <1>3, <1>6, <2>1, <2>2, <2>3, PointersStay DEF CirclesInv
<1> QED BY <1>6, <1>7, <1>8, <1>9 DEF CirclesInv

\* Nothing changes but the number of the types asked for.
LEMMA SameCircles ==
  ASSUME CirclesInv, UNCHANGED <<prog, calls, typeMap, entry, typeVec>>
  PROVE  CirclesInv'
<1>1. /\ Types' = Types
      /\ \A t : Kind(t)' = Kind(t) /\ Elems(t)' = Elems(t) /\ Found(t, Kinds)' = Found(t, Kinds)
  BY ProgKept
<1>2. CallsNext' /\ StructsOnce' /\ ClosedAdded'
  BY <1>1 DEF CirclesInv, CallsNext, StructsOnce, ClosedAdded, Added
<1>3. \A c, id, i : Awaits(c, id, i)' <=> Awaits(c, id, i)
  <2>1. EntryGrows
    BY DEF EntryGrows
  <2> QED BY <2>1, GrowsKeeps
<1>4. Blank'
  BY <1>1, <1>3 DEF CirclesInv, Blank
<1>5. \A p : (Declared(p)' <=> Declared(p)) /\ (Outside(p)' <=> Outside(p))
  <2>1. \A s, p : TakesNext(s, p)' <=> TakesNext(s, p)
    BY <1>1 DEF TakesNext, Top, Element, Place, Mapped
  <2>2. \A id : Members(id)' = Members(id) /\ Code(id)' = Code(id)
    BY <1>1 DEF Members, Code
  <2>3. \A p : Declared(p)' <=> Declared(p)
    BY <2>1, <2>2 DEF Declared
  <2>4. \A p : Outside(p)' <=> Outside(p)
    BY <1>1, <2>2 DEF Outside, Mapped
  <2> QED BY <2>3, <2>4
<1>6. PointersDeclared'
  BY <1>1, <1>5 DEF CirclesInv, PointersDeclared, DirectlyLinked, Code
<1> QED BY <1>2, <1>4, <1>6 DEF CirclesInv

LEMMA TranslateCircles ==
  ASSUME TranslationInv, FramesOK', TypeOrder, CirclesInv, asked \in Nat, Translate, phase' = "types"
  PROVE  CirclesInv'
<1> USE DEF TranslationInv
<1>1. phase = "types" /\ prog' = prog
  BY TranslateInTypes, TranslateProg
<1>2. CASE Root
  <2>1. PICK t : t = prog.roots[asked + 1]
    OBVIOUS
  <2>2. /\ calls = << >> /\ asked < Len(prog.roots) /\ UNCHANGED <<prog, typeVec>>
        /\ UNCHANGED <<calls, entry, typeMap>> \/ Call(t)
    BY <1>2, <2>1 DEF Root
  <2>3. t \in Types
    BY <2>1, <2>2, RootsAreTypes
  <2> QED BY <1>1, <2>2, <2>3, SameCircles, CallOtherCircles, CallStructCircles
<1>3. CASE Descend
  <2>1. PICK t : t = Element
    OBVIOUS
  <2>2. calls # << >> /\ Top.todo # {} /\ Call(t) /\ UNCHANGED <<prog, typeVec>>
    BY <1>3, <2>1 DEF Descend, Running
  <2>3. t \in Types
    BY <2>1, <2>2, PlaceIs
  <2> QED BY <1>1, <2>1, <2>2, <2>3, CallOtherCircles, CallStructCircles
<1>4. CASE Take
  BY <1>4, TakeElementCircles, TakeMemberCircles
<1>5. CASE AddType
  BY <1>5, AddTypeCircles
<1>6. CASE CloseStruct
  BY <1>6, CloseStructCircles
<1>7. CASE ReturnStruct
  BY <1>7, ReturnStructCircles
<1>8. ~AddTypeUnknownId /\ ~CreateForwardPointers
  BY DEF AddTypeUnknownId, CreateForwardPointers
<1> QED BY <1>2, <1>3, <1>4, <1>5, <1>6, <1>7, <1>8 DEF Translate

\* The translation is over: a pointer that stands before its struct came from outside.
LEMMA CreateForwardPointersCircles ==
  ASSUME TranslationInv, CirclesInv, CreateForwardPointers
  PROVE  CirclesForward'
<1> USE DEF TranslationInv
<1>1. calls = << >> /\ forward' = ForwardPointers(typeVec) /\ UNCHANGED <<prog, entry>>
  BY DEF CreateForwardPointers
<1>2. ASSUME DirectlyLinked, NEW e \in DOMAIN entry, NEW p \in Members(e), Code(e) = "struct",
             Code(p) = "pointer", entry[e].llvm \in Found(entry[p].llvm, Kinds)
      PROVE  p \in ForwardPointers(typeVec)
  <2>1. p \in DOMAIN entry
    <3>1. p \in DOMAIN entry \cup {0}
      BY MembersOld DEF CirclesInv
    <3>2. PICK i \in DOMAIN entry[e].operands : p = entry[e].operands[i]
      BY DEF Members, Range
    <3>3. entry[e].operands \in Seq(Nat) /\ entry[e].llvm \in Types
      BY EntryFields
    <3>4. Elems(entry[e].llvm) \in Seq(Types)
      BY <3>3, ElementTypes
    <3>5. FilledAt(e)
      BY DEF Filled
    <3>6. i \in DOMAIN Elems(entry[e].llvm)
      BY <3>2, <3>3, <3>4, <3>5 DEF FilledAt
    <3>7. DOMAIN calls = {}
      BY <1>1
    <3> QED BY <3>2, <3>5, <3>6, <3>7 DEF FilledAt, StandsFor
  <2>2. Declared(p) \/ Outside(p)
    BY <1>2, <2>1 DEF CirclesInv, PointersDeclared
  <2>3. CASE Declared(p)
    BY <1>1, <1>2, <2>1, <2>3 DEF Declared, TakesNext, ForwardPointers
  <2>4. CASE Outside(p)
    BY <1>2, <2>4 DEF Outside, Code
  <2> QED BY <2>2, <2>3, <2>4
<1>3. /\ \A id : Members(id)' = Members(id) /\ Code(id)' = Code(id)
      /\ \A t : Found(t, Kinds)' = Found(t, Kinds)
      /\ DirectlyLinked' <=> DirectlyLinked
  BY <1>1, ProgKept DEF Members, Code, DirectlyLinked
<1> QED BY <1>1, <1>2, <1>3 DEF CirclesForward

-----------------------------------------------------------------------------
(***************************************************************************)
(* A circle of types.                                                      *)
(***************************************************************************)
\* On a circle of types of the given kinds every one is found from every other.
LEMMA Circle ==
  ASSUME IsProgram(prog), NEW kinds, NEW a \in Nat, NEW b \in Nat, a <= b, NEW f,
         \A j \in a .. b : f[j] \in Types /\ Kind(f[j]) \in kinds,
         \A j \in a .. b : j < b => f[j + 1] \in Range(Elems(f[j])),
         f[a] \in Range(Elems(f[b]))
  PROVE  \A i, j \in a .. b : f[i] \in Found(f[j], kinds)
<1>1. ASSUME NEW j \in a .. b PROVE \A i \in j .. b : f[i] \in Found(f[j], kinds)
  <2> DEFINE X == {m \in Nat : j + m <= b => f[j + m] \in Found(f[j], kinds)}
  <2>1. X \in SUBSET Nat
    OBVIOUS
  <2>2. 0 \in X
    BY <1>1, FoundCloses
  <2>3. ASSUME NEW m \in X PROVE m + 1 \in X
    <3>1. CASE j + m + 1 <= b
      <4>1. PICK k : k = j + m
        OBVIOUS
      <4>2. k \in a .. b /\ k < b /\ j + (m + 1) = k + 1 /\ f[k] \in Found(f[j], kinds)
        BY <1>1, <2>3, <3>1, <4>1
      <4>3. f[k + 1] \in Range(Elems(f[k])) /\ Kind(f[k]) \in kinds /\ f[j] \in Types
        BY <1>1, <4>2
      <4>4. f[k + 1] \in Found(f[j], kinds)
        BY <4>2, <4>3, FoundElements
      <4> QED BY <2>3, <4>2, <4>4
    <3>2. CASE ~(j + m + 1 <= b)
      BY <1>1, <2>3, <3>2
    <3> QED BY <3>1, <3>2
  <2>4. X = Nat
    <3> HIDE DEF X
    <3> QED BY <2>1, <2>2, <2>3, SetInduction
  <2>5. ASSUME NEW i \in j .. b PROVE f[i] \in Found(f[j], kinds)
    <3>1. PICK m : m = i - j
      OBVIOUS
    <3>2. m \in Nat /\ j + m = i /\ j + m <= b
      BY <1>1, <2>5, <3>1
    <3>3. m \in X
      BY <2>4, <3>2
    <3> QED BY <3>2, <3>3
  <2> QED BY <2>5
<1>2. ASSUME NEW i \in a .. b, NEW j \in a .. b PROVE f[i] \in Found(f[j], kinds)
  <2>1. f[b] \in Found(f[j], kinds) /\ a \in a .. b /\ b \in a .. b /\ f[j] \in Types
    BY <1>1, <1>2
  <2>2. f[a] \in Found(f[j], kinds)
    BY <2>1, FoundElements
  <2>3. f[i] \in Found(f[a], kinds)
    BY <1>1, <1>2, <2>1
  <2> QED BY <2>1, <2>2, <2>3, FoundTrans
<1> QED BY <1>2

\* A path of types through which the search came back to where it was: p[j + 1] is
\* an operand of p[j], p[a] one of p[b], and none of them was passed over.
RoundPath(p, a, b) ==
  /\ a \in Nat /\ b \in Nat /\ a <= b
  /\ \A j \in a .. b : p[j] \in DOMAIN entry /\ ~SortP!Skipped(p[j])
  /\ \A j \in a .. b : j < b => p[j + 1] \in Members(p[j])
  /\ p[a] \in Members(p[b])

LEMMA SearchRound ==
  ASSUME LInv, phase = "translated", GraphOK, SortP!IInv, SortP!CyclicHere, status = "cyclic"
  PROVE  \E a, b : \E p : RoundPath(p, a, b)
<1>1. SortP!HasOp /\ ~SortP!Skipped(SortP!TopOp) /\ dfs[SortP!TopOp] = "Discovered" /\ stack # << >>
  BY DEF SortP!CyclicHere, SortP!HasOp
<1>2. PICK b, x : b = Len(stack) /\ x = SortP!TopOp
  OBVIOUS
<1>3. PICK p : p = [k \in DOMAIN stack |-> stack[k].entry]
  OBVIOUS
<1>4. SortP!TypeOK /\ SortP!StackIsPath
  BY DEF SortP!IInv
<1>5. x \in DOMAIN entry
  BY <1>1, <1>2, SortTop
<1>6. /\ SortP!Entries = DOMAIN entry
      /\ \A e \in DOMAIN entry : SortP!Operands(e) = entry[e].operands
  BY GraphIs
<1>7. /\ b \in Nat /\ DOMAIN stack = 1 .. b /\ b \in DOMAIN stack
      /\ \A k \in DOMAIN stack : p[k] \in DOMAIN entry
  <2>1. stack \in Seq(SortP!Frame)
    BY <1>4 DEF SortP!TypeOK
  <2>2. \A k \in DOMAIN stack : stack[k].entry \in DOMAIN entry
    BY <1>4, <1>6, SortP!FrameTypes
  <2> QED BY <1>1, <1>2, <1>3, <2>1, <2>2
<1>8. PICK a \in DOMAIN stack : p[a] = x
  BY <1>1, <1>2, <1>3, <1>4, <1>5, <1>6 DEF SortP!StackIsPath
<1>9. ASSUME NEW j \in a .. b, j < b
      PROVE  p[j + 1] \in Members(p[j]) /\ ~SortP!Skipped(p[j + 1])
  <2>1. j \in DOMAIN stack /\ j + 1 \in DOMAIN stack /\ j < Len(stack)
    BY <1>2, <1>7, <1>9
  <2>2. /\ stack[j].next \in DOMAIN SortP!Operands(p[j])
        /\ p[j + 1] = SortP!Operands(p[j])[stack[j].next]
        /\ ~SortP!Skipped(p[j + 1])
    BY <1>3, <1>4, <2>1 DEF SortP!StackIsPath
  <2> QED BY <1>6, <1>7, <2>1, <2>2 DEF Members, Range
<1>10. x \in Members(p[b])
  <2>1. PICK s : s = SortP!Top
    OBVIOUS
  <2>2. s = stack[b] /\ s.entry = p[b] /\ s.next \in Nat \ {0}
    <3>1. s = stack[b] /\ s.entry = p[b]
      BY <1>2, <1>3, <1>7, <2>1 DEF SortP!Top
    <3>2. s.next \in Nat \ {0}
      BY <1>4, <1>7, <3>1, SortP!FrameTypes
    <3> QED BY <3>1, <3>2
  <2>3. x = SortP!Operands(p[b])[s.next] /\ s.next <= Len(SortP!Operands(p[b]))
    BY <1>1, <1>2, <2>1, <2>2 DEF SortP!TopOp, SortP!HasOp
  <2>4. entry[p[b]].operands \in Seq(DOMAIN entry)
    BY <1>7, TypesDone
  <2>5. s.next \in DOMAIN entry[p[b]].operands
    BY <1>6, <1>7, <2>2, <2>3, <2>4
  <2> QED BY <1>6, <1>7, <2>3, <2>5 DEF Members, Range
<1>11. \A j \in a .. b : ~SortP!Skipped(p[j])
  <2>1. ASSUME NEW j \in a .. b PROVE ~SortP!Skipped(p[j])
    <3>1. CASE j = a
      BY <1>1, <1>2, <1>8, <3>1
    <3>2. CASE j # a
      <4>1. j - 1 \in a .. b /\ j - 1 < b /\ (j - 1) + 1 = j
        BY <1>7, <2>1, <3>2
      <4> QED BY <1>9, <4>1
    <3> QED BY <3>1, <3>2
  <2> QED BY <2>1
<1>12. RoundPath(p, a, b)
  BY <1>7, <1>8, <1>9, <1>10, <1>11 DEF RoundPath
<1> QED BY <1>12

\* Such a path leads through a pointer, which is a member of a struct it leads back
\* to: one of those the sort passes over.
LEMMA NoRoundPath ==
  ASSUME LInv, phase = "translated", GraphOK, CirclesForward, DirectlyLinked, ValuesEnd,
         NEW a, NEW b, NEW p, RoundPath(p, a, b)
  PROVE  FALSE
<1>1. IsProgram(prog)
  BY DEF LInv, RInv, TranslationInv
<1>2. PICK f : f = [j \in a .. b |-> entry[p[j]].llvm]
  OBVIOUS
<1>3. a \in Nat /\ b \in Nat /\ a <= b /\ a \in a .. b /\ b \in a .. b
  BY DEF RoundPath
<1>4. \A j \in a .. b : p[j] \in DOMAIN entry /\ f[j] \in Types /\ f[j] = entry[p[j]].llvm
  BY <1>2, TypesDone DEF RoundPath
<1>5. ASSUME NEW d \in DOMAIN entry, NEW e \in Members(d)
      PROVE  /\ e \in DOMAIN entry
             /\ \E i \in DOMAIN Elems(entry[d].llvm) : Elems(entry[d].llvm)[i] = entry[e].llvm
  <2>1. PICK i \in DOMAIN entry[d].operands : e = entry[d].operands[i]
    BY <1>5 DEF Members, Range
  <2>2. e \in DOMAIN entry /\ entry[e].llvm = Elems(entry[d].llvm)[i]
    BY <2>1, TypesDone
  <2>3. i \in DOMAIN Elems(entry[d].llvm)
    <3>1. entry[d].operands \in Seq(DOMAIN entry) /\ Len(entry[d].operands) = Len(Elems(entry[d].llvm))
          /\ entry[d].llvm \in Types
      BY TypesDone
    <3>2. Elems(entry[d].llvm) \in Seq(Types)
      BY <1>1, <3>1, ElementTypes
    <3> QED BY <2>1, <3>1, <3>2
  <2> QED BY <2>2, <2>3
<1>6. ASSUME NEW j \in a .. b
      PROVE  \E i \in a .. b : p[j] \in Members(p[i])
  <2>1. CASE j = a
    BY <1>3, <2>1 DEF RoundPath
  <2>2. CASE j # a
    <3>1. j - 1 \in a .. b /\ j - 1 < b /\ (j - 1) + 1 = j
      BY <1>3, <1>6, <2>2
    <3> QED BY <3>1 DEF RoundPath
  <2> QED BY <2>1, <2>2
<1>7. ASSUME NEW i \in a .. b, NEW j \in a .. b, p[j] \in Members(p[i])
      PROVE  f[j] \in Range(Elems(f[i])) /\ \E k \in DOMAIN Elems(f[i]) : Elems(f[i])[k] = f[j]
  BY <1>4, <1>5, <1>7 DEF Range
<1>8. /\ \A j \in a .. b : j < b => f[j + 1] \in Range(Elems(f[j]))
      /\ f[a] \in Range(Elems(f[b]))
  <2>1. \A j \in a .. b : j < b => j + 1 \in a .. b
    BY <1>3
  <2> QED BY <1>3, <1>7, <2>1 DEF RoundPath
<1>9. \A j \in a .. b : Kind(f[j]) \in Kinds /\ Kind(f[j]) # "function"
  BY <1>1, <1>4, <1>6, <1>7, KindOfElement
<1>10. CASE \E j \in a .. b : Kind(f[j]) = "pointer"
  <2>1. PICK j \in a .. b : Kind(f[j]) = "pointer"
    BY <1>10
  <2>2. PICK i \in a .. b : p[j] \in Members(p[i])
    BY <1>6
  <2>3. Kind(f[i]) = "struct"
    BY <1>1, <1>4, <1>7, <1>9, <2>1, <2>2, PointerIn
  <2>4. f[i] \in Found(f[j], Kinds)
    BY <1>1, <1>3, <1>4, <1>8, <1>9, Circle
  <2>5. p[j] \in forward
    BY <1>4, <2>1, <2>2, <2>3, <2>4 DEF CirclesForward, Code
  <2>6. SortP!Skipped(p[j])
    BY <2>5, GraphIs, PointerOpcode DEF SortP!Skipped
  <2> QED BY <2>6 DEF RoundPath
<1>11. CASE \A j \in a .. b : Kind(f[j]) # "pointer"
  <2>1. PICK ks : ks = Kinds \ {"pointer"}
    OBVIOUS
  <2>2. \A j \in a .. b : Kind(f[j]) \in ks
    BY <1>9, <1>11, <2>1
  <2>3. f[b] \in Found(f[a], ks)
    BY <1>1, <1>3, <1>4, <1>8, <2>2, Circle
  <2> QED BY <1>3, <1>4, <1>8, <1>11, <2>1, <2>3 DEF ValuesEnd
<1> QED BY <1>10, <1>11

-----------------------------------------------------------------------------
(***************************************************************************)
(* The circles through the round trip.                                     *)
(***************************************************************************)
CyclesInv == SInv /\ CInv /\ SortP!CyclicHere

LEMMA CInvKeeps ==
  ASSUME SInv, SInv', CInv, [RNext]_vars
  PROVE  CInv'
<1>1. /\ TranslationInv /\ asked \in Nat /\ TypeOrder
      /\ TranslationInv'
  BY DEF SInv, LInv, RInv
<1>2. CASE RTranslate
  <2>1. Translate /\ phase = "types" /\ CirclesInv
    BY <1>2, TranslateInTypes DEF RTranslate, CInv
  <2>2. FramesOK'
    BY <1>1 DEF TranslationInv
  <2>3. phase' = "types" => CirclesInv'
    BY <1>1, <2>1, <2>2, TranslateCircles
  <2>4. phase' = "translated" => CirclesForward'
    <3>1. ASSUME phase' = "translated" PROVE CreateForwardPointers
      BY <2>1, <3>1 DEF Translate, Root, Descend, Take, AddType, AddTypeUnknownId, CloseStruct, ReturnStruct
    <3> QED BY <1>1, <2>1, <3>1, CreateForwardPointersCircles
  <2> QED BY <2>3, <2>4 DEF CInv
<1>3. CASE UNCHANGED vars
  <2>1. UNCHANGED <<prog, calls, typeMap, entry, typeVec, phase, forward>>
    BY <1>3 DEF vars, transVars
  <2>2. CirclesForward => CirclesForward'
    BY <2>1, ProgKept DEF CirclesForward, DirectlyLinked, Members, Code
  <2> QED BY <2>1, <2>2, SameCircles DEF CInv
<1>4. CASE StartSort \/ RSort \/ Write \/ ReadType \/ ReadTypeUnknownId \/ ReadEnd
  <2>1. phase = "translated" /\ UNCHANGED <<prog, entry, phase>>
    <3>1. UNCHANGED <<prog, entry, phase>>
      BY <1>4 DEF StartSort, RSort, Write, ReadType, ReadTypeUnknownId, ReadEnd, transVars
    <3>2. phase = "translated" \/ status # "idle"
      BY <1>4, SortStarted DEF StartSort, RSort, Write, ReadType, ReadTypeUnknownId, ReadEnd
    <3> QED BY <1>1, <3>1, <3>2 DEF TranslationInv, Phases
  <2>2. forward' = forward
    <3>1. CASE ReadEnd
      BY <3>1 DEF ReadEnd, SInv, Complete
    <3>2. CASE ~ReadEnd
      BY <1>4, <3>2 DEF StartSort, RSort, Write, ReadType, ReadTypeUnknownId, transVars
    <3> QED BY <3>1, <3>2
  <2>3. CirclesForward => CirclesForward'
    BY <2>1, <2>2, ProgKept DEF CirclesForward, DirectlyLinked, Members, Code
  <2> QED BY <2>1, <2>3 DEF CInv
<1> QED BY <1>2, <1>3, <1>4 DEF RNext

LEMMA CyclicHereKeeps ==
  ASSUME SortP!CyclicHere, [RNext]_vars
  PROVE  SortP!CyclicHere'
<1>1. CASE UNCHANGED sortVars
  BY <1>1 DEF sortVars, SortP!CyclicHere, SortP!HasOp, SortP!Skipped, SortP!Top, SortP!TopOp, SortP!Operands
<1>2. CASE RSort
  <2>1. SortP!Next
    BY <1>2, SortSteps DEF RSort
  <2>2. CASE SortP!CyclicDependency
    BY <2>2 DEF SortP!CyclicDependency, SortP!CyclicHere, SortP!HasOp, SortP!Skipped, SortP!Top,
                SortP!TopOp, SortP!Operands
  <2>3. CASE ~SortP!CyclicDependency
    <3>1. status' # "cyclic"
      BY <2>1, <2>3 DEF SortP!Next, SortP!StartVisit, SortP!PassOperand, SortP!VisitOperand,
                        SortP!FinishVisit, SortP!Finish
    <3> QED BY <3>1 DEF SortP!CyclicHere
  <2> QED BY <2>2, <2>3
<1>3. CASE StartSort \/ Write \/ ReadTypeUnknownId \/ ReadEnd
  <2>1. status' # "cyclic"
    BY <1>3 DEF StartSort, Write, ReadTypeUnknownId, ReadEnd
  <2> QED BY <2>1 DEF SortP!CyclicHere
<1>4. CASE RTranslate \/ ReadType \/ UNCHANGED vars
  BY <1>1, <1>4 DEF RTranslate, ReadType, vars
<1> QED BY <1>2, <1>3, <1>4 DEF RNext

\* Where no type holds itself by value, and recursive types are linked as clang
\* links them, "Cyclic dependency detected" does not fire: each circle of types has
\* a pointer that stands behind a struct it is a member of, in the order transType()
\* adds the types and in that of the file.
THEOREM CyclesBrokenHolds == RSpec => []CyclesBroken
<1>1. RInit => CyclesInv
  <2> SUFFICES ASSUME RInit PROVE CyclesInv
    OBVIOUS
  <2>1. calls = << >> /\ entry = << >> /\ phase = "types" /\ status = "idle"
    BY DEF RInit, Init
  <2>2. DOMAIN calls = {} /\ DOMAIN entry = {}
    BY <2>1
  <2>3. CirclesInv
    BY <2>2 DEF CirclesInv, CallsNext, StructsOnce, ClosedAdded, Blank, PointersDeclared
  <2> QED BY <2>1, <2>3, RInitSInv DEF CyclesInv, CInv, SortP!CyclicHere
<1>2. CyclesInv /\ [RNext]_vars => CyclesInv'
  BY RNextSInv, CInvKeeps, CyclicHereKeeps DEF CyclesInv
<1>3. CyclesInv => CyclesBroken
  <2> SUFFICES ASSUME CyclesInv, status = "cyclic", DirectlyLinked, ValuesEnd PROVE FALSE
    BY DEF CyclesBroken
  <2>1. phase = "translated" /\ LInv
    BY DEF CyclesInv, SInv, LInv, RInv, TranslationInv, Phases
  <2>2. GraphOK /\ SortP!IInv /\ CirclesForward /\ SortP!CyclicHere
    BY <2>1 DEF CyclesInv, SInv, CInv, Sorting
  <2>3. PICK a, b : \E p : RoundPath(p, a, b)
    BY <2>1, <2>2, SearchRound
  <2>4. PICK p : RoundPath(p, a, b)
    BY <2>3
  <2> QED BY <2>1, <2>2, <2>4, NoRoundPath
<1> QED BY <1>1, <1>2, <1>3, PTL DEF RSpec
=============================================================================
