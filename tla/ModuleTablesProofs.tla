------------------------- MODULE ModuleTablesProofs -------------------------
(***************************************************************************)
(* The tables of a module agree, for every translation and every file      *)
(* (TablesAgree), an id that is handed out is a new one (FreshIds), and    *)
(* the assertions of operator>> fail on the files that leave the layout of *)
(* SPIR-V and on no other, hence on none that operator<< has written       *)
(* (LayoutSuffices).                                                       *)
(* For the first, what is read is any sequence of instructions; for the    *)
(* second, the bound of a file that another tool has written is taken to   *)
(* be above its ids (FilesAssumption), and for the third each of its ids   *)
(* to be made by an instruction (IdsAssumption); both are shown of a file  *)
(* that operator<< writes.                                                 *)
(***************************************************************************)
EXTENDS ModuleTables, FiniteSetTheorems, SequenceTheorems, TLAPS

(***************************************************************************)
(* Induction over the natural numbers for a set of numbers, and what it    *)
(* gives for functions defined by recursion.  The sets stand where the     *)
(* theorems of the library have an operator as their parameter.            *)
(***************************************************************************)
\* A set of numbers has a least one: of the intervals 0 .. n up to its elements, one
\* contains no other.
LEMMA LeastNumber ==
  ASSUME NEW X \in SUBSET Nat, X # {}
  PROVE  \E n \in X : \A k \in X : n <= k
<1> DEFINE R == StrictSubsetOrdering(Nat)
           T == {0 .. n : n \in X}
<1>1. T \in SUBSET FiniteSubsetsOf(Nat)
  <2>1. \A n \in X : IsFiniteSet(0 .. n) /\ 0 .. n \in SUBSET Nat
    <3> TAKE n \in X
    <3>1. 0 \in Int /\ n \in Int
      OBVIOUS
    <3> QED BY <3>1, FS_Interval
  <2> QED BY <2>1 DEF FiniteSubsetsOf
<1>2. IsWellFoundedOn(R, FiniteSubsetsOf(Nat))
  BY FS_StrictSubsetOrderingWellFounded
<1>3. \E s \in T : \A t \in T : ~(<<t, s>> \in R)
  <2>1. T # {}
    OBVIOUS
  <2> HIDE DEF R, T
  <2> QED BY <1>1, <1>2, <2>1, WFMin
<1>4. PICK n \in X : \A k \in X : ~(<<0 .. k, 0 .. n>> \in R)
  BY <1>3
<1>5. ASSUME NEW k \in X, k < n PROVE FALSE
  <2>1. 0 .. k \subseteq 0 .. n /\ 0 .. k # 0 .. n /\ 0 .. n \in SUBSET Nat /\ 0 .. k \in SUBSET Nat
    BY <1>5
  <2>2. <<0 .. k, 0 .. n>> \in R
    BY <2>1 DEF StrictSubsetOrdering
  <2> QED BY <1>4, <2>2
<1> QED BY <1>5

\* Induction: the numbers for which something holds are all of them.
LEMMA SetInduction ==
  ASSUME NEW X \in SUBSET Nat, 0 \in X, \A n \in X : n + 1 \in X
  PROVE  X = Nat
<1> SUFFICES ASSUME Nat \ X # {} PROVE FALSE
  OBVIOUS
<1>1. Nat \ X \in SUBSET Nat
  OBVIOUS
<1>2. PICK n \in Nat \ X : \A k \in Nat \ X : n <= k
  BY <1>1, LeastNumber
<1>3. n - 1 \in Nat /\ n - 1 \notin Nat \ X
  BY <1>2
<1> QED BY <1>2, <1>3

(***************************************************************************)
(* The values x, step[x], step[step[x]] ... as a function of the number of *)
(* steps.                                                                  *)
(***************************************************************************)
IsRun(f, n, x, step) ==
  f[0] = x /\ \A i \in 0 .. n - 1 : f[i + 1] = step[f[i]]

LEMMA RunsExist ==
  ASSUME NEW S, NEW x \in S, NEW step \in [S -> S]
  PROVE  \A n \in Nat : \E f \in [Nat -> S] : IsRun(f, n, x, step)
<1> DEFINE X == {n \in Nat : \E f \in [Nat -> S] : IsRun(f, n, x, step)}
<1>1. 0 \in X
  <2>1. [i \in Nat |-> x] \in [Nat -> S] /\ IsRun([i \in Nat |-> x], 0, x, step)
    BY DEF IsRun
  <2> QED BY <2>1
<1>2. ASSUME NEW n \in X PROVE n + 1 \in X
  <2>1. PICK f \in [Nat -> S] : IsRun(f, n, x, step)
    OBVIOUS
  <2>2. PICK g : g = [i \in Nat |-> IF i = n + 1 THEN step[f[n]] ELSE f[i]]
    OBVIOUS
  <2>3. g \in [Nat -> S]
    BY <2>2
  <2>4. IsRun(g, n + 1, x, step)
    <3>1. g[0] = x
      BY <2>1, <2>2 DEF IsRun
    <3>2. ASSUME NEW i \in 0 .. n PROVE g[i + 1] = step[g[i]]
      <4>1. CASE i = n
        BY <2>2, <4>1
      <4>2. CASE i # n
        BY <2>1, <2>2, <4>2 DEF IsRun
      <4> QED BY <4>1, <4>2
    <3> QED BY <3>1, <3>2 DEF IsRun
  <2> QED BY <2>3, <2>4
<1>3. X = Nat
  <2> HIDE DEF X
  <2>1. X \in SUBSET Nat
    BY DEF X
  <2> QED BY <1>1, <1>2, <2>1, SetInduction
<1> QED BY <1>3

LEMMA RunsAgree ==
  ASSUME NEW S, NEW x \in S, NEW step \in [S -> S],
         NEW f, NEW g, NEW k \in Nat, NEW n \in Nat,
         IsRun(f, k, x, step), IsRun(g, n, x, step)
  PROVE  \A i \in Nat : i <= k /\ i <= n => f[i] = g[i]
<1> DEFINE X == {i \in Nat : i <= k /\ i <= n => f[i] = g[i]}
<1>1. 0 \in X
  BY DEF IsRun
<1>2. ASSUME NEW i \in X PROVE i + 1 \in X
  <2> SUFFICES ASSUME i + 1 <= k, i + 1 <= n PROVE f[i + 1] = g[i + 1]
    OBVIOUS
  <2>1. i \in 0 .. k - 1 /\ i \in 0 .. n - 1 /\ f[i] = g[i]
    OBVIOUS
  <2>2. f[i + 1] = step[f[i]] /\ g[i + 1] = step[g[i]]
    BY <2>1 DEF IsRun
  <2> QED BY <2>1, <2>2
<1>3. X = Nat
  <2> HIDE DEF X
  <2>1. X \in SUBSET Nat
    BY DEF X
  <2> QED BY <1>1, <1>2, <2>1, SetInduction
<1> QED BY <1>3

LEMMA Iteration ==
  ASSUME NEW S, NEW x \in S, NEW step \in [S -> S]
  PROVE  \E f \in [Nat -> S] : f[0] = x /\ \A n \in Nat : f[n + 1] = step[f[n]]
<1> DEFINE run(n) == CHOOSE f \in [Nat -> S] : IsRun(f, n, x, step)
<1>1. \A n \in Nat : run(n) \in [Nat -> S] /\ IsRun(run(n), n, x, step)
  BY RunsExist
<1> HIDE DEF run
<1>2. PICK f : f = [n \in Nat |-> run(n)[n]]
  OBVIOUS
<1>3. f \in [Nat -> S]
  BY <1>1, <1>2
<1>4. f[0] = x
  BY <1>1, <1>2 DEF IsRun
<1>5. ASSUME NEW n \in Nat PROVE f[n + 1] = step[f[n]]
  <2>1. IsRun(run(n), n, x, step) /\ IsRun(run(n + 1), n + 1, x, step) /\ n + 1 \in Nat
    BY <1>1
  <2>2. run(n)[n] = run(n + 1)[n]
    <3>1. n <= n /\ n <= n + 1
      OBVIOUS
    <3> QED BY <2>1, <3>1, RunsAgree
  <2>3. run(n + 1)[n + 1] = step[run(n + 1)[n]]
    BY <2>1 DEF IsRun
  <2> QED BY <1>2, <2>1, <2>2, <2>3
<1> QED BY <1>3, <1>4, <1>5

\* The same for steps that look at the number they start from.
IsIndexedStep(step, S) == \A n \in Nat : \A y \in S : step[<<n, y>>] \in S

LEMMA IndexedIteration ==
  ASSUME NEW S, NEW x \in S, NEW step, IsIndexedStep(step, S)
  PROVE  \E f \in [Nat -> S] : f[0] = x /\ \A n \in Nat : f[n + 1] = step[<<n, f[n]>>]
<1>1. PICK P : P = Nat \X S
  OBVIOUS
<1>2. PICK y \in P : y = <<0, x>>
  BY <1>1
<1>3. PICK next \in [P -> P] : \A p \in P : next[p] = <<p[1] + 1, step[p]>>
  <2>1. PICK next : next = [p \in P |-> <<p[1] + 1, step[p]>>]
    OBVIOUS
  <2>2. \A p \in P : <<p[1] + 1, step[p]>> \in P
    BY <1>1 DEF IsIndexedStep
  <2> QED BY <2>1, <2>2
<1>4. PICK g \in [Nat -> P] : g[0] = y /\ \A n \in Nat : g[n + 1] = next[g[n]]
  BY Iteration
<1>5. \A n \in Nat : g[n][1] = n
  <2> DEFINE X == {n \in Nat : g[n][1] = n}
  <2>1. 0 \in X
    BY <1>2, <1>4
  <2>2. ASSUME NEW n \in X PROVE n + 1 \in X
    <3>1. g[n] \in P /\ g[n + 1] = next[g[n]] /\ g[n][1] = n
      BY <1>4
    <3>2. g[n + 1][1] = n + 1
      BY <3>1, <1>3
    <3> QED BY <3>2
  <2>3. X \in SUBSET Nat
    OBVIOUS
  <2> HIDE DEF X
  <2>4. X = Nat
    BY <2>1, <2>2, <2>3, SetInduction
  <2> QED BY <2>4 DEF X
<1>6. PICK f : f = [n \in Nat |-> g[n][2]]
  OBVIOUS
<1>7. f \in [Nat -> S]
  BY <1>6, <1>4, <1>1
<1>8. f[0] = x
  BY <1>6, <1>4, <1>2
<1>9. ASSUME NEW n \in Nat PROVE f[n + 1] = step[<<n, f[n]>>]
  <2>1. g[n] \in P /\ g[n + 1] = next[g[n]] /\ g[n][1] = n /\ n + 1 \in Nat
    BY <1>4, <1>5
  <2>2. g[n] = <<n, f[n]>>
    BY <2>1, <1>1, <1>6
  <2>3. g[n + 1][2] = step[g[n]]
    BY <2>1, <1>3
  <2> QED BY <2>1, <2>2, <2>3, <1>6
<1> QED BY <1>7, <1>8, <1>9

\* The parts of a sequence of sequences, put together one after the other.
LEMMA FlattenRuns ==
  ASSUME NEW S, NEW ss \in Seq(Seq(S))
  PROVE  \E f \in [Nat -> Seq(S)] :
           /\ f[0] = << >>
           /\ \A n \in 0 .. Len(ss) - 1 : f[n + 1] = f[n] \o ss[n + 1]
           /\ FlattenSeq(ss) = f[Len(ss)]
<1>1. Len(ss) \in Nat /\ DOMAIN ss = 1 .. Len(ss) /\ \A i \in 1 .. Len(ss) : ss[i] \in Seq(S)
  BY LenProperties, ElementOfSeq
<1>2. PICK Q : Q = Seq(S)
  OBVIOUS
<1>3. PICK step : step = [p \in Nat \X Q |->
                            IF p[1] + 1 \in 1 .. Len(ss) THEN p[2] \o ss[p[1] + 1] ELSE p[2]]
  OBVIOUS
<1>4. \A n \in Nat : \A q \in Q :
        step[<<n, q>>] = IF n + 1 \in 1 .. Len(ss) THEN q \o ss[n + 1] ELSE q
  BY <1>3
<1>5. IsIndexedStep(step, Q)
  <2> SUFFICES ASSUME NEW n \in Nat, NEW q \in Q PROVE step[<<n, q>>] \in Q
    BY DEF IsIndexedStep
  <2>1. CASE n + 1 \in 1 .. Len(ss)
    <3>1. q \o ss[n + 1] \in Seq(S)
      BY <2>1, <1>1, <1>2, ConcatProperties
    <3> QED BY <3>1, <2>1, <1>4, <1>2
  <2>2. CASE n + 1 \notin 1 .. Len(ss)
    BY <2>2, <1>4
  <2> QED BY <2>1, <2>2
<1>6. << >> \in Q
  BY <1>2, EmptySeq
<1>7. PICK f \in [Nat -> Q] : f[0] = << >> /\ \A n \in Nat : f[n + 1] = step[<<n, f[n]>>]
  BY <1>5, <1>6, IndexedIteration
<1>8. ASSUME NEW n \in 0 .. Len(ss) - 1 PROVE f[n + 1] = f[n] \o ss[n + 1]
  <2>1. n \in Nat /\ n + 1 \in 1 .. Len(ss) /\ f[n] \in Q
    BY <1>1, <1>7
  <2> QED BY <2>1, <1>4, <1>7
<1>9. FlattenSeq(ss) = f[Len(ss)]
  <2>1. CASE Len(ss) = 0
    <3>1. ss = << >>
      BY <2>1, <1>1, EmptySeq
    <3> QED BY <3>1, <2>1, <1>6, <1>7 DEF FlattenSeq
  <2>2. CASE Len(ss) # 0
    <3> DEFINE Eq(g) == g = [i \in 1 .. Len(ss) |-> IF i = 1 THEN ss[i] ELSE g[i - 1] \o ss[i]]
               flatten == CHOOSE g : Eq(g)
    <3>1. PICK g : g = [i \in 1 .. Len(ss) |-> f[i]]
      OBVIOUS
    <3>2. ASSUME NEW i \in 1 .. Len(ss)
          PROVE  g[i] = IF i = 1 THEN ss[i] ELSE g[i - 1] \o ss[i]
      <4>1. i - 1 \in 0 .. Len(ss) - 1 /\ (i - 1) + 1 = i
        BY <1>1
      <4>2. f[i] = f[i - 1] \o ss[i]
        BY <4>1, <1>8
      <4>3. CASE i = 1
        <5>1. f[0] \o ss[1] = ss[1]
          BY <4>3, <1>1, <1>6, <1>7, ConcatEmptySeq
        <5>2. i - 1 = 0
          BY <4>3
        <5>3. f[i] = ss[i]
          BY <5>1, <5>2, <4>2, <4>3
        <5> QED BY <5>3, <4>3, <3>1
      <4>4. CASE i # 1
        <5>1. i - 1 \in 1 .. Len(ss)
          BY <4>4, <1>1
        <5>2. g[i - 1] = f[i - 1] /\ g[i] = f[i]
          BY <5>1, <3>1
        <5> QED BY <5>2, <4>2, <4>4
      <4> QED BY <4>3, <4>4
    <3>3. Eq(g)
      <4>1. g = [i \in 1 .. Len(ss) |-> g[i]]
        BY <3>1
      <4> QED BY <4>1, <3>2
    <3>4. Eq(flatten)
      BY <3>3, Zenon
    <3>5. PICK h : h = flatten
      OBVIOUS
    <3>6. \A i \in 1 .. Len(ss) : h[i] = IF i = 1 THEN ss[i] ELSE h[i - 1] \o ss[i]
      BY <3>4, <3>5, ZenonT(40)
    <3>7. FlattenSeq(ss) = h[Len(ss)]
      BY <2>2, <3>5 DEF FlattenSeq
    <3> HIDE DEF flatten, Eq
    <3> DEFINE X == {n \in Nat : n + 1 \in 1 .. Len(ss) => h[n + 1] = f[n + 1]}
    <3>8. 0 \in X
      <4>1. CASE 1 \in 1 .. Len(ss)
        BY <4>1, <3>2, <3>6, <3>1
      <4>2. CASE 1 \notin 1 .. Len(ss)
        BY <4>2
      <4> QED BY <4>1, <4>2
    <3>9. ASSUME NEW n \in X PROVE n + 1 \in X
      <4>1. CASE n + 2 \in 1 .. Len(ss)
        <5>1. n + 1 \in 1 .. Len(ss) /\ h[n + 1] = f[n + 1] /\ n + 1 \in 0 .. Len(ss) - 1
          BY <4>1, <1>1
        <5>2. h[n + 2] = h[n + 1] \o ss[n + 2]
          <6>1. n \in Nat /\ (n + 2) - 1 = n + 1 /\ n + 2 # 1
            OBVIOUS
          <6>2. h[n + 2] = IF n + 2 = 1 THEN ss[n + 2] ELSE h[(n + 2) - 1] \o ss[n + 2]
            BY <4>1, <3>6
          <6> QED BY <6>1, <6>2
        <5>3. f[(n + 1) + 1] = f[n + 1] \o ss[(n + 1) + 1]
          BY <5>1, <1>8
        <5>4. (n + 1) + 1 = n + 2 /\ n + 1 \in Nat
          OBVIOUS
        <5> QED BY <5>1, <5>2, <5>3, <5>4
      <4>2. CASE n + 2 \notin 1 .. Len(ss)
        <5>1. (n + 1) + 1 = n + 2 /\ n + 1 \in Nat
          OBVIOUS
        <5> QED BY <5>1, <4>2
      <4> QED BY <4>1, <4>2
    <3>10. X \in SUBSET Nat
      OBVIOUS
    <3>11. X = Nat
      <4> HIDE DEF X
      <4> QED BY <3>8, <3>9, <3>10, SetInduction
    <3>12. Len(ss) - 1 \in Nat /\ (Len(ss) - 1) + 1 = Len(ss) /\ Len(ss) \in 1 .. Len(ss)
      BY <2>2, <1>1
    <3>13. Len(ss) - 1 \in X
      BY <3>11, <3>12
    <3>14. h[(Len(ss) - 1) + 1] = f[(Len(ss) - 1) + 1]
      BY <3>12, <3>13
    <3> QED BY <3>12, <3>14, <3>7
  <2> QED BY <2>1, <2>2
<1> QED BY <1>2, <1>6, <1>7, <1>8, <1>9

(***************************************************************************)
(* Shapes.  The ids of a file may be anything, so the entries are no       *)
(* elements of a fixed set; what is known is their fields.                 *)
(***************************************************************************)
IsSeq(s)    == s \in Seq({s[k] : k \in DOMAIN s})
EntryFields == {"op", "id", "name", "line", "modes", "str", "items"}
LineFields  == {"target", "string", "no"}
TableFields ==
  {"objs", "idMap", "nextId", "named", "strings", "strMap", "lines", "entryPoints",
   "entryPointSet", "groups", "globals", "functions"}
Shaped(t) ==
  /\ DOMAIN t = TableFields
  /\ IsSeq(t.objs) /\ IsSeq(t.lines) /\ IsSeq(t.entryPoints)
  /\ \A e \in DOMAIN t.objs : DOMAIN t.objs[e] = EntryFields
  /\ \A k \in DOMAIN t.lines : DOMAIN t.lines[k] = LineFields

(***************************************************************************)
(* What makes TablesAgree inductive.  Entered(t, e): e has an id that      *)
(* leads to it.  A forward is entered under one id only, so that nothing   *)
(* leads to it when it has been replaced.                                  *)
(***************************************************************************)
Entered(t, e) ==
  e \in DOMAIN t.objs /\ t.objs[e].id \in DOMAIN t.idMap /\ t.idMap[t.objs[e].id] = e
Linked(t)       == \A id \in DOMAIN t.idMap : Entered(t, t.idMap[id])
ForwardsOnce(t) ==
  \A id \in DOMAIN t.idMap :
    t.objs[t.idMap[id]].op = "forward" => t.objs[t.idMap[id]].id = id
NameAgrees(t, x) ==
  x \in t.named <=> x \in DOMAIN t.idMap /\ t.objs[t.idMap[x]].id = x
                    /\ t.objs[t.idMap[x]].name # ""
NamesAgree(t)  == \A x : NameAgrees(t, x)
HasItsLine(t, e) ==
  t.objs[e].line # 0 =>
    t.objs[e].line \in DOMAIN t.lines /\ t.lines[t.objs[e].line].target = t.objs[e].id
LinesAgree(t)   == \A id \in DOMAIN t.idMap : HasItsLine(t, t.idMap[id])
LinesKnown(t)   ==
  \A k \in DOMAIN t.lines :
    t.lines[k].target \in DOMAIN t.idMap /\ t.lines[k].string \in DOMAIN t.idMap
StringsKnown(t) == \A s \in DOMAIN t.strMap : t.strMap[s] \in DOMAIN t.idMap
EntriesKnown(t) == \A e \in DOMAIN t.objs : t.objs[e].id \in DOMAIN t.idMap
EntryPointsAgree(t) == t.entryPointSet = Range(t.entryPoints)

\* All but the names.
Sound(t) ==
  /\ Shaped(t)
  /\ Linked(t) /\ ForwardsOnce(t)
  /\ LinesAgree(t) /\ LinesKnown(t) /\ StringsKnown(t) /\ EntriesKnown(t)
  /\ EntryPointsAgree(t)
Good(t) == Sound(t) /\ NamesAgree(t)

\* While a module is built its ids are below the next one.
Fresh(t) == t.nextId \in Nat /\ \A id \in DOMAIN t.idMap : id \in Nat /\ id < t.nextId

IInv == Good(m) /\ (phase = "building" => Fresh(m))
-----------------------------------------------------------------------------
(***************************************************************************)
(* Sequences.                                                              *)
(***************************************************************************)
LEMMA SeqDomain ==
  ASSUME NEW s, IsSeq(s)
  PROVE  Len(s) \in Nat /\ DOMAIN s = 1 .. Len(s)
BY DEF IsSeq

\* a is s with o behind it.
Appended(s, o, a) ==
  /\ IsSeq(a)
  /\ Len(a) = Len(s) + 1
  /\ DOMAIN a = DOMAIN s \cup {Len(a)}
  /\ Len(a) \notin DOMAIN s
  /\ \A k \in DOMAIN s : a[k] = s[k]
  /\ a[Len(a)] = o

LEMMA AppendFacts ==
  ASSUME NEW s, IsSeq(s), NEW o, NEW a, a = Append(s, o)
  PROVE  Appended(s, o, a)
<1> DEFINE S == {s[k] : k \in DOMAIN s} \cup {o}
<1>1. s \in Seq(S)
  BY DEF IsSeq
<1>2. DOMAIN s = 1 .. Len(s) /\ Len(s) \in Nat
  BY SeqDomain
<1>3. a \in Seq(S) /\ Len(a) = Len(s) + 1 /\ DOMAIN a = 1 .. (Len(s) + 1)
  BY <1>1
<1>4. (\A k \in DOMAIN s : a[k] = s[k]) /\ a[Len(s) + 1] = o
  BY <1>1, <1>2
<1>5. IsSeq(a)
  <2>1. \A k \in 1 .. (Len(s) + 1) : a[k] \in {a[i] : i \in DOMAIN a}
    BY <1>3
  <2> QED BY <2>1, <1>2, <1>3 DEF IsSeq
<1> QED BY <1>2, <1>3, <1>4, <1>5 DEF Appended

LEMMA ExceptFacts ==
  ASSUME NEW s, IsSeq(s), NEW e, NEW x, NEW u, u = [s EXCEPT ![e] = x]
  PROVE  /\ IsSeq(u) /\ Len(u) = Len(s) /\ DOMAIN u = DOMAIN s
         /\ \A k \in DOMAIN s : k # e => u[k] = s[k]
         /\ e \in DOMAIN s => u[e] = x
<1>2. DOMAIN s = 1 .. Len(s) /\ Len(s) \in Nat
  BY SeqDomain
<1>3. DOMAIN u = 1 .. Len(s) /\ \A k \in 1 .. Len(s) : u[k] = IF k = e THEN x ELSE s[k]
  BY <1>2
<1>4. u \in Seq({u[k] : k \in DOMAIN u}) /\ Len(u) = Len(s)
  <2> DEFINE v == [k \in 1 .. Len(s) |-> u[k]]
             T == {u[k] : k \in 1 .. Len(s)}
  <2>1. v \in [1 .. Len(s) -> T]
    OBVIOUS
  <2>2. v \in Seq(T) /\ Len(v) = Len(s)
    BY <2>1, <1>2
  <2>3. v = u
    BY <1>3
  <2> QED BY <2>2, <2>3, <1>3
<1> QED BY <1>2, <1>3, <1>4 DEF IsSeq

-----------------------------------------------------------------------------
(***************************************************************************)
(* What an operator does to the entries, field by field.                   *)
(***************************************************************************)
\* An entry of which one field is replaced keeps the others.
LEMMA WithName ==
  ASSUME NEW o, DOMAIN o = EntryFields, NEW name, NEW u, u = [o EXCEPT !.name = name]
  PROVE  DOMAIN u = EntryFields /\ u.name = name /\ u.id = o.id /\ u.op = o.op /\ u.line = o.line
BY DEF EntryFields

LEMMA WithLine ==
  ASSUME NEW o, DOMAIN o = EntryFields, NEW line, NEW u, u = [o EXCEPT !.line = line]
  PROVE  DOMAIN u = EntryFields /\ u.line = line /\ u.id = o.id /\ u.op = o.op /\ u.name = o.name
BY DEF EntryFields

\* u is t with the entry o in place of e.
Replaces(t, u, e, o) ==
  /\ IsSeq(u.objs) /\ DOMAIN u.objs = DOMAIN t.objs /\ Len(u.objs) = Len(t.objs)
  /\ \A k \in DOMAIN t.objs : k # e => u.objs[k] = t.objs[k]
  /\ u.objs[e] = o

LEMMA ReplacesFacts ==
  ASSUME NEW t, NEW u, NEW e \in DOMAIN t.objs, NEW o, IsSeq(t.objs),
         u.objs = [t.objs EXCEPT ![e] = o]
  PROVE  Replaces(t, u, e, o)
BY ExceptFacts DEF Replaces

-----------------------------------------------------------------------------
(***************************************************************************)
(* What has no part in the agreement may change: u has the tables of t,    *)
(* and the entries of t apart from modes, items, texts and names.          *)
(***************************************************************************)
SameEntry(o, p) == DOMAIN p = EntryFields /\ p.id = o.id /\ p.op = o.op /\ p.line = o.line
Alike(t, u) ==
  /\ DOMAIN u = TableFields
  /\ IsSeq(u.objs) /\ DOMAIN u.objs = DOMAIN t.objs
  /\ \A k \in DOMAIN t.objs : SameEntry(t.objs[k], u.objs[k])
  /\ u.idMap = t.idMap /\ u.lines = t.lines /\ u.strMap = t.strMap
  /\ u.entryPoints = t.entryPoints /\ u.entryPointSet = t.entryPointSet
AlikeNames(t, u) ==
  /\ u.named = t.named
  /\ \A k \in DOMAIN t.objs : u.objs[k].name = t.objs[k].name

LEMMA AlikeSound ==
  ASSUME NEW t, Sound(t), NEW u, Alike(t, u)
  PROVE  Sound(u) /\ \A e : Entered(t, e) => Entered(u, e)
<1>1. Shaped(u)
  BY DEF Sound, Shaped, Alike, SameEntry
<1>2. ASSUME NEW e \in DOMAIN t.objs
      PROVE  u.objs[e].id = t.objs[e].id /\ u.objs[e].op = t.objs[e].op
             /\ u.objs[e].line = t.objs[e].line
  BY DEF Alike, SameEntry
<1>3. u.idMap = t.idMap /\ u.lines = t.lines /\ DOMAIN u.objs = DOMAIN t.objs
  BY DEF Alike
<1>4. \A id \in DOMAIN t.idMap : t.idMap[id] \in DOMAIN t.objs
  BY DEF Sound, Linked, Entered
<1>5. ASSUME NEW e, Entered(t, e) PROVE Entered(u, e)
  BY <1>2, <1>3, <1>5 DEF Entered
<1>6. Linked(u)
  BY <1>3, <1>5 DEF Sound, Linked
<1>7. ForwardsOnce(u)
  BY <1>2, <1>3, <1>4 DEF Sound, ForwardsOnce
<1>8. EntriesKnown(u)
  BY <1>2, <1>3 DEF Sound, EntriesKnown
<1>9. LinesAgree(u)
  <2> SUFFICES ASSUME NEW id \in DOMAIN t.idMap PROVE HasItsLine(u, t.idMap[id])
    BY <1>3 DEF LinesAgree
  <2>1. HasItsLine(t, t.idMap[id])
    BY DEF Sound, LinesAgree
  <2> QED BY <2>1, <1>2, <1>3, <1>4 DEF HasItsLine
<1>10. LinesKnown(u) /\ StringsKnown(u) /\ EntryPointsAgree(u)
  BY DEF Sound, LinesKnown, StringsKnown, EntryPointsAgree, Alike
<1> QED BY <1>1, <1>5, <1>6, <1>7, <1>8, <1>9, <1>10 DEF Sound

LEMMA AlikeGood ==
  ASSUME NEW t, Good(t), NEW u, Alike(t, u), AlikeNames(t, u)
  PROVE  Good(u) /\ \A e : Entered(t, e) => Entered(u, e)
<1>1. Sound(u) /\ \A e : Entered(t, e) => Entered(u, e)
  BY AlikeSound DEF Good
<1>2. ASSUME NEW x PROVE NameAgrees(u, x)
  <2>1. NameAgrees(t, x)
    BY DEF Good, NamesAgree
  <2>2. u.idMap = t.idMap /\ u.named = t.named
    BY DEF Alike, AlikeNames
  <2>3. CASE x \notin DOMAIN t.idMap
    BY <2>1, <2>2, <2>3 DEF NameAgrees
  <2>4. CASE x \in DOMAIN t.idMap
    <3>1. t.idMap[x] \in DOMAIN t.objs
      BY <2>4 DEF Good, Sound, Linked, Entered
    <3>2. u.objs[t.idMap[x]].id = t.objs[t.idMap[x]].id
          /\ u.objs[t.idMap[x]].name = t.objs[t.idMap[x]].name
      BY <3>1 DEF Alike, AlikeNames, SameEntry
    <3> QED BY <2>1, <2>2, <3>2 DEF NameAgrees
  <2> QED BY <2>3, <2>4
<1> QED BY <1>1, <1>2 DEF Good, NamesAgree

\* Naming an entry that its id leads to repairs what is wrong with its own name.
LEMMA SetNameGood ==
  ASSUME NEW t, Sound(t), NEW e, Entered(t, e), \A x : x # t.objs[e].id => NameAgrees(t, x),
         NEW name, NEW u, u = SetName(t, e, name)
  PROVE  Good(u) /\ Alike(t, u) /\ u.nextId = t.nextId
<1>1. e \in DOMAIN t.objs /\ t.objs[e].id \in DOMAIN t.idMap /\ t.idMap[t.objs[e].id] = e
  BY DEF Entered
<1>2. Shaped(t)
  BY DEF Sound
<1>3. PICK o : o = [t.objs[e] EXCEPT !.name = name]
  OBVIOUS
<1>4. /\ DOMAIN u = TableFields /\ Replaces(t, u, e, o)
      /\ u.named = IF name = "" THEN t.named \ {t.objs[e].id} ELSE t.named \cup {t.objs[e].id}
      /\ u.idMap = t.idMap /\ u.lines = t.lines /\ u.strMap = t.strMap /\ u.nextId = t.nextId
      /\ u.entryPoints = t.entryPoints /\ u.entryPointSet = t.entryPointSet
  <2>1. /\ DOMAIN u = TableFields /\ u.objs = [t.objs EXCEPT ![e] = o]
        /\ u.named = IF name = "" THEN t.named \ {t.objs[e].id} ELSE t.named \cup {t.objs[e].id}
        /\ u.idMap = t.idMap /\ u.lines = t.lines /\ u.strMap = t.strMap /\ u.nextId = t.nextId
        /\ u.entryPoints = t.entryPoints /\ u.entryPointSet = t.entryPointSet
    BY <1>2, <1>3 DEF SetName, Shaped, TableFields
  <2>2. Replaces(t, u, e, o)
    BY <1>1, <1>2, <2>1, ReplacesFacts DEF Shaped
  <2> QED BY <2>1, <2>2
<1>5. DOMAIN o = EntryFields /\ o.name = name /\ o.id = t.objs[e].id /\ o.op = t.objs[e].op
      /\ o.line = t.objs[e].line
  <2>1. DOMAIN t.objs[e] = EntryFields
    BY <1>1, <1>2 DEF Shaped
  <2> QED BY <1>3, <2>1, WithName
<1>6. /\ IsSeq(u.objs) /\ DOMAIN u.objs = DOMAIN t.objs /\ u.objs[e] = o
      /\ \A k \in DOMAIN t.objs : k # e => u.objs[k] = t.objs[k]
  BY <1>4 DEF Replaces
<1>7. Sound(u) /\ Alike(t, u)
  <2>1. ASSUME NEW k \in DOMAIN t.objs PROVE SameEntry(t.objs[k], u.objs[k])
    <3>1. CASE k = e
      BY <1>5, <1>6, <3>1 DEF SameEntry
    <3>2. CASE k # e
      BY <1>2, <1>6, <3>2 DEF Shaped, SameEntry
    <3> QED BY <3>1, <3>2
  <2>2. Alike(t, u)
    BY <1>4, <1>6, <2>1 DEF Alike
  <2> QED BY <2>2, AlikeSound
<1>8. ASSUME NEW x PROVE NameAgrees(u, x)
  <2>1. CASE x = t.objs[e].id
    <3>1. x \in u.named <=> name # ""
      BY <1>4, <2>1
    <3>2. x \in DOMAIN u.idMap /\ u.idMap[x] = e
      BY <1>1, <1>4, <2>1
    <3>3. u.objs[e].id = x /\ u.objs[e].name = name
      BY <1>5, <1>6, <2>1
    <3> QED BY <3>1, <3>2, <3>3 DEF NameAgrees
  <2>2. CASE x # t.objs[e].id
    <3>1. x \in u.named <=> x \in t.named
      BY <1>4, <2>2
    <3>2. NameAgrees(t, x)
      BY <2>2
    <3>3. CASE x \notin DOMAIN t.idMap
      BY <1>4, <3>1, <3>2, <3>3 DEF NameAgrees
    <3>4. CASE x \in DOMAIN t.idMap /\ t.idMap[x] = e
      <4>1. u.objs[e].id # x /\ t.objs[e].id # x
        BY <1>5, <1>6, <2>2
      <4> QED BY <1>4, <3>1, <3>2, <3>4, <4>1 DEF NameAgrees
    <3>5. CASE x \in DOMAIN t.idMap /\ t.idMap[x] # e
      <4>1. t.idMap[x] \in DOMAIN t.objs
        BY <3>5 DEF Sound, Linked, Entered
      <4>2. u.objs[t.idMap[x]] = t.objs[t.idMap[x]]
        BY <1>6, <3>5, <4>1
      <4> QED BY <1>4, <3>1, <3>2, <4>2 DEF NameAgrees
    <3> QED BY <3>3, <3>4, <3>5
  <2> QED BY <2>1, <2>2
<1> QED BY <1>4, <1>7, <1>8 DEF Good, NamesAgree

\* An entry is replaced by one with the same id, name and line.
Neutral(t, e, o) ==
  e \in DOMAIN t.objs => SameEntry(t.objs[e], o) /\ o.name = t.objs[e].name

LEMMA NeutralEntry ==
  ASSUME NEW t, Good(t), NEW e, NEW o, Neutral(t, e, o),
         NEW u, u = [t EXCEPT !.objs = [t.objs EXCEPT ![e] = o]]
  PROVE  Good(u) /\ Alike(t, u) /\ u.nextId = t.nextId
<1>1. Shaped(t)
  BY DEF Good, Sound
<1>2. /\ DOMAIN u = TableFields /\ u.objs = [t.objs EXCEPT ![e] = o]
      /\ u.idMap = t.idMap /\ u.lines = t.lines /\ u.strMap = t.strMap /\ u.nextId = t.nextId
      /\ u.entryPoints = t.entryPoints /\ u.entryPointSet = t.entryPointSet /\ u.named = t.named
  BY <1>1 DEF Shaped, TableFields
<1>3. /\ IsSeq(u.objs) /\ DOMAIN u.objs = DOMAIN t.objs
      /\ \A k \in DOMAIN t.objs : k # e => u.objs[k] = t.objs[k]
      /\ e \in DOMAIN t.objs => u.objs[e] = o
  <2>1. IsSeq(t.objs) /\ u.objs = [t.objs EXCEPT ![e] = o]
    BY <1>1, <1>2 DEF Shaped
  <2>2. PICK v : v = u.objs
    OBVIOUS
  <2>3. v = [t.objs EXCEPT ![e] = o]
    BY <2>1, <2>2
  <2>4. /\ IsSeq(v) /\ DOMAIN v = DOMAIN t.objs
        /\ \A k \in DOMAIN t.objs : k # e => v[k] = t.objs[k]
        /\ e \in DOMAIN t.objs => v[e] = o
    BY <2>1, <2>3, ExceptFacts
  <2> QED BY <2>2, <2>4
<1>4. ASSUME NEW k \in DOMAIN t.objs
      PROVE  SameEntry(t.objs[k], u.objs[k]) /\ u.objs[k].name = t.objs[k].name
  <2>1. CASE k = e
    BY <1>3, <2>1 DEF Neutral
  <2>2. CASE k # e
    BY <1>1, <1>3, <2>2 DEF Shaped, SameEntry
  <2> QED BY <2>1, <2>2
<1>5. Alike(t, u) /\ AlikeNames(t, u)
  BY <1>2, <1>3, <1>4 DEF Alike, AlikeNames
<1> QED BY <1>2, <1>5, AlikeGood

\* The fields that have no part in the agreement.
LEMMA WithModes ==
  ASSUME NEW o, DOMAIN o = EntryFields, NEW modes, NEW p, p = [o EXCEPT !.modes = modes]
  PROVE  SameEntry(o, p) /\ p.name = o.name
BY DEF EntryFields, SameEntry

LEMMA WithItems ==
  ASSUME NEW o, DOMAIN o = EntryFields, NEW items, NEW p, p = [o EXCEPT !.items = items]
  PROVE  SameEntry(o, p) /\ p.name = o.name
BY DEF EntryFields, SameEntry

LEMMA SetModesGood ==
  ASSUME NEW t, Good(t), NEW e, NEW modes, NEW u, u = [t EXCEPT !.objs[e].modes = modes]
  PROVE  Good(u) /\ Alike(t, u) /\ u.nextId = t.nextId
<1>1. PICK o : o = [t.objs[e] EXCEPT !.modes = modes]
  OBVIOUS
<1>2. e \in DOMAIN t.objs => DOMAIN t.objs[e] = EntryFields
  BY DEF Good, Sound, Shaped
<1>3. Neutral(t, e, o)
  BY <1>1, <1>2, WithModes DEF Neutral
<1>4. u = [t EXCEPT !.objs = [t.objs EXCEPT ![e] = o]]
  BY <1>1
<1> QED BY <1>3, <1>4, NeutralEntry

LEMMA SetItemsGood ==
  ASSUME NEW t, Good(t), NEW e, NEW items, NEW u, u = [t EXCEPT !.objs[e].items = items]
  PROVE  Good(u) /\ Alike(t, u) /\ u.nextId = t.nextId
<1>1. PICK o : o = [t.objs[e] EXCEPT !.items = items]
  OBVIOUS
<1>2. e \in DOMAIN t.objs => DOMAIN t.objs[e] = EntryFields
  BY DEF Good, Sound, Shaped
<1>3. Neutral(t, e, o)
  BY <1>1, <1>2, WithItems DEF Neutral
<1>4. u = [t EXCEPT !.objs = [t.objs EXCEPT ![e] = o]]
  BY <1>1
<1> QED BY <1>3, <1>4, NeutralEntry

\* The vectors of functions, variables, strings and groups, and the next id.
LEMMA LayoutGood ==
  ASSUME NEW t, Good(t), NEW e, NEW u, u = Layout(t, e)
  PROVE  Good(u) /\ Alike(t, u) /\ u.nextId = t.nextId /\ u.objs = t.objs
<1>1. Shaped(t)
  BY DEF Good, Sound
<1>2. /\ DOMAIN u = TableFields /\ u.objs = t.objs
      /\ u.idMap = t.idMap /\ u.lines = t.lines /\ u.strMap = t.strMap /\ u.nextId = t.nextId
      /\ u.entryPoints = t.entryPoints /\ u.entryPointSet = t.entryPointSet /\ u.named = t.named
  BY <1>1 DEF Shaped, TableFields, Layout
<1>3. Alike(t, u) /\ AlikeNames(t, u)
  BY <1>1, <1>2 DEF Alike, AlikeNames, Shaped, SameEntry
<1> QED BY <1>2, <1>3, AlikeGood

LEMMA TakeIdsGood ==
  ASSUME NEW t, Good(t), NEW n, NEW u, u = TakeIds(t, n)
  PROVE  Good(u) /\ Alike(t, u) /\ u.nextId = t.nextId + n /\ u.objs = t.objs
<1>1. Shaped(t)
  BY DEF Good, Sound
<1>2. /\ DOMAIN u = TableFields /\ u.objs = t.objs
      /\ u.idMap = t.idMap /\ u.lines = t.lines /\ u.strMap = t.strMap /\ u.nextId = t.nextId + n
      /\ u.entryPoints = t.entryPoints /\ u.entryPointSet = t.entryPointSet /\ u.named = t.named
  BY <1>1 DEF Shaped, TableFields, TakeIds
<1>3. Alike(t, u) /\ AlikeNames(t, u)
  BY <1>1, <1>2 DEF Alike, AlikeNames, Shaped, SameEntry
<1> QED BY <1>2, <1>3, AlikeGood

-----------------------------------------------------------------------------
(***************************************************************************)
(* takeLine.                                                               *)
(***************************************************************************)
LEMMA TakeLineGood ==
  ASSUME NEW t, Good(t), NEW f \in DOMAIN t.objs, NEW e, Entered(t, e), e # f,
         t.objs[f].id = t.objs[e].id, HasItsLine(t, f),
         \A id \in DOMAIN t.idMap : t.idMap[id] # f,
         NEW u, u = TakeLine(t, f, e)
  PROVE  Good(u) /\ Entered(u, e) /\ u.idMap = t.idMap /\ u.nextId = t.nextId
<1>1. PICK n : n = t.objs[f].line
  OBVIOUS
<1>2. CASE n = 0
  BY <1>1, <1>2 DEF TakeLine
<1>3. CASE n # 0
  <2>1. Shaped(t) /\ e \in DOMAIN t.objs
    BY DEF Good, Sound, Entered
  <2>2. n \in DOMAIN t.lines /\ t.lines[n].target = t.objs[e].id
    BY <1>1, <1>3 DEF HasItsLine
  <2>3. PICK o : o = [t.objs[e] EXCEPT !.line = n]
    OBVIOUS
  <2>4. PICK p : p = [t.objs[f] EXCEPT !.line = 0]
    OBVIOUS
  <2>5. PICK l : l = [t.lines[n] EXCEPT !.target = t.objs[e].id]
    OBVIOUS
  <2>6. PICK v : v = [t.objs EXCEPT ![e] = o]
    OBVIOUS
  <2>7. /\ IsSeq(v) /\ DOMAIN v = DOMAIN t.objs /\ v[e] = o
        /\ \A k \in DOMAIN t.objs : k # e => v[k] = t.objs[k]
    BY <2>1, <2>6, ExceptFacts DEF Shaped
  <2>8. /\ DOMAIN u = TableFields /\ u.objs = [v EXCEPT ![f] = p]
        /\ u.lines = [t.lines EXCEPT ![n] = l]
        /\ u.idMap = t.idMap /\ u.strMap = t.strMap /\ u.nextId = t.nextId /\ u.named = t.named
        /\ u.entryPoints = t.entryPoints /\ u.entryPointSet = t.entryPointSet
    <3>1. v[f] = t.objs[f]
      BY <2>7
    <3>2. u = [t EXCEPT !.objs = [v EXCEPT ![f] = p], !.lines = [t.lines EXCEPT ![n] = l]]
      BY <1>1, <1>3, <2>3, <2>4, <2>5, <2>6, <3>1 DEF TakeLine
    <3> QED BY <2>1, <3>2 DEF Shaped, TableFields
  <2>9. /\ IsSeq(u.objs) /\ DOMAIN u.objs = DOMAIN t.objs /\ u.objs[e] = o /\ u.objs[f] = p
        /\ \A k \in DOMAIN t.objs : k # e /\ k # f => u.objs[k] = t.objs[k]
    <3>1. /\ IsSeq(u.objs) /\ DOMAIN u.objs = DOMAIN v /\ u.objs[f] = p
          /\ \A k \in DOMAIN v : k # f => u.objs[k] = v[k]
      <4>1. PICK w : w = u.objs
        OBVIOUS
      <4>2. w = [v EXCEPT ![f] = p] /\ f \in DOMAIN v
        BY <2>7, <2>8, <4>1
      <4>3. /\ IsSeq(w) /\ DOMAIN w = DOMAIN v /\ w[f] = p
            /\ \A k \in DOMAIN v : k # f => w[k] = v[k]
        BY <2>7, <4>2, ExceptFacts
      <4> QED BY <4>1, <4>3
    <3> QED BY <2>1, <2>7, <3>1
  <2>10. /\ IsSeq(u.lines) /\ DOMAIN u.lines = DOMAIN t.lines /\ u.lines[n] = l
         /\ \A k \in DOMAIN t.lines : k # n => u.lines[k] = t.lines[k]
    BY <2>1, <2>2, <2>8, ExceptFacts DEF Shaped
  <2>11. DOMAIN l = LineFields /\ l.target = t.lines[n].target /\ l.string = t.lines[n].string
    <3>1. DOMAIN t.lines[n] = LineFields
      BY <2>1, <2>2 DEF Shaped
    <3> QED BY <2>2, <2>5, <3>1 DEF LineFields
  <2>12. ASSUME NEW k \in DOMAIN t.lines
         PROVE  /\ DOMAIN u.lines[k] = LineFields
                /\ u.lines[k].target = t.lines[k].target /\ u.lines[k].string = t.lines[k].string
    <3>1. CASE k = n
      BY <2>10, <2>11, <3>1
    <3>2. CASE k # n
      BY <2>1, <2>10, <3>2 DEF Shaped
    <3> QED BY <3>1, <3>2
  <2>13. ASSUME NEW k \in DOMAIN t.objs
         PROVE  /\ DOMAIN u.objs[k] = EntryFields /\ u.objs[k].id = t.objs[k].id
                /\ u.objs[k].op = t.objs[k].op /\ u.objs[k].name = t.objs[k].name
    <3>1. DOMAIN t.objs[k] = EntryFields
      BY <2>1 DEF Shaped
    <3>2. CASE k = e
      BY <2>3, <2>9, <3>1, <3>2, WithLine
    <3>3. CASE k = f
      BY <2>4, <2>9, <3>1, <3>3, WithLine
    <3>4. CASE k # e /\ k # f
      BY <2>9, <3>1, <3>4
    <3> QED BY <3>2, <3>3, <3>4
  <2>14. o.line = n
    <3>1. DOMAIN t.objs[e] = EntryFields
      BY <2>1 DEF Shaped
    <3> QED BY <2>3, <3>1, WithLine
  <2>15. ASSUME NEW k, Entered(t, k) PROVE Entered(u, k)
    BY <2>8, <2>9, <2>13, <2>15 DEF Entered
  <2>16. \A id \in DOMAIN t.idMap : t.idMap[id] \in DOMAIN t.objs
    BY DEF Good, Sound, Linked, Entered
  <2>17. Shaped(u)
    BY <2>1, <2>8, <2>9, <2>10, <2>12, <2>13 DEF Shaped
  <2>18. Linked(u)
    BY <2>8, <2>15 DEF Good, Sound, Linked
  <2>19. ForwardsOnce(u)
    BY <2>8, <2>13, <2>16 DEF Good, Sound, ForwardsOnce
  <2>20. EntriesKnown(u)
    BY <2>8, <2>9, <2>13 DEF Good, Sound, EntriesKnown
  <2>21. LinesKnown(u)
    BY <2>8, <2>10, <2>12 DEF Good, Sound, LinesKnown
  <2>22. StringsKnown(u) /\ EntryPointsAgree(u)
    BY <2>8 DEF Good, Sound, StringsKnown, EntryPointsAgree
  <2>23. LinesAgree(u)
    <3> SUFFICES ASSUME NEW id \in DOMAIN t.idMap PROVE HasItsLine(u, t.idMap[id])
      BY <2>8 DEF LinesAgree
    <3>1. PICK k : k = t.idMap[id]
      OBVIOUS
    <3>2. k \in DOMAIN t.objs /\ k # f /\ HasItsLine(t, k)
      BY <2>16, <3>1 DEF Good, Sound, LinesAgree
    <3>3. CASE k = e
      BY <2>2, <2>9, <2>10, <2>12, <2>13, <2>14, <3>1, <3>2, <3>3 DEF HasItsLine
    <3>4. CASE k # e
      <4>1. u.objs[k] = t.objs[k]
        BY <2>9, <3>2, <3>4
      <4> QED BY <2>10, <2>12, <3>1, <3>2, <4>1 DEF HasItsLine
    <3> QED BY <3>3, <3>4
  <2>24. ASSUME NEW x PROVE NameAgrees(u, x)
    <3>1. NameAgrees(t, x)
      BY DEF Good, NamesAgree
    <3>2. CASE x \notin DOMAIN t.idMap
      BY <2>8, <3>1, <3>2 DEF NameAgrees
    <3>3. CASE x \in DOMAIN t.idMap
      <4>1. u.objs[t.idMap[x]].id = t.objs[t.idMap[x]].id
            /\ u.objs[t.idMap[x]].name = t.objs[t.idMap[x]].name
        BY <2>13, <2>16, <3>3
      <4> QED BY <2>8, <3>1, <4>1 DEF NameAgrees
    <3> QED BY <3>2, <3>3
  <2> QED BY <2>8, <2>15, <2>17, <2>18, <2>19, <2>20, <2>21, <2>22, <2>23, <2>24
          DEF Good, Sound, NamesAgree
<1> QED BY <1>2, <1>3

-----------------------------------------------------------------------------
(***************************************************************************)
(* replaceForward: the entry e was made with, or has been given, the id of *)
(* the forward f; nothing has been said of it yet.                         *)
(***************************************************************************)
Pending(t, f, e) ==
  /\ Shaped(t)
  /\ e \in DOMAIN t.objs /\ e # f /\ Entered(t, f)
  /\ t.objs[e].id = t.objs[f].id /\ t.objs[e].line = 0
  /\ \A id \in DOMAIN t.idMap :
       \/ t.idMap[id] = e /\ t.objs[e].op # "forward"
       \/ /\ t.idMap[id] # e /\ Entered(t, t.idMap[id])
          /\ t.idMap[id] = f => id = t.objs[f].id
          /\ t.objs[t.idMap[id]].op = "forward" => t.objs[t.idMap[id]].id = id
  /\ \A x : x # t.objs[e].id => NameAgrees(t, x)
  /\ LinesAgree(t) /\ LinesKnown(t) /\ StringsKnown(t) /\ EntriesKnown(t)
  /\ EntryPointsAgree(t)

LEMMA ReplaceForwardGood ==
  ASSUME NEW t, NEW f, NEW e, Pending(t, f, e), NEW u, u = ReplaceForward(t, f, e)
  PROVE  Good(u) /\ Entered(u, e) /\ DOMAIN u.idMap = DOMAIN t.idMap /\ u.nextId = t.nextId
<1>1. PICK id : id = t.objs[f].id
  OBVIOUS
<1>2. PICK t1 : t1 = [t EXCEPT !.idMap = Put(@, id, e)]
  OBVIOUS
<1>3. /\ DOMAIN t1 = TableFields /\ t1.objs = t.objs /\ t1.idMap = Put(t.idMap, id, e)
      /\ t1.lines = t.lines /\ t1.strMap = t.strMap /\ t1.nextId = t.nextId /\ t1.named = t.named
      /\ t1.entryPoints = t.entryPoints /\ t1.entryPointSet = t.entryPointSet
  BY <1>2 DEF Pending, Shaped, TableFields
<1>4. /\ id \in DOMAIN t.idMap /\ t.idMap[id] = f /\ f \in DOMAIN t.objs
      /\ e \in DOMAIN t.objs /\ e # f /\ t.objs[e].id = id /\ t.objs[e].line = 0
  BY <1>1 DEF Pending, Entered
<1>5. /\ DOMAIN t1.idMap = DOMAIN t.idMap /\ t1.idMap[id] = e
      /\ \A x \in DOMAIN t.idMap : x # id => t1.idMap[x] = t.idMap[x]
  <2>1. PICK g : g = t1.idMap
    OBVIOUS
  <2>2. g = Put(t.idMap, id, e)
    BY <1>3, <2>1
  <2>3. DOMAIN g = DOMAIN t.idMap \cup {id} /\ g[id] = e
        /\ \A x \in DOMAIN t.idMap : x # id => g[x] = t.idMap[x]
    BY <2>2 DEF Put
  <2> QED BY <1>4, <2>1, <2>3
<1>6. Entered(t1, e)
  BY <1>3, <1>4, <1>5 DEF Entered
<1>7. ASSUME NEW x \in DOMAIN t.idMap, x # id
      PROVE  \/ t1.idMap[x] = e /\ t.objs[e].op # "forward"
             \/ /\ t1.idMap[x] = t.idMap[x] /\ t1.idMap[x] \notin {e, f} /\ Entered(t1, t1.idMap[x])
                /\ t.objs[t1.idMap[x]].op = "forward" => t.objs[t1.idMap[x]].id = x
  <2>1. PICK k : k = t.idMap[x]
    OBVIOUS
  <2>2. t1.idMap[x] = k
    BY <1>5, <1>7, <2>1
  <2>3. CASE k = e
    BY <2>1, <2>2, <2>3 DEF Pending
  <2>4. CASE k # e
    <3>1. /\ Entered(t, k) /\ k # f
          /\ t.objs[k].op = "forward" => t.objs[k].id = x
      BY <1>1, <1>7, <2>1, <2>4 DEF Pending
    <3>2. t.objs[k].id # id
      BY <1>4, <3>1 DEF Entered
    <3>3. Entered(t1, k)
      BY <1>3, <1>5, <3>1, <3>2 DEF Entered
    <3> QED BY <2>1, <2>2, <2>4, <3>1, <3>3
  <2> QED BY <2>3, <2>4
<1>8. Sound(t1)
  <2>1. Shaped(t1)
    BY <1>3 DEF Pending, Shaped
  <2>2. Linked(t1)
    BY <1>5, <1>6, <1>7 DEF Linked
  <2>3. ForwardsOnce(t1)
    BY <1>3, <1>4, <1>5, <1>7 DEF ForwardsOnce
  <2>4. LinesAgree(t1)
    <3> SUFFICES ASSUME NEW x \in DOMAIN t.idMap PROVE HasItsLine(t1, t1.idMap[x])
      BY <1>5 DEF LinesAgree
    <3>1. HasItsLine(t1, e)
      BY <1>3, <1>4 DEF HasItsLine
    <3>2. CASE t1.idMap[x] = e
      BY <3>1, <3>2
    <3>3. CASE t1.idMap[x] # e
      <4>1. t1.idMap[x] = t.idMap[x]
        BY <1>5, <3>3
      <4>2. HasItsLine(t, t.idMap[x])
        BY DEF Pending, LinesAgree
      <4> QED BY <1>3, <4>1, <4>2 DEF HasItsLine
    <3> QED BY <3>2, <3>3
  <2>5. LinesKnown(t1) /\ StringsKnown(t1) /\ EntriesKnown(t1) /\ EntryPointsAgree(t1)
    BY <1>3, <1>5 DEF Pending, LinesKnown, StringsKnown, EntriesKnown, EntryPointsAgree
  <2> QED BY <2>1, <2>2, <2>3, <2>4, <2>5 DEF Sound
<1>9. ASSUME NEW x, x # t1.objs[e].id PROVE NameAgrees(t1, x)
  <2>1. x # id /\ NameAgrees(t, x)
    BY <1>3, <1>4, <1>9 DEF Pending
  <2> QED BY <1>3, <1>5, <2>1 DEF NameAgrees
<1>10. PICK t2 : t2 = SetName(t1, e, t1.objs[f].name)
  OBVIOUS
<1>11. Good(t2) /\ Alike(t1, t2) /\ t2.nextId = t1.nextId
  BY <1>6, <1>8, <1>9, <1>10, SetNameGood
<1>12. PICK modes : modes = IF t2.objs[e].op = "function" THEN t1.objs[f].modes ELSE t2.objs[e].modes
  OBVIOUS
<1>13. PICK t3 : t3 = [t2 EXCEPT !.objs[e].modes = modes]
  OBVIOUS
<1>14. Good(t3) /\ Alike(t2, t3) /\ t3.nextId = t2.nextId
  BY <1>11, <1>13, SetModesGood
<1>15. u = TakeLine(t3, f, e)
  <2>1. t1.objs[e].op = t2.objs[e].op
    BY <1>3, <1>4, <1>11 DEF Alike, SameEntry
  <2>2. u = TakeAnnotations(t1, f, e)
    BY <1>1, <1>2 DEF ReplaceForward
  <2>3. TakeAnnotations(t1, f, e) = TakeLine(t3, f, e)
    BY <1>10, <1>12, <1>13, <2>1 DEF TakeAnnotations
  <2> QED BY <2>2, <2>3
<1>16. /\ DOMAIN t3.objs = DOMAIN t.objs /\ t3.idMap = t1.idMap /\ t3.lines = t.lines
       /\ \A k \in DOMAIN t.objs : t3.objs[k].id = t.objs[k].id /\ t3.objs[k].line = t.objs[k].line
  BY <1>3, <1>11, <1>14 DEF Alike, SameEntry
<1>17. /\ f \in DOMAIN t3.objs /\ Entered(t3, e) /\ e # f /\ t3.objs[f].id = t3.objs[e].id
       /\ HasItsLine(t3, f) /\ \A x \in DOMAIN t3.idMap : t3.idMap[x] # f
  <2>1. HasItsLine(t, f)
    BY <1>4 DEF Pending, LinesAgree
  <2>2. HasItsLine(t3, f)
    BY <1>4, <1>16, <2>1 DEF HasItsLine
  <2>3. Entered(t3, e)
    BY <1>4, <1>5, <1>16 DEF Entered
  <2>4. \A x \in DOMAIN t3.idMap : t3.idMap[x] # f
    BY <1>4, <1>5, <1>7, <1>16
  <2> QED BY <1>1, <1>4, <1>16, <2>2, <2>3, <2>4
<1>18. Good(u) /\ Entered(u, e) /\ u.idMap = t3.idMap /\ u.nextId = t3.nextId
  BY <1>14, <1>15, <1>17, TakeLineGood
<1> QED BY <1>3, <1>5, <1>11, <1>14, <1>16, <1>18

-----------------------------------------------------------------------------
(***************************************************************************)
(* addEntry.                                                               *)
(***************************************************************************)
\* A new entry of which nothing is said.
Blank(o) == DOMAIN o = EntryFields /\ o.name = "" /\ o.line = 0

\* u has what t has, and the entry e with the id.
Extends(t, u, id, e) ==
  /\ Entered(u, e) /\ u.objs[e].id = id
  /\ DOMAIN u.idMap = DOMAIN t.idMap \cup {id} /\ u.nextId = t.nextId

LEMMA MappedFacts ==
  ASSUME NEW t, Good(t), NEW id
  PROVE  /\ id \in DOMAIN t.idMap => Mapped(t, id) = t.idMap[id] /\ Mapped(t, id) # NoEntry
         /\ id \notin DOMAIN t.idMap => Mapped(t, id) = NoEntry
<1>1. CASE id \in DOMAIN t.idMap
  <2>1. t.idMap[id] \in DOMAIN t.objs
    BY <1>1 DEF Good, Sound, Linked, Entered
  <2>2. DOMAIN t.objs = 1 .. Len(t.objs)
    BY SeqDomain DEF Good, Sound, Shaped
  <2> QED BY <1>1, <2>1, <2>2 DEF Mapped, NoEntry
<1>2. CASE id \notin DOMAIN t.idMap
  BY <1>2 DEF Mapped
<1> QED BY <1>1, <1>2

LEMMA NewEntryGood ==
  ASSUME NEW t, Good(t), NEW o, Blank(o), o.id \notin DOMAIN t.idMap,
         NEW u, u = AddEntry(t, o)
  PROVE  /\ Good(u) /\ Extends(t, u, o.id, Newest(u)) /\ u.objs[Newest(u)] = o
         /\ Newest(u) = Newest(t) + 1
         /\ \A k \in DOMAIN t.objs : k \in DOMAIN u.objs /\ u.objs[k] = t.objs[k]
         /\ \A k : Entered(t, k) => Entered(u, k) /\ k # Newest(u)
<1>1. Shaped(t)
  BY DEF Good, Sound
<1>2. PICK objs : objs = Append(t.objs, o)
  OBVIOUS
<1>3. PICK e : e = Len(objs)
  OBVIOUS
<1>4. /\ IsSeq(objs) /\ DOMAIN objs = DOMAIN t.objs \cup {e} /\ e \notin DOMAIN t.objs
      /\ e = Len(t.objs) + 1
      /\ \A k \in DOMAIN t.objs : objs[k] = t.objs[k]
      /\ objs[e] = o
  <2>1. Appended(t.objs, o, objs)
    BY <1>1, <1>2, AppendFacts DEF Shaped
  <2> QED BY <2>1, <1>3 DEF Appended
<1>5. /\ DOMAIN u = TableFields /\ u.objs = objs /\ u.idMap = Put(t.idMap, o.id, e)
      /\ u.lines = t.lines /\ u.strMap = t.strMap /\ u.nextId = t.nextId /\ u.named = t.named
      /\ u.entryPoints = t.entryPoints /\ u.entryPointSet = t.entryPointSet
  <2>1. PICK made : made = [t EXCEPT !.objs = objs]
    OBVIOUS
  <2>2. /\ DOMAIN made = TableFields /\ made.objs = objs /\ made.idMap = t.idMap
        /\ made.lines = t.lines /\ made.strMap = t.strMap /\ made.nextId = t.nextId
        /\ made.named = t.named
        /\ made.entryPoints = t.entryPoints /\ made.entryPointSet = t.entryPointSet
    BY <1>1, <2>1 DEF Shaped, TableFields
  <2>3. u = [made EXCEPT !.idMap = Put(made.idMap, o.id, e)]
    <3>1. Mapped(t, o.id) = NoEntry
      BY MappedFacts
    <3> QED BY <1>2, <1>3, <2>1, <2>2, <3>1 DEF AddEntry, Newest
  <2> QED BY <2>2, <2>3 DEF TableFields
<1>6. /\ DOMAIN u.idMap = DOMAIN t.idMap \cup {o.id} /\ u.idMap[o.id] = e
      /\ \A x \in DOMAIN t.idMap : u.idMap[x] = t.idMap[x]
  <2>1. PICK g : g = u.idMap
    OBVIOUS
  <2>2. g = Put(t.idMap, o.id, e)
    BY <1>5, <2>1
  <2>3. DOMAIN g = DOMAIN t.idMap \cup {o.id} /\ g[o.id] = e
        /\ \A x \in DOMAIN t.idMap : x # o.id => g[x] = t.idMap[x]
    BY <2>2 DEF Put
  <2> QED BY <2>1, <2>3
<1>7. Entered(u, e)
  BY <1>4, <1>5, <1>6 DEF Entered
<1>8. ASSUME NEW k, Entered(t, k) PROVE Entered(u, k) /\ k # e /\ k \in DOMAIN t.objs
  BY <1>4, <1>5, <1>6, <1>8 DEF Entered
<1>9. ASSUME NEW x \in DOMAIN t.idMap
      PROVE  Entered(t, t.idMap[x]) /\ t.idMap[x] \in DOMAIN t.objs
  BY DEF Good, Sound, Linked, Entered
<1>10. Shaped(u)
  <2>1. \A k \in DOMAIN objs : DOMAIN objs[k] = EntryFields
    BY <1>1, <1>4 DEF Shaped, Blank
  <2> QED BY <1>1, <1>4, <1>5, <2>1 DEF Shaped
<1>11. Linked(u)
  BY <1>6, <1>7, <1>8, <1>9 DEF Linked
<1>12. ForwardsOnce(u)
  <2> SUFFICES ASSUME NEW x \in DOMAIN u.idMap, objs[u.idMap[x]].op = "forward"
               PROVE  objs[u.idMap[x]].id = x
    BY <1>5 DEF ForwardsOnce
  <2>1. CASE x = o.id
    BY <1>4, <1>6, <2>1
  <2>2. CASE x # o.id
    <3>1. x \in DOMAIN t.idMap /\ u.idMap[x] = t.idMap[x]
      BY <1>6, <2>2
    <3>2. objs[u.idMap[x]] = t.objs[t.idMap[x]]
      BY <1>4, <1>9, <3>1
    <3> QED BY <3>1, <3>2 DEF Good, Sound, ForwardsOnce
  <2> QED BY <2>1, <2>2
<1>13. LinesAgree(u)
  <2> SUFFICES ASSUME NEW x \in DOMAIN u.idMap PROVE HasItsLine(u, u.idMap[x])
    BY DEF LinesAgree
  <2>1. CASE x = o.id
    BY <1>4, <1>5, <1>6, <2>1 DEF HasItsLine, Blank
  <2>2. CASE x # o.id
    <3>1. x \in DOMAIN t.idMap /\ u.idMap[x] = t.idMap[x]
      BY <1>6, <2>2
    <3>2. objs[u.idMap[x]] = t.objs[t.idMap[x]]
      BY <1>4, <1>9, <3>1
    <3>3. HasItsLine(t, t.idMap[x])
      BY <3>1 DEF Good, Sound, LinesAgree
    <3> QED BY <1>5, <3>1, <3>2, <3>3 DEF HasItsLine
  <2> QED BY <2>1, <2>2
<1>14. EntriesKnown(u)
  BY <1>4, <1>5, <1>6 DEF Good, Sound, EntriesKnown
<1>15. LinesKnown(u) /\ StringsKnown(u) /\ EntryPointsAgree(u)
  BY <1>5, <1>6 DEF Good, Sound, LinesKnown, StringsKnown, EntryPointsAgree
<1>16. ASSUME NEW x PROVE NameAgrees(u, x)
  <2>1. NameAgrees(t, x)
    BY DEF Good, NamesAgree
  <2>2. CASE x = o.id
    BY <1>4, <1>5, <1>6, <2>1, <2>2 DEF NameAgrees, Blank
  <2>3. CASE x # o.id /\ x \in DOMAIN t.idMap
    <3>1. u.idMap[x] = t.idMap[x] /\ objs[t.idMap[x]] = t.objs[t.idMap[x]]
      BY <1>4, <1>6, <1>9, <2>3
    <3> QED BY <1>5, <1>6, <2>1, <2>3, <3>1 DEF NameAgrees
  <2>4. CASE x # o.id /\ x \notin DOMAIN t.idMap
    BY <1>5, <1>6, <2>1, <2>4 DEF NameAgrees
  <2> QED BY <2>2, <2>3, <2>4
<1>17. Good(u)
  BY <1>10, <1>11, <1>12, <1>13, <1>14, <1>15, <1>16 DEF Good, Sound, NamesAgree
<1>18. Newest(u) = e /\ Newest(t) + 1 = e
  BY <1>3, <1>4, <1>5 DEF Newest
<1> QED BY <1>4, <1>5, <1>6, <1>7, <1>8, <1>17, <1>18 DEF Extends

\* addEntry for an id that a forward has: o is made as the entry e, which replaces the
\* forward f.
MadeForForward(t, o, made, f, e) ==
  made = [t EXCEPT !.objs = Append(t.objs, o)] /\ f = t.idMap[o.id] /\ e = Newest(made)

LEMMA ForwardedPending ==
  ASSUME NEW t, Good(t), NEW o, Blank(o), o.id \in DOMAIN t.idMap,
         t.objs[t.idMap[o.id]].op = "forward",
         NEW made, NEW f, NEW e, MadeForForward(t, o, made, f, e),
         NEW u, u = AddEntry(t, o)
  PROVE  /\ Pending(made, f, e) /\ u = ReplaceForward(made, f, e)
         /\ made.objs[f].op = "forward" /\ made.objs[f].id = o.id
         /\ made.idMap = t.idMap /\ made.nextId = t.nextId
<1>0. made = [t EXCEPT !.objs = Append(t.objs, o)] /\ f = t.idMap[o.id] /\ e = Newest(made)
  BY DEF MadeForForward
<1>1. Shaped(t)
  BY DEF Good, Sound
<1>2. PICK objs : objs = Append(t.objs, o)
  OBVIOUS
<1>3. made.objs = objs /\ e = Len(objs)
  BY <1>0, <1>1, <1>2 DEF Shaped, TableFields, Newest
<1>4. /\ IsSeq(objs) /\ DOMAIN objs = DOMAIN t.objs \cup {e} /\ e \notin DOMAIN t.objs
      /\ \A k \in DOMAIN t.objs : objs[k] = t.objs[k]
      /\ objs[e] = o
  <2>1. Appended(t.objs, o, objs)
    BY <1>1, <1>2, AppendFacts DEF Shaped
  <2> QED BY <2>1, <1>3 DEF Appended
<1>7. /\ DOMAIN made = TableFields /\ made.objs = objs /\ made.idMap = t.idMap
      /\ made.lines = t.lines /\ made.strMap = t.strMap /\ made.nextId = t.nextId
      /\ made.named = t.named
      /\ made.entryPoints = t.entryPoints /\ made.entryPointSet = t.entryPointSet
  BY <1>0, <1>1, <1>2 DEF Shaped, TableFields
<1>8. u = ReplaceForward(made, f, e)
  <2>1. Mapped(t, o.id) = f /\ Mapped(t, o.id) # NoEntry
    BY <1>0, MappedFacts
  <2> QED BY <1>0, <2>1 DEF AddEntry
<1>9. Pending(made, f, e)
  <2>1. ASSUME NEW x \in DOMAIN t.idMap
        PROVE  /\ Entered(made, t.idMap[x]) /\ t.idMap[x] \in DOMAIN t.objs /\ t.idMap[x] # e
               /\ objs[t.idMap[x]] = t.objs[t.idMap[x]]
               /\ objs[t.idMap[x]].op = "forward" => objs[t.idMap[x]].id = x
               /\ HasItsLine(made, t.idMap[x])
    <3>1. PICK k : k = t.idMap[x]
      OBVIOUS
    <3>2. Entered(t, k) /\ k \in DOMAIN t.objs /\ HasItsLine(t, k)
      BY <3>1 DEF Good, Sound, Linked, LinesAgree, Entered
    <3>3. objs[k] = t.objs[k] /\ k \in DOMAIN objs /\ k # e
      BY <1>4, <3>2
    <3>4. Entered(made, k) /\ HasItsLine(made, k)
      BY <1>7, <3>2, <3>3 DEF Entered, HasItsLine
    <3>5. objs[k].op = "forward" => objs[k].id = x
      BY <3>1, <3>3 DEF Good, Sound, ForwardsOnce
    <3> QED BY <3>1, <3>2, <3>3, <3>4, <3>5
  <2>2. Shaped(made)
    <3>1. \A k \in DOMAIN objs : DOMAIN objs[k] = EntryFields
      BY <1>1, <1>4 DEF Shaped, Blank
    <3> QED BY <1>1, <1>4, <1>7, <3>1 DEF Shaped
  <2>3. /\ e \in DOMAIN made.objs /\ e # f /\ Entered(made, f)
        /\ made.objs[e].id = made.objs[f].id /\ made.objs[e].line = 0
        /\ made.objs[e].id = o.id /\ made.objs[f].id = o.id
    BY <1>0, <1>4, <1>7, <2>1 DEF Blank
  <2>4. ASSUME NEW id \in DOMAIN made.idMap
        PROVE  /\ made.idMap[id] # e /\ Entered(made, made.idMap[id])
               /\ made.idMap[id] = f => id = made.objs[f].id
               /\ made.objs[made.idMap[id]].op = "forward" => made.objs[made.idMap[id]].id = id
    <3>1. id \in DOMAIN t.idMap /\ made.idMap[id] = t.idMap[id] /\ made.objs = objs
      BY <1>7
    <3>2. /\ Entered(made, t.idMap[id]) /\ t.idMap[id] # e
          /\ objs[t.idMap[id]].op = "forward" => objs[t.idMap[id]].id = id
      BY <2>1, <3>1
    <3>3. objs[f].op = "forward"
      BY <1>0, <2>1
    <3> QED BY <3>1, <3>2, <3>3
  <2>5. ASSUME NEW x PROVE NameAgrees(made, x)
    <3>1. NameAgrees(t, x)
      BY DEF Good, NamesAgree
    <3>2. CASE x \in DOMAIN t.idMap
      <4>1. objs[t.idMap[x]] = t.objs[t.idMap[x]]
        BY <2>1, <3>2
      <4> QED BY <1>7, <3>1, <4>1 DEF NameAgrees
    <3>3. CASE x \notin DOMAIN t.idMap
      BY <1>7, <3>1, <3>3 DEF NameAgrees
    <3> QED BY <3>2, <3>3
  <2>6. LinesAgree(made)
    BY <1>7, <2>1 DEF LinesAgree
  <2>7. EntriesKnown(made)
    BY <1>4, <1>7 DEF Good, Sound, EntriesKnown
  <2>8. LinesKnown(made) /\ StringsKnown(made) /\ EntryPointsAgree(made)
    BY <1>7 DEF Good, Sound, LinesKnown, StringsKnown, EntryPointsAgree
  <2> QED BY <2>2, <2>3, <2>4, <2>5, <2>6, <2>7, <2>8 DEF Pending
<1>10. made.objs[f].op = "forward" /\ made.objs[f].id = o.id
  <2>1. Entered(t, f) /\ t.objs[f].id = o.id
    BY <1>0 DEF Good, Sound, Linked, ForwardsOnce
  <2> QED BY <1>0, <1>4, <1>7, <2>1 DEF Entered
<1> QED BY <1>7, <1>8, <1>9, <1>10

LEMMA ForwardedEntryGood ==
  ASSUME NEW t, Good(t), NEW o, Blank(o), o.id \in DOMAIN t.idMap,
         t.objs[t.idMap[o.id]].op = "forward",
         NEW u, u = AddEntry(t, o)
  PROVE  Good(u) /\ DOMAIN u.idMap = DOMAIN t.idMap /\ u.nextId = t.nextId
<1>1. PICK made, f, e : MadeForForward(t, o, made, f, e)
  BY DEF MadeForForward
<1>2. /\ Pending(made, f, e) /\ u = ReplaceForward(made, f, e)
      /\ made.idMap = t.idMap /\ made.nextId = t.nextId
  BY <1>1, ForwardedPending
<1>3. Good(u) /\ DOMAIN u.idMap = DOMAIN made.idMap /\ u.nextId = made.nextId
  BY <1>2, ReplaceForwardGood
<1> QED BY <1>2, <1>3

LEMMA AddGood ==
  ASSUME NEW t, Good(t), NEW o, Blank(o), Addable(t, o.id), NEW u, u = Add(t, o)
  PROVE  Good(u) /\ DOMAIN u.idMap = DOMAIN t.idMap \cup {o.id} /\ u.nextId = t.nextId
<1>1. PICK added : added = AddEntry(t, o)
  OBVIOUS
<1>2. Good(added) /\ DOMAIN added.idMap = DOMAIN t.idMap \cup {o.id} /\ added.nextId = t.nextId
  <2>1. CASE o.id \notin DOMAIN t.idMap
    BY <1>1, <2>1, NewEntryGood DEF Extends
  <2>2. CASE o.id \in DOMAIN t.idMap
    <3>1. t.objs[t.idMap[o.id]].op = "forward"
      BY <2>2, MappedFacts DEF Addable, IsForward
    <3>2. Good(added) /\ DOMAIN added.idMap = DOMAIN t.idMap /\ added.nextId = t.nextId
      BY <1>1, <2>2, <3>1, ForwardedEntryGood
    <3> QED BY <2>2, <3>2
  <2> QED BY <2>1, <2>2
<1>3. u = Layout(added, Newest(added))
  BY <1>1 DEF Add
<1>4. Good(u) /\ Alike(added, u) /\ u.nextId = added.nextId
  BY <1>2, <1>3, LayoutGood
<1> QED BY <1>2, <1>4 DEF Alike

-----------------------------------------------------------------------------
(***************************************************************************)
(* What is entered remains entered.                                        *)
(***************************************************************************)
Keeps(t, u) ==
  (\A k : Entered(t, k) => Entered(u, k)) /\ DOMAIN t.idMap \subseteq DOMAIN u.idMap

\* Nothing is entered under another id.
SameIds(t, u) == DOMAIN u.idMap = DOMAIN t.idMap /\ u.nextId = t.nextId

LEMMA AlikeKeeps ==
  ASSUME NEW t, NEW u, Alike(t, u), u.nextId = t.nextId
  PROVE  Keeps(t, u) /\ SameIds(t, u)
<1>1. ASSUME NEW k, Entered(t, k) PROVE Entered(u, k)
  BY <1>1 DEF Alike, SameEntry, Entered
<1> QED BY <1>1 DEF Keeps, SameIds, Alike

LEMMA SameIdsFresh ==
  ASSUME NEW t, NEW u, Fresh(t), SameIds(t, u)
  PROVE  Fresh(u)
BY DEF Fresh, SameIds

LEMMA AddNewGood ==
  ASSUME NEW t, Good(t), NEW o, Blank(o), o.id \notin DOMAIN t.idMap, NEW u, u = Add(t, o)
  PROVE  /\ Good(u) /\ Extends(t, u, o.id, Newest(u)) /\ u.objs[Newest(u)] = o
         /\ Newest(u) = Newest(t) + 1
         /\ \A k \in DOMAIN t.objs : k \in DOMAIN u.objs /\ u.objs[k] = t.objs[k]
         /\ Keeps(t, u) /\ \A k : Entered(t, k) => k # Newest(u)
<1>1. PICK added : added = AddEntry(t, o)
  OBVIOUS
<1>2. /\ Good(added) /\ Extends(t, added, o.id, Newest(added)) /\ added.objs[Newest(added)] = o
      /\ Newest(added) = Newest(t) + 1
      /\ \A k \in DOMAIN t.objs : k \in DOMAIN added.objs /\ added.objs[k] = t.objs[k]
      /\ \A k : Entered(t, k) => Entered(added, k) /\ k # Newest(added)
  BY <1>1, NewEntryGood
<1>3. u = Layout(added, Newest(added))
  BY <1>1 DEF Add
<1>4. Good(u) /\ Alike(added, u) /\ u.nextId = added.nextId /\ u.objs = added.objs
  BY <1>2, <1>3, LayoutGood
<1>5. u.idMap = added.idMap /\ Newest(u) = Newest(added)
  BY <1>4 DEF Alike, Newest
<1>6. \A k : Entered(added, k) => Entered(u, k)
  BY <1>4, <1>5 DEF Entered
<1>7. Extends(t, u, o.id, Newest(u))
  BY <1>2, <1>4, <1>5, <1>6 DEF Extends
<1>8. Keeps(t, u)
  BY <1>2, <1>5, <1>6 DEF Keeps, Extends
<1> QED BY <1>2, <1>4, <1>5, <1>7, <1>8

LEMMA AddLineGood ==
  ASSUME NEW t, Good(t), NEW e, Entered(t, e), NEW string \in DOMAIN t.idMap, NEW no,
         NEW u, u = AddLine(t, e, string, no)
  PROVE  Good(u) /\ Keeps(t, u) /\ SameIds(t, u) /\ u.idMap = t.idMap
<1>1. Shaped(t) /\ e \in DOMAIN t.objs /\ t.objs[e].id \in DOMAIN t.idMap
  BY DEF Good, Sound, Entered
<1>2. PICK l : l = [target |-> t.objs[e].id, string |-> string, no |-> no]
  OBVIOUS
<1>3. PICK lines : lines = Append(t.lines, l)
  OBVIOUS
<1>4. PICK n : n = Len(lines)
  OBVIOUS
<1>5. /\ IsSeq(lines) /\ DOMAIN lines = DOMAIN t.lines \cup {n} /\ n \notin DOMAIN t.lines
      /\ n = Len(t.lines) + 1
      /\ \A k \in DOMAIN t.lines : lines[k] = t.lines[k]
      /\ lines[n] = l
  <2>1. Appended(t.lines, l, lines)
    BY <1>1, <1>3, AppendFacts DEF Shaped
  <2> QED BY <2>1, <1>4 DEF Appended
<1>6. PICK o : o = [t.objs[e] EXCEPT !.line = n]
  OBVIOUS
<1>7. DOMAIN o = EntryFields /\ o.line = n /\ o.id = t.objs[e].id /\ o.op = t.objs[e].op
      /\ o.name = t.objs[e].name
  <2>1. DOMAIN t.objs[e] = EntryFields
    BY <1>1 DEF Shaped
  <2> QED BY <1>6, <2>1, WithLine
<1>8. /\ DOMAIN u = TableFields /\ u.objs = [t.objs EXCEPT ![e] = o] /\ u.lines = lines
      /\ u.idMap = t.idMap /\ u.strMap = t.strMap /\ u.nextId = t.nextId /\ u.named = t.named
      /\ u.entryPoints = t.entryPoints /\ u.entryPointSet = t.entryPointSet
  <2>1. u = [t EXCEPT !.lines = lines, !.objs = [t.objs EXCEPT ![e] = o]]
    BY <1>2, <1>3, <1>5, <1>6 DEF AddLine
  <2> QED BY <1>1, <2>1 DEF Shaped, TableFields
<1>9. /\ IsSeq(u.objs) /\ DOMAIN u.objs = DOMAIN t.objs /\ u.objs[e] = o
      /\ \A k \in DOMAIN t.objs : k # e => u.objs[k] = t.objs[k]
  <2>1. IsSeq(t.objs)
    BY <1>1 DEF Shaped
  <2>2. Replaces(t, u, e, o)
    BY <1>1, <1>8, <2>1, ReplacesFacts
  <2> QED BY <2>2 DEF Replaces
<1>10. ASSUME NEW k \in DOMAIN t.objs
       PROVE  /\ DOMAIN u.objs[k] = EntryFields /\ u.objs[k].id = t.objs[k].id
              /\ u.objs[k].op = t.objs[k].op /\ u.objs[k].name = t.objs[k].name
  <2>1. CASE k = e
    BY <1>7, <1>9, <2>1
  <2>2. CASE k # e
    BY <1>1, <1>9, <2>2 DEF Shaped
  <2> QED BY <2>1, <2>2
<1>11. ASSUME NEW k, Entered(t, k) PROVE Entered(u, k) /\ k \in DOMAIN t.objs
  BY <1>8, <1>9, <1>10, <1>11 DEF Entered
<1>12. \A id \in DOMAIN t.idMap : t.idMap[id] \in DOMAIN t.objs /\ Entered(t, t.idMap[id])
  BY DEF Good, Sound, Linked, Entered
<1>13. Shaped(u)
  <2>1. DOMAIN l = LineFields
    BY <1>2 DEF LineFields
  <2>2. \A k \in DOMAIN lines : DOMAIN lines[k] = LineFields
    BY <1>1, <1>5, <2>1 DEF Shaped
  <2>3. \A k \in DOMAIN u.objs : DOMAIN u.objs[k] = EntryFields
    BY <1>9, <1>10
  <2> QED BY <1>1, <1>5, <1>8, <1>9, <2>2, <2>3 DEF Shaped
<1>14. Linked(u)
  BY <1>8, <1>11, <1>12 DEF Linked
<1>15. ForwardsOnce(u)
  BY <1>8, <1>10, <1>12 DEF Good, Sound, ForwardsOnce
<1>16. EntriesKnown(u)
  BY <1>8, <1>9, <1>10 DEF Good, Sound, EntriesKnown
<1>17. LinesAgree(u)
  <2> SUFFICES ASSUME NEW id \in DOMAIN t.idMap PROVE HasItsLine(u, t.idMap[id])
    BY <1>8 DEF LinesAgree
  <2>1. PICK k : k = t.idMap[id]
    OBVIOUS
  <2>2. k \in DOMAIN t.objs /\ HasItsLine(t, k)
    BY <1>12, <2>1 DEF Good, Sound, LinesAgree
  <2>3. CASE k = e
    BY <1>2, <1>5, <1>7, <1>8, <1>9, <2>1, <2>3 DEF HasItsLine
  <2>4. CASE k # e
    <3>1. u.objs[k] = t.objs[k]
      BY <1>9, <2>2, <2>4
    <3> QED BY <1>5, <1>8, <2>1, <2>2, <3>1 DEF HasItsLine
  <2> QED BY <2>3, <2>4
<1>18. LinesKnown(u)
  <2>1. l.target \in DOMAIN t.idMap /\ l.string \in DOMAIN t.idMap
    BY <1>1, <1>2
  <2> QED BY <1>5, <1>8, <2>1 DEF Good, Sound, LinesKnown
<1>19. StringsKnown(u) /\ EntryPointsAgree(u)
  BY <1>8 DEF Good, Sound, StringsKnown, EntryPointsAgree
<1>20. ASSUME NEW x PROVE NameAgrees(u, x)
  <2>1. NameAgrees(t, x)
    BY DEF Good, NamesAgree
  <2>2. CASE x \notin DOMAIN t.idMap
    BY <1>8, <2>1, <2>2 DEF NameAgrees
  <2>3. CASE x \in DOMAIN t.idMap
    <3>1. u.objs[t.idMap[x]].id = t.objs[t.idMap[x]].id
          /\ u.objs[t.idMap[x]].name = t.objs[t.idMap[x]].name
      BY <1>10, <1>12, <2>3
    <3> QED BY <1>8, <2>1, <3>1 DEF NameAgrees
  <2> QED BY <2>2, <2>3
<1>21. Good(u)
  BY <1>13, <1>14, <1>15, <1>16, <1>17, <1>18, <1>19, <1>20 DEF Good, Sound, NamesAgree
<1> QED BY <1>8, <1>11, <1>21 DEF Keeps, SameIds

\* The two tables of entry points.
LEMMA AddEntryPointGood ==
  ASSUME NEW t, Good(t), NEW id, NEW u, u = AddEntryPoint(t, id)
  PROVE  Good(u) /\ Keeps(t, u) /\ SameIds(t, u) /\ u.idMap = t.idMap /\ u.objs = t.objs
<1>1. Shaped(t)
  BY DEF Good, Sound
<1>2. PICK v : v = Append(t.entryPoints, id)
  OBVIOUS
<1>3. Appended(t.entryPoints, id, v)
  BY <1>1, <1>2, AppendFacts DEF Shaped
<1>4. /\ DOMAIN u = TableFields /\ u.objs = t.objs /\ u.idMap = t.idMap /\ u.lines = t.lines
      /\ u.strMap = t.strMap /\ u.nextId = t.nextId /\ u.named = t.named
      /\ u.entryPoints = v /\ u.entryPointSet = t.entryPointSet \cup {id}
  BY <1>1, <1>2 DEF Shaped, TableFields, AddEntryPoint
<1>5. Range(v) = Range(t.entryPoints) \cup {id}
  BY <1>3 DEF Appended, Range
<1>6. Shaped(u)
  BY <1>1, <1>3, <1>4 DEF Shaped, Appended
<1>7. Linked(u) /\ ForwardsOnce(u) /\ EntriesKnown(u)
  BY <1>4 DEF Good, Sound, Linked, ForwardsOnce, EntriesKnown, Entered
<1>8. LinesAgree(u) /\ LinesKnown(u) /\ StringsKnown(u)
  BY <1>4 DEF Good, Sound, LinesAgree, HasItsLine, LinesKnown, StringsKnown
<1>9. EntryPointsAgree(u)
  BY <1>4, <1>5 DEF Good, Sound, EntryPointsAgree
<1>10. NamesAgree(u)
  BY <1>4 DEF Good, NamesAgree, NameAgrees
<1>11. \A k : Entered(t, k) => Entered(u, k)
  BY <1>4 DEF Entered
<1> QED BY <1>4, <1>6, <1>7, <1>8, <1>9, <1>10, <1>11 DEF Good, Sound, Keeps, SameIds

-----------------------------------------------------------------------------
(***************************************************************************)
(* The translation.                                                        *)
(***************************************************************************)
Built(t) == Good(t) /\ Fresh(t)

LEMMA SetNameBuilt ==
  ASSUME NEW t, Good(t), NEW e, Entered(t, e), NEW name, NEW u, u = SetName(t, e, name)
  PROVE  Good(u) /\ Keeps(t, u) /\ SameIds(t, u) /\ u.idMap = t.idMap
<1>1. Sound(t) /\ \A x : x # t.objs[e].id => NameAgrees(t, x)
  BY DEF Good, NamesAgree
<1>2. Good(u) /\ Alike(t, u) /\ u.nextId = t.nextId
  BY <1>1, SetNameGood
<1> QED BY <1>2, AlikeKeeps DEF Alike

\* An entry with the next id.
LEMMA MadeBuilt ==
  ASSUME NEW t, Built(t), NEW o, Blank(o), o.id = t.nextId, NEW u, u = Add(TakeIds(t, 1), o)
  PROVE  /\ Built(u) /\ Keeps(t, u) /\ Entered(u, Newest(u)) /\ u.objs[Newest(u)] = o
         /\ \A k \in DOMAIN t.objs : k \in DOMAIN u.objs /\ u.objs[k] = t.objs[k]
         /\ \A k : Entered(t, k) => k # Newest(u)
         /\ t.nextId \in DOMAIN u.idMap
<1>1. PICK taken : taken = TakeIds(t, 1)
  OBVIOUS
<1>2. Good(taken) /\ Alike(t, taken) /\ taken.nextId = t.nextId + 1 /\ taken.objs = t.objs
  BY <1>1, TakeIdsGood DEF Built
<1>3. taken.idMap = t.idMap
  BY <1>2 DEF Alike
<1>4. t.nextId \in Nat /\ \A id \in DOMAIN t.idMap : id \in Nat /\ id < t.nextId
  BY DEF Built, Fresh
<1>5. o.id \notin DOMAIN taken.idMap
  BY <1>3, <1>4
<1>6. u = Add(taken, o)
  BY <1>1
<1>7. /\ Good(u) /\ Extends(taken, u, o.id, Newest(u)) /\ u.objs[Newest(u)] = o
      /\ \A k \in DOMAIN taken.objs : k \in DOMAIN u.objs /\ u.objs[k] = taken.objs[k]
      /\ Keeps(taken, u) /\ \A k : Entered(taken, k) => k # Newest(u)
  BY <1>2, <1>5, <1>6, AddNewGood
<1>8. \A k : Entered(t, k) <=> Entered(taken, k)
  BY <1>2, <1>3 DEF Entered
<1>9. DOMAIN u.idMap = DOMAIN t.idMap \cup {t.nextId} /\ u.nextId = t.nextId + 1
  BY <1>2, <1>3, <1>7 DEF Extends
<1>10. Fresh(u)
  BY <1>4, <1>9 DEF Fresh
<1>11. Keeps(t, u)
  BY <1>3, <1>7, <1>8 DEF Keeps
<1> QED BY <1>2, <1>7, <1>8, <1>9, <1>10, <1>11 DEF Built, Extends

LEMMA MakeBuilt ==
  ASSUME NEW t, Built(t), NEW op, NEW u, u = Make(t, op)
  PROVE  /\ Built(u) /\ Keeps(t, u) /\ Entered(u, Newest(u))
         /\ u.objs[Newest(u)].op = op /\ Blank(u.objs[Newest(u)])
         /\ \A k \in DOMAIN t.objs : k \in DOMAIN u.objs /\ u.objs[k] = t.objs[k]
         /\ \A k : Entered(t, k) => k # Newest(u)
<1>1. PICK o : o = Entry(op, t.nextId)
  OBVIOUS
<1>2. Blank(o) /\ o.id = t.nextId /\ o.op = op
  BY <1>1 DEF Blank, Entry, EntryFields
<1>3. u = Add(TakeIds(t, 1), o)
  BY <1>1 DEF Make
<1> QED BY <1>2, <1>3, MadeBuilt

LEMMA StringMapGood ==
  ASSUME NEW t, Good(t), NEW str, NEW id \in DOMAIN t.idMap,
         NEW u, u = [t EXCEPT !.strMap = Put(@, str, id)]
  PROVE  Good(u) /\ Keeps(t, u) /\ SameIds(t, u) /\ str \in DOMAIN u.strMap
<1>1. Shaped(t)
  BY DEF Good, Sound
<1>2. /\ DOMAIN u = TableFields /\ u.objs = t.objs /\ u.idMap = t.idMap /\ u.lines = t.lines
      /\ u.strMap = Put(t.strMap, str, id) /\ u.nextId = t.nextId /\ u.named = t.named
      /\ u.entryPoints = t.entryPoints /\ u.entryPointSet = t.entryPointSet
  BY <1>1 DEF Shaped, TableFields
<1>3. /\ DOMAIN u.strMap = DOMAIN t.strMap \cup {str} /\ u.strMap[str] = id
      /\ \A x \in DOMAIN t.strMap : x # str => u.strMap[x] = t.strMap[x]
  <2>1. PICK g : g = u.strMap
    OBVIOUS
  <2>2. g = Put(t.strMap, str, id)
    BY <1>2, <2>1
  <2>3. DOMAIN g = DOMAIN t.strMap \cup {str} /\ g[str] = id
        /\ \A x \in DOMAIN t.strMap : x # str => g[x] = t.strMap[x]
    BY <2>2 DEF Put
  <2> QED BY <2>1, <2>3
<1>4. Shaped(u)
  BY <1>1, <1>2 DEF Shaped
<1>5. Linked(u) /\ ForwardsOnce(u) /\ EntriesKnown(u)
  BY <1>2 DEF Good, Sound, Linked, ForwardsOnce, EntriesKnown, Entered
<1>6. LinesAgree(u) /\ LinesKnown(u) /\ EntryPointsAgree(u)
  BY <1>2 DEF Good, Sound, LinesAgree, HasItsLine, LinesKnown, EntryPointsAgree
<1>7. StringsKnown(u)
  BY <1>2, <1>3 DEF Good, Sound, StringsKnown
<1>8. NamesAgree(u)
  BY <1>2 DEF Good, NamesAgree, NameAgrees
<1>9. \A k : Entered(t, k) => Entered(u, k)
  BY <1>2 DEF Entered
<1> QED BY <1>2, <1>3, <1>4, <1>5, <1>6, <1>7, <1>8, <1>9 DEF Good, Sound, Keeps, SameIds

LEMMA KeepsTrans ==
  ASSUME NEW t, NEW u, NEW v, Keeps(t, u), Keeps(u, v)
  PROVE  Keeps(t, v)
BY DEF Keeps

LEMMA GetStringBuilt ==
  ASSUME NEW t, Built(t), NEW str, NEW u, u = GetString(t, str)
  PROVE  Built(u) /\ Keeps(t, u) /\ str \in DOMAIN u.strMap
<1>1. CASE str \in DOMAIN t.strMap
  BY <1>1 DEF GetString, Keeps
<1>2. CASE str \notin DOMAIN t.strMap
  <2>1. PICK o : o = [Entry("string", t.nextId) EXCEPT !.str = str]
    OBVIOUS
  <2>2. Blank(o) /\ o.id = t.nextId
    BY <2>1 DEF Blank, Entry, EntryFields
  <2>3. PICK added : added = Add(TakeIds(t, 1), o)
    OBVIOUS
  <2>4. Built(added) /\ Keeps(t, added) /\ t.nextId \in DOMAIN added.idMap
    BY <2>2, <2>3, MadeBuilt
  <2>5. u = [added EXCEPT !.strMap = Put(@, str, t.nextId)]
    BY <1>2, <2>1, <2>3 DEF GetString
  <2>6. Good(u) /\ Keeps(added, u) /\ SameIds(added, u) /\ str \in DOMAIN u.strMap
    BY <2>4, <2>5, StringMapGood DEF Built
  <2>7. Fresh(u)
    BY <2>4, <2>6, SameIdsFresh DEF Built
  <2>8. Keeps(t, u)
    BY <2>4, <2>6, KeepsTrans
  <2> QED BY <2>6, <2>7, <2>8 DEF Built
<1> QED BY <1>1, <1>2

LEMMA TransDbgInfoBuilt ==
  ASSUME NEW t, Built(t), NEW e, Entered(t, e), NEW d, NEW u, u = TransDbgInfo(t, e, d)
  PROVE  Built(u) /\ Keeps(t, u)
<1>1. CASE d = NoDebugInfo
  BY <1>1 DEF TransDbgInfo, Keeps
<1>2. CASE d # NoDebugInfo
  <2>1. PICK s : s = GetString(t, d.file)
    OBVIOUS
  <2>2. Built(s) /\ Keeps(t, s) /\ d.file \in DOMAIN s.strMap
    BY <2>1, GetStringBuilt
  <2>3. PICK id : id = s.strMap[d.file]
    OBVIOUS
  <2>4. id \in DOMAIN s.idMap
    BY <2>2, <2>3 DEF Built, Good, Sound, StringsKnown
  <2>5. Entered(s, e)
    BY <2>2 DEF Keeps
  <2>6. u = AddLine(s, e, id, d.no)
    BY <1>2, <2>1, <2>3 DEF TransDbgInfo
  <2>7. Good(s)
    BY <2>2 DEF Built
  <2>8. Good(u) /\ Keeps(s, u) /\ SameIds(s, u)
    BY <2>4, <2>5, <2>6, <2>7, AddLineGood
  <2>9. Fresh(u)
    BY <2>2, <2>8, SameIdsFresh DEF Built
  <2>10. Keeps(t, u)
    BY <2>2, <2>8, KeepsTrans
  <2> QED BY <2>8, <2>9, <2>10 DEF Built
<1> QED BY <1>1, <1>2

LEMMA AnnotatedBuilt ==
  ASSUME NEW t, Built(t), NEW e, Entered(t, e), NEW name, NEW d, NEW u, u = Annotated(t, e, name, d)
  PROVE  Built(u)
<1>1. PICK s : s = IF name = "" THEN t ELSE SetName(t, e, name)
  OBVIOUS
<1>2. Built(s) /\ Entered(s, e)
  <2>1. CASE name = ""
    BY <1>1, <2>1
  <2>2. CASE name # ""
    <3>1. s = SetName(t, e, name) /\ Good(t)
      BY <1>1, <2>2 DEF Built
    <3>2. Good(s) /\ Keeps(t, s) /\ SameIds(t, s)
      BY <3>1, SetNameBuilt
    <3> QED BY <3>2, SameIdsFresh DEF Built, Keeps
  <2> QED BY <2>1, <2>2
<1>3. u = TransDbgInfo(s, e, d)
  BY <1>1 DEF Annotated
<1> QED BY <1>2, <1>3, TransDbgInfoBuilt

LEMMA InBodyBuilt ==
  ASSUME NEW t, Built(t), NEW id, NEW u, u = InBody(t, id)
  PROVE  Built(u) /\ Keeps(t, u)
<1>1. PICK items : items = Append(t.objs[body].items, id)
  OBVIOUS
<1>2. u = [t EXCEPT !.objs[body].items = items]
  BY <1>1 DEF InBody
<1>3. Good(t)
  BY DEF Built
<1>4. Good(u) /\ Alike(t, u) /\ u.nextId = t.nextId
  BY <1>2, <1>3, SetItemsGood
<1>5. Keeps(t, u) /\ SameIds(t, u)
  BY <1>4, AlikeKeeps
<1> QED BY <1>4, <1>5, SameIdsFresh DEF Built

\* An instruction is given the id of its forward.
LEMMA RenamedPending ==
  ASSUME NEW t, Good(t), NEW f, NEW e, Entered(t, f), Entered(t, e), e # f,
         t.objs[f].op = "forward", t.objs[e].op # "forward",
         t.objs[e].name = "", t.objs[e].line = 0,
         NEW u, u = [t EXCEPT !.objs[e].id = t.objs[f].id]
  PROVE  Pending(u, f, e) /\ SameIds(t, u)
<1>1. Shaped(t) /\ e \in DOMAIN t.objs /\ f \in DOMAIN t.objs
  BY DEF Good, Sound, Entered
<1>2. PICK id : id = t.objs[f].id
  OBVIOUS
<1>3. PICK old : old = t.objs[e].id
  OBVIOUS
<1>4. PICK o : o = [t.objs[e] EXCEPT !.id = id]
  OBVIOUS
<1>5. DOMAIN o = EntryFields /\ o.id = id /\ o.op = t.objs[e].op /\ o.name = "" /\ o.line = 0
  <2>1. DOMAIN t.objs[e] = EntryFields
    BY <1>1 DEF Shaped
  <2> QED BY <1>4, <2>1 DEF EntryFields
<1>6. /\ DOMAIN u = TableFields /\ u.objs = [t.objs EXCEPT ![e] = o] /\ u.lines = t.lines
      /\ u.idMap = t.idMap /\ u.strMap = t.strMap /\ u.nextId = t.nextId /\ u.named = t.named
      /\ u.entryPoints = t.entryPoints /\ u.entryPointSet = t.entryPointSet
  <2>1. u = [t EXCEPT !.objs = [t.objs EXCEPT ![e] = o]]
    BY <1>2, <1>4
  <2> QED BY <1>1, <2>1 DEF Shaped, TableFields
<1>7. /\ IsSeq(u.objs) /\ DOMAIN u.objs = DOMAIN t.objs /\ u.objs[e] = o
      /\ \A k \in DOMAIN t.objs : k # e => u.objs[k] = t.objs[k]
  <2>1. IsSeq(t.objs)
    BY <1>1 DEF Shaped
  <2>2. Replaces(t, u, e, o)
    BY <1>1, <1>6, <2>1, ReplacesFacts
  <2> QED BY <2>2 DEF Replaces
<1>8. /\ id \in DOMAIN t.idMap /\ t.idMap[id] = f
      /\ old \in DOMAIN t.idMap /\ t.idMap[old] = e /\ old # id
  BY <1>2, <1>3 DEF Entered
<1>9. ASSUME NEW x \in DOMAIN t.idMap, t.idMap[x] # e
      PROVE  /\ t.idMap[x] \in DOMAIN t.objs /\ Entered(u, t.idMap[x])
             /\ u.objs[t.idMap[x]] = t.objs[t.idMap[x]]
  <2>1. PICK k : k = t.idMap[x]
    OBVIOUS
  <2>2. Entered(t, k) /\ k \in DOMAIN t.objs
    BY <2>1 DEF Good, Sound, Linked, Entered
  <2>3. u.objs[k] = t.objs[k]
    BY <1>7, <1>9, <2>1, <2>2
  <2>4. Entered(u, k)
    BY <1>6, <1>7, <2>2, <2>3 DEF Entered
  <2> QED BY <2>1, <2>2, <2>3, <2>4
<1>10. Shaped(u)
  <2>1. \A k \in DOMAIN u.objs : DOMAIN u.objs[k] = EntryFields
    BY <1>1, <1>5, <1>7 DEF Shaped
  <2> QED BY <1>1, <1>6, <1>7, <2>1 DEF Shaped
<1>11. /\ e \in DOMAIN u.objs /\ Entered(u, f)
       /\ u.objs[e].id = id /\ u.objs[f].id = id /\ u.objs[e].line = 0
       /\ u.objs[e].op # "forward"
  <2>1. u.objs[f] = t.objs[f]
    BY <1>1, <1>7
  <2>2. Entered(u, f)
    BY <1>8, <1>9
  <2> QED BY <1>1, <1>2, <1>5, <1>7, <2>1, <2>2
<1>12. ASSUME NEW x \in DOMAIN u.idMap
       PROVE \/ u.idMap[x] = e /\ u.objs[e].op # "forward"
             \/ /\ u.idMap[x] # e /\ Entered(u, u.idMap[x])
                /\ u.idMap[x] = f => x = u.objs[f].id
                /\ u.objs[u.idMap[x]].op = "forward" => u.objs[u.idMap[x]].id = x
  <2>1. CASE u.idMap[x] = e
    BY <1>11, <2>1
  <2>2. CASE u.idMap[x] # e
    <3>1. x \in DOMAIN t.idMap /\ u.idMap[x] = t.idMap[x]
      BY <1>6
    <3>2. t.objs[t.idMap[x]].op = "forward" => t.objs[t.idMap[x]].id = x
      BY <3>1 DEF Good, Sound, ForwardsOnce
    <3>3. Entered(u, u.idMap[x]) /\ u.objs[t.idMap[x]] = t.objs[t.idMap[x]]
      BY <1>9, <2>2, <3>1
    <3>4. u.idMap[x] = f => x = u.objs[f].id
      BY <1>2, <1>11, <3>1, <3>2
    <3> QED BY <2>2, <3>1, <3>2, <3>3, <3>4
  <2> QED BY <2>1, <2>2
<1>13. ASSUME NEW x, x # u.objs[e].id PROVE NameAgrees(u, x)
  <2>1. NameAgrees(t, x)
    BY DEF Good, NamesAgree
  <2>2. CASE x \notin DOMAIN t.idMap
    BY <1>6, <2>1, <2>2 DEF NameAgrees
  <2>3. CASE x \in DOMAIN t.idMap /\ t.idMap[x] = e
    <3>1. x \notin t.named
      BY <2>1, <2>3 DEF NameAgrees
    <3> QED BY <1>6, <1>13, <2>3, <3>1 DEF NameAgrees
  <2>4. CASE x \in DOMAIN t.idMap /\ t.idMap[x] # e
    <3>1. u.objs[t.idMap[x]] = t.objs[t.idMap[x]]
      BY <1>9, <2>4
    <3> QED BY <1>6, <2>1, <3>1 DEF NameAgrees
  <2> QED BY <2>2, <2>3, <2>4
<1>14. LinesAgree(u)
  <2> SUFFICES ASSUME NEW x \in DOMAIN t.idMap PROVE HasItsLine(u, t.idMap[x])
    BY <1>6 DEF LinesAgree
  <2>1. CASE t.idMap[x] = e
    BY <1>11, <2>1 DEF HasItsLine
  <2>2. CASE t.idMap[x] # e
    <3>1. u.objs[t.idMap[x]] = t.objs[t.idMap[x]]
      BY <1>9, <2>2
    <3>2. HasItsLine(t, t.idMap[x])
      BY DEF Good, Sound, LinesAgree
    <3> QED BY <1>6, <3>1, <3>2 DEF HasItsLine
  <2> QED BY <2>1, <2>2
<1>15. EntriesKnown(u)
  BY <1>5, <1>6, <1>7, <1>8 DEF Good, Sound, EntriesKnown
<1>16. LinesKnown(u) /\ StringsKnown(u) /\ EntryPointsAgree(u)
  BY <1>6 DEF Good, Sound, LinesKnown, StringsKnown, EntryPointsAgree
<1> QED BY <1>6, <1>10, <1>11, <1>12, <1>13, <1>14, <1>15, <1>16 DEF Pending, SameIds

-----------------------------------------------------------------------------
(***************************************************************************)
(* What makes FreshIds inductive.  The ids in the file are the ids of the  *)
(* tables, so their bound is above them when the file is read again: the   *)
(* vectors hold entries (Listed), functions hold ids of entries, and what  *)
(* is walked through as a set is finite (Tidied).  An id that is in        *)
(* IdEntryMap is read a second time only if it leads to a forward, and     *)
(* none that leads to something else will lead to a forward again (Solid), *)
(* so two groups that are read have different ids.                         *)
(***************************************************************************)
Listed(s, X)   == IsSeq(s) /\ \A k \in DOMAIN s : s[k] \in X
Inside(o, X)   == Listed(o.items, X) /\ IsFiniteSet(DOMAIN o.modes)
Tidied(t) ==
  /\ Listed(t.strings, DOMAIN t.objs) /\ Listed(t.globals, DOMAIN t.objs)
  /\ Listed(t.functions, DOMAIN t.objs)
  /\ \A e \in DOMAIN t.objs : Inside(t.objs[e], DOMAIN t.idMap)
  /\ t.entryPointSet \subseteq DOMAIN t.idMap
  /\ IsFiniteSet(t.named)
Solid(t) ==
  {id \in DOMAIN t.idMap : t.idMap[id] \in DOMAIN t.objs /\ t.objs[t.idMap[id]].op # "forward"}

\* A step that adds no group.
Tidies(t, u) == Tidied(t) => Tidied(u) /\ u.groups = t.groups /\ Solid(t) \subseteq Solid(u)

LEMMA TidiesTrans ==
  ASSUME NEW t, NEW u, NEW v, Tidies(t, u), Tidies(u, v)
  PROVE  Tidies(t, v)
BY DEF Tidies

\* Names and lines change, nothing else.
SameInside(o, p) == p.op = o.op /\ p.id = o.id /\ p.items = o.items /\ p.modes = o.modes
SameLists(t, u) ==
  /\ u.strings = t.strings /\ u.globals = t.globals /\ u.functions = t.functions
  /\ u.groups = t.groups /\ u.entryPointSet = t.entryPointSet /\ u.idMap = t.idMap
  /\ IsFiniteSet(t.named) => IsFiniteSet(u.named)
Frame(t, u) ==
  /\ DOMAIN u.objs = DOMAIN t.objs /\ Newest(u) = Newest(t)
  /\ \A k \in DOMAIN t.objs : SameInside(t.objs[k], u.objs[k])
  /\ SameLists(t, u)

LEMMA FrameTidies ==
  ASSUME NEW t, NEW u, Frame(t, u)
  PROVE  Tidies(t, u)
<1> SUFFICES ASSUME Tidied(t)
             PROVE  Tidied(u) /\ u.groups = t.groups /\ Solid(t) \subseteq Solid(u)
  BY DEF Tidies
<1>1. SameLists(t, u) /\ DOMAIN u.objs = DOMAIN t.objs
  BY DEF Frame
<1>2. ASSUME NEW k \in DOMAIN t.objs
      PROVE  u.objs[k].op = t.objs[k].op /\ Inside(u.objs[k], DOMAIN u.idMap)
  <2>1. SameInside(t.objs[k], u.objs[k]) /\ Inside(t.objs[k], DOMAIN t.idMap)
    BY DEF Frame, Tidied
  <2> QED BY <1>1, <2>1 DEF SameInside, Inside, SameLists
<1>3. Tidied(u)
  BY <1>1, <1>2 DEF Tidied, SameLists
<1>4. Solid(t) \subseteq Solid(u)
  BY <1>1, <1>2 DEF Solid, SameLists
<1> QED BY <1>1, <1>3, <1>4 DEF SameLists

LEMMA EntryFrame ==
  ASSUME NEW t, Shaped(t), NEW e, NEW o, e \in DOMAIN t.objs => SameInside(t.objs[e], o),
         NEW u, u.objs = [t.objs EXCEPT ![e] = o], SameLists(t, u)
  PROVE  Frame(t, u)
<1>1. PICK v : v = u.objs
  OBVIOUS
<1>2. IsSeq(t.objs) /\ v = [t.objs EXCEPT ![e] = o]
  BY <1>1 DEF Shaped
<1>3. /\ Len(v) = Len(t.objs) /\ DOMAIN v = DOMAIN t.objs
      /\ \A k \in DOMAIN t.objs : k # e => v[k] = t.objs[k]
      /\ e \in DOMAIN t.objs => v[e] = o
  BY <1>2, ExceptFacts
<1>4. ASSUME NEW k \in DOMAIN t.objs PROVE SameInside(t.objs[k], v[k])
  BY <1>3 DEF SameInside
<1> QED BY <1>1, <1>3, <1>4 DEF Frame, Newest

LEMMA SameFrame ==
  ASSUME NEW t, NEW u, u.objs = t.objs, SameLists(t, u)
  PROVE  Frame(t, u)
BY DEF Frame, SameInside, Newest

LEMMA SetNameFrame ==
  ASSUME NEW t, Shaped(t), NEW e, NEW name, NEW u, u = SetName(t, e, name)
  PROVE  Frame(t, u)
<1>1. PICK o : o = [t.objs[e] EXCEPT !.name = name]
  OBVIOUS
<1>2. PICK named : named = IF name = "" THEN t.named \ {t.objs[e].id} ELSE t.named \cup {t.objs[e].id}
  OBVIOUS
<1>3. u = [t EXCEPT !.objs = [t.objs EXCEPT ![e] = o], !.named = named]
  BY <1>1, <1>2 DEF SetName
<1>4. /\ u.objs = [t.objs EXCEPT ![e] = o] /\ u.named = named
      /\ u.strings = t.strings /\ u.globals = t.globals /\ u.functions = t.functions
      /\ u.groups = t.groups /\ u.entryPointSet = t.entryPointSet /\ u.idMap = t.idMap
  BY <1>3 DEF Shaped, TableFields
<1>5. IsFiniteSet(t.named) => IsFiniteSet(named)
  BY <1>2, FS_AddElement, FS_RemoveElement
<1>6. e \in DOMAIN t.objs => SameInside(t.objs[e], o)
  BY <1>1 DEF Shaped, EntryFields, SameInside
<1> QED BY <1>4, <1>5, <1>6, EntryFrame DEF SameLists

LEMMA TakeLineFrame ==
  ASSUME NEW t, Shaped(t), NEW f, NEW e, NEW u, u = TakeLine(t, f, e)
  PROVE  Frame(t, u)
<1>1. CASE t.objs[f].line = 0
  <2>1. u = t
    BY <1>1 DEF TakeLine
  <2>2. u.objs = t.objs /\ SameLists(t, u)
    BY <2>1 DEF SameLists
  <2> QED BY <2>2, SameFrame
<1>2. CASE t.objs[f].line # 0
  <2>1. PICK o : o = [t.objs[e] EXCEPT !.line = t.objs[f].line]
    OBVIOUS
  <2>2. PICK s : s = [t EXCEPT !.objs = [t.objs EXCEPT ![e] = o]]
    OBVIOUS
  <2>3. /\ DOMAIN s = TableFields /\ s.objs = [t.objs EXCEPT ![e] = o] /\ SameLists(t, s)
        /\ s.lines = t.lines /\ s.entryPoints = t.entryPoints
    BY <2>2 DEF Shaped, TableFields, SameLists
  <2>4. e \in DOMAIN t.objs => SameInside(t.objs[e], o) /\ DOMAIN o = EntryFields
    BY <2>1 DEF Shaped, EntryFields, SameInside
  <2>5. Frame(t, s)
    BY <2>3, <2>4, EntryFrame
  <2>6. PICK p : p = [s.objs[f] EXCEPT !.line = 0]
    OBVIOUS
  <2>7. PICK objs : objs = s.objs
    OBVIOUS
  <2>8. IsSeq(t.objs) /\ objs = [t.objs EXCEPT ![e] = o]
    BY <2>3, <2>7 DEF Shaped
  <2>9. /\ IsSeq(objs) /\ DOMAIN objs = DOMAIN t.objs
        /\ \A k \in DOMAIN t.objs : k # e => objs[k] = t.objs[k]
        /\ e \in DOMAIN t.objs => objs[e] = o
    BY <2>8, ExceptFacts
  <2>10. Shaped(s)
    <3>1. \A k \in DOMAIN objs : DOMAIN objs[k] = EntryFields
      BY <2>4, <2>9 DEF Shaped
    <3> QED BY <2>3, <2>7, <2>9, <3>1 DEF Shaped
  <2>11. f \in DOMAIN s.objs => SameInside(s.objs[f], p)
    BY <2>6, <2>10 DEF Shaped, EntryFields, SameInside
  <2>12. /\ u.objs = [s.objs EXCEPT ![f] = p] /\ SameLists(s, u)
    <3>1. PICK n : n = t.objs[f].line
      OBVIOUS
    <3>2. u = [t EXCEPT !.objs[e].line = n, !.objs[f].line = 0, !.lines[n].target = t.objs[e].id]
      BY <1>2, <3>1 DEF TakeLine
    <3>3. u = [s EXCEPT !.objs[f].line = 0, !.lines[n].target = t.objs[e].id]
      BY <2>1, <2>2, <3>1, <3>2 DEF Shaped, TableFields
    <3> QED BY <2>3, <2>6, <3>3 DEF TableFields, SameLists
  <2>13. Frame(s, u)
    BY <2>10, <2>11, <2>12, EntryFrame
  <2>14. Frame(t, u)
    BY <2>5, <2>13 DEF Frame, SameLists, SameInside
  <2> QED BY <2>14
<1> QED BY <1>1, <1>2

\* An entry is replaced by one of the same kind.
FitsIn(t, e, o) ==
  e \in DOMAIN t.objs =>
    o.op = t.objs[e].op /\ (Tidied(t) => Inside(o, DOMAIN t.idMap))

LEMMA EntryTidies ==
  ASSUME NEW t, Shaped(t), NEW e, NEW o, FitsIn(t, e, o),
         NEW u, u.objs = [t.objs EXCEPT ![e] = o], SameLists(t, u)
  PROVE  Tidies(t, u)
<1> SUFFICES ASSUME Tidied(t)
             PROVE  Tidied(u) /\ u.groups = t.groups /\ Solid(t) \subseteq Solid(u)
  BY DEF Tidies
<1>1. PICK objs : objs = u.objs
  OBVIOUS
<1>2. IsSeq(t.objs) /\ objs = [t.objs EXCEPT ![e] = o]
  BY <1>1 DEF Shaped
<1>3. /\ DOMAIN objs = DOMAIN t.objs
      /\ \A k \in DOMAIN t.objs : k # e => objs[k] = t.objs[k]
      /\ e \in DOMAIN t.objs => objs[e] = o
  BY <1>2, ExceptFacts
<1>4. ASSUME NEW k \in DOMAIN objs
      PROVE  objs[k].op = t.objs[k].op /\ Inside(objs[k], DOMAIN t.idMap)
  <2>1. Inside(t.objs[k], DOMAIN t.idMap)
    BY <1>3 DEF Tidied
  <2> QED BY <1>3, <2>1 DEF FitsIn
<1>5. Tidied(u)
  BY <1>1, <1>3, <1>4 DEF Tidied, SameLists
<1>6. Solid(t) \subseteq Solid(u)
  BY <1>1, <1>3, <1>4 DEF Solid, SameLists
<1> QED BY <1>5, <1>6 DEF SameLists

\* The modes of an entry change, or its items, or its id.
LEMMA SetModesTidies ==
  ASSUME NEW t, Shaped(t), NEW e, NEW modes,
         Tidied(t) /\ e \in DOMAIN t.objs => IsFiniteSet(DOMAIN modes),
         NEW u, u = [t EXCEPT !.objs[e].modes = modes]
  PROVE  Tidies(t, u)
<1>1. PICK o : o = [t.objs[e] EXCEPT !.modes = modes]
  OBVIOUS
<1>2. FitsIn(t, e, o)
  <2>1. ASSUME e \in DOMAIN t.objs
        PROVE  o.op = t.objs[e].op /\ o.items = t.objs[e].items /\ o.modes = modes
    BY <1>1, <2>1 DEF Shaped, EntryFields
  <2>2. ASSUME e \in DOMAIN t.objs, Tidied(t) PROVE Inside(o, DOMAIN t.idMap)
    <3>1. Inside(t.objs[e], DOMAIN t.idMap) /\ IsFiniteSet(DOMAIN modes)
      BY <2>2 DEF Tidied
    <3> QED BY <2>1, <2>2, <3>1 DEF Inside
  <2> QED BY <2>1, <2>2 DEF FitsIn
<1>3. u.objs = [t.objs EXCEPT ![e] = o] /\ SameLists(t, u)
  BY <1>1 DEF Shaped, TableFields, SameLists
<1> QED BY <1>2, <1>3, EntryTidies

LEMMA SetItemsTidies ==
  ASSUME NEW t, Shaped(t), NEW e, NEW items,
         Tidied(t) /\ e \in DOMAIN t.objs => Listed(items, DOMAIN t.idMap),
         NEW u, u = [t EXCEPT !.objs[e].items = items]
  PROVE  Tidies(t, u)
<1>1. PICK o : o = [t.objs[e] EXCEPT !.items = items]
  OBVIOUS
<1>2. FitsIn(t, e, o)
  <2>1. ASSUME e \in DOMAIN t.objs
        PROVE  o.op = t.objs[e].op /\ o.items = items /\ o.modes = t.objs[e].modes
    BY <1>1, <2>1 DEF Shaped, EntryFields
  <2>2. ASSUME e \in DOMAIN t.objs, Tidied(t) PROVE Inside(o, DOMAIN t.idMap)
    <3>1. Inside(t.objs[e], DOMAIN t.idMap) /\ Listed(items, DOMAIN t.idMap)
      BY <2>2 DEF Tidied
    <3> QED BY <2>1, <2>2, <3>1 DEF Inside
  <2> QED BY <2>1, <2>2 DEF FitsIn
<1>3. u.objs = [t.objs EXCEPT ![e] = o] /\ SameLists(t, u)
  BY <1>1 DEF Shaped, TableFields, SameLists
<1> QED BY <1>2, <1>3, EntryTidies

LEMMA RenamedTidies ==
  ASSUME NEW t, Shaped(t), NEW e, NEW id, NEW u, u = [t EXCEPT !.objs[e].id = id]
  PROVE  Tidies(t, u)
<1>1. PICK o : o = [t.objs[e] EXCEPT !.id = id]
  OBVIOUS
<1>2. FitsIn(t, e, o)
  <2>1. ASSUME e \in DOMAIN t.objs
        PROVE  o.op = t.objs[e].op /\ o.items = t.objs[e].items /\ o.modes = t.objs[e].modes
    BY <1>1, <2>1 DEF Shaped, EntryFields
  <2>2. ASSUME e \in DOMAIN t.objs, Tidied(t) PROVE Inside(o, DOMAIN t.idMap)
    <3>1. Inside(t.objs[e], DOMAIN t.idMap)
      BY <2>2 DEF Tidied
    <3> QED BY <2>1, <2>2, <3>1 DEF Inside
  <2> QED BY <2>1, <2>2 DEF FitsIn
<1>3. u.objs = [t.objs EXCEPT ![e] = o] /\ SameLists(t, u)
  BY <1>1 DEF Shaped, TableFields, SameLists
<1> QED BY <1>2, <1>3, EntryTidies

\* takeAnnotations and replaceForward.
LEMMA ReplaceForwardTidies ==
  ASSUME NEW t, NEW f, NEW e, Pending(t, f, e), t.objs[f].op = "forward",
         NEW u, u = ReplaceForward(t, f, e)
  PROVE  /\ Tidies(t, u)
         /\ DOMAIN u.objs = DOMAIN t.objs /\ Newest(u) = Newest(t)
         /\ u.objs[e].op = t.objs[e].op /\ u.objs[e].id = t.objs[e].id
         /\ u.idMap[t.objs[f].id] = e
<1>1. PICK id : id = t.objs[f].id
  OBVIOUS
<1>2. PICK t1 : t1 = [t EXCEPT !.idMap = Put(@, id, e)]
  OBVIOUS
<1>3. Shaped(t) /\ Shaped(t1) /\ t1.objs = t.objs /\ t1.idMap = Put(t.idMap, id, e)
      /\ t1.named = t.named /\ t1.groups = t.groups /\ t1.entryPointSet = t.entryPointSet
      /\ t1.strings = t.strings /\ t1.globals = t.globals /\ t1.functions = t.functions
  BY <1>2 DEF Pending, Shaped, TableFields
<1>4. /\ id \in DOMAIN t.idMap /\ t.idMap[id] = f /\ f \in DOMAIN t.objs
      /\ e \in DOMAIN t.objs /\ e # f
  BY <1>1 DEF Pending, Entered
<1>5. /\ DOMAIN t1.idMap = DOMAIN t.idMap /\ t1.idMap[id] = e
      /\ \A x \in DOMAIN t.idMap : x # id => t1.idMap[x] = t.idMap[x]
  <2>1. PICK g : g = t1.idMap
    OBVIOUS
  <2>2. g = Put(t.idMap, id, e)
    BY <1>3, <2>1
  <2>3. DOMAIN g = DOMAIN t.idMap \cup {id} /\ g[id] = e
        /\ \A x \in DOMAIN t.idMap : x # id => g[x] = t.idMap[x]
    BY <2>2 DEF Put
  <2> QED BY <1>4, <2>1, <2>3
<1>6. Tidies(t, t1)
  <2>1. Solid(t) \subseteq Solid(t1)
    BY <1>3, <1>4, <1>5 DEF Solid
  <2>2. Tidied(t) => Tidied(t1)
    BY <1>3, <1>5 DEF Tidied
  <2> QED BY <1>3, <2>1, <2>2 DEF Tidies
<1>7. PICK t2 : t2 = SetName(t1, e, t1.objs[f].name)
  OBVIOUS
<1>8. Frame(t1, t2)
  BY <1>3, <1>7, SetNameFrame
<1>9. Shaped(t2)
  <2>1. PICK o : o = [t1.objs[e] EXCEPT !.name = t1.objs[f].name]
    OBVIOUS
  <2>2. PICK objs : objs = t2.objs
    OBVIOUS
  <2>3. /\ DOMAIN t2 = TableFields /\ objs = [t1.objs EXCEPT ![e] = o]
        /\ t2.lines = t1.lines /\ t2.entryPoints = t1.entryPoints
    BY <1>3, <1>7, <2>1, <2>2 DEF SetName, Shaped, TableFields
  <2>4. IsSeq(t1.objs) /\ DOMAIN o = EntryFields
    BY <1>3, <1>4, <2>1 DEF Shaped
  <2>5. /\ IsSeq(objs) /\ DOMAIN objs = DOMAIN t1.objs
        /\ \A k \in DOMAIN t1.objs : k # e => objs[k] = t1.objs[k]
        /\ e \in DOMAIN t1.objs => objs[e] = o
    BY <2>3, <2>4, ExceptFacts
  <2>6. \A k \in DOMAIN objs : DOMAIN objs[k] = EntryFields
    BY <1>3, <2>4, <2>5 DEF Shaped
  <2> QED BY <1>3, <2>2, <2>3, <2>5, <2>6 DEF Shaped
<1>10. PICK modes : modes = IF t1.objs[e].op = "function" THEN t1.objs[f].modes ELSE t2.objs[e].modes
  OBVIOUS
<1>11. PICK t3 : t3 = [t2 EXCEPT !.objs[e].modes = modes]
  OBVIOUS
<1>12. Tidied(t2) => IsFiniteSet(DOMAIN modes)
  <2>1. ASSUME Tidied(t2) PROVE IsFiniteSet(DOMAIN t2.objs[e].modes) /\ IsFiniteSet(DOMAIN t2.objs[f].modes)
    <3>1. e \in DOMAIN t2.objs /\ f \in DOMAIN t2.objs
      BY <1>3, <1>4, <1>8 DEF Frame
    <3> QED BY <2>1, <3>1 DEF Tidied, Inside
  <2>2. t2.objs[f].modes = t1.objs[f].modes
    BY <1>3, <1>4, <1>8 DEF Frame, SameInside
  <2> QED BY <1>10, <2>1, <2>2
<1>13. Tidies(t2, t3)
  BY <1>9, <1>11, <1>12, SetModesTidies
<1>14. /\ Shaped(t3) /\ DOMAIN t3.objs = DOMAIN t2.objs /\ Newest(t3) = Newest(t2)
       /\ t3.objs[e].op = t2.objs[e].op /\ t3.objs[e].id = t2.objs[e].id /\ t3.idMap = t2.idMap
  <2>1. PICK o : o = [t2.objs[e] EXCEPT !.modes = modes]
    OBVIOUS
  <2>2. PICK objs : objs = [t2.objs EXCEPT ![e] = o]
    OBVIOUS
  <2>3. t3 = [t2 EXCEPT !.objs = objs]
    BY <1>11, <2>1, <2>2
  <2>4. /\ DOMAIN t3 = TableFields /\ t3.objs = objs
        /\ t3.lines = t2.lines /\ t3.entryPoints = t2.entryPoints /\ t3.idMap = t2.idMap
    BY <1>9, <2>3 DEF Shaped, TableFields
  <2>5. e \in DOMAIN t2.objs
    BY <1>3, <1>4, <1>8 DEF Frame
  <2>6. IsSeq(t2.objs) /\ DOMAIN o = EntryFields /\ o.op = t2.objs[e].op /\ o.id = t2.objs[e].id
    BY <1>9, <2>1, <2>5 DEF Shaped, EntryFields
  <2>7. /\ IsSeq(objs) /\ DOMAIN objs = DOMAIN t2.objs /\ Len(objs) = Len(t2.objs)
        /\ \A k \in DOMAIN t2.objs : k # e => objs[k] = t2.objs[k]
        /\ e \in DOMAIN t2.objs => objs[e] = o
    <3>1. IsSeq(t2.objs) /\ objs = [t2.objs EXCEPT ![e] = o]
      BY <2>2, <2>6
    <3> QED BY <3>1, ExceptFacts
  <2>8. \A k \in DOMAIN objs : DOMAIN objs[k] = EntryFields
    BY <1>9, <2>6, <2>7 DEF Shaped
  <2>9. Shaped(t3)
    BY <1>9, <2>4, <2>7, <2>8 DEF Shaped
  <2> QED BY <2>4, <2>5, <2>6, <2>7, <2>9 DEF Newest
<1>15. u = TakeLine(t3, f, e)
  <2>1. u = TakeAnnotations(t1, f, e)
    BY <1>1, <1>2 DEF ReplaceForward
  <2>2. TakeAnnotations(t1, f, e) = TakeLine(t3, f, e)
    BY <1>7, <1>10, <1>11 DEF TakeAnnotations
  <2> QED BY <2>1, <2>2
<1>16. Frame(t3, u)
  BY <1>14, <1>15, TakeLineFrame
<1>17. Tidies(t1, t2) /\ Tidies(t3, u)
  BY <1>8, <1>16, FrameTidies
<1>18. Tidies(t, u)
  BY <1>6, <1>13, <1>17, TidiesTrans
<1>19. /\ DOMAIN u.objs = DOMAIN t.objs /\ Newest(u) = Newest(t)
       /\ u.objs[e].op = t.objs[e].op /\ u.objs[e].id = t.objs[e].id
       /\ u.idMap = t1.idMap
  <2>1. /\ DOMAIN t2.objs = DOMAIN t.objs /\ Newest(t2) = Newest(t1) /\ t2.idMap = t1.idMap
        /\ t2.objs[e].op = t.objs[e].op /\ t2.objs[e].id = t.objs[e].id
    BY <1>3, <1>4, <1>8 DEF Frame, SameInside, SameLists
  <2>2. Newest(t1) = Newest(t)
    BY <1>3 DEF Newest
  <2>3. /\ DOMAIN u.objs = DOMAIN t3.objs /\ Newest(u) = Newest(t3) /\ u.idMap = t3.idMap
        /\ e \in DOMAIN t3.objs => u.objs[e].op = t3.objs[e].op /\ u.objs[e].id = t3.objs[e].id
    BY <1>16 DEF Frame, SameInside, SameLists
  <2> QED BY <1>4, <1>14, <2>1, <2>2, <2>3
<1> QED BY <1>1, <1>5, <1>18, <1>19

-----------------------------------------------------------------------------
(***************************************************************************)
(* addEntry and layoutEntry.                                               *)
(***************************************************************************)
\* u has the entry o, entered under its id, and everything t has.
Entering(t, o, u) ==
  /\ Tidied(u) /\ u.groups = t.groups /\ Solid(t) \subseteq Solid(u)
  /\ Newest(u) \in DOMAIN u.objs
  /\ u.objs[Newest(u)].op = o.op /\ u.objs[Newest(u)].id = o.id
  /\ o.id \in DOMAIN u.idMap /\ (o.op # "forward" => o.id \in Solid(u))

LEMMA NewEntryTidies ==
  ASSUME NEW t, Good(t), Tidied(t), NEW o, Inside(o, DOMAIN t.idMap \cup {o.id}),
         o.id \notin DOMAIN t.idMap, NEW u, u = AddEntry(t, o)
  PROVE  Entering(t, o, u)
<1>1. Shaped(t)
  BY DEF Good, Sound
<1>2. PICK objs : objs = Append(t.objs, o)
  OBVIOUS
<1>3. PICK e : e = Len(objs)
  OBVIOUS
<1>4. /\ DOMAIN objs = DOMAIN t.objs \cup {e} /\ e \notin DOMAIN t.objs
      /\ \A k \in DOMAIN t.objs : objs[k] = t.objs[k]
      /\ objs[e] = o
  <2>1. Appended(t.objs, o, objs)
    BY <1>1, <1>2, AppendFacts DEF Shaped
  <2> QED BY <2>1, <1>3 DEF Appended
<1>5. PICK made : made = [t EXCEPT !.objs = objs]
  OBVIOUS
<1>6. /\ DOMAIN made = TableFields /\ made.objs = objs /\ made.idMap = t.idMap
      /\ made.named = t.named /\ made.groups = t.groups /\ made.entryPointSet = t.entryPointSet
      /\ made.strings = t.strings /\ made.globals = t.globals /\ made.functions = t.functions
  BY <1>1, <1>5 DEF Shaped, TableFields
<1>7. Mapped(t, o.id) = NoEntry
  BY MappedFacts
<1>8. u = [made EXCEPT !.idMap = Put(@, o.id, Newest(made))]
  BY <1>2, <1>5, <1>7 DEF AddEntry
<1>9. PICK g : g = Put(t.idMap, o.id, e)
  OBVIOUS
<1>10. /\ u.objs = objs /\ u.idMap = g
       /\ u.named = t.named /\ u.groups = t.groups /\ u.entryPointSet = t.entryPointSet
       /\ u.strings = t.strings /\ u.globals = t.globals /\ u.functions = t.functions
  <2>1. Newest(made) = e
    BY <1>3, <1>6 DEF Newest
  <2> QED BY <1>6, <1>8, <1>9, <2>1 DEF TableFields
<1>11. /\ DOMAIN g = DOMAIN t.idMap \cup {o.id} /\ g[o.id] = e
       /\ \A x \in DOMAIN t.idMap : g[x] = t.idMap[x]
  BY <1>9 DEF Put
<1>12. Newest(u) = e
  BY <1>3, <1>10 DEF Newest
<1>13. ASSUME NEW k \in DOMAIN objs PROVE Inside(objs[k], DOMAIN g)
  <2>1. CASE k = e
    BY <1>4, <1>11, <2>1
  <2>2. CASE k # e
    <3>1. k \in DOMAIN t.objs /\ objs[k] = t.objs[k]
      BY <1>4, <2>2
    <3>2. Inside(t.objs[k], DOMAIN t.idMap)
      BY <3>1 DEF Tidied
    <3> QED BY <1>11, <3>1, <3>2 DEF Inside, Listed
  <2> QED BY <2>1, <2>2
<1>14. Tidied(u)
  BY <1>4, <1>10, <1>11, <1>13 DEF Tidied, Listed
<1>15. Solid(t) \subseteq Solid(u)
  BY <1>4, <1>10, <1>11 DEF Solid
<1>16. o.op # "forward" => o.id \in Solid(u)
  BY <1>4, <1>10, <1>11 DEF Solid
<1> QED BY <1>4, <1>10, <1>11, <1>12, <1>14, <1>15, <1>16 DEF Entering

LEMMA ForwardedEntryTidies ==
  ASSUME NEW t, Good(t), Tidied(t), NEW o, Blank(o), Inside(o, DOMAIN t.idMap),
         o.id \in DOMAIN t.idMap, t.objs[t.idMap[o.id]].op = "forward",
         NEW u, u = AddEntry(t, o)
  PROVE  Entering(t, o, u)
<1>1. Shaped(t)
  BY DEF Good, Sound
<1>2. PICK f : f = t.idMap[o.id]
  OBVIOUS
<1>3. PICK made : made = [t EXCEPT !.objs = Append(t.objs, o)]
  OBVIOUS
<1>4. PICK e : e = Newest(made)
  OBVIOUS
<1>5. Pending(made, f, e) /\ made.objs[f].op = "forward" /\ made.objs[f].id = o.id
      /\ u = ReplaceForward(made, f, e)
  <2>1. MadeForForward(t, o, made, f, e)
    BY <1>2, <1>3, <1>4 DEF MadeForForward
  <2> QED BY <2>1, ForwardedPending
<1>6. PICK objs : objs = Append(t.objs, o)
  OBVIOUS
<1>7. /\ DOMAIN objs = DOMAIN t.objs \cup {e} /\ e \notin DOMAIN t.objs
      /\ \A k \in DOMAIN t.objs : objs[k] = t.objs[k]
      /\ objs[e] = o
  <2>1. Appended(t.objs, o, objs)
    BY <1>1, <1>6, AppendFacts DEF Shaped
  <2>2. made.objs = objs
    BY <1>1, <1>3, <1>6 DEF Shaped, TableFields
  <2> QED BY <1>4, <2>1, <2>2 DEF Appended, Newest
<1>8. /\ made.objs = objs /\ made.idMap = t.idMap
      /\ made.named = t.named /\ made.groups = t.groups /\ made.entryPointSet = t.entryPointSet
      /\ made.strings = t.strings /\ made.globals = t.globals /\ made.functions = t.functions
  BY <1>1, <1>3, <1>6 DEF Shaped, TableFields
<1>9. Tidied(made) /\ Solid(t) \subseteq Solid(made)
  <2>1. \A k \in DOMAIN objs : Inside(objs[k], DOMAIN t.idMap)
    BY <1>7 DEF Tidied
  <2>2. Tidied(made)
    BY <1>7, <1>8, <2>1 DEF Tidied, Listed
  <2> QED BY <1>7, <1>8, <2>2 DEF Solid
<1>10. /\ Tidies(made, u)
       /\ DOMAIN u.objs = DOMAIN made.objs /\ Newest(u) = e
       /\ u.objs[e].op = made.objs[e].op /\ u.objs[e].id = made.objs[e].id
       /\ u.idMap[o.id] = e
  <2>1. /\ Tidies(made, u)
        /\ DOMAIN u.objs = DOMAIN made.objs /\ Newest(u) = Newest(made)
        /\ u.objs[e].op = made.objs[e].op /\ u.objs[e].id = made.objs[e].id
        /\ u.idMap[made.objs[f].id] = e
    BY <1>5, ReplaceForwardTidies
  <2> QED BY <1>4, <1>5, <2>1
<1>11. Tidied(u) /\ u.groups = made.groups /\ Solid(made) \subseteq Solid(u)
  BY <1>9, <1>10 DEF Tidies
<1>12. o.id \in DOMAIN u.idMap
  <2>1. DOMAIN u.idMap = DOMAIN made.idMap
    BY <1>5, ReplaceForwardGood
  <2> QED BY <1>8, <2>1
<1>13. e \in DOMAIN u.objs /\ u.objs[e].op = o.op /\ u.objs[e].id = o.id
  BY <1>7, <1>8, <1>10
<1>14. o.op # "forward" => o.id \in Solid(u)
  BY <1>10, <1>12, <1>13 DEF Solid
<1> QED BY <1>8, <1>9, <1>10, <1>11, <1>12, <1>13, <1>14 DEF Entering

\* Only a group is added to the groups.
GroupsAfter(t, o, u) == u.groups = IF o.op = "group" THEN Append(t.groups, o.id) ELSE t.groups
Adding(t, o, u) ==
  /\ Tidied(u) /\ GroupsAfter(t, o, u) /\ Solid(t) \subseteq Solid(u)
  /\ o.id \in DOMAIN u.idMap /\ (o.op # "forward" => o.id \in Solid(u))

LEMMA ListedMore ==
  ASSUME NEW s, NEW X, Listed(s, X), NEW x \in X, NEW a, a = Append(s, x)
  PROVE  Listed(a, X)
<1>1. IsSeq(s)
  BY DEF Listed
<1>2. Appended(s, x, a)
  BY <1>1, AppendFacts
<1> QED BY <1>2 DEF Appended, Listed

LEMMA LayoutAdding ==
  ASSUME NEW t, NEW o, NEW s, Shaped(s), Entering(t, o, s), NEW u, u = Layout(s, Newest(s))
  PROVE  Adding(t, o, u)
<1>1. PICK e : e = Newest(s)
  OBVIOUS
<1>2. /\ Tidied(s) /\ s.groups = t.groups /\ Solid(t) \subseteq Solid(s)
      /\ e \in DOMAIN s.objs /\ s.objs[e].op = o.op /\ s.objs[e].id = o.id
      /\ o.id \in DOMAIN s.idMap /\ (o.op # "forward" => o.id \in Solid(s))
  BY <1>1 DEF Entering
<1>3. /\ u.objs = s.objs /\ u.idMap = s.idMap
      /\ u.named = s.named /\ u.entryPointSet = s.entryPointSet
      /\ u.strings = IF o.op = "string" THEN Append(s.strings, e) ELSE s.strings
      /\ u.globals = IF o.op = "global" THEN Append(s.globals, e) ELSE s.globals
      /\ u.functions = IF o.op = "function" THEN Append(s.functions, e) ELSE s.functions
      /\ u.groups = IF o.op = "group" THEN Append(s.groups, o.id) ELSE s.groups
  BY <1>1, <1>2 DEF Layout, Shaped, TableFields
<1>4. /\ Listed(s.strings, DOMAIN s.objs) /\ Listed(s.globals, DOMAIN s.objs)
      /\ Listed(s.functions, DOMAIN s.objs)
  BY <1>2 DEF Tidied
<1>5. /\ Listed(u.strings, DOMAIN s.objs) /\ Listed(u.globals, DOMAIN s.objs)
      /\ Listed(u.functions, DOMAIN s.objs)
  <2>1. Listed(u.strings, DOMAIN s.objs)
    BY <1>2, <1>3, <1>4, ListedMore
  <2>2. Listed(u.globals, DOMAIN s.objs)
    BY <1>2, <1>3, <1>4, ListedMore
  <2>3. Listed(u.functions, DOMAIN s.objs)
    BY <1>2, <1>3, <1>4, ListedMore
  <2> QED BY <2>1, <2>2, <2>3
<1>6. Tidied(u)
  BY <1>2, <1>3, <1>5 DEF Tidied
<1>7. Solid(u) = Solid(s)
  BY <1>3 DEF Solid
<1> QED BY <1>2, <1>3, <1>6, <1>7 DEF Adding, GroupsAfter

LEMMA AddTidies ==
  ASSUME NEW t, Good(t), Tidied(t), NEW o, Blank(o), Inside(o, DOMAIN t.idMap \cup {o.id}),
         Addable(t, o.id), NEW u, u = Add(t, o)
  PROVE  Adding(t, o, u)
<1>1. PICK s : s = AddEntry(t, o)
  OBVIOUS
<1>2. Good(s) /\ Entering(t, o, s)
  <2>1. CASE o.id \notin DOMAIN t.idMap
    BY <1>1, <2>1, NewEntryGood, NewEntryTidies
  <2>2. CASE o.id \in DOMAIN t.idMap
    <3>1. t.objs[t.idMap[o.id]].op = "forward"
      BY <2>2, MappedFacts DEF Addable, IsForward
    <3>2. Inside(o, DOMAIN t.idMap)
      <4>1. DOMAIN t.idMap \cup {o.id} = DOMAIN t.idMap
        BY <2>2
      <4> QED BY <4>1
    <3> QED BY <1>1, <2>2, <3>1, <3>2, ForwardedEntryGood, ForwardedEntryTidies
  <2> QED BY <2>1, <2>2
<1>3. u = Layout(s, Newest(s))
  BY <1>1 DEF Add
<1> QED BY <1>2, <1>3, LayoutAdding DEF Good, Sound

-----------------------------------------------------------------------------
(***************************************************************************)
(* What else is called on the tables.                                      *)
(***************************************************************************)
LEMMA TakeIdsTidies ==
  ASSUME NEW t, Shaped(t), NEW n, NEW u, u = TakeIds(t, n)
  PROVE  Tidies(t, u)
<1>1. u.objs = t.objs /\ SameLists(t, u)
  BY DEF TakeIds, Shaped, TableFields, SameLists
<1> QED BY <1>1, SameFrame, FrameTidies

LEMMA AddLineTidies ==
  ASSUME NEW t, Shaped(t), NEW e, NEW string, NEW no, NEW u, u = AddLine(t, e, string, no)
  PROVE  Tidies(t, u)
<1>1. PICK o : o = [t.objs[e] EXCEPT !.line = Len(t.lines) + 1]
  OBVIOUS
<1>2. PICK lines : lines = Append(t.lines, [target |-> t.objs[e].id, string |-> string, no |-> no])
  OBVIOUS
<1>3. u = [t EXCEPT !.lines = lines, !.objs = [t.objs EXCEPT ![e] = o]]
  BY <1>1, <1>2 DEF AddLine, Shaped, TableFields
<1>4. u.objs = [t.objs EXCEPT ![e] = o] /\ SameLists(t, u)
  BY <1>3 DEF Shaped, TableFields, SameLists
<1>5. e \in DOMAIN t.objs => SameInside(t.objs[e], o)
  BY <1>1 DEF Shaped, EntryFields, SameInside
<1>6. Frame(t, u)
  BY <1>4, <1>5, EntryFrame
<1> QED BY <1>6, FrameTidies

LEMMA OtherFieldsTidy ==
  ASSUME NEW t, NEW u, Shaped(t),
         NEW strMap, NEW lines, u = [t EXCEPT !.strMap = strMap] \/ u = [t EXCEPT !.lines = lines]
  PROVE  Tidies(t, u) /\ DOMAIN u.idMap = DOMAIN t.idMap /\ u.nextId = t.nextId
<1>1. u.objs = t.objs /\ SameLists(t, u) /\ u.nextId = t.nextId
  BY DEF Shaped, TableFields, SameLists
<1> QED BY <1>1, SameFrame, FrameTidies DEF SameLists

LEMMA SetNameTidies ==
  ASSUME NEW t, Shaped(t), NEW e, NEW name, NEW u, u = SetName(t, e, name)
  PROVE  Tidies(t, u)
BY SetNameFrame, FrameTidies

LEMMA AddEntryPointTidies ==
  ASSUME NEW t, Shaped(t), NEW id \in DOMAIN t.idMap, NEW u, u = AddEntryPoint(t, id)
  PROVE  Tidies(t, u)
<1>1. /\ u.objs = t.objs /\ u.idMap = t.idMap /\ u.named = t.named /\ u.groups = t.groups
      /\ u.strings = t.strings /\ u.globals = t.globals /\ u.functions = t.functions
      /\ u.entryPointSet = t.entryPointSet \cup {id}
  BY DEF AddEntryPoint, Shaped, TableFields
<1>2. Tidied(t) => Tidied(u)
  BY <1>1 DEF Tidied
<1>3. Solid(u) = Solid(t)
  BY <1>1 DEF Solid
<1> QED BY <1>1, <1>2, <1>3 DEF Tidies

LEMMA AddModeTidies ==
  ASSUME NEW t, Shaped(t), NEW e, NEW kind, NEW literals,
         NEW u, u = AddExecutionMode(t, e, kind, literals)
  PROVE  Tidies(t, u)
<1>1. PICK modes : modes = Put(t.objs[e].modes, kind, literals)
  OBVIOUS
<1>2. u = [t EXCEPT !.objs[e].modes = modes]
  BY <1>1 DEF AddExecutionMode
<1>3. ASSUME Tidied(t) /\ e \in DOMAIN t.objs PROVE IsFiniteSet(DOMAIN modes)
  <2>1. IsFiniteSet(DOMAIN t.objs[e].modes)
    BY <1>3 DEF Tidied, Inside
  <2>2. DOMAIN modes = DOMAIN t.objs[e].modes \cup {kind}
    BY <1>1 DEF Put
  <2> QED BY <2>1, <2>2, FS_AddElement
<1> QED BY <1>2, <1>3, SetModesTidies

\* A new parameter or instruction of the entry e.
LEMMA ItemTidies ==
  ASSUME NEW t, Shaped(t), NEW e, NEW id \in DOMAIN t.idMap,
         NEW u, u = [t EXCEPT !.objs[e].items = Append(@, id)]
  PROVE  Tidies(t, u)
<1>1. PICK items : items = Append(t.objs[e].items, id)
  OBVIOUS
<1>2. u = [t EXCEPT !.objs[e].items = items]
  BY <1>1
<1>3. ASSUME Tidied(t) /\ e \in DOMAIN t.objs PROVE Listed(items, DOMAIN t.idMap)
  <2>1. Listed(t.objs[e].items, DOMAIN t.idMap)
    BY <1>3 DEF Tidied, Inside
  <2> QED BY <1>1, <2>1, ListedMore
<1> QED BY <1>2, <1>3, SetItemsTidies

\* An entry of which nothing is known yet, apart from its text.
LEMMA EmptyInside ==
  ASSUME NEW o, o.items = << >>, o.modes = << >>, NEW X
  PROVE  Inside(o, X)
<1>1. Listed(<< >>, X) /\ IsFiniteSet(DOMAIN << >>)
  <2>1. DOMAIN << >> = {} /\ << >> \in Seq({})
    OBVIOUS
  <2> QED BY <2>1, FS_EmptySet DEF Listed, IsSeq
<1> QED BY <1>1 DEF Inside

LEMMA EntryInside ==
  ASSUME NEW op, NEW id, NEW o, o = Entry(op, id)
  PROVE  Blank(o) /\ o.op = op /\ o.id = id /\ \A X : Inside(o, X)
<1>1. /\ DOMAIN o = EntryFields /\ o.name = "" /\ o.line = 0 /\ o.items = << >> /\ o.modes = << >>
      /\ o.op = op /\ o.id = id
  BY DEF Entry, EntryFields
<1>2. \A X : Inside(o, X)
  BY <1>1, EmptyInside
<1> QED BY <1>1, <1>2 DEF Blank

IsText(o, op, id, str) == o = [Entry(op, id) EXCEPT !.str = str]

LEMMA TextInside ==
  ASSUME NEW op, NEW id, NEW str, NEW o, IsText(o, op, id, str)
  PROVE  Blank(o) /\ o.op = op /\ o.id = id /\ \A X : Inside(o, X)
<1>1. /\ DOMAIN o = EntryFields /\ o.name = "" /\ o.line = 0 /\ o.items = << >> /\ o.modes = << >>
      /\ o.op = op /\ o.id = id
  BY DEF IsText, Entry, EntryFields
<1>2. \A X : Inside(o, X)
  BY <1>1, EmptyInside
<1> QED BY <1>1, <1>2 DEF Blank

-----------------------------------------------------------------------------
(***************************************************************************)
(* The translation adds no group, and leaves the tables tidy.              *)
(***************************************************************************)
LEMMA GoodShaped ==
  ASSUME NEW t, Good(t)
  PROVE  Shaped(t)
BY DEF Good, Sound

LEMMA AddNewTidies ==
  ASSUME NEW t, Good(t), NEW o, Blank(o), o.op # "group", o.id \notin DOMAIN t.idMap,
         Tidied(t) => Inside(o, DOMAIN t.idMap \cup {o.id}), NEW u, u = Add(t, o)
  PROVE  Tidies(t, u)
<1> SUFFICES ASSUME Tidied(t)
             PROVE  Tidied(u) /\ u.groups = t.groups /\ Solid(t) \subseteq Solid(u)
  BY DEF Tidies
<1>1. Addable(t, o.id)
  BY MappedFacts DEF Addable
<1>2. Inside(o, DOMAIN t.idMap \cup {o.id})
  OBVIOUS
<1>3. Adding(t, o, u)
  BY <1>1, <1>2, AddTidies
<1> QED BY <1>3 DEF Adding, GroupsAfter

LEMMA MadeTidies ==
  ASSUME NEW t, Built(t), NEW o, Blank(o), o.op # "group", o.id = t.nextId,
         \A X : Inside(o, X), NEW u, u = Add(TakeIds(t, 1), o)
  PROVE  Tidies(t, u)
<1>1. PICK taken : taken = TakeIds(t, 1)
  OBVIOUS
<1>2. Good(t) /\ Shaped(t)
  BY GoodShaped DEF Built
<1>3. Good(taken) /\ taken.idMap = t.idMap
  BY <1>1, <1>2, TakeIdsGood DEF Alike
<1>4. o.id \notin DOMAIN taken.idMap
  BY <1>3 DEF Built, Fresh
<1>5. u = Add(taken, o) /\ Inside(o, DOMAIN taken.idMap \cup {o.id})
  BY <1>1
<1>6. Tidies(taken, u)
  BY <1>3, <1>4, <1>5, AddNewTidies
<1>7. Tidies(t, taken)
  BY <1>1, <1>2, TakeIdsTidies
<1> QED BY <1>6, <1>7, TidiesTrans

LEMMA MakeTidies ==
  ASSUME NEW t, Built(t), NEW op, op # "group", NEW u, u = Make(t, op)
  PROVE  Tidies(t, u) /\ t.nextId \in DOMAIN u.idMap
<1>1. PICK o : o = Entry(op, t.nextId)
  OBVIOUS
<1>2. Blank(o) /\ o.id = t.nextId /\ o.op # "group" /\ \A X : Inside(o, X)
  BY <1>1, EntryInside
<1>3. u = Add(TakeIds(t, 1), o)
  BY <1>1 DEF Make
<1> QED BY <1>2, <1>3, MadeTidies, MadeBuilt

LEMMA GetStringTidies ==
  ASSUME NEW t, Built(t), NEW str, NEW u, u = GetString(t, str)
  PROVE  Tidies(t, u)
<1>1. CASE str \in DOMAIN t.strMap
  BY <1>1 DEF GetString, Tidies
<1>2. CASE str \notin DOMAIN t.strMap
  <2>1. PICK o : o = [Entry("string", t.nextId) EXCEPT !.str = str]
    OBVIOUS
  <2>2. Blank(o) /\ o.id = t.nextId /\ o.op # "group" /\ \A X : Inside(o, X)
    <3>1. IsText(o, "string", t.nextId, str)
      BY <2>1 DEF IsText
    <3>2. o.op = "string" /\ Blank(o) /\ o.id = t.nextId /\ \A X : Inside(o, X)
      BY <3>1, TextInside
    <3> QED BY <3>2
  <2>3. PICK added : added = Add(TakeIds(t, 1), o)
    OBVIOUS
  <2>4. Tidies(t, added) /\ Built(added)
    BY <2>2, <2>3, MadeTidies, MadeBuilt
  <2>5. PICK strMap : strMap = Put(added.strMap, str, t.nextId)
    OBVIOUS
  <2>6. u = [added EXCEPT !.strMap = strMap]
    BY <1>2, <2>1, <2>3, <2>5 DEF GetString
  <2>7. Shaped(added)
    BY <2>4, GoodShaped DEF Built
  <2>8. Tidies(added, u)
    BY <2>6, <2>7, OtherFieldsTidy
  <2> QED BY <2>4, <2>8, TidiesTrans
<1> QED BY <1>1, <1>2

LEMMA TransDbgInfoTidies ==
  ASSUME NEW t, Built(t), NEW e, NEW d, NEW u, u = TransDbgInfo(t, e, d)
  PROVE  Tidies(t, u)
<1>1. CASE d = NoDebugInfo
  BY <1>1 DEF TransDbgInfo, Tidies
<1>2. CASE d # NoDebugInfo
  <2>1. PICK s : s = GetString(t, d.file)
    OBVIOUS
  <2>2. Tidies(t, s) /\ Shaped(s)
    BY <2>1, GetStringTidies, GetStringBuilt, GoodShaped DEF Built
  <2>3. PICK id : id = s.strMap[d.file]
    OBVIOUS
  <2>4. u = AddLine(s, e, id, d.no)
    BY <1>2, <2>1, <2>3 DEF TransDbgInfo
  <2>5. Tidies(s, u)
    BY <2>2, <2>4, AddLineTidies
  <2> QED BY <2>2, <2>5, TidiesTrans
<1> QED BY <1>1, <1>2

LEMMA AnnotatedTidies ==
  ASSUME NEW t, Built(t), NEW e, Entered(t, e), NEW name, NEW d, NEW u, u = Annotated(t, e, name, d)
  PROVE  Tidies(t, u)
<1>1. PICK s : s = IF name = "" THEN t ELSE SetName(t, e, name)
  OBVIOUS
<1>2. Built(s) /\ Tidies(t, s)
  <2>1. CASE name = ""
    BY <1>1, <2>1 DEF Tidies
  <2>2. CASE name # ""
    <3>1. s = SetName(t, e, name) /\ Good(t) /\ Shaped(t)
      BY <1>1, <2>2, GoodShaped DEF Built
    <3>2. Good(s) /\ SameIds(t, s)
      BY <3>1, SetNameBuilt
    <3>3. Tidies(t, s)
      BY <3>1, SetNameTidies
    <3> QED BY <3>2, <3>3, SameIdsFresh DEF Built
  <2> QED BY <2>1, <2>2
<1>3. u = TransDbgInfo(s, e, d)
  BY <1>1 DEF Annotated
<1>4. Tidies(s, u)
  BY <1>2, <1>3, TransDbgInfoTidies
<1> QED BY <1>2, <1>4, TidiesTrans

LEMMA InBodyTidies ==
  ASSUME NEW t, Built(t), NEW id \in DOMAIN t.idMap, NEW u, u = InBody(t, id)
  PROVE  Tidies(t, u)
<1>1. u = [t EXCEPT !.objs[body].items = Append(@, id)]
  BY DEF InBody
<1> QED BY <1>1, ItemTidies, GoodShaped DEF Built

-----------------------------------------------------------------------------
(***************************************************************************)
(* The steps of the translation.                                           *)
(***************************************************************************)
LEMMA AddGlobalStep ==
  ASSUME IInv, AddGlobal
  PROVE  IInv' /\ Tidies(m, m')
<1>1. Built(m) /\ phase' = phase
  BY DEF IInv, Built, AddGlobal, Building, AfterInit
<1>2. PICK name : m' = Annotated(Make(m, "global"), Newest(Make(m, "global")), name, NoDebugInfo)
  BY DEF AddGlobal
<1>3. PICK t : t = Make(m, "global")
  OBVIOUS
<1>4. Built(t) /\ Entered(t, Newest(t)) /\ Tidies(m, t)
  BY <1>1, <1>3, MakeBuilt, MakeTidies
<1>5. m' = Annotated(t, Newest(t), name, NoDebugInfo)
  BY <1>2, <1>3
<1>6. Built(m') /\ Tidies(t, m')
  BY <1>4, <1>5, AnnotatedBuilt, AnnotatedTidies
<1> QED BY <1>4, <1>6, TidiesTrans DEF IInv, Built, Good, Fresh

LEMMA AddForwardStep ==
  ASSUME IInv, AddForward
  PROVE  IInv' /\ Tidies(m, m')
<1>1. Built(m) /\ phase' = phase
  BY DEF IInv, Built, AddForward, Building, AfterInit
<1>2. PICK name, d : m' = Annotated(Make(m, "forward"), Newest(Make(m, "forward")), name, d)
  BY DEF AddForward
<1>3. PICK t : t = Make(m, "forward")
  OBVIOUS
<1>4. Built(t) /\ Entered(t, Newest(t)) /\ Tidies(m, t)
  BY <1>1, <1>3, MakeBuilt, MakeTidies
<1>5. m' = Annotated(t, Newest(t), name, d)
  BY <1>2, <1>3
<1>6. Built(m') /\ Tidies(t, m')
  BY <1>4, <1>5, AnnotatedBuilt, AnnotatedTidies
<1> QED BY <1>4, <1>6, TidiesTrans DEF IInv, Built

LEMMA AddInstructionStep ==
  ASSUME IInv, AddInstruction
  PROVE  IInv' /\ Tidies(m, m')
<1>1. Built(m) /\ phase' = phase
  BY DEF IInv, Built, AddInstruction, Building, AfterInit
<1>2. PICK name, d : m' = Annotated(InBody(Make(m, "instruction"), m.nextId),
                                    Newest(Make(m, "instruction")), name, d)
  BY DEF AddInstruction
<1>3. PICK t : t = Make(m, "instruction")
  OBVIOUS
<1>4. Built(t) /\ Entered(t, Newest(t)) /\ Tidies(m, t) /\ m.nextId \in DOMAIN t.idMap
  BY <1>1, <1>3, MakeBuilt, MakeTidies
<1>5. PICK s : s = InBody(t, m.nextId)
  OBVIOUS
<1>6. Built(s) /\ Entered(s, Newest(t)) /\ Tidies(t, s)
  BY <1>4, <1>5, InBodyBuilt, InBodyTidies DEF Keeps
<1>7. m' = Annotated(s, Newest(t), name, d)
  BY <1>2, <1>3, <1>5
<1>8. Built(m') /\ Tidies(s, m')
  BY <1>6, <1>7, AnnotatedBuilt, AnnotatedTidies
<1>9. Tidies(m, s)
  BY <1>4, <1>6, TidiesTrans
<1> QED BY <1>8, <1>9, TidiesTrans DEF IInv, Built

LEMMA AddForwardedStep ==
  ASSUME IInv, AddForwarded
  PROVE  IInv' /\ Tidies(m, m')
<1>1. Built(m) /\ phase' = phase
  BY Zenon DEF IInv, Built, AddForwarded, Building, AfterInit
<1>2. PICK f \in Forwards :
        LET forward == m.objs[f]
            made    == Make(m, "instruction")
            e       == Newest(made)
            renamed == [made EXCEPT !.objs[e].id = forward.id]
            t       == ReplaceForward(renamed, f, e)
            d       == IF forward.line = 0 THEN NoDebugInfo
                       ELSE LET l == m.lines[forward.line]
                            IN [file |-> m.objs[m.idMap[l.string]].str, no |-> l.no]
        IN m' = Annotated(InBody(t, forward.id), e, forward.name, d)
  BY Zenon DEF AddForwarded
<1>3. PICK made : made = Make(m, "instruction")
  OBVIOUS
<1>4. PICK e : e = Newest(made)
  OBVIOUS
<1>5. /\ Built(made) /\ Keeps(m, made) /\ Entered(made, e) /\ Blank(made.objs[e])
      /\ made.objs[e].op = "instruction"
      /\ \A k \in DOMAIN m.objs : k \in DOMAIN made.objs /\ made.objs[k] = m.objs[k]
      /\ \A k : Entered(m, k) => k # e
      /\ Tidies(m, made)
  BY <1>1, <1>3, <1>4, MakeBuilt, MakeTidies
<1>6. Entered(m, f) /\ f \in DOMAIN m.objs /\ m.objs[f].op = "forward"
  BY <1>1 DEF Forwards, Built, Good, Sound, EntriesKnown, Entered
<1>7. /\ Entered(made, f) /\ e # f /\ made.objs[f] = m.objs[f]
      /\ made.objs[f].op = "forward" /\ made.objs[e].op # "forward"
      /\ made.objs[e].name = "" /\ made.objs[e].line = 0
  <2>1. Entered(made, f) /\ e # f /\ made.objs[f] = m.objs[f]
    BY <1>5, <1>6 DEF Keeps
  <2>2. made.objs[e].op # "forward"
    BY <1>5
  <2>3. made.objs[e].name = "" /\ made.objs[e].line = 0
    BY <1>5 DEF Blank
  <2> QED BY <1>6, <2>1, <2>2, <2>3
<1>8. PICK renamed : renamed = [made EXCEPT !.objs[e].id = made.objs[f].id]
  OBVIOUS
<1>9. Pending(renamed, f, e) /\ SameIds(made, renamed) /\ Tidies(made, renamed)
  BY <1>5, <1>7, <1>8, RenamedPending, RenamedTidies, GoodShaped DEF Built
<1>10. PICK t : t = ReplaceForward(renamed, f, e)
  OBVIOUS
<1>11. Good(t) /\ Entered(t, e) /\ DOMAIN t.idMap = DOMAIN renamed.idMap /\ t.nextId = renamed.nextId
  BY <1>9, <1>10, ReplaceForwardGood
<1>12. Tidies(renamed, t)
  <2>1. renamed.objs[f].op = "forward"
    BY <1>5, <1>7, <1>8, GoodShaped DEF Built, Shaped, TableFields, Entered
  <2> QED BY <1>9, <1>10, <2>1, ReplaceForwardTidies
<1>13. Built(t)
  <2>1. SameIds(made, t)
    BY <1>9, <1>11 DEF SameIds
  <2> QED BY <1>5, <1>11, <2>1, SameIdsFresh DEF Built
<1>14. PICK s : s = InBody(t, m.objs[f].id)
  OBVIOUS
<1>15. Built(s) /\ Entered(s, e) /\ Tidies(t, s)
  <2>1. m.objs[f].id \in DOMAIN t.idMap
    BY <1>5, <1>6, <1>9, <1>11 DEF Entered, Keeps, SameIds
  <2> QED BY <1>11, <1>13, <1>14, <2>1, InBodyBuilt, InBodyTidies DEF Keeps
<1>16. PICK name, d : m' = Annotated(s, e, name, d)
  BY <1>2, <1>3, <1>4, <1>7, <1>8, <1>10, <1>14, Zenon
<1>17. Built(m') /\ Tidies(s, m')
  BY <1>15, <1>16, AnnotatedBuilt, AnnotatedTidies
<1>18. Tidies(m, m')
  <2>1. Tidies(m, renamed)
    BY <1>5, <1>9, TidiesTrans
  <2>2. Tidies(m, t)
    BY <1>12, <2>1, TidiesTrans
  <2>3. Tidies(m, s)
    BY <1>15, <2>2, TidiesTrans
  <2> QED BY <1>17, <2>3, TidiesTrans
<1> QED BY <1>17, <1>18 DEF IInv, Built

LEMMA AddModeStep ==
  ASSUME IInv, AddMode
  PROVE  IInv' /\ Tidies(m, m')
<1>1. Built(m) /\ phase' = phase
  BY DEF IInv, Built, AddMode, Building, AfterInit
<1>2. PICK id, kind, literals : m' = AddExecutionMode(m, m.idMap[id], kind, literals)
  BY DEF AddMode
<1>3. PICK e : e = m.idMap[id]
  OBVIOUS
<1>4. PICK modes : modes = Put(m.objs[e].modes, kind, literals)
  OBVIOUS
<1>5. m' = [m EXCEPT !.objs[e].modes = modes]
  BY <1>2, <1>3, <1>4 DEF AddExecutionMode
<1>6. Good(m') /\ Alike(m, m') /\ m'.nextId = m.nextId
  BY <1>1, <1>5, SetModesGood, SMTT(30) DEF Built
<1>7. SameIds(m, m')
  BY <1>6, AlikeKeeps
<1>8. Fresh(m')
  BY <1>1, <1>7, SameIdsFresh DEF Built
<1>9. Tidies(m, m')
  BY <1>1, <1>2, AddModeTidies, GoodShaped DEF Built
<1> QED BY <1>6, <1>8, <1>9 DEF IInv

\* A function takes its id, and the parameter the one behind, before either is entered.
FunctionAdded(t, params, name, param, kernel, d) ==
  LET id      == t.nextId
      taken   == TakeIds(t, params + 1)
      withPar == IF params = 0 THEN taken ELSE Add(taken, Entry("parameter", id + 1))
      made    == Add(withPar, [Entry("function", id) EXCEPT
                   !.items = IF params = 0 THEN << >> ELSE <<id + 1>>])
      f       == Newest(made)
      called  == SetName(made, f, name)
      entered == IF kernel THEN AddEntryPoint(called, id) ELSE called
      parName == IF param = "" THEN entered ELSE SetName(entered, f - 1, param)
  IN TransDbgInfo(parName, f, d)

\* Only a parameter is named.
HasParameter(params, param) == param # "" => params # 0

LEMMA FunctionAddedBuilt ==
  ASSUME NEW t, Built(t), NEW params \in {0, 1}, NEW name,
         NEW param, HasParameter(params, param),
         NEW kernel, NEW d, NEW u, u = FunctionAdded(t, params, name, param, kernel, d)
  PROVE  Built(u) /\ Tidies(t, u)
<1>3. PICK id : id = t.nextId
  OBVIOUS
<1>4. PICK taken : taken = TakeIds(t, params + 1)
  OBVIOUS
<1>5. PICK withPar : withPar = IF params = 0 THEN taken ELSE Add(taken, Entry("parameter", id + 1))
  OBVIOUS
<1>6. PICK o : o = [Entry("function", id) EXCEPT !.items = IF params = 0 THEN << >> ELSE <<id + 1>>]
  OBVIOUS
<1>7. PICK made : made = Add(withPar, o)
  OBVIOUS
<1>8. PICK f : f = Newest(made)
  OBVIOUS
<1>9. PICK called : called = SetName(made, f, name)
  OBVIOUS
<1>10. PICK entered : entered = IF kernel THEN AddEntryPoint(called, id) ELSE called
  OBVIOUS
<1>11. PICK parName : parName = IF param = "" THEN entered ELSE SetName(entered, f - 1, param)
  OBVIOUS
<1>12. u = TransDbgInfo(parName, f, d)
  BY <1>3, <1>4, <1>5, <1>6, <1>7, <1>8, <1>9, <1>10, <1>11 DEF FunctionAdded
<1>13. /\ Good(taken) /\ taken.idMap = t.idMap /\ taken.nextId = id + (params + 1)
       /\ Tidies(t, taken)
  <2>1. PICK n : n = params + 1
    OBVIOUS
  <2>2. taken = TakeIds(t, n) /\ Good(t)
    BY <1>4, <2>1 DEF Built
  <2>3. Good(taken) /\ Alike(t, taken) /\ taken.nextId = t.nextId + n
    BY <2>2, TakeIdsGood
  <2>4. taken.nextId = id + (params + 1)
    BY <1>3, <2>1, <2>3
  <2>5. Tidies(t, taken)
    BY <2>2, TakeIdsTidies, GoodShaped
  <2> QED BY <2>3, <2>4, <2>5 DEF Alike
<1>14. id \in Nat /\ \A x \in DOMAIN t.idMap : x \in Nat /\ x < id
  BY <1>3 DEF Built, Fresh
<1>15. /\ Good(withPar) /\ withPar.nextId = taken.nextId
       /\ \A x \in DOMAIN withPar.idMap : x \in DOMAIN t.idMap \/ (params = 1 /\ x = id + 1)
       /\ params # 0 => Entered(withPar, Newest(withPar)) /\ id + 1 \in DOMAIN withPar.idMap
       /\ Tidies(taken, withPar)
  <2>1. CASE params = 0
    <3>1. withPar = taken
      BY <1>5, <2>1
    <3> QED BY <1>13, <2>1, <3>1 DEF Tidies
  <2>2. CASE params # 0
    <3>1. PICK p : p = Entry("parameter", id + 1)
      OBVIOUS
    <3>2. Blank(p) /\ p.id = id + 1 /\ p.op = "parameter" /\ \A X : Inside(p, X)
      BY <3>1, EntryInside
    <3>3. p.id \notin DOMAIN taken.idMap
      <4>1. \A x \in DOMAIN t.idMap : x # id + 1
        BY <1>14
      <4> QED BY <1>13, <3>2, <4>1
    <3>4. withPar = Add(taken, p)
      BY <1>5, <2>2, <3>1
    <3>5. Good(withPar) /\ Extends(taken, withPar, p.id, Newest(withPar))
      BY <1>13, <3>2, <3>3, <3>4, AddNewGood
    <3>6. withPar.nextId = taken.nextId /\ DOMAIN withPar.idMap = DOMAIN t.idMap \cup {id + 1}
      BY <1>13, <3>2, <3>5 DEF Extends
    <3>7. params = 1
      BY <2>2
    <3>8. Entered(withPar, Newest(withPar))
      BY <3>5 DEF Extends
    <3>9. Tidies(taken, withPar)
      BY <1>13, <3>2, <3>3, <3>4, AddNewTidies
    <3> QED BY <3>5, <3>6, <3>7, <3>8, <3>9
  <2> QED BY <2>1, <2>2
<1>16. /\ Blank(o) /\ o.id = id /\ o.op = "function"
       /\ Inside(o, DOMAIN withPar.idMap \cup {o.id})
  <2>1. PICK items : items = IF params = 0 THEN << >> ELSE <<id + 1>>
    OBVIOUS
  <2>2. /\ Blank(o) /\ o.id = id /\ o.op = "function" /\ o.items = items /\ o.modes = << >>
    BY <1>6, <2>1 DEF Blank, Entry, EntryFields
  <2>3. IsFiniteSet(DOMAIN o.modes)
    <3>1. DOMAIN << >> = {}
      OBVIOUS
    <3> QED BY <2>2, <3>1, FS_EmptySet
  <2>4. Listed(items, DOMAIN withPar.idMap \cup {o.id})
    <3>1. CASE params = 0
      <4>1. items = << >> /\ DOMAIN << >> = {} /\ << >> \in Seq({})
        BY <2>1, <3>1
      <4> QED BY <4>1 DEF Listed, IsSeq
    <3>2. CASE params # 0
      <4>1. items = <<id + 1>> /\ id + 1 \in DOMAIN withPar.idMap
        BY <1>15, <2>1, <3>2
      <4>2. DOMAIN items = {1} /\ items[1] = id + 1 /\ items \in Seq({id + 1})
        BY <4>1
      <4>3. {items[k] : k \in DOMAIN items} = {id + 1}
        BY <4>2
      <4> QED BY <4>1, <4>2, <4>3 DEF Listed, IsSeq
    <3> QED BY <3>1, <3>2
  <2> QED BY <2>2, <2>3, <2>4 DEF Inside
<1>17. o.id \notin DOMAIN withPar.idMap
  <2>1. \A x \in DOMAIN t.idMap : x # id
    BY <1>14
  <2>2. id + 1 # id
    BY <1>14
  <2>3. id \notin DOMAIN withPar.idMap
    BY <1>15, <2>1, <2>2
  <2> QED BY <1>16, <2>3
<1>18. /\ Good(made) /\ Extends(withPar, made, o.id, f) /\ f = Newest(withPar) + 1
       /\ Keeps(withPar, made) /\ Tidies(withPar, made)
  BY <1>7, <1>8, <1>15, <1>16, <1>17, AddNewGood, AddNewTidies
<1>19. Newest(withPar) \in Nat
  BY <1>15, SeqDomain DEF Good, Sound, Shaped, Newest
<1>20. Entered(made, f) /\ (params # 0 => Entered(made, f - 1))
  <2> DEFINE n == Newest(withPar)
  <2>1. n \in Nat /\ f = n + 1
    BY <1>18, <1>19
  <2> HIDE DEF n
  <2>2. f - 1 = n
    BY <2>1
  <2> QED BY <1>15, <1>18, <2>2 DEF Extends, Keeps, n
<1>21. Fresh(made)
  <2>1. DOMAIN made.idMap = DOMAIN withPar.idMap \cup {id} /\ made.nextId = id + (params + 1)
    BY <1>13, <1>15, <1>16, <1>18 DEF Extends
  <2>2. ASSUME NEW x \in DOMAIN made.idMap
        PROVE  x \in Nat /\ x < id + (params + 1)
    <3>1. \/ x \in DOMAIN t.idMap
          \/ x = id
          \/ params = 1 /\ x = id + 1
      BY <1>15, <2>1
    <3>2. CASE x \in DOMAIN t.idMap
      <4>1. x \in Nat /\ x < id /\ id \in Nat
        BY <1>14, <3>2
      <4> QED BY <4>1
    <3>3. CASE x = id
      BY <1>14, <3>3
    <3>4. CASE params = 1 /\ x = id + 1
      BY <1>14, <3>4
    <3> QED BY <3>1, <3>2, <3>3, <3>4
  <2>3. id + (params + 1) \in Nat
    BY <1>14
  <2> QED BY <2>1, <2>2, <2>3 DEF Fresh
<1>22. Good(called) /\ Keeps(made, called) /\ SameIds(made, called) /\ Tidies(made, called)
  BY <1>9, <1>18, <1>20, SetNameBuilt, SetNameTidies, GoodShaped
<1>23. /\ Good(entered) /\ Keeps(called, entered) /\ SameIds(called, entered)
       /\ Tidies(called, entered)
  <2>1. CASE kernel
    <3>1. entered = AddEntryPoint(called, id)
      BY <1>10, <2>1
    <3>2. id \in DOMAIN called.idMap
      BY <1>16, <1>18, <1>22 DEF Extends, SameIds
    <3> QED BY <1>22, <3>1, <3>2, AddEntryPointGood, AddEntryPointTidies, GoodShaped
  <2>2. CASE ~kernel
    BY <1>10, <1>22, <2>2 DEF Keeps, SameIds, Tidies
  <2> QED BY <2>1, <2>2
<1>24. Entered(entered, f) /\ (params # 0 => Entered(entered, f - 1))
  BY <1>20, <1>22, <1>23 DEF Keeps
<1>25. /\ Good(parName) /\ Entered(parName, f) /\ SameIds(entered, parName)
       /\ Tidies(entered, parName)
  <2>1. CASE param = ""
    BY <1>11, <1>23, <1>24, <2>1 DEF SameIds, Tidies
  <2>2. CASE param # ""
    <3>1. parName = SetName(entered, f - 1, param) /\ Entered(entered, f - 1)
      BY <1>11, <1>24, <2>2 DEF HasParameter
    <3>2. /\ Good(parName) /\ Keeps(entered, parName) /\ SameIds(entered, parName)
          /\ Tidies(entered, parName)
      BY <1>23, <3>1, SetNameBuilt, SetNameTidies, GoodShaped
    <3> QED BY <1>24, <3>2 DEF Keeps
  <2> QED BY <2>1, <2>2
<1>26. Fresh(parName)
  <2>1. SameIds(made, parName)
    BY <1>22, <1>23, <1>25 DEF SameIds
  <2> QED BY <1>21, <2>1, SameIdsFresh
<1>27. Tidies(t, parName)
  <2>1. Tidies(t, withPar)
    BY <1>13, <1>15, TidiesTrans
  <2>2. Tidies(t, made)
    BY <1>18, <2>1, TidiesTrans
  <2>3. Tidies(t, called)
    BY <1>22, <2>2, TidiesTrans
  <2>4. Tidies(t, entered)
    BY <1>23, <2>3, TidiesTrans
  <2> QED BY <1>25, <2>4, TidiesTrans
<1>28. Built(parName) /\ Entered(parName, f)
  BY <1>25, <1>26 DEF Built
<1>29. Built(u) /\ Tidies(parName, u)
  BY <1>12, <1>28, TransDbgInfoBuilt, TransDbgInfoTidies
<1> QED
  BY <1>27, <1>29, TidiesTrans

LEMMA AddFunctionStep ==
  ASSUME IInv, AddFunction
  PROVE  IInv' /\ Tidies(m, m')
<1>1. Built(m) /\ phase' = phase
  BY DEF IInv, Built, AddFunction, Building, AfterInit
<1>2. PICK params \in {0, 1}, name \in Names, param \in Names \cup {""},
           kernel \in BOOLEAN, d \in DebugInfo :
        (params = 0 => param = "") /\ m' = FunctionAdded(m, params, name, param, kernel, d)
  BY DEF AddFunction, FunctionAdded
<1>3. HasParameter(params, param)
  BY <1>2 DEF HasParameter
<1>4. Built(m') /\ Tidies(m, m')
  BY <1>1, <1>2, <1>3, FunctionAddedBuilt
<1> QED BY <1>4 DEF IInv, Built

-----------------------------------------------------------------------------
(***************************************************************************)
(* The steps of the decoder.  The ids of the file may be any.              *)
(***************************************************************************)
LEMMA EmptySound ==
  ASSUME NEW t, t.objs = << >>, t.idMap = << >>, t.named = {}, t.strMap = << >>, t.lines = << >>,
         t.entryPoints = << >>, t.entryPointSet = {}, DOMAIN t = TableFields
  PROVE  Good(t)
<1>1. IsSeq(<< >>) /\ DOMAIN << >> = {}
  BY DEF IsSeq
<1>2. Shaped(t)
  BY <1>1 DEF Shaped
<1>3. Linked(t) /\ ForwardsOnce(t) /\ LinesAgree(t) /\ NamesAgree(t)
  BY <1>1 DEF Linked, ForwardsOnce, LinesAgree, NamesAgree, NameAgrees
<1>4. LinesKnown(t) /\ StringsKnown(t) /\ EntriesKnown(t)
  BY <1>1 DEF LinesKnown, StringsKnown, EntriesKnown
<1>5. EntryPointsAgree(t)
  BY <1>1 DEF EntryPointsAgree, Range
<1> QED BY <1>2, <1>3, <1>4, <1>5 DEF Good, Sound

LEMMA EmptyGood ==
  ASSUME NEW n, NEW t, t = [Empty EXCEPT !.nextId = n]
  PROVE  Good(t) /\ t.nextId = n /\ t.idMap = << >>
<1>1. /\ t.objs = << >> /\ t.idMap = << >> /\ t.named = {} /\ t.strMap = << >> /\ t.lines = << >>
      /\ t.entryPoints = << >> /\ t.entryPointSet = {} /\ DOMAIN t = TableFields /\ t.nextId = n
  BY DEF Empty, TableFields
<1> QED BY <1>1, EmptySound

LEMMA EmptyBuilt == Built(Empty)
<1>1. PICK t : t = [Empty EXCEPT !.nextId = 1]
  OBVIOUS
<1>2. t = Empty
  BY <1>1 DEF Empty
<1>3. Good(t) /\ t.nextId = 1 /\ t.idMap = << >>
  BY <1>1, EmptyGood
<1>4. Fresh(t)
  BY <1>3 DEF Fresh
<1> QED BY <1>2, <1>3, <1>4 DEF Built

LEMMA TargetedGood ==
  ASSUME NEW t, Good(t), NEW id, NEW u, u = Targeted(t, id)
  PROVE  Good(u) /\ Keeps(t, u) /\ id \in DOMAIN u.idMap /\ Entered(u, u.idMap[id])
<1>1. CASE id \in DOMAIN t.idMap
  <2>1. u = t
    BY <1>1 DEF Targeted
  <2> QED BY <1>1, <2>1 DEF Good, Sound, Linked, Keeps
<1>2. CASE id \notin DOMAIN t.idMap
  <2>1. PICK o : o = Entry("forward", id)
    OBVIOUS
  <2>2. Blank(o) /\ o.id = id
    BY <2>1 DEF Blank, Entry, EntryFields
  <2>3. u = Add(t, o)
    BY <1>2, <2>1 DEF Targeted
  <2>4. Good(u) /\ Extends(t, u, id, Newest(u)) /\ Keeps(t, u)
    BY <1>2, <2>2, <2>3, AddNewGood
  <2> QED BY <2>4 DEF Extends, Entered
<1> QED BY <1>1, <1>2

LEMMA NamedGood ==
  ASSUME NEW t, Good(t), NEW id, NEW name, NEW u, u = Named(t, id, name)
  PROVE  Good(u)
<1>1. PICK s : s = Targeted(t, id)
  OBVIOUS
<1>2. Good(s) /\ Entered(s, s.idMap[id])
  BY <1>1, TargetedGood
<1>3. PICK e : e = s.idMap[id]
  OBVIOUS
<1>4. u = SetName(s, e, name) /\ Entered(s, e)
  BY <1>1, <1>2, <1>3 DEF Named
<1> QED BY <1>2, <1>4, SetNameBuilt

\* The second line that decode() leaves behind is on no entry.
LEMMA AppendLineGood ==
  ASSUME NEW t, Good(t), NEW l, DOMAIN l = LineFields,
         l.target \in DOMAIN t.idMap, l.string \in DOMAIN t.idMap,
         NEW u, u = [t EXCEPT !.lines = Append(@, l)]
  PROVE  Good(u)
<1>1. Shaped(t)
  BY DEF Good, Sound
<1>2. PICK lines : lines = Append(t.lines, l)
  OBVIOUS
<1>3. Appended(t.lines, l, lines)
  BY <1>1, <1>2, AppendFacts DEF Shaped
<1>4. PICK n : n = Len(lines)
  OBVIOUS
<1>5. /\ IsSeq(lines) /\ DOMAIN lines = DOMAIN t.lines \cup {n}
      /\ \A k \in DOMAIN t.lines : lines[k] = t.lines[k]
      /\ lines[n] = l
  BY <1>3, <1>4 DEF Appended
<1>6. /\ DOMAIN u = TableFields /\ u.objs = t.objs /\ u.idMap = t.idMap /\ u.lines = lines
      /\ u.strMap = t.strMap /\ u.nextId = t.nextId /\ u.named = t.named
      /\ u.entryPoints = t.entryPoints /\ u.entryPointSet = t.entryPointSet
  BY <1>1, <1>2 DEF Shaped, TableFields
<1>7. Shaped(u)
  <2>1. \A k \in DOMAIN lines : DOMAIN lines[k] = LineFields
    BY <1>1, <1>5 DEF Shaped
  <2> QED BY <1>1, <1>5, <1>6, <2>1 DEF Shaped
<1>8. Linked(u) /\ ForwardsOnce(u) /\ EntriesKnown(u)
  BY <1>6 DEF Good, Sound, Linked, ForwardsOnce, EntriesKnown, Entered
<1>9. LinesAgree(u)
  <2> SUFFICES ASSUME NEW id \in DOMAIN t.idMap PROVE HasItsLine(u, t.idMap[id])
    BY <1>6 DEF LinesAgree
  <2>1. HasItsLine(t, t.idMap[id])
    BY DEF Good, Sound, LinesAgree
  <2> QED BY <1>5, <1>6, <2>1 DEF HasItsLine
<1>10. LinesKnown(u)
  BY <1>5, <1>6 DEF Good, Sound, LinesKnown
<1>11. StringsKnown(u) /\ EntryPointsAgree(u)
  BY <1>6 DEF Good, Sound, StringsKnown, EntryPointsAgree
<1>12. NamesAgree(u)
  BY <1>6 DEF Good, NamesAgree, NameAgrees
<1> QED BY <1>7, <1>8, <1>9, <1>10, <1>11, <1>12 DEF Good, Sound

LEMMA DecodeLineGood ==
  ASSUME NEW t, Good(t), NEW ins, ins.string \in DOMAIN t.idMap, NEW u, u = DecodeLine(t, ins)
  PROVE  Good(u)
<1>1. PICK s : s = Targeted(t, ins.id)
  OBVIOUS
<1>2. PICK e : e = s.idMap[ins.id]
  OBVIOUS
<1>3. Good(s) /\ Keeps(t, s) /\ Entered(s, e)
  BY <1>1, <1>2, TargetedGood
<1>4. ins.id \in DOMAIN s.idMap
  BY <1>1, TargetedGood
<1>5. ins.string \in DOMAIN s.idMap
  BY <1>3 DEF Keeps
<1>6. PICK line : line = AddLine(s, e, ins.string, ins.no)
  OBVIOUS
<1>7. Good(line) /\ line.idMap = s.idMap
  BY <1>3, <1>5, <1>6, AddLineGood
<1>8. PICK l : l = [target |-> ins.id, string |-> ins.string, no |-> ins.no]
  OBVIOUS
<1>9. DOMAIN l = LineFields /\ l.target = ins.id /\ l.string = ins.string
  BY <1>8 DEF LineFields
<1>10. l.target \in DOMAIN line.idMap /\ l.string \in DOMAIN line.idMap
  BY <1>4, <1>5, <1>7, <1>9
<1>11. u = [line EXCEPT !.lines = Append(@, l)]
  BY <1>1, <1>2, <1>6, <1>8 DEF DecodeLine
<1> QED BY <1>7, <1>9, <1>10, <1>11, AppendLineGood

LEMMA DecodeGood ==
  ASSUME NEW t, Good(t), NEW ins, Decodable(t, ins), NEW u, u = Decode(t, ins)
  PROVE  Good(u)
<1>1. CASE ins.op = "entry point"
  <2>1. PICK s : s = Named(t, ins.id, ins.name)
    OBVIOUS
  <2>2. Good(s)
    BY <2>1, NamedGood
  <2>3. u = AddEntryPoint(s, ins.id)
    BY <1>1, <2>1 DEF Decode
  <2> QED BY <2>2, <2>3, AddEntryPointGood
<1>2. CASE ins.op = "name"
  <2>1. u = Named(t, ins.id, ins.name)
    BY <1>2 DEF Decode
  <2> QED BY <2>1, NamedGood
<1>3. CASE ins.op = "mode"
  <2>1. PICK s : s = Targeted(t, ins.id)
    OBVIOUS
  <2>2. Good(s)
    BY <2>1, TargetedGood
  <2>3. PICK e : e = s.idMap[ins.id]
    OBVIOUS
  <2>4. PICK modes : modes = Put(s.objs[e].modes, ins.kind, LiteralsRead(ins))
    OBVIOUS
  <2>5. u = AddExecutionMode(s, e, ins.kind, LiteralsRead(ins))
    BY <1>3, <2>1, <2>3 DEF Decode
  <2>6. u = [s EXCEPT !.objs[e].modes = modes]
    BY <2>4, <2>5 DEF AddExecutionMode
  <2> QED BY <2>2, <2>6, SetModesGood
<1>4. CASE ins.op = "line"
  <2>1. u = DecodeLine(t, ins)
    BY <1>4 DEF Decode
  <2>2. ins.string \in DOMAIN t.idMap
    BY <1>4 DEF Decodable
  <2> QED BY <2>1, <2>2, DecodeLineGood
<1>5. CASE ins.op \in {"parameter", "instruction"}
  <2>1. PICK o : o = Entry(ins.op, ins.id)
    OBVIOUS
  <2>2. Blank(o) /\ o.id = ins.id
    BY <2>1 DEF Blank, Entry, EntryFields
  <2>3. PICK s : s = Add(t, o)
    OBVIOUS
  <2>4. Good(s)
    BY <2>2, <2>3, AddGood DEF Decodable
  <2>5. PICK f : f = Last(s.functions)
    OBVIOUS
  <2>6. PICK items : items = Append(s.objs[f].items, ins.id)
    OBVIOUS
  <2>7. u = DecodeItem(t, ins)
    BY <1>5 DEF Decode
  <2>8. u = [s EXCEPT !.objs[f].items = items]
    BY <2>1, <2>3, <2>5, <2>6, <2>7, Zenon DEF DecodeItem
  <2> QED BY <2>4, <2>8, SetItemsGood
<1>6. CASE ins.op \notin {"entry point", "name", "mode", "line", "parameter", "instruction"}
  <2>1. PICK o : o = [Entry(ins.op, ins.id) EXCEPT !.str = ins.str]
    OBVIOUS
  <2>2. Blank(o) /\ o.id = ins.id
    BY <2>1 DEF Blank, Entry, EntryFields
  <2>3. u = Add(t, o)
    BY <1>6, <2>1 DEF Decode
  <2> QED BY <2>2, <2>3, AddGood DEF Decodable
<1> QED BY <1>1, <1>2, <1>3, <1>4, <1>5, <1>6

-----------------------------------------------------------------------------
(***************************************************************************)
(* What decode() does to the ids and the groups.                           *)
(***************************************************************************)
Annotates(t, id, u) ==
  DOMAIN u.idMap = DOMAIN t.idMap \cup {id} /\ u.nextId = t.nextId /\ Tidies(t, u)
Decodes(t, ins, u) ==
  /\ Tidied(u) /\ Solid(t) \subseteq Solid(u)
  /\ DOMAIN u.idMap = DOMAIN t.idMap \cup {ins.id} /\ u.nextId = t.nextId
  /\ \/ u.groups = t.groups
     \/ u.groups = Append(t.groups, ins.id) /\ ins.id \notin Solid(t) /\ ins.id \in Solid(u)

LEMMA AnnotatesFurther ==
  ASSUME NEW t, NEW id, NEW s, Annotates(t, id, s), NEW u, SameIds(s, u), Tidies(s, u)
  PROVE  Annotates(t, id, u)
BY TidiesTrans DEF Annotates, SameIds

LEMMA TargetedTidies ==
  ASSUME NEW t, Good(t), NEW id, NEW u, u = Targeted(t, id)
  PROVE  Annotates(t, id, u)
<1>1. CASE id \in DOMAIN t.idMap
  <2>1. u = t
    BY <1>1 DEF Targeted
  <2> QED BY <1>1, <2>1 DEF Annotates, Tidies
<1>2. CASE id \notin DOMAIN t.idMap
  <2>1. PICK o : o = Entry("forward", id)
    OBVIOUS
  <2>2. Blank(o) /\ o.id = id /\ o.op = "forward" /\ \A X : Inside(o, X)
    BY <2>1, EntryInside
  <2>3. u = Add(t, o)
    BY <1>2, <2>1 DEF Targeted
  <2>4. DOMAIN u.idMap = DOMAIN t.idMap \cup {id} /\ u.nextId = t.nextId
    BY <1>2, <2>2, <2>3, AddNewGood DEF Extends
  <2>5. Tidies(t, u)
    BY <1>2, <2>2, <2>3, AddNewTidies
  <2> QED BY <2>4, <2>5 DEF Annotates
<1> QED BY <1>1, <1>2

LEMMA NamedTidies ==
  ASSUME NEW t, Good(t), NEW id, NEW name, NEW u, u = Named(t, id, name)
  PROVE  Annotates(t, id, u)
<1>1. PICK s : s = Targeted(t, id)
  OBVIOUS
<1>2. Annotates(t, id, s) /\ Good(s) /\ Entered(s, s.idMap[id])
  BY <1>1, TargetedTidies, TargetedGood
<1>3. PICK e : e = s.idMap[id]
  OBVIOUS
<1>4. u = SetName(s, e, name) /\ Entered(s, e)
  BY <1>1, <1>2, <1>3 DEF Named
<1>5. SameIds(s, u) /\ Tidies(s, u)
  BY <1>2, <1>4, SetNameBuilt, SetNameTidies, GoodShaped
<1> QED BY <1>2, <1>5, AnnotatesFurther

LEMMA DecodeLineTidies ==
  ASSUME NEW t, Good(t), NEW ins, ins.string \in DOMAIN t.idMap, NEW u, u = DecodeLine(t, ins)
  PROVE  Annotates(t, ins.id, u)
<1>1. PICK s : s = Targeted(t, ins.id)
  OBVIOUS
<1>2. PICK e : e = s.idMap[ins.id]
  OBVIOUS
<1>3. Good(s) /\ Keeps(t, s) /\ Entered(s, e) /\ Annotates(t, ins.id, s)
  BY <1>1, <1>2, TargetedGood, TargetedTidies
<1>4. PICK line : line = AddLine(s, e, ins.string, ins.no)
  OBVIOUS
<1>5. ins.string \in DOMAIN s.idMap
  BY <1>3 DEF Keeps
<1>6. Good(line) /\ SameIds(s, line) /\ Tidies(s, line)
  BY <1>3, <1>4, <1>5, AddLineGood, AddLineTidies, GoodShaped
<1>7. PICK lines : lines = Append(line.lines, [target |-> ins.id, string |-> ins.string, no |-> ins.no])
  OBVIOUS
<1>8. u = [line EXCEPT !.lines = lines]
  BY <1>1, <1>2, <1>4, <1>7 DEF DecodeLine
<1>9. SameIds(line, u) /\ Tidies(line, u)
  BY <1>6, <1>8, OtherFieldsTidy, GoodShaped DEF SameIds
<1>10. Annotates(t, ins.id, line)
  BY <1>3, <1>6, AnnotatesFurther
<1> QED BY <1>9, <1>10, AnnotatesFurther

LEMMA AnnotationDecodes ==
  ASSUME NEW t, Tidied(t), NEW ins, NEW u, Annotates(t, ins.id, u)
  PROVE  Decodes(t, ins, u)
BY DEF Annotates, Tidies, Decodes

LEMMA AddDecodes ==
  ASSUME NEW t, Good(t), Tidied(t), NEW ins, Decodable(t, ins),
         NEW o, Blank(o), o.id = ins.id, \A X : Inside(o, X), NEW u, u = Add(t, o)
  PROVE  Decodes(t, ins, u) /\ Good(u)
<1>1. Addable(t, o.id) /\ Inside(o, DOMAIN t.idMap \cup {o.id})
  BY DEF Decodable
<1>2. Adding(t, o, u) /\ Good(u) /\ DOMAIN u.idMap = DOMAIN t.idMap \cup {o.id} /\ u.nextId = t.nextId
  BY <1>1, AddTidies, AddGood
<1>3. CASE o.op = "group"
  <2>1. ins.id \notin Solid(t)
    BY <1>1, MappedFacts DEF Addable, IsForward, Solid
  <2> QED BY <1>2, <1>3, <2>1 DEF Adding, GroupsAfter, Decodes
<1>4. CASE o.op # "group"
  BY <1>2, <1>4 DEF Adding, GroupsAfter, Decodes
<1> QED BY <1>3, <1>4

LEMMA DecodeDecodes ==
  ASSUME NEW t, Good(t), Tidied(t), NEW ins, Decodable(t, ins), NEW u, u = Decode(t, ins)
  PROVE  Decodes(t, ins, u)
<1>1. CASE ins.op = "entry point"
  <2>1. PICK s : s = Named(t, ins.id, ins.name)
    OBVIOUS
  <2>2. Good(s) /\ Annotates(t, ins.id, s)
    BY <2>1, NamedGood, NamedTidies
  <2>3. u = AddEntryPoint(s, ins.id)
    BY <1>1, <2>1 DEF Decode
  <2>4. ins.id \in DOMAIN s.idMap
    BY <2>2 DEF Annotates
  <2>5. SameIds(s, u) /\ Tidies(s, u)
    BY <2>2, <2>3, <2>4, AddEntryPointGood, AddEntryPointTidies, GoodShaped
  <2> QED BY <2>2, <2>5, AnnotatesFurther, AnnotationDecodes
<1>2. CASE ins.op = "name"
  <2>1. u = Named(t, ins.id, ins.name)
    BY <1>2 DEF Decode
  <2> QED BY <2>1, NamedTidies, AnnotationDecodes
<1>3. CASE ins.op = "mode"
  <2>1. PICK s : s = Targeted(t, ins.id)
    OBVIOUS
  <2>2. Good(s) /\ Annotates(t, ins.id, s)
    BY <2>1, TargetedGood, TargetedTidies
  <2>3. PICK e : e = s.idMap[ins.id]
    OBVIOUS
  <2>4. PICK modes : modes = Put(s.objs[e].modes, ins.kind, LiteralsRead(ins))
    OBVIOUS
  <2>5. u = AddExecutionMode(s, e, ins.kind, LiteralsRead(ins))
    BY <1>3, <2>1, <2>3 DEF Decode
  <2>6. u = [s EXCEPT !.objs[e].modes = modes]
    BY <2>4, <2>5 DEF AddExecutionMode
  <2>7. SameIds(s, u)
    BY <2>2, <2>6, SetModesGood, AlikeKeeps
  <2>8. Tidies(s, u)
    BY <2>2, <2>5, AddModeTidies, GoodShaped
  <2> QED BY <2>2, <2>7, <2>8, AnnotatesFurther, AnnotationDecodes
<1>4. CASE ins.op = "line"
  <2>1. u = DecodeLine(t, ins)
    BY <1>4 DEF Decode
  <2>2. ins.string \in DOMAIN t.idMap
    BY <1>4 DEF Decodable
  <2> QED BY <2>1, <2>2, DecodeLineTidies, AnnotationDecodes
<1>5. CASE ins.op \in {"parameter", "instruction"}
  <2>1. PICK o : o = Entry(ins.op, ins.id)
    OBVIOUS
  <2>2. Blank(o) /\ o.id = ins.id /\ \A X : Inside(o, X)
    BY <2>1, EntryInside
  <2>3. PICK s : s = Add(t, o)
    OBVIOUS
  <2>4. Decodes(t, ins, s) /\ Good(s)
    BY <2>2, <2>3, AddDecodes
  <2>5. PICK f : f = Last(s.functions)
    OBVIOUS
  <2>6. PICK items : items = Append(s.objs[f].items, ins.id)
    OBVIOUS
  <2>7. u = DecodeItem(t, ins)
    BY <1>5 DEF Decode
  <2>8. u = [s EXCEPT !.objs[f].items = items]
    BY <2>1, <2>3, <2>5, <2>6, <2>7, Zenon DEF DecodeItem
  <2>9. SameIds(s, u)
    BY <2>4, <2>8, SetItemsGood, AlikeKeeps
  <2>10. Tidies(s, u)
    <3>1. u = [s EXCEPT !.objs[f].items = Append(@, ins.id)]
      BY <2>6, <2>8
    <3>2. ins.id \in DOMAIN s.idMap /\ Shaped(s)
      BY <2>4, GoodShaped DEF Decodes
    <3> QED BY <3>1, <3>2, ItemTidies
  <2>11. Tidied(u) /\ u.groups = s.groups /\ Solid(s) \subseteq Solid(u)
    BY <2>4, <2>10 DEF Decodes, Tidies
  <2> QED BY <2>4, <2>9, <2>11 DEF Decodes, SameIds
<1>6. CASE ins.op \notin {"entry point", "name", "mode", "line", "parameter", "instruction"}
  <2>1. PICK o : o = [Entry(ins.op, ins.id) EXCEPT !.str = ins.str]
    OBVIOUS
  <2>2. Blank(o) /\ o.id = ins.id /\ \A X : Inside(o, X)
    <3>1. IsText(o, ins.op, ins.id, ins.str)
      BY <2>1 DEF IsText
    <3> QED BY <3>1, TextInside
  <2>3. u = Add(t, o)
    BY <1>6, <2>1 DEF Decode
  <2> QED BY <2>2, <2>3, AddDecodes
<1> QED BY <1>1, <1>2, <1>3, <1>4, <1>5, <1>6

-----------------------------------------------------------------------------
(***************************************************************************)
(* The ids of what operator<< writes are ids of the tables.                *)
(***************************************************************************)
IdsIn(s, X) == IsSeq(s) /\ \A k \in DOMAIN s : s[k].id \in X

LEMMA FunctionIsSeq ==
  ASSUME NEW n \in Nat, NEW S, NEW s \in [1 .. n -> S]
  PROVE  IsSeq(s) /\ Len(s) = n /\ DOMAIN s = 1 .. n
<1>1. s \in Seq(S) /\ Len(s) = n /\ DOMAIN s = 1 .. n
  OBVIOUS
<1>2. PICK T : T = {s[k] : k \in DOMAIN s}
  OBVIOUS
<1>3. s \in [1 .. n -> T]
  BY <1>1, <1>2
<1>4. s \in Seq(T)
  BY <1>3
<1> QED BY <1>1, <1>2, <1>4 DEF IsSeq

LEMMA SequenceIsSeq ==
  ASSUME NEW S, NEW s \in Seq(S)
  PROVE  IsSeq(s)
<1>1. Len(s) \in Nat /\ s \in [1 .. Len(s) -> S]
  OBVIOUS
<1> QED BY <1>1, FunctionIsSeq

\* A sequence made of another one, element by element.
LEMMA MappedIds ==
  ASSUME NEW es, IsSeq(es), NEW X, NEW s, DOMAIN s = DOMAIN es, s = [k \in DOMAIN es |-> s[k]],
         \A k \in DOMAIN es : s[k].id \in X
  PROVE  IdsIn(s, X)
<1>1. Len(es) \in Nat /\ DOMAIN es = 1 .. Len(es)
  BY SeqDomain
<1>2. s \in [1 .. Len(es) -> {s[k] : k \in DOMAIN es}]
  BY <1>1
<1>3. IsSeq(s)
  BY <1>1, <1>2, FunctionIsSeq
<1> QED BY <1>3 DEF IdsIn

LEMMA JoinedIds ==
  ASSUME NEW X, NEW a, IdsIn(a, X), NEW b, IdsIn(b, X), NEW c, c = a \o b
  PROVE  IdsIn(c, X)
<1>1. PICK A, B : A = {a[k] : k \in DOMAIN a} /\ B = {b[k] : k \in DOMAIN b}
  OBVIOUS
<1>2. a \in Seq(A \cup B) /\ b \in Seq(A \cup B)
  BY <1>1 DEF IdsIn, IsSeq
<1>3. c \in Seq(A \cup B)
  BY <1>2
<1>4. \A x \in A \cup B : x.id \in X
  BY <1>1 DEF IdsIn
<1>5. \A k \in DOMAIN c : c[k] \in A \cup B
  BY <1>3
<1> QED BY <1>3, <1>4, <1>5, SequenceIsSeq DEF IdsIn

LEMMA FlattenedIds ==
  ASSUME NEW X, NEW ss, IsSeq(ss), \A k \in DOMAIN ss : IdsIn(ss[k], X), NEW c, c = FlattenSeq(ss)
  PROVE  IdsIn(c, X)
<1>1. PICK S : S = UNION {{ss[k][i] : i \in DOMAIN ss[k]} : k \in DOMAIN ss}
  OBVIOUS
<1>2. \A x \in S : x.id \in X
  BY <1>1 DEF IdsIn
<1>3. ASSUME NEW k \in DOMAIN ss PROVE ss[k] \in Seq(S)
  <2>1. PICK T : T = {ss[k][i] : i \in DOMAIN ss[k]}
    OBVIOUS
  <2>2. ss[k] \in Seq(T) /\ T \subseteq S
    BY <1>1, <2>1 DEF IdsIn, IsSeq
  <2> QED BY <2>2
<1>4. ss \in Seq(Seq(S))
  <2>1. PICK Q : Q = Seq(S)
    OBVIOUS
  <2>2. Len(ss) \in Nat /\ DOMAIN ss = 1 .. Len(ss)
    BY SeqDomain
  <2>3. PICK V : V = {ss[k] : k \in DOMAIN ss}
    OBVIOUS
  <2>4. ss \in Seq(V) /\ V \subseteq Q
    BY <1>3, <2>1, <2>3 DEF IsSeq
  <2>5. ss \in Seq(Q)
    BY <2>4
  <2> QED BY <2>1, <2>5
<1>5. PICK f \in [Nat -> Seq(S)] : c = f[Len(ss)]
  BY <1>4, FlattenRuns
<1>6. Len(ss) \in Nat
  BY SeqDomain
<1>7. c \in Seq(S)
  <2>1. PICK Q : Q = Seq(S)
    OBVIOUS
  <2>2. c \in Q
    BY <1>5, <1>6, <2>1
  <2> QED BY <2>1, <2>2
<1>8. \A k \in DOMAIN c : c[k] \in S
  BY <1>7
<1> QED BY <1>2, <1>7, <1>8, SequenceIsSeq DEF IdsIn

LEMMA SetToSeqIsSeq ==
  ASSUME NEW D, IsFiniteSet(D)
  PROVE  IsSeq(SetToSeq(D))
<1>1. PICK n \in Nat : n = Cardinality(D)
  BY FS_CardinalityType
<1>2. ExistsBijection(1 .. n, D)
  BY <1>1, FS_CardinalityType
<1>3. \E f \in [1 .. n -> D] : IsInjective(f)
  BY <1>2 DEF ExistsBijection, Bijection, Injection
<1>4. PICK s : s = CHOOSE f \in [1 .. n -> D] : IsInjective(f)
  OBVIOUS
<1>5. s \in [1 .. n -> D]
  BY <1>3, <1>4
<1>6. SetToSeq(D) = s
  BY <1>1, <1>4 DEF SetToSeq
<1> QED BY <1>5, <1>6, FunctionIsSeq

\* A set of ids can be walked through in their order.
IsAscending(s, ids) ==
  s \in [1 .. Cardinality(ids) -> ids] /\ \A i, j \in DOMAIN s : i < j => s[i] < s[j]
HasOrder(ids) == IsFiniteSet(ids) /\ \E s : IsAscending(s, ids)

LEMMA AscendingExists ==
  ASSUME NEW N \in Nat, NEW ids, ids \subseteq {i \in Nat : i < N}
  PROVE  HasOrder(ids)
<1> DEFINE Below(n) == {i \in Nat : i < n}
           Y == {n \in Nat : \A I \in SUBSET Below(n) : HasOrder(I)}
<1>1. 0 \in Y
  <2>1. SUBSET Below(0) = {{}}
    OBVIOUS
  <2>2. HasOrder({})
    <3>1. IsFiniteSet({}) /\ Cardinality({}) = 0
      BY FS_EmptySet
    <3>2. << >> \in [1 .. 0 -> {}] /\ DOMAIN << >> = {}
      OBVIOUS
    <3>3. IsAscending(<< >>, {})
      BY <3>1, <3>2 DEF IsAscending
    <3> QED BY <3>1, <3>3 DEF HasOrder
  <2> QED BY <2>1, <2>2
<1>2. ASSUME NEW n \in Y PROVE n + 1 \in Y
  <2>1. n \in Nat /\ \A I \in SUBSET Below(n) : HasOrder(I)
    OBVIOUS
  <2>2. ASSUME NEW I \in SUBSET Below(n + 1) PROVE HasOrder(I)
    <3>1. PICK J : J = I \ {n}
      OBVIOUS
    <3>2. J \in SUBSET Below(n)
      BY <2>1, <3>1
    <3>3. HasOrder(J)
      BY <2>1, <3>2
    <3>4. CASE n \notin I
      BY <3>1, <3>3, <3>4
    <3>5. CASE n \in I
      <4>1. PICK s : IsAscending(s, J)
        BY <3>3 DEF HasOrder
      <4>2. PICK c : c = Cardinality(J)
        OBVIOUS
      <4>3. I = J \cup {n} /\ n \notin J
        BY <3>1, <3>5
      <4>4. IsFiniteSet(I) /\ c \in Nat /\ Cardinality(I) = c + 1
        BY <3>3, <4>2, <4>3, FS_AddElement, FS_CardinalityType DEF HasOrder
      <4>5. s \in [1 .. c -> J] /\ \A i, j \in 1 .. c : i < j => s[i] < s[j]
        BY <4>1, <4>2 DEF IsAscending
      <4>6. PICK r : r = [k \in 1 .. (c + 1) |-> IF k = c + 1 THEN n ELSE s[k]]
        OBVIOUS
      <4>7. r \in [1 .. (c + 1) -> I]
        BY <4>3, <4>4, <4>5, <4>6
      <4>8. ASSUME NEW i \in 1 .. (c + 1), NEW j \in 1 .. (c + 1), i < j PROVE r[i] < r[j]
        <5>1. i \in 1 .. c /\ r[i] = s[i]
          BY <4>4, <4>6, <4>8
        <5>2. s[i] \in J
          BY <4>5, <5>1
        <5>3. s[i] \in Nat /\ s[i] < n
          BY <3>2, <5>2
        <5>4. CASE j = c + 1
          BY <4>4, <4>6, <5>1, <5>3, <5>4
        <5>5. CASE j # c + 1
          <6>1. j \in 1 .. c /\ r[j] = s[j]
            BY <4>4, <4>6, <5>5
          <6> QED BY <4>5, <4>8, <5>1, <6>1
        <5> QED BY <5>4, <5>5
      <4>9. IsAscending(r, I)
        BY <4>4, <4>7, <4>8 DEF IsAscending
      <4> QED BY <4>4, <4>9 DEF HasOrder
    <3> QED BY <3>4, <3>5
  <2> QED BY <2>1, <2>2
<1> HIDE DEF Y
<1>3. Y \in SUBSET Nat
  BY DEF Y
<1>4. Y = Nat
  BY <1>1, <1>2, <1>3, SetInduction
<1> QED BY <1>4 DEF Y

LEMMA AscendingIsSeq ==
  ASSUME NEW N \in Nat, NEW ids, ids \subseteq {i \in Nat : i < N}, NEW s, s = Ascending(ids)
  PROVE  IsSeq(s) /\ \A k \in DOMAIN s : s[k] \in ids
<1>1. HasOrder(ids)
  BY AscendingExists
<1>2. PICK n \in Nat : n = Cardinality(ids)
  BY <1>1, FS_CardinalityType DEF HasOrder
<1>3. \E r \in [1 .. n -> ids] : \A i, j \in DOMAIN r : i < j => r[i] < r[j]
  BY <1>1, <1>2 DEF HasOrder, IsAscending
<1>4. s = CHOOSE r \in [1 .. n -> ids] : \A i, j \in DOMAIN r : i < j => r[i] < r[j]
  BY <1>2 DEF Ascending
<1>5. s \in [1 .. n -> ids]
  BY <1>3, <1>4
<1> QED BY <1>5, FunctionIsSeq

\* What operator<< needs of the tables.
Writable(t) == Good(t) /\ Tidied(t) /\ Fresh(t) /\ IsSeq(t.groups)
IdsOfTables(t) == DOMAIN t.idMap \cup Range(t.groups)

LEMMA ListedJoined ==
  ASSUME NEW X, NEW a, Listed(a, X), NEW b, Listed(b, X), NEW c, c = a \o b
  PROVE  Listed(c, X)
<1>1. PICK A, B : A = {a[k] : k \in DOMAIN a} /\ B = {b[k] : k \in DOMAIN b}
  OBVIOUS
<1>2. a \in Seq(A \cup B) /\ b \in Seq(A \cup B) /\ A \cup B \subseteq X
  BY <1>1 DEF Listed, IsSeq
<1>3. c \in Seq(A \cup B)
  BY <1>2
<1>4. \A k \in DOMAIN c : c[k] \in X
  BY <1>2, <1>3
<1> QED BY <1>3, <1>4, SequenceIsSeq DEF Listed

LEMMA EntriesWrittenIds ==
  ASSUME NEW t, Writable(t), NEW es, Listed(es, DOMAIN t.objs), NEW s, s = EntriesWritten(t, es)
  PROVE  IdsIn(s, IdsOfTables(t))
<1>1. /\ DOMAIN s = DOMAIN es
      /\ \A k \in DOMAIN es :
           s[k] = [op |-> t.objs[es[k]].op, id |-> t.objs[es[k]].id, str |-> t.objs[es[k]].str]
      /\ s = [k \in DOMAIN es |-> s[k]]
  BY DEF EntriesWritten
<1>2. ASSUME NEW k \in DOMAIN es PROVE s[k].id \in IdsOfTables(t)
  <2>1. t.objs[es[k]].id \in DOMAIN t.idMap
    BY DEF Listed, Writable, Good, Sound, EntriesKnown
  <2>2. PICK o : o = t.objs[es[k]]
    OBVIOUS
  <2>3. s[k] = [op |-> o.op, id |-> o.id, str |-> o.str]
    BY <1>1, <2>2
  <2>4. s[k].id = o.id
    BY <2>3
  <2> QED BY <2>1, <2>2, <2>4 DEF IdsOfTables
<1> QED BY <1>1, <1>2, MappedIds DEF Listed

LEMMA EntryPointsWrittenIds ==
  ASSUME NEW t, Writable(t), NEW s, s = EntryPointsWritten(t)
  PROVE  IdsIn(s, IdsOfTables(t)) /\ \A k \in DOMAIN t.entryPoints : t.entryPoints[k] \in DOMAIN t.idMap
<1>1. PICK es : es = t.entryPoints
  OBVIOUS
<1>2. IsSeq(es)
  BY <1>1, GoodShaped DEF Writable, Shaped
<1>3. \A k \in DOMAIN es : es[k] \in DOMAIN t.idMap
  BY <1>1 DEF Writable, Good, Sound, EntryPointsAgree, Tidied, Range
<1>4. /\ DOMAIN s = DOMAIN es /\ s = [k \in DOMAIN es |-> s[k]]
      /\ \A k \in DOMAIN es : s[k].id = es[k]
  BY <1>1 DEF EntryPointsWritten
<1>5. \A k \in DOMAIN es : s[k].id \in IdsOfTables(t)
  BY <1>3, <1>4 DEF IdsOfTables
<1> QED BY <1>1, <1>2, <1>3, <1>4, <1>5, MappedIds

LEMMA ModesWrittenIds ==
  ASSUME NEW t, Writable(t), NEW s, s = ModesWritten(t)
  PROVE  IdsIn(s, IdsOfTables(t))
<1>1. PICK es : es = t.entryPoints
  OBVIOUS
<1>2. IsSeq(es) /\ \A k \in DOMAIN es : es[k] \in DOMAIN t.idMap
  BY <1>1, EntryPointsWrittenIds, GoodShaped DEF Writable, Shaped
<1>3. PICK ss : ss = [k \in DOMAIN t.entryPoints |->
        LET modes == Function(t, t.entryPoints[k]).modes
            kinds == SetToSeq(DOMAIN modes)
        IN [i \in DOMAIN kinds |->
              [op |-> "mode", id |-> t.entryPoints[k], kind |-> kinds[i],
               literals |-> modes[kinds[i]]]]]
  OBVIOUS
<1>4. s = FlattenSeq(ss)
  BY <1>3 DEF ModesWritten
<1>5. ASSUME NEW k \in DOMAIN es PROVE IdsIn(ss[k], IdsOfTables(t))
  <2>1. PICK modes : modes = Function(t, es[k]).modes
    OBVIOUS
  <2>2. PICK kinds : kinds = SetToSeq(DOMAIN modes)
    OBVIOUS
  <2>3. IsSeq(kinds)
    <3>1. t.idMap[es[k]] \in DOMAIN t.objs
      BY <1>2 DEF Writable, Good, Sound, Linked, Entered
    <3>2. IsFiniteSet(DOMAIN modes)
      BY <2>1, <3>1 DEF Function, Writable, Tidied, Inside
    <3> QED BY <2>2, <3>2, SetToSeqIsSeq
  <2>4. PICK r : r = [i \in DOMAIN kinds |->
          [op |-> "mode", id |-> es[k], kind |-> kinds[i], literals |-> modes[kinds[i]]]]
    OBVIOUS
  <2>5. ss[k] = r
    BY <1>1, <1>3, <2>1, <2>2, <2>4
  <2>6. /\ DOMAIN r = DOMAIN kinds /\ r = [i \in DOMAIN kinds |-> r[i]]
        /\ \A i \in DOMAIN kinds : r[i].id = es[k]
    BY <2>4
  <2>7. \A i \in DOMAIN kinds : r[i].id \in IdsOfTables(t)
    BY <1>2, <2>6 DEF IdsOfTables
  <2>8. IdsIn(r, IdsOfTables(t))
    BY <2>3, <2>6, <2>7, MappedIds
  <2> QED BY <2>5, <2>8
<1>6. IsSeq(ss) /\ DOMAIN ss = DOMAIN es
  <2>1. DOMAIN ss = DOMAIN es /\ Len(es) \in Nat /\ DOMAIN es = 1 .. Len(es)
    BY <1>1, <1>2, <1>3, SeqDomain
  <2>2. ss \in [1 .. Len(es) -> {ss[k] : k \in DOMAIN es}]
    BY <1>1, <1>3, <2>1
  <2> QED BY <2>1, <2>2, FunctionIsSeq
<1> QED BY <1>4, <1>5, <1>6, FlattenedIds

LEMMA FunctionsWrittenIds ==
  ASSUME NEW t, Writable(t), NEW s, s = FunctionsWritten(t)
  PROVE  IdsIn(s, IdsOfTables(t))
<1>1. PICK fs : fs = t.functions
  OBVIOUS
<1>2. IsSeq(fs) /\ \A k \in DOMAIN fs : fs[k] \in DOMAIN t.objs
  BY <1>1 DEF Writable, Tidied, Listed
<1>3. PICK ss : ss = [k \in DOMAIN t.functions |->
        LET f == t.functions[k]
            items == t.objs[f].items
        IN EntriesWritten(t, <<f>> \o [i \in DOMAIN items |-> t.idMap[items[i]]])]
  OBVIOUS
<1>4. s = FlattenSeq(ss)
  BY <1>3, Zenon DEF FunctionsWritten
<1>5. ASSUME NEW k \in DOMAIN fs PROVE IdsIn(ss[k], IdsOfTables(t))
  <2>1. PICK items : items = t.objs[fs[k]].items
    OBVIOUS
  <2>2. Listed(items, DOMAIN t.idMap)
    BY <1>2, <2>1 DEF Writable, Tidied, Inside
  <2>3. PICK g : g = [i \in DOMAIN items |-> t.idMap[items[i]]]
    OBVIOUS
  <2>4. Listed(g, DOMAIN t.objs)
    <3>1. Len(items) \in Nat /\ DOMAIN items = 1 .. Len(items)
      BY <2>2, SeqDomain DEF Listed
    <3>2. \A i \in DOMAIN items : g[i] \in DOMAIN t.objs
      BY <2>2, <2>3 DEF Listed, Writable, Good, Sound, Linked, Entered
    <3>3. g \in [1 .. Len(items) -> DOMAIN t.objs] /\ DOMAIN g = DOMAIN items
      BY <2>3, <3>1, <3>2
    <3> QED BY <3>1, <3>2, <3>3, FunctionIsSeq DEF Listed
  <2>5. PICK f : f = <<fs[k]>>
    OBVIOUS
  <2>6. Listed(f, DOMAIN t.objs)
    <3>1. PICK D : D = DOMAIN t.objs
      OBVIOUS
    <3>2. PICK x \in D : x = fs[k]
      BY <1>2, <3>1
    <3>3. f = <<x>> /\ f \in Seq(D) /\ DOMAIN f = {1} /\ f[1] = x
      BY <2>5, <3>2
    <3>4. IsSeq(f)
      BY <3>3, SequenceIsSeq
    <3> QED BY <3>1, <3>3, <3>4 DEF Listed
  <2>7. PICK es : es = f \o g
    OBVIOUS
  <2>8. Listed(es, DOMAIN t.objs)
    BY <2>4, <2>6, <2>7, ListedJoined
  <2>9. ss[k] = EntriesWritten(t, es)
    BY <1>1, <1>3, <2>1, <2>3, <2>5, <2>7, Zenon
  <2> QED BY <2>8, <2>9, EntriesWrittenIds
<1>6. IsSeq(ss) /\ DOMAIN ss = DOMAIN fs
  <2>1. DOMAIN ss = DOMAIN fs /\ Len(fs) \in Nat /\ DOMAIN fs = 1 .. Len(fs)
    BY <1>1, <1>2, <1>3, SeqDomain
  <2>2. ss \in [1 .. Len(fs) -> {ss[k] : k \in DOMAIN fs}]
    BY <1>1, <1>3, <2>1, Zenon
  <2> QED BY <2>1, <2>2, FunctionIsSeq
<1> QED BY <1>4, <1>5, <1>6, FlattenedIds

LEMMA NamesWrittenIds ==
  ASSUME NEW t, Writable(t), NEW s, s = NamesWritten(t)
  PROVE  IdsIn(s, IdsOfTables(t))
<1>1. PICK named : named = t.named \ t.entryPointSet
  OBVIOUS
<1>2. named \subseteq DOMAIN t.idMap
  BY <1>1 DEF Writable, Good, NamesAgree, NameAgrees
<1>3. PICK N \in Nat : N = t.nextId
  BY DEF Writable, Fresh
<1>4. named \subseteq {i \in Nat : i < N}
  BY <1>2, <1>3 DEF Writable, Fresh
<1>5. PICK ids : ids = Ascending(named)
  OBVIOUS
<1>6. IsSeq(ids) /\ \A k \in DOMAIN ids : ids[k] \in named
  BY <1>4, <1>5, AscendingIsSeq
<1>7. s = [k \in DOMAIN ids |-> [op |-> "name", id |-> ids[k], name |-> t.objs[t.idMap[ids[k]]].name]]
  BY <1>1, <1>5 DEF NamesWritten
<1>8. /\ DOMAIN s = DOMAIN ids /\ s = [k \in DOMAIN ids |-> s[k]]
      /\ \A k \in DOMAIN ids : s[k].id = ids[k]
  BY <1>7
<1>9. \A k \in DOMAIN ids : s[k].id \in IdsOfTables(t)
  BY <1>2, <1>6, <1>8 DEF IdsOfTables
<1> QED BY <1>6, <1>8, <1>9, MappedIds

LEMMA LinesWrittenIds ==
  ASSUME NEW t, Writable(t), NEW s, s = LinesWritten(t)
  PROVE  IdsIn(s, IdsOfTables(t))
<1>1. PICK ls : ls = t.lines
  OBVIOUS
<1>2. IsSeq(ls) /\ \A k \in DOMAIN ls : ls[k].target \in DOMAIN t.idMap
  BY <1>1, GoodShaped DEF Writable, Shaped, Good, Sound, LinesKnown
<1>3. /\ DOMAIN s = DOMAIN ls /\ s = [k \in DOMAIN ls |-> s[k]]
      /\ \A k \in DOMAIN ls : s[k].id = ls[k].target
  BY <1>1 DEF LinesWritten
<1>4. \A k \in DOMAIN ls : s[k].id \in IdsOfTables(t)
  BY <1>2, <1>3 DEF IdsOfTables
<1> QED BY <1>2, <1>3, <1>4, MappedIds

LEMMA GroupsWrittenIds ==
  ASSUME NEW t, Writable(t),
         NEW s, s = [k \in DOMAIN t.groups |-> [op |-> "group", id |-> t.groups[k], str |-> ""]]
  PROVE  IdsIn(s, IdsOfTables(t))
<1>1. PICK gs : gs = t.groups
  OBVIOUS
<1>2. IsSeq(gs)
  BY <1>1 DEF Writable
<1>3. /\ DOMAIN s = DOMAIN gs /\ s = [k \in DOMAIN gs |-> s[k]]
      /\ \A k \in DOMAIN gs : s[k].id = gs[k]
  BY <1>1
<1>4. \A k \in DOMAIN gs : s[k].id \in IdsOfTables(t)
  BY <1>1, <1>3 DEF IdsOfTables, Range
<1> QED BY <1>2, <1>3, <1>4, MappedIds, ZenonT(60)

LEMMA InstructionsIds ==
  ASSUME NEW t, Writable(t), NEW s, s = Instructions(t)
  PROVE  IdsIn(s, IdsOfTables(t))
<1>1. PICK X : X = IdsOfTables(t)
  OBVIOUS
<1>2. PICK a, b, c, d : /\ a = EntryPointsWritten(t) /\ b = ModesWritten(t)
                        /\ c = EntriesWritten(t, t.strings) /\ d = NamesWritten(t)
  OBVIOUS
<1>3. PICK e, f, g, h : /\ e = LinesWritten(t)
                        /\ f = [k \in DOMAIN t.groups |-> [op |-> "group", id |-> t.groups[k], str |-> ""]]
                        /\ g = EntriesWritten(t, t.globals) /\ h = FunctionsWritten(t)
  OBVIOUS
<1>4. IdsIn(a, X) /\ IdsIn(b, X) /\ IdsIn(d, X) /\ IdsIn(e, X) /\ IdsIn(h, X)
  BY <1>1, <1>2, <1>3, EntryPointsWrittenIds, ModesWrittenIds, NamesWrittenIds, LinesWrittenIds,
     FunctionsWrittenIds
<1>5. IdsIn(c, X) /\ IdsIn(g, X)
  <2>1. Listed(t.strings, DOMAIN t.objs) /\ Listed(t.globals, DOMAIN t.objs)
    BY DEF Writable, Tidied
  <2> QED BY <1>1, <1>2, <1>3, <2>1, EntriesWrittenIds
<1>6. IdsIn(f, X)
  BY <1>1, <1>3, GroupsWrittenIds
<1>7. s = a \o b \o c \o d \o e \o f \o g \o h
  BY <1>2, <1>3 DEF Instructions
<1>8. PICK ab, abc, abcd : ab = a \o b /\ abc = ab \o c /\ abcd = abc \o d
  OBVIOUS
<1>9. PICK ae, af, ag : ae = abcd \o e /\ af = ae \o f /\ ag = af \o g
  OBVIOUS
<1>10. s = ag \o h
  BY <1>7, <1>8, <1>9
<1>11. IdsIn(ab, X)
  BY <1>4, <1>8, JoinedIds
<1>12. IdsIn(abc, X)
  BY <1>5, <1>8, <1>11, JoinedIds
<1>13. IdsIn(abcd, X)
  BY <1>4, <1>8, <1>12, JoinedIds
<1>14. IdsIn(ae, X)
  BY <1>4, <1>9, <1>13, JoinedIds
<1>15. IdsIn(af, X)
  BY <1>6, <1>9, <1>14, JoinedIds
<1>16. IdsIn(ag, X)
  BY <1>5, <1>9, <1>15, JoinedIds
<1> QED BY <1>1, <1>4, <1>10, <1>16, JoinedIds

-----------------------------------------------------------------------------
(***************************************************************************)
(* The theorem.                                                            *)
(***************************************************************************)
LEMMA InitIInv ==
  ASSUME Init
  PROVE  IInv
<1>1. m = Empty
  BY DEF Init
<1> QED BY <1>1, EmptyBuilt DEF IInv, Built

LEMMA StartReadingStep ==
  ASSUME IInv, StartReading
  PROVE  IInv'
<1>1. m' = [Empty EXCEPT !.nextId = file.bound] /\ phase' = "reading"
  BY DEF StartReading
<1>2. Good(m')
  BY <1>1, EmptyGood
<1> QED BY <1>1, <1>2 DEF IInv

LEMMA ReadInstructionStep ==
  ASSUME IInv, ReadInstruction
  PROVE  IInv'
<1>1. PICK ins : ins = Head(left)
  OBVIOUS
<1>2. m' = Decode(m, ins) /\ Decodable(m, ins) /\ phase' = "reading"
  BY <1>1 DEF ReadInstruction
<1>3. Good(m')
  BY <1>2, DecodeGood DEF IInv
<1> QED BY <1>2, <1>3 DEF IInv

\* A group of decorations is not entered.
LEMMA OptimizedGood ==
  ASSUME NEW t, Good(t), NEW u \in Optimized(t)
  PROVE  Good(u)
<1>1. CASE u = t
  BY <1>1
<1>2. CASE u = [TakeIds(t, 1) EXCEPT !.groups = Append(@, t.nextId)]
  <2>1. PICK s : s = TakeIds(t, 1)
    OBVIOUS
  <2>2. Good(s)
    BY <2>1, TakeIdsGood
  <2>3. PICK groups : groups = Append(s.groups, t.nextId)
    OBVIOUS
  <2>4. u = [s EXCEPT !.groups = groups]
    BY <1>2, <2>1, <2>3
  <2>5. Shaped(s)
    BY <2>2 DEF Good, Sound
  <2>6. /\ DOMAIN u = TableFields /\ u.objs = s.objs
        /\ u.idMap = s.idMap /\ u.lines = s.lines /\ u.strMap = s.strMap /\ u.nextId = s.nextId
        /\ u.entryPoints = s.entryPoints /\ u.entryPointSet = s.entryPointSet /\ u.named = s.named
    BY <2>4, <2>5 DEF Shaped, TableFields
  <2>7. Alike(s, u) /\ AlikeNames(s, u)
    BY <2>5, <2>6 DEF Alike, AlikeNames, Shaped, SameEntry
  <2> QED BY <2>2, <2>7, AlikeGood
<1> QED BY <1>1, <1>2 DEF Optimized

LEMMA FinishReadingStep ==
  ASSUME IInv, FinishReading
  PROVE  IInv'
<1>1. m' \in Optimized(m) /\ phase' = "read"
  BY DEF FinishReading
<1>2. Good(m')
  BY <1>1, OptimizedGood DEF IInv
<1> QED BY <1>1, <1>2 DEF IInv

LEMMA NextIInv ==
  ASSUME IInv, [Next]_vars
  PROVE  IInv'
<1>1. CASE AddGlobal
  BY <1>1, AddGlobalStep
<1>2. CASE AddFunction
  BY <1>2, AddFunctionStep
<1>3. CASE StartBody
  BY <1>3 DEF StartBody, AfterInit, IInv
<1>4. CASE AddForward
  BY <1>4, AddForwardStep
<1>5. CASE AddInstruction
  BY <1>5, AddInstructionStep
<1>6. CASE AddForwarded
  BY <1>6, AddForwardedStep
<1>7. CASE AddMode
  BY <1>7, AddModeStep
<1>8. CASE Write
  BY <1>8 DEF Write, IInv
<1>9. CASE StartReading
  BY <1>9, StartReadingStep
<1>10. CASE ReadInstruction
  BY <1>10, ReadInstructionStep
<1>11. CASE AssertionFails
  BY <1>11 DEF AssertionFails, IInv
<1>12. CASE FinishReading
  BY <1>12, FinishReadingStep
<1>13. CASE UNCHANGED vars
  BY <1>13 DEF vars, IInv
<1> QED BY <1>1, <1>2, <1>3, <1>4, <1>5, <1>6, <1>7, <1>8, <1>9, <1>10, <1>11, <1>12, <1>13
        DEF Next

LEMMA IInvTablesAgree ==
  ASSUME IInv
  PROVE  TablesAgree
<1>1. Good(m)
  BY DEF IInv
<1>2. \A id \in DOMAIN m.idMap : Entered(m, m.idMap[id])
  BY <1>1 DEF Good, Sound, Linked
<1>3. \A id \in DOMAIN m.idMap : m.idMap[m.objs[m.idMap[id]].id] = m.idMap[id]
  BY <1>2 DEF Entered
<1>4. m.named = {m.objs[m.idMap[id]].id : id \in {i \in DOMAIN m.idMap :
                   m.objs[m.idMap[i]].name # ""}}
  <2>1. ASSUME NEW x \in m.named
        PROVE  x \in DOMAIN m.idMap /\ m.objs[m.idMap[x]].id = x /\ m.objs[m.idMap[x]].name # ""
    BY <1>1 DEF Good, NamesAgree, NameAgrees
  <2>2. ASSUME NEW id \in DOMAIN m.idMap, m.objs[m.idMap[id]].name # ""
        PROVE  m.objs[m.idMap[id]].id \in m.named
    <3>1. PICK x : x = m.objs[m.idMap[id]].id
      OBVIOUS
    <3>2. x \in DOMAIN m.idMap /\ m.idMap[x] = m.idMap[id]
      BY <1>2, <3>1 DEF Entered
    <3>3. NameAgrees(m, x)
      BY <1>1 DEF Good, NamesAgree
    <3> QED BY <2>2, <3>1, <3>2, <3>3 DEF NameAgrees
  <2> QED BY <2>1, <2>2, ZenonT(60)
<1>5. m.entryPointSet = Range(m.entryPoints)
  BY <1>1 DEF Good, Sound, EntryPointsAgree
<1>6. \A id \in DOMAIN m.idMap :
        m.objs[m.idMap[id]].line # 0 =>
          m.lines[m.objs[m.idMap[id]].line].target = m.objs[m.idMap[id]].id
  BY <1>1 DEF Good, Sound, LinesAgree, HasItsLine
<1>7. \A k \in DOMAIN m.lines :
        m.lines[k].target \in DOMAIN m.idMap /\ m.lines[k].string \in DOMAIN m.idMap
  BY <1>1 DEF Good, Sound, LinesKnown
<1> QED BY <1>3, <1>4, <1>5, <1>6, <1>7 DEF TablesAgree

\* The tables agree whatever is translated and whatever is read: NamedId and the names,
\* the two tables of entry points, the lines and the entries they are on, the ids and the
\* entries under them (addEntry, replaceForward, setName, addLine, addEntryPoint).
THEOREM TablesAgreeHolds == Spec => []TablesAgree
<1>1. Init => IInv
  BY InitIInv
<1>2. IInv /\ [Next]_vars => IInv'
  BY NextIInv
<1>3. IInv => TablesAgree
  BY IInvTablesAgree
<1> QED BY <1>1, <1>2, <1>3, PTL DEF Spec

-----------------------------------------------------------------------------
(***************************************************************************)
(* FreshIds.                                                               *)
(***************************************************************************)
Below(n)       == {i \in Nat : i < n}
GroupsFresh(t) ==
  /\ IsSeq(t.groups) /\ \A k \in DOMAIN t.groups : t.groups[k] \in Below(t.nextId)
  /\ \A i, j \in DOMAIN t.groups : i # j => t.groups[i] # t.groups[j]
Numbered(t)    == Tidied(t) /\ Fresh(t) /\ GroupsFresh(t)
FInv ==
  /\ Numbered(m)
  /\ file.bound \in Nat /\ IdsIn(file.instructions, Below(file.bound))
  /\ phase = "building" => m.groups = << >>
  /\ phase = "reading" => Range(m.groups) \subseteq Solid(m) /\ IdsIn(left, Below(m.nextId))

LEMMA EmptyNumbered ==
  ASSUME NEW n \in Nat, NEW t, t = [Empty EXCEPT !.nextId = n]
  PROVE  Numbered(t) /\ t.nextId = n /\ t.groups = << >> /\ Range(t.groups) = {}
<1>1. /\ t.objs = << >> /\ t.idMap = << >> /\ t.named = {} /\ t.entryPointSet = {}
      /\ t.groups = << >> /\ t.strings = << >> /\ t.globals = << >> /\ t.functions = << >>
      /\ t.nextId = n
  BY DEF Empty
<1>2. DOMAIN << >> = {} /\ IsSeq(<< >>)
  BY DEF IsSeq
<1>3. Tidied(t)
  BY <1>1, <1>2, FS_EmptySet DEF Tidied, Listed
<1>4. Fresh(t) /\ GroupsFresh(t)
  BY <1>1, <1>2 DEF Fresh, GroupsFresh
<1> QED BY <1>1, <1>2, <1>3, <1>4 DEF Numbered, Range

LEMMA InitFInv ==
  ASSUME Init
  PROVE  FInv
<1>1. m = Empty /\ phase # "reading"
  BY DEF Init
<1>2. Numbered(m) /\ m.groups = << >>
  <2>1. PICK t : t = [Empty EXCEPT !.nextId = 1]
    OBVIOUS
  <2>2. t = m
    BY <1>1, <2>1 DEF Empty
  <2> QED BY <2>1, <2>2, EmptyNumbered
<1>3. file.bound \in Nat /\ IdsIn(file.instructions, Below(file.bound))
  <2>1. CASE file = [bound |-> 0, instructions |-> << >>]
    <3>1. IsSeq(<< >>) /\ DOMAIN << >> = {}
      BY DEF IsSeq
    <3> QED BY <2>1, <3>1 DEF IdsIn
  <2>2. CASE file \in Files
    <3>1. /\ file.bound \in Nat /\ file.instructions \in Seq(Range(file.instructions))
          /\ \A j \in DOMAIN file.instructions : file.instructions[j].id \in 1 .. file.bound - 1
      BY <2>2, FilesAssumption
    <3>2. IsSeq(file.instructions)
      BY <3>1, SequenceIsSeq
    <3>3. 1 .. file.bound - 1 \subseteq Below(file.bound)
      BY <3>1 DEF Below
    <3> QED BY <3>1, <3>2, <3>3 DEF IdsIn
  <2> QED BY <2>1, <2>2 DEF Init
<1> QED BY <1>1, <1>2, <1>3 DEF FInv

\* A step of the translation.
LEMMA BuildingStep ==
  ASSUME FInv, phase = "building", phase' = phase, file' = file, Tidies(m, m'), Fresh(m')
  PROVE  FInv'
<1>1. Tidied(m') /\ m'.groups = << >>
  BY DEF FInv, Numbered, Tidies
<1>2. GroupsFresh(m')
  <2>1. DOMAIN << >> = {} /\ IsSeq(<< >>)
    BY DEF IsSeq
  <2> QED BY <1>1, <2>1 DEF GroupsFresh
<1>3. Numbered(m')
  BY <1>1, <1>2 DEF Numbered
<1>4. file'.bound \in Nat /\ IdsIn(file'.instructions, Below(file'.bound))
  BY DEF FInv
<1> QED BY <1>1, <1>3, <1>4 DEF FInv

LEMMA OptimizedNumbered ==
  ASSUME NEW t, Good(t), Numbered(t), NEW u \in Optimized(t)
  PROVE  Numbered(u)
<1>1. CASE u = t
  BY <1>1
<1>2. CASE u = [TakeIds(t, 1) EXCEPT !.groups = Append(@, t.nextId)]
  <2>1. PICK n \in Nat : n = t.nextId
    BY DEF Numbered, Fresh
  <2>2. PICK groups : groups = Append(t.groups, n)
    OBVIOUS
  <2>3. u = [t EXCEPT !.nextId = n + 1, !.groups = groups]
    BY <1>2, <2>1, <2>2, GoodShaped DEF TakeIds, Shaped, TableFields
  <2>4. /\ u.objs = t.objs /\ u.idMap = t.idMap /\ u.named = t.named
        /\ u.entryPointSet = t.entryPointSet /\ u.nextId = n + 1 /\ u.groups = groups
        /\ u.strings = t.strings /\ u.globals = t.globals /\ u.functions = t.functions
    BY <2>3, GoodShaped DEF Shaped, TableFields
  <2>5. Tidied(u)
    BY <2>4 DEF Numbered, Tidied
  <2>6. Fresh(u)
    BY <2>1, <2>4 DEF Numbered, Fresh
  <2>7. Appended(t.groups, n, groups)
    BY <2>2, AppendFacts DEF Numbered, GroupsFresh
  <2>8. \A k \in DOMAIN t.groups : t.groups[k] \in Nat /\ t.groups[k] < n
    BY <2>1 DEF Numbered, GroupsFresh, Below
  <2>9. GroupsFresh(u)
    <3>1. ASSUME NEW k \in DOMAIN groups PROVE groups[k] \in Below(n + 1)
      <4>1. CASE k \in DOMAIN t.groups
        <5>1. groups[k] = t.groups[k]
          BY <2>7, <4>1 DEF Appended
        <5>2. groups[k] \in Nat /\ groups[k] < n
          BY <2>8, <4>1, <5>1
        <5> QED BY <5>2 DEF Below
      <4>2. CASE k \notin DOMAIN t.groups
        BY <2>7, <4>2 DEF Appended, Below
      <4> QED BY <4>1, <4>2
    <3>2. ASSUME NEW i \in DOMAIN groups, NEW j \in DOMAIN groups, i # j
          PROVE  groups[i] # groups[j]
      BY <2>7, <2>8, <3>2 DEF Appended, Numbered, GroupsFresh
    <3> QED BY <2>4, <2>7, <3>1, <3>2 DEF GroupsFresh, Appended
  <2> QED BY <2>5, <2>6, <2>9 DEF Numbered
<1> QED BY <1>1, <1>2 DEF Optimized

\* The file: its bound is above its ids.
LEMMA WriteFresh ==
  ASSUME IInv, FInv, Write
  PROVE  FInv'
<1>1. source' \in Optimized(m)
  BY DEF Write, Optimized
<1>2. PICK t : t = source'
  OBVIOUS
<1>3. Good(t) /\ Numbered(t)
  BY <1>1, <1>2, OptimizedGood, OptimizedNumbered DEF IInv, FInv
<1>4. Writable(t)
  BY <1>3 DEF Writable, Numbered, GroupsFresh
<1>5. PICK s : s = Instructions(t)
  OBVIOUS
<1>6. IdsIn(s, IdsOfTables(t))
  BY <1>4, <1>5, InstructionsIds
<1>7. t.nextId \in Nat /\ IdsOfTables(t) \subseteq Below(t.nextId)
  BY <1>3 DEF Numbered, Fresh, GroupsFresh, IdsOfTables, Range, Below
<1>8. IdsIn(s, Below(t.nextId))
  BY <1>6, <1>7 DEF IdsIn
<1>9. file'.bound = t.nextId /\ file'.instructions = s /\ phase' = "written" /\ m' = m
  BY <1>2, <1>5 DEF Write
<1> QED BY <1>7, <1>8, <1>9 DEF FInv

LEMMA StartReadingFresh ==
  ASSUME FInv, StartReading
  PROVE  FInv'
<1>1. /\ m' = [Empty EXCEPT !.nextId = file.bound] /\ left' = file.instructions
      /\ phase' = "reading" /\ file' = file
  BY DEF StartReading
<1>2. file.bound \in Nat /\ IdsIn(file.instructions, Below(file.bound))
  BY DEF FInv
<1>3. Numbered(m') /\ m'.nextId = file.bound /\ Range(m'.groups) = {}
  BY <1>1, <1>2, EmptyNumbered
<1> QED BY <1>1, <1>2, <1>3 DEF FInv

LEMMA RestIds ==
  ASSUME NEW X, NEW s, IdsIn(s, X), s # << >>
  PROVE  Head(s).id \in X /\ IdsIn(Tail(s), X)
<1>1. PICK S : S = {s[k] : k \in DOMAIN s}
  OBVIOUS
<1>2. s \in Seq(S) /\ \A x \in S : x.id \in X
  BY <1>1 DEF IdsIn, IsSeq
<1>3. Head(s) \in S /\ Tail(s) \in Seq(S)
  BY <1>2
<1>4. \A k \in DOMAIN Tail(s) : Tail(s)[k] \in S
  BY <1>3
<1> QED BY <1>2, <1>3, <1>4, SequenceIsSeq DEF IdsIn

LEMMA ReadInstructionFresh ==
  ASSUME IInv, FInv, ReadInstruction
  PROVE  FInv'
<1>1. PICK ins : ins = Head(left)
  OBVIOUS
<1>2. PICK t : t = m
  OBVIOUS
<1>3. PICK u : u = m'
  OBVIOUS
<1>4. /\ u = Decode(t, ins) /\ Decodable(t, ins) /\ left' = Tail(left) /\ left # << >>
      /\ phase = "reading" /\ phase' = phase /\ file' = file
  BY <1>1, <1>2, <1>3 DEF ReadInstruction
<1>5. /\ Good(t) /\ Tidied(t) /\ Fresh(t) /\ GroupsFresh(t)
      /\ Range(t.groups) \subseteq Solid(t) /\ IdsIn(left, Below(t.nextId))
  BY <1>2, <1>4 DEF IInv, FInv, Numbered
<1>6. Decodes(t, ins, u)
  BY <1>4, <1>5, DecodeDecodes
<1>7. ins.id \in Below(t.nextId) /\ IdsIn(left', Below(t.nextId))
  BY <1>1, <1>4, <1>5, RestIds
<1>8. Tidied(u) /\ u.nextId = t.nextId /\ Solid(t) \subseteq Solid(u)
  BY <1>6 DEF Decodes
<1>9. Fresh(u)
  BY <1>5, <1>6, <1>7 DEF Fresh, Decodes, Below
<1>10. GroupsFresh(u) /\ Range(u.groups) \subseteq Solid(u)
  <2>1. CASE u.groups = t.groups
    BY <1>5, <1>8, <2>1 DEF GroupsFresh
  <2>2. CASE u.groups = Append(t.groups, ins.id) /\ ins.id \notin Solid(t) /\ ins.id \in Solid(u)
    <3>1. PICK groups : groups = u.groups
      OBVIOUS
    <3>2. IsSeq(t.groups) /\ groups = Append(t.groups, ins.id)
      BY <1>5, <2>2, <3>1 DEF GroupsFresh
    <3>3. Appended(t.groups, ins.id, groups)
      BY <3>2, AppendFacts
    <3>4. \A k \in DOMAIN t.groups : t.groups[k] \in Solid(t)
      BY <1>5 DEF Range
    <3>5. \A k \in DOMAIN groups : groups[k] \in Below(t.nextId) /\ groups[k] \in Solid(u)
      BY <1>5, <1>7, <1>8, <2>2, <3>3, <3>4 DEF Appended, GroupsFresh
    <3>6. ASSUME NEW i \in DOMAIN groups, NEW j \in DOMAIN groups, i # j
          PROVE  groups[i] # groups[j]
      BY <1>5, <2>2, <3>3, <3>4, <3>6 DEF Appended, GroupsFresh
    <3>7. GroupsFresh(u)
      BY <1>8, <3>1, <3>3, <3>5, <3>6 DEF GroupsFresh, Appended
    <3> QED BY <3>1, <3>5, <3>7 DEF Range
  <2> QED BY <1>6, <2>1, <2>2 DEF Decodes
<1>11. Numbered(m') /\ m'.nextId = m.nextId /\ Range(m'.groups) \subseteq Solid(m')
  BY <1>2, <1>3, <1>8, <1>9, <1>10 DEF Numbered
<1>12. file'.bound \in Nat /\ IdsIn(file'.instructions, Below(file'.bound))
  BY <1>4 DEF FInv
<1>13. IdsIn(left', Below(m'.nextId)) /\ phase' # "building"
  BY <1>2, <1>4, <1>7, <1>11
<1> QED BY <1>11, <1>12, <1>13 DEF FInv

LEMMA FinishReadingFresh ==
  ASSUME IInv, FInv, FinishReading
  PROVE  FInv'
<1>1. m' \in Optimized(m) /\ phase' = "read" /\ file' = file
  BY DEF FinishReading
<1>2. Numbered(m')
  BY <1>1, OptimizedNumbered DEF IInv, FInv
<1> QED BY <1>1, <1>2 DEF FInv

LEMMA NextFInv ==
  ASSUME IInv, FInv, [Next]_vars, IInv'
  PROVE  FInv'
<1>1. ASSUME phase = "building", phase' = phase, file' = file, Tidies(m, m') PROVE FInv'
  <2>1. Fresh(m')
    BY <1>1 DEF IInv
  <2> QED BY <1>1, <2>1, BuildingStep
<1>2. CASE AddGlobal
  BY <1>1, <1>2, AddGlobalStep DEF AddGlobal, Building, AfterInit
<1>3. CASE AddFunction
  BY <1>1, <1>3, AddFunctionStep DEF AddFunction, Building, AfterInit
<1>4. CASE StartBody
  BY <1>1, <1>4 DEF StartBody, Building, AfterInit, Tidies
<1>5. CASE AddForward
  BY <1>1, <1>5, AddForwardStep DEF AddForward, Building, AfterInit
<1>6. CASE AddInstruction
  BY <1>1, <1>6, AddInstructionStep DEF AddInstruction, Building, AfterInit
<1>7. CASE AddForwarded
  BY <1>1, <1>7, AddForwardedStep, Zenon DEF AddForwarded, Building, AfterInit
<1>8. CASE AddMode
  BY <1>1, <1>8, AddModeStep DEF AddMode, Building, AfterInit
<1>9. CASE Write
  BY <1>9, WriteFresh
<1>10. CASE StartReading
  BY <1>10, StartReadingFresh
<1>11. CASE ReadInstruction
  BY <1>11, ReadInstructionFresh
<1>12. CASE AssertionFails
  BY <1>12 DEF AssertionFails, FInv
<1>13. CASE FinishReading
  BY <1>13, FinishReadingFresh
<1>14. CASE UNCHANGED vars
  BY <1>14 DEF vars, FInv
<1> QED BY <1>2, <1>3, <1>4, <1>5, <1>6, <1>7, <1>8, <1>9, <1>10, <1>11, <1>12, <1>13, <1>14
        DEF Next

LEMMA FInvFreshIds ==
  ASSUME FInv
  PROVE  FreshIds
BY DEF FInv, Numbered, Fresh, GroupsFresh, Below, FreshIds, Range

\* An id that getId() hands out is not in use: below the next id are all ids of the
\* tables and of the groups, which differ, whatever was translated and whatever file was
\* read, as often as it is written and read again.
THEOREM FreshIdsHolds == Spec => []FreshIds
<1>1. Init => IInv /\ FInv
  BY InitIInv, InitFInv
<1>2. IInv /\ FInv /\ [Next]_vars => IInv' /\ FInv'
  BY NextIInv, NextFInv
<1>3. IInv /\ FInv => FreshIds
  BY FInvFreshIds
<1> QED BY <1>1, <1>2, <1>3, PTL DEF Spec

-----------------------------------------------------------------------------
(***************************************************************************)
(* LayoutSuffices.  What the tables say in ids: Ops(t), of every entry     *)
(* that an id leads to, the id and what it is; Marks(t), the ids with a    *)
(* name, a line or an entry point; Texts(t), the ids that must be strings. *)
(***************************************************************************)
Kept(t)  == {e \in DOMAIN t.objs : Entered(t, e)}
Ops(t)   == {<<t.objs[e].id, t.objs[e].op>> : e \in Kept(t)}
Marks(t) == t.named \cup t.entryPointSet \cup {t.lines[k].target : k \in DOMAIN t.lines}
Texts(t) == {t.strMap[s] : s \in DOMAIN t.strMap} \cup {t.lines[k].string : k \in DOMAIN t.lines}
Kinds    == Definitions \cup {"forward"}

\* A vector holds the entries of its kind, once each.
Vector(t, s, op) ==
  /\ \A j, k \in DOMAIN s : s[j] = s[k] => j = k
  /\ {s[k] : k \in DOMAIN s} = {e \in Kept(t) : t.objs[e].op = op}

\* The parameters and instructions that are in a function, at a place.
ItemAt(t, x, f, k) ==
  (\E j \in DOMAIN t.functions : f = t.functions[j]) /\ k \in DOMAIN t.objs[f].items /\ t.objs[f].items[k] = x
\* Each is in one function at one place; those in X are in none yet.
ItemsPlaced(t, X) ==
  /\ \A x : (\E f, k : ItemAt(t, x, f, k)) <=> x \notin X /\ \E op \in Items : <<x, op>> \in Ops(t)
  /\ \A x \in X : \E op \in Items : <<x, op>> \in Ops(t)
  /\ \A x, f, g, j, k : ItemAt(t, x, f, j) /\ ItemAt(t, x, g, k) => f = g /\ j = k

GroupsPlaced(t) ==
  \A p \in Ops(t) : p[2] = "group" <=> \E k \in DOMAIN t.groups : t.groups[k] = p[1]

Placed(t, X) ==
  /\ \A p \in Ops(t) : p[2] \in Kinds
  /\ Vector(t, t.strings, "string") /\ Vector(t, t.globals, "global")
  /\ Vector(t, t.functions, "function")
  /\ ItemsPlaced(t, X)
  /\ GroupsPlaced(t)

\* Strings have no name, no line, and are no entry points.
Markable(t, x) == \E op \in Kinds \ {"string"} : <<x, op>> \in Ops(t)
Noted(t) ==
  /\ \A x \in Marks(t) : Markable(t, x)
  /\ \A x \in Texts(t) : <<x, "string">> \in Ops(t)

\* The module that is read is what the first n instructions say.
ReadUpTo(t, ins, n) ==
  /\ DOMAIN t.idMap = {ins[j].id : j \in 1 .. n}
  /\ \A x \in DOMAIN t.idMap : \E op \in Kinds : <<x, op>> \in Ops(t)
  /\ \A p \in Ops(t) : p[2] # "forward" => \E j \in 1 .. n : p = <<ins[j].id, ins[j].op>>
  /\ \A j \in 1 .. n : ~IsAnnotation(ins[j]) => <<ins[j].id, ins[j].op>> \in Ops(t)
  /\ \A x \in Marks(t) : \E j \in 1 .. n : IsAnnotation(ins[j]) /\ ins[j].id = x
  /\ \A x \in Texts(t) : \E j \in 1 .. n : ins[j].op = "line" /\ ins[j].string = x
  /\ InLayout(SubSeq(ins, 1, n))
LeftOf(ins, n) == SubSeq(ins, n + 1, Len(ins))

NoForwards(t) == \A p \in Ops(t) : p[2] # "forward"

LInv ==
  /\ Placed(m, {})
  /\ phase \in {"building", "read"} => Noted(m)
  /\ phase = "building" =>
       /\ source = Empty
       /\ body = 0 \/ body \in {m.functions[k] : k \in DOMAIN m.functions}
  /\ phase # "building" =>
       IdsMade(file.instructions) /\ (source # Empty => InLayout(file.instructions))
  /\ phase = "reading" =>
       \E n \in 0 .. Len(file.instructions) :
         left = LeftOf(file.instructions, n) /\ ReadUpTo(m, file.instructions, n)
  /\ phase = "read" => InLayout(file.instructions) /\ NoForwards(m)
  /\ phase = "failed" => ~InLayout(file.instructions)

-----------------------------------------------------------------------------
LEMMA KeptUnique ==
  ASSUME NEW t, NEW e \in Kept(t), NEW f \in Kept(t), t.objs[e].id = t.objs[f].id
  PROVE  e = f
BY DEF Kept, Entered

LEMMA OpsOf ==
  ASSUME NEW t, NEW x, NEW op
  PROVE  <<x, op>> \in Ops(t) <=> \E e \in Kept(t) : t.objs[e].id = x /\ t.objs[e].op = op
BY DEF Ops

LEMMA OpsPairs ==
  ASSUME NEW t, NEW p \in Ops(t)
  PROVE  p = <<p[1], p[2]>>
BY DEF Ops

LEMMA OpsUnique ==
  ASSUME NEW t, NEW x, NEW a, NEW b, <<x, a>> \in Ops(t), <<x, b>> \in Ops(t)
  PROVE  a = b
<1>1. PICK e \in Kept(t) : t.objs[e].id = x /\ t.objs[e].op = a
  BY OpsOf
<1>2. PICK f \in Kept(t) : t.objs[f].id = x /\ t.objs[f].op = b
  BY OpsOf
<1>3. e = f
  BY <1>1, <1>2, KeptUnique
<1> QED BY <1>1, <1>2, <1>3

\* An entry that an id leads to is the one of its own id.
LEMMA OpsMapped ==
  ASSUME NEW t, NEW x, NEW op, <<x, op>> \in Ops(t)
  PROVE  x \in DOMAIN t.idMap /\ t.objs[t.idMap[x]].op = op /\ t.objs[t.idMap[x]].id = x
<1>1. PICK e \in Kept(t) : t.objs[e].id = x /\ t.objs[e].op = op
  BY OpsOf
<1> QED BY <1>1 DEF Kept, Entered

-----------------------------------------------------------------------------
(***************************************************************************)
(* Steps that leave what the entries are, and where they are.              *)
(***************************************************************************)
SameOp(o, p) == p.op = o.op /\ p.id = o.id /\ p.items = o.items
SameVectors(t, u) ==
  /\ u.strings = t.strings /\ u.globals = t.globals /\ u.functions = t.functions
  /\ u.groups = t.groups
Steady(t, u) ==
  /\ DOMAIN u.objs = DOMAIN t.objs /\ u.idMap = t.idMap
  /\ \A k \in DOMAIN t.objs : SameOp(t.objs[k], u.objs[k])
  /\ SameVectors(t, u)

LEMMA FrameSteady ==
  ASSUME NEW t, NEW u, Frame(t, u)
  PROVE  Steady(t, u)
BY DEF Frame, SameInside, SameLists, Steady, SameOp, SameVectors

LEMMA SteadyOps ==
  ASSUME NEW t, NEW u, Steady(t, u)
  PROVE  Kept(u) = Kept(t) /\ Ops(u) = Ops(t)
<1>1. Kept(u) = Kept(t)
  BY DEF Kept, Entered, Steady, SameOp
<1>2. \A e \in Kept(t) : u.objs[e].id = t.objs[e].id /\ u.objs[e].op = t.objs[e].op
  BY DEF Kept, Steady, SameOp
<1> QED BY <1>1, <1>2 DEF Ops

LEMMA VectorIn ==
  ASSUME NEW t, NEW s, NEW op, Vector(t, s, op), NEW k \in DOMAIN s
  PROVE  s[k] \in Kept(t) /\ s[k] \in DOMAIN t.objs /\ t.objs[s[k]].op = op
<1>1. s[k] \in {e \in Kept(t) : t.objs[e].op = op}
  BY DEF Vector
<1> QED BY <1>1 DEF Kept

LEMMA SteadyPlaced ==
  ASSUME NEW t, NEW u, Steady(t, u), NEW X, Placed(t, X)
  PROVE  Placed(u, X)
<1>1. Kept(u) = Kept(t) /\ Ops(u) = Ops(t)
  BY SteadyOps
<1>2. \A e \in Kept(t) : u.objs[e].op = t.objs[e].op
  BY DEF Kept, Steady, SameOp
<1>3. ASSUME NEW s, NEW op, Vector(t, s, op) PROVE Vector(u, s, op)
  <2>1. {e \in Kept(u) : u.objs[e].op = op} = {e \in Kept(t) : t.objs[e].op = op}
    BY <1>1, <1>2
  <2> QED BY <1>3, <2>1 DEF Vector
<1>4. Vector(u, u.strings, "string") /\ Vector(u, u.globals, "global") /\ Vector(u, u.functions, "function")
  BY <1>3 DEF Placed, Steady, SameVectors
<1>5. ASSUME NEW x, NEW f, NEW k PROVE ItemAt(u, x, f, k) <=> ItemAt(t, x, f, k)
  <2>1. ASSUME NEW j \in DOMAIN t.functions, f = t.functions[j]
        PROVE  u.objs[f].items = t.objs[f].items
    <3>1. f \in DOMAIN t.objs
      BY <2>1, VectorIn DEF Placed
    <3> QED BY <3>1 DEF Steady, SameOp
  <2>2. u.functions = t.functions
    BY DEF Steady, SameVectors
  <2> QED BY <2>1, <2>2 DEF ItemAt
<1>6. ItemsPlaced(u, X)
  <2>1. ItemsPlaced(t, X)
    BY DEF Placed
  <2>2. \A x : (\E f, k : ItemAt(u, x, f, k)) <=> x \notin X /\ \E op \in Items : <<x, op>> \in Ops(u)
    <3> SUFFICES ASSUME NEW x
                 PROVE  (\E f, k : ItemAt(u, x, f, k)) <=> x \notin X /\ \E op \in Items : <<x, op>> \in Ops(u)
      OBVIOUS
    <3>1. (\E f, k : ItemAt(t, x, f, k)) <=> x \notin X /\ \E op \in Items : <<x, op>> \in Ops(t)
      BY <2>1 DEF ItemsPlaced
    <3>2. (\E f, k : ItemAt(u, x, f, k)) <=> (\E f, k : ItemAt(t, x, f, k))
      BY <1>5
    <3> QED BY <1>1, <3>1, <3>2
  <2>3. \A x \in X : \E op \in Items : <<x, op>> \in Ops(u)
    BY <1>1, <2>1 DEF ItemsPlaced
  <2>4. \A x, f, g, j, k : ItemAt(u, x, f, j) /\ ItemAt(u, x, g, k) => f = g /\ j = k
    BY <1>5, <2>1 DEF ItemsPlaced
  <2> QED BY <2>2, <2>3, <2>4 DEF ItemsPlaced
<1>7. GroupsPlaced(u)
  BY <1>1 DEF Placed, GroupsPlaced, Steady, SameVectors
<1> QED BY <1>1, <1>4, <1>6, <1>7 DEF Placed

\* What is noted stays true when strings stay strings, and what may be marked stays so.
Richer(t, u) ==
  /\ \A x : Markable(t, x) => Markable(u, x)
  /\ \A x : <<x, "string">> \in Ops(t) => <<x, "string">> \in Ops(u)
MarksMore(t, u) ==
  /\ \A x \in Marks(u) : x \in Marks(t) \/ Markable(u, x)
  /\ \A x \in Texts(u) : x \in Texts(t) \/ <<x, "string">> \in Ops(u)

LEMMA NotedRicher ==
  ASSUME NEW t, NEW u, Noted(t), Richer(t, u), MarksMore(t, u)
  PROVE  Noted(u)
BY DEF Noted, Richer, MarksMore

LEMMA SteadyRicher ==
  ASSUME NEW t, NEW u, Steady(t, u)
  PROVE  Richer(t, u)
<1>1. Ops(u) = Ops(t)
  BY SteadyOps
<1> QED BY <1>1 DEF Richer, Markable

-----------------------------------------------------------------------------
\* All that may be marked now and was not before is x.
Notes(t, u, x) == Marks(u) \subseteq Marks(t) \cup {x} /\ Texts(u) \subseteq Texts(t)
\* An entry is changed, but not what it is.
Changes(t, u, x) == Steady(t, u) /\ Shaped(u) /\ Notes(t, u, x)

LEMMA SteadyTrans ==
  ASSUME NEW t, NEW s, NEW u, Steady(t, s), Steady(s, u)
  PROVE  Steady(t, u)
<1>1. SameVectors(t, u)
  BY DEF Steady, SameVectors
<1>2. \A k \in DOMAIN t.objs : SameOp(t.objs[k], u.objs[k])
  BY DEF Steady, SameOp
<1> QED BY <1>1, <1>2 DEF Steady

LEMMA ChangesTrans ==
  ASSUME NEW t, NEW s, NEW u, NEW x, Changes(t, s, x), Changes(s, u, x)
  PROVE  Changes(t, u, x)
<1>1. Steady(t, u)
  BY SteadyTrans DEF Changes
<1>2. Notes(t, u, x)
  BY DEF Changes, Notes
<1> QED BY <1>1, <1>2 DEF Changes

\* The fields of a record of tables that are no entries.
SameTables(t, u) ==
  /\ DOMAIN u = TableFields
  /\ SameVectors(t, u) /\ u.idMap = t.idMap /\ u.strMap = t.strMap
  /\ u.entryPoints = t.entryPoints /\ u.entryPointSet = t.entryPointSet

LEMMA EntrySteady ==
  ASSUME NEW t, Shaped(t), NEW e \in DOMAIN t.objs, NEW o, DOMAIN o = EntryFields, SameOp(t.objs[e], o),
         NEW u, u.objs = [t.objs EXCEPT ![e] = o], SameTables(t, u), u.lines = t.lines
  PROVE  Steady(t, u) /\ Shaped(u)
<1>1. PICK objs : objs = u.objs
  OBVIOUS
<1>2. IsSeq(t.objs) /\ objs = [t.objs EXCEPT ![e] = o]
  BY <1>1 DEF Shaped
<1>3. /\ IsSeq(objs) /\ DOMAIN objs = DOMAIN t.objs
      /\ \A k \in DOMAIN t.objs : k # e => objs[k] = t.objs[k]
      /\ e \in DOMAIN t.objs => objs[e] = o
  BY <1>2, ExceptFacts
<1>4. \A k \in DOMAIN t.objs : SameOp(t.objs[k], objs[k]) /\ DOMAIN objs[k] = EntryFields
  <2> SUFFICES ASSUME NEW k \in DOMAIN t.objs
               PROVE  SameOp(t.objs[k], objs[k]) /\ DOMAIN objs[k] = EntryFields
    OBVIOUS
  <2>1. CASE k = e
    BY <1>3, <2>1
  <2>2. CASE k # e
    BY <1>3, <2>2 DEF SameOp, Shaped
  <2> QED BY <2>1, <2>2
<1>5. Shaped(u)
  BY <1>1, <1>3, <1>4 DEF Shaped, SameTables
<1> QED BY <1>1, <1>3, <1>4, <1>5 DEF Steady, SameTables

LEMMA SetNameChanges ==
  ASSUME NEW t, Shaped(t), NEW e \in DOMAIN t.objs, NEW name, NEW u, u = SetName(t, e, name)
  PROVE  Changes(t, u, t.objs[e].id)
<1>1. PICK o : o = [t.objs[e] EXCEPT !.name = name]
  OBVIOUS
<1>2. PICK named : named = IF name = "" THEN t.named \ {t.objs[e].id} ELSE t.named \cup {t.objs[e].id}
  OBVIOUS
<1>3. u = [t EXCEPT !.objs = [t.objs EXCEPT ![e] = o], !.named = named]
  BY <1>1, <1>2 DEF SetName
<1>4. u.objs = [t.objs EXCEPT ![e] = o] /\ u.named = named /\ SameTables(t, u) /\ u.lines = t.lines
  BY <1>3 DEF Shaped, TableFields, SameTables, SameVectors
<1>5. DOMAIN o = EntryFields /\ SameOp(t.objs[e], o)
  BY <1>1 DEF Shaped, EntryFields, SameOp
<1>6. Steady(t, u) /\ Shaped(u)
  BY <1>4, <1>5, EntrySteady
<1>7. named \subseteq t.named \cup {t.objs[e].id}
  BY <1>2
<1>8. Notes(t, u, t.objs[e].id)
  BY <1>4, <1>7 DEF Notes, Marks, Texts, SameTables
<1> QED BY <1>6, <1>8 DEF Changes

LEMMA SetModesChanges ==
  ASSUME NEW t, Shaped(t), NEW e \in DOMAIN t.objs, NEW modes, NEW u, u = [t EXCEPT !.objs[e].modes = modes],
         NEW x
  PROVE  Changes(t, u, x)
<1>1. PICK o : o = [t.objs[e] EXCEPT !.modes = modes]
  OBVIOUS
<1>2. u = [t EXCEPT !.objs = [t.objs EXCEPT ![e] = o]]
  BY <1>1
<1>3. u.objs = [t.objs EXCEPT ![e] = o] /\ u.named = t.named /\ SameTables(t, u) /\ u.lines = t.lines
  BY <1>2 DEF Shaped, TableFields, SameTables, SameVectors
<1>4. DOMAIN o = EntryFields /\ SameOp(t.objs[e], o)
  BY <1>1 DEF Shaped, EntryFields, SameOp
<1>5. Steady(t, u) /\ Shaped(u)
  BY <1>3, <1>4, EntrySteady, ZenonT(60)
<1>6. Notes(t, u, x)
  BY <1>3 DEF Notes, Marks, Texts, SameTables
<1> QED BY <1>5, <1>6 DEF Changes

LEMMA SetLineSteady ==
  ASSUME NEW t, Shaped(t), NEW e \in DOMAIN t.objs, NEW line, NEW u, u = [t EXCEPT !.objs[e].line = line]
  PROVE  Steady(t, u) /\ Shaped(u) /\ SameTables(t, u) /\ u.lines = t.lines /\ u.named = t.named
<1>1. PICK o : o = [t.objs[e] EXCEPT !.line = line]
  OBVIOUS
<1>2. u = [t EXCEPT !.objs = [t.objs EXCEPT ![e] = o]]
  BY <1>1
<1>3. u.objs = [t.objs EXCEPT ![e] = o] /\ u.named = t.named /\ SameTables(t, u) /\ u.lines = t.lines
  BY <1>2 DEF Shaped, TableFields, SameTables, SameVectors
<1>4. DOMAIN o = EntryFields /\ SameOp(t.objs[e], o)
  BY <1>1 DEF Shaped, EntryFields, SameOp
<1> QED BY <1>3, <1>4, EntrySteady, ZenonT(60)

\* A line goes to another target.
LEMMA TargetChanges ==
  ASSUME NEW t, Shaped(t), NEW n, NEW x, NEW u, u = [t EXCEPT !.lines[n].target = x]
  PROVE  Changes(t, u, x)
<1>1. PICK l : l = [t.lines[n] EXCEPT !.target = x]
  OBVIOUS
<1>2. PICK lines : lines = [t.lines EXCEPT ![n] = l]
  OBVIOUS
<1>3. u = [t EXCEPT !.lines = lines]
  BY <1>1, <1>2
<1>4. /\ DOMAIN u = TableFields /\ u.objs = t.objs /\ u.lines = lines /\ u.named = t.named
      /\ SameTables(t, u)
  BY <1>3 DEF Shaped, TableFields, SameTables, SameVectors
<1>5. /\ IsSeq(lines) /\ DOMAIN lines = DOMAIN t.lines
      /\ \A k \in DOMAIN t.lines : k # n => lines[k] = t.lines[k]
      /\ n \in DOMAIN t.lines => lines[n] = l
  <2>1. IsSeq(t.lines)
    BY DEF Shaped
  <2> QED BY <1>2, <2>1, ExceptFacts
<1>6. n \in DOMAIN t.lines => DOMAIN l = LineFields /\ l.target = x /\ l.string = t.lines[n].string
  BY <1>1 DEF Shaped, LineFields
<1>7. \A k \in DOMAIN lines :
        /\ DOMAIN lines[k] = LineFields /\ lines[k].string = t.lines[k].string
        /\ lines[k].target \in {x, t.lines[k].target}
  <2> SUFFICES ASSUME NEW k \in DOMAIN lines
               PROVE  /\ DOMAIN lines[k] = LineFields /\ lines[k].string = t.lines[k].string
                      /\ lines[k].target \in {x, t.lines[k].target}
    OBVIOUS
  <2>1. CASE k = n
    BY <1>5, <1>6, <2>1
  <2>2. CASE k # n
    BY <1>5, <2>2 DEF Shaped
  <2> QED BY <2>1, <2>2
<1>8. Shaped(u)
  BY <1>4, <1>5, <1>7 DEF Shaped, SameTables
<1>9. Steady(t, u)
  BY <1>4 DEF Steady, SameOp, SameTables
<1>10. Notes(t, u, x)
  BY <1>4, <1>5, <1>7 DEF Notes, Marks, Texts, SameTables
<1> QED BY <1>8, <1>9, <1>10 DEF Changes

LEMMA TakeLineChanges ==
  ASSUME NEW t, Shaped(t), NEW f \in DOMAIN t.objs, NEW e \in DOMAIN t.objs, NEW u, u = TakeLine(t, f, e)
  PROVE  Changes(t, u, t.objs[e].id)
<1>1. CASE t.objs[f].line = 0
  <2>1. u = t
    BY <1>1 DEF TakeLine
  <2> QED BY <2>1 DEF Changes, Steady, SameOp, SameVectors, Notes
<1>2. CASE t.objs[f].line # 0
  <2>1. PICK n : n = t.objs[f].line
    OBVIOUS
  <2>2. PICK s : s = [t EXCEPT !.objs[e].line = n]
    OBVIOUS
  <2>3. Steady(t, s) /\ Shaped(s) /\ SameTables(t, s) /\ s.lines = t.lines /\ s.named = t.named
    BY <2>2, SetLineSteady
  <2>4. PICK r : r = [s EXCEPT !.objs[f].line = 0]
    OBVIOUS
  <2>5. f \in DOMAIN s.objs /\ s.objs[e].id = t.objs[e].id
    BY <2>3 DEF Steady, SameOp
  <2>6. Steady(s, r) /\ Shaped(r) /\ SameTables(s, r) /\ r.lines = s.lines /\ r.named = s.named
    BY <2>3, <2>4, <2>5, SetLineSteady
  <2>7. u = [r EXCEPT !.lines[n].target = t.objs[e].id]
    <3>1. u = [t EXCEPT !.objs[e].line = n, !.objs[f].line = 0, !.lines[n].target = t.objs[e].id]
      BY <1>2, <2>1 DEF TakeLine
    <3> QED BY <2>2, <2>4, <3>1
  <2>8. Changes(r, u, t.objs[e].id)
    BY <2>6, <2>7, TargetChanges
  <2>9. Changes(t, r, t.objs[e].id)
    <3>1. Steady(t, r)
      BY <2>3, <2>6, SteadyTrans
    <3>2. Notes(t, r, t.objs[e].id)
      BY <2>3, <2>6 DEF Notes, Marks, Texts, SameTables
    <3> QED BY <2>6, <3>1, <3>2 DEF Changes
  <2> QED BY <2>8, <2>9, ChangesTrans
<1> QED BY <1>1, <1>2

Redirects(t, id, e, s) == s = [t EXCEPT !.idMap = Put(t.idMap, id, e)]
LEMMA ReplaceForwardChanges ==
  ASSUME NEW t, Shaped(t), NEW f \in DOMAIN t.objs, NEW e \in DOMAIN t.objs, NEW id, id = t.objs[f].id,
         t.objs[e].id = id,
         NEW s, Redirects(t, id, e, s), NEW u, u = ReplaceForward(t, f, e)
  PROVE  Changes(s, u, id)
<1>1. /\ Shaped(s) /\ s.objs = t.objs
  BY DEF Shaped, TableFields, Redirects
<1>2. PICK t2 : t2 = SetName(s, e, s.objs[f].name)
  OBVIOUS
<1>3. Changes(s, t2, id)
  BY <1>1, <1>2, SetNameChanges
<1>4. Shaped(t2) /\ DOMAIN t2.objs = DOMAIN t.objs /\ t2.objs[e].op = s.objs[e].op
  BY <1>1, <1>3 DEF Changes, Steady, SameOp
<1>5. PICK modes : modes = IF s.objs[e].op = "function" THEN s.objs[f].modes ELSE t2.objs[e].modes
  OBVIOUS
<1>6. PICK t3 : t3 = [t2 EXCEPT !.objs[e].modes = modes]
  OBVIOUS
<1>7. Changes(t2, t3, id)
  BY <1>4, <1>6, SetModesChanges
<1>8. u = TakeLine(t3, f, e)
  <2>1. u = TakeAnnotations(s, f, e)
    BY DEF ReplaceForward, Redirects
  <2>2. TakeAnnotations(s, f, e) = TakeLine(t3, f, e)
    BY <1>2, <1>5, <1>6 DEF TakeAnnotations
  <2> QED BY <2>1, <2>2
<1>9. Shaped(t3) /\ DOMAIN t3.objs = DOMAIN t.objs /\ t3.objs[e].id = id
  BY <1>1, <1>3, <1>4, <1>7 DEF Changes, Steady, SameOp
<1>10. Changes(t3, u, id)
  BY <1>8, <1>9, TakeLineChanges
<1>11. Changes(s, t3, id)
  BY <1>3, <1>7, ChangesTrans
<1> QED BY <1>10, <1>11, ChangesTrans

-----------------------------------------------------------------------------
(***************************************************************************)
(* addEntry: u is t with the entry o, made as e; whatever had its id has   *)
(* gone.                                                                   *)
(***************************************************************************)
Joins(t, u, o, e) ==
  /\ e \notin Kept(t)
  /\ Kept(u) = {k \in Kept(t) : t.objs[k].id # o.id} \cup {e}
  /\ SameOp(o, u.objs[e])
  /\ \A k \in Kept(t) : SameOp(t.objs[k], u.objs[k])
Grown(t, u, o, e) == Joins(t, u, o, e) /\ SameVectors(t, u)
\* A new entry is marked when its forward was.
Remarks(t, u, o) ==
  /\ \A x \in Marks(u) : x \in Marks(t) \/ (x = o.id /\ <<x, "forward">> \in Ops(t))
  /\ Texts(u) \subseteq Texts(t)

\* The id leads to e, and other ids to what they led to, or to e.
Diverted(t, u, id, e) ==
  /\ id \in DOMAIN u.idMap /\ u.idMap[id] = e
  /\ \A x \in DOMAIN u.idMap : x # id => u.idMap[x] = e \/ (x \in DOMAIN t.idMap /\ u.idMap[x] = t.idMap[x])
  /\ \A x \in DOMAIN t.idMap : x # id => x \in DOMAIN u.idMap /\ u.idMap[x] = t.idMap[x]

LEMMA SameLength ==
  ASSUME NEW a \in Nat, NEW b \in Nat, 1 .. a = 1 .. b
  PROVE  a = b
<1>1. a # 0 => a \in 1 .. a
  OBVIOUS
<1>2. b # 0 => b \in 1 .. b
  OBVIOUS
<1>3. a # 0 => a <= b /\ b # 0
  BY <1>1
<1>4. b # 0 => b <= a /\ a # 0
  BY <1>2
<1> QED BY <1>3, <1>4

LEMMA IdMapGrown ==
  ASSUME NEW t, NEW u, NEW o, NEW e, e \notin DOMAIN t.objs, DOMAIN u.objs = DOMAIN t.objs \cup {e},
         \A k \in DOMAIN t.objs : SameOp(t.objs[k], u.objs[k]), SameOp(o, u.objs[e]),
         Diverted(t, u, o.id, e), SameVectors(t, u)
  PROVE  Grown(t, u, o, e)
<1>1. u.objs[e].id = o.id /\ \A k \in DOMAIN t.objs : u.objs[k].id = t.objs[k].id /\ k # e
  BY DEF SameOp
<1>2. ASSUME NEW k \in Kept(u), k # e PROVE k \in Kept(t) /\ t.objs[k].id # o.id
  <2>1. k \in DOMAIN t.objs /\ t.objs[k].id \in DOMAIN u.idMap /\ u.idMap[t.objs[k].id] = k
    BY <1>1, <1>2 DEF Kept, Entered
  <2>2. t.objs[k].id # o.id
    BY <1>2, <2>1 DEF Diverted
  <2>3. t.objs[k].id \in DOMAIN t.idMap /\ t.idMap[t.objs[k].id] = k
    BY <1>2, <2>1, <2>2 DEF Diverted
  <2> QED BY <2>1, <2>2, <2>3 DEF Kept, Entered
<1>3. ASSUME NEW k \in Kept(t), t.objs[k].id # o.id PROVE k \in Kept(u)
  <2>1. k \in DOMAIN t.objs /\ t.objs[k].id \in DOMAIN t.idMap /\ t.idMap[t.objs[k].id] = k
    BY DEF Kept, Entered
  <2>2. t.objs[k].id \in DOMAIN u.idMap /\ u.idMap[t.objs[k].id] = k
    BY <1>3, <2>1 DEF Diverted
  <2> QED BY <1>1, <2>1, <2>2 DEF Kept, Entered
<1>4. e \in Kept(u)
  BY <1>1 DEF Kept, Entered, Diverted
<1>5. Kept(u) = {k \in Kept(t) : t.objs[k].id # o.id} \cup {e}
  BY <1>2, <1>3, <1>4
<1>6. e \notin Kept(t) /\ \A k \in Kept(t) : SameOp(t.objs[k], u.objs[k])
  BY DEF Kept
<1> QED BY <1>5, <1>6 DEF Grown, Joins

LEMMA NewEntryGrown ==
  ASSUME NEW t, Good(t), NEW o, o.id \notin DOMAIN t.idMap, NEW u, u = AddEntry(t, o)
  PROVE  Grown(t, u, o, Newest(u)) /\ Remarks(t, u, o)
<1>1. Shaped(t)
  BY DEF Good, Sound
<1>2. PICK objs : objs = Append(t.objs, o)
  OBVIOUS
<1>3. PICK e : e = Len(objs)
  OBVIOUS
<1>4. /\ DOMAIN objs = DOMAIN t.objs \cup {e} /\ e \notin DOMAIN t.objs
      /\ \A k \in DOMAIN t.objs : objs[k] = t.objs[k]
      /\ objs[e] = o
  <2>1. Appended(t.objs, o, objs)
    BY <1>1, <1>2, AppendFacts DEF Shaped
  <2> QED BY <2>1, <1>3 DEF Appended
<1>5. PICK made : made = [t EXCEPT !.objs = objs]
  OBVIOUS
<1>6. /\ DOMAIN made = TableFields /\ made.objs = objs /\ made.idMap = t.idMap
      /\ made.named = t.named /\ made.lines = t.lines /\ SameTables(t, made)
  BY <1>1, <1>5 DEF Shaped, TableFields, SameTables, SameVectors
<1>7. Mapped(t, o.id) = NoEntry
  BY MappedFacts
<1>8. u = [made EXCEPT !.idMap = Put(@, o.id, Newest(made))]
  BY <1>2, <1>5, <1>7 DEF AddEntry
<1>9. PICK g : g = Put(t.idMap, o.id, e)
  OBVIOUS
<1>10. /\ u.objs = objs /\ u.idMap = g
       /\ u.named = t.named /\ u.lines = t.lines /\ SameVectors(t, u) /\ u.entryPointSet = t.entryPointSet
       /\ u.strMap = t.strMap
  <2>1. Newest(made) = e
    BY <1>3, <1>6 DEF Newest
  <2> QED BY <1>6, <1>8, <1>9, <2>1 DEF TableFields, SameTables, SameVectors
<1>11. /\ DOMAIN g = DOMAIN t.idMap \cup {o.id} /\ g[o.id] = e
       /\ \A x \in DOMAIN t.idMap : g[x] = t.idMap[x]
  BY <1>9 DEF Put
<1>12. Newest(u) = e
  BY <1>3, <1>10 DEF Newest
<1>13. Diverted(t, u, o.id, e)
  BY <1>10, <1>11 DEF Diverted
<1>14. /\ DOMAIN u.objs = DOMAIN t.objs \cup {e} /\ SameOp(o, u.objs[e])
       /\ \A k \in DOMAIN t.objs : SameOp(t.objs[k], u.objs[k])
  BY <1>4, <1>10 DEF SameOp
<1>15. Grown(t, u, o, e)
  BY <1>4, <1>10, <1>13, <1>14, IdMapGrown
<1>16. Remarks(t, u, o)
  BY <1>10 DEF Remarks, Marks, Texts
<1> QED BY <1>12, <1>15, <1>16

LEMMA ForwardedEntryGrown ==
  ASSUME NEW t, Good(t), NEW o, DOMAIN o = EntryFields, o.id \in DOMAIN t.idMap, t.objs[t.idMap[o.id]].op = "forward",
         NEW u, u = AddEntry(t, o)
  PROVE  Grown(t, u, o, Newest(u)) /\ Remarks(t, u, o)
<1>1. Shaped(t)
  BY DEF Good, Sound
<1>2. PICK objs : objs = Append(t.objs, o)
  OBVIOUS
<1>3. PICK e : e = Len(objs)
  OBVIOUS
<1>4. /\ IsSeq(objs) /\ DOMAIN objs = DOMAIN t.objs \cup {e} /\ e \notin DOMAIN t.objs
      /\ \A k \in DOMAIN t.objs : objs[k] = t.objs[k]
      /\ objs[e] = o
  <2>1. Appended(t.objs, o, objs)
    BY <1>1, <1>2, AppendFacts DEF Shaped
  <2> QED BY <2>1, <1>3 DEF Appended
<1>5. PICK made : made = [t EXCEPT !.objs = objs]
  OBVIOUS
<1>6. /\ DOMAIN made = TableFields /\ made.objs = objs /\ made.idMap = t.idMap
      /\ made.named = t.named /\ made.lines = t.lines /\ SameTables(t, made) /\ Newest(made) = e
  BY <1>1, <1>3, <1>5 DEF Shaped, TableFields, SameTables, SameVectors, Newest
<1>7. Shaped(made)
  <2>1. \A k \in DOMAIN objs : DOMAIN objs[k] = EntryFields
    BY <1>1, <1>4 DEF Shaped
  <2> QED BY <1>1, <1>4, <1>6, <2>1 DEF Shaped, SameTables
<1>8. PICK id, f : id = o.id /\ f = t.idMap[o.id]
  OBVIOUS
<1>9. f \in DOMAIN t.objs /\ t.objs[f].id = id /\ t.objs[f].op = "forward" /\ f \in Kept(t)
  BY <1>8 DEF Good, Sound, Linked, ForwardsOnce, Entered, Kept
<1>10. u = ReplaceForward(made, f, e)
  <2>1. Mapped(t, o.id) = f /\ f # NoEntry
    BY <1>8, MappedFacts
  <2> QED BY <1>2, <1>5, <1>6, <2>1 DEF AddEntry
<1>11. PICK s : s = [made EXCEPT !.idMap = Put(@, id, e)]
  OBVIOUS
<1>12. PICK g : g = Put(t.idMap, id, e)
  OBVIOUS
<1>13. s.objs = objs /\ s.idMap = g /\ SameVectors(t, s)
       /\ s.named = t.named /\ s.lines = t.lines /\ s.entryPointSet = t.entryPointSet /\ s.strMap = t.strMap
  BY <1>6, <1>11, <1>12 DEF TableFields, SameTables, SameVectors
<1>14. /\ DOMAIN g = DOMAIN t.idMap \cup {id} /\ g[id] = e
       /\ \A x \in DOMAIN t.idMap : x # id => g[x] = t.idMap[x]
  BY <1>12 DEF Put
<1>15. Changes(s, u, id)
  <2>1. /\ f \in DOMAIN made.objs /\ e \in DOMAIN made.objs /\ id = made.objs[f].id /\ made.objs[e].id = id
    BY <1>4, <1>6, <1>8, <1>9
  <2>2. Redirects(made, id, e, s)
    BY <1>11 DEF Redirects
  <2> QED BY <1>7, <1>10, <2>1, <2>2, ReplaceForwardChanges
<1>16. /\ DOMAIN u.objs = DOMAIN t.objs \cup {e} /\ u.idMap = g /\ SameVectors(t, u)
       /\ SameOp(o, u.objs[e]) /\ \A k \in DOMAIN t.objs : SameOp(t.objs[k], u.objs[k])
  <2>1. Steady(s, u)
    BY <1>15 DEF Changes
  <2>2. SameVectors(t, u)
    BY <1>13, <2>1 DEF Steady, SameVectors
  <2> QED BY <1>4, <1>13, <2>1, <2>2 DEF Steady, SameOp
<1>17. Grown(t, u, o, e)
  <2>1. Diverted(t, u, id, e)
    BY <1>14, <1>16 DEF Diverted
  <2> QED BY <1>4, <1>8, <1>16, <2>1, IdMapGrown
<1>18. Remarks(t, u, o)
  <2>1. Marks(u) \subseteq Marks(s) \cup {id} /\ Texts(u) \subseteq Texts(s)
    BY <1>15 DEF Changes, Notes
  <2>2. Marks(s) = Marks(t) /\ Texts(s) = Texts(t)
    BY <1>13 DEF Marks, Texts
  <2>3. <<id, "forward">> \in Ops(t)
    BY <1>9 DEF Ops
  <2> QED BY <1>8, <2>1, <2>2, <2>3 DEF Remarks
<1>19. Newest(u) = e
  <2>1. Len(u.objs) = e
    <3>1. PICK v : v = u.objs
      OBVIOUS
    <3>2. IsSeq(v) /\ DOMAIN v = DOMAIN objs
      BY <1>4, <1>15, <1>16, <3>1 DEF Changes, Shaped
    <3>3. Len(v) \in Nat /\ DOMAIN v = 1 .. Len(v) /\ Len(objs) \in Nat /\ DOMAIN objs = 1 .. Len(objs)
      BY <1>4, <3>2, SeqDomain
    <3> QED BY <1>3, <3>1, <3>2, <3>3, SameLength
  <2> QED BY <2>1 DEF Newest
<1> QED BY <1>17, <1>18, <1>19

LEMMA AddEntryGrown ==
  ASSUME NEW t, Good(t), NEW o, DOMAIN o = EntryFields, Addable(t, o.id), NEW u, u = AddEntry(t, o)
  PROVE  /\ Grown(t, u, o, Newest(u)) /\ Remarks(t, u, o)
         /\ \A op : <<o.id, op>> \in Ops(t) => op = "forward"
<1>1. CASE o.id \notin DOMAIN t.idMap
  <2>1. \A op : <<o.id, op>> \notin Ops(t)
    BY <1>1, OpsMapped
  <2> QED BY <1>1, <2>1, NewEntryGrown
<1>2. CASE o.id \in DOMAIN t.idMap
  <2>1. t.objs[t.idMap[o.id]].op = "forward"
    BY <1>2, MappedFacts DEF Addable, IsForward
  <2>2. \A op : <<o.id, op>> \in Ops(t) => op = "forward"
    BY <2>1, OpsMapped
  <2> QED BY <1>2, <2>1, <2>2, ForwardedEntryGrown
<1> QED BY <1>1, <1>2

\* Before o was added nothing but a forward had its id.
Awaited(t, o) == \A op : <<o.id, op>> \in Ops(t) => op = "forward"
GroupsLeft(t, o) == \A k \in DOMAIN t.groups : t.groups[k] # o.id
LaidOut(t, u, o, e) ==
  /\ u.strings = IF o.op = "string" THEN Append(t.strings, e) ELSE t.strings
  /\ u.globals = IF o.op = "global" THEN Append(t.globals, e) ELSE t.globals
  /\ u.functions = IF o.op = "function" THEN Append(t.functions, e) ELSE t.functions
  /\ u.groups = IF o.op = "group" THEN Append(t.groups, o.id) ELSE t.groups
Vectors(t) == IsSeq(t.strings) /\ IsSeq(t.globals) /\ IsSeq(t.functions) /\ IsSeq(t.groups)
\* The items of a function are not new.
Takes(o, X, Y) ==
  \/ o.items = << >> /\ Y = X \cup (IF o.op \in Items THEN {o.id} ELSE {})
  \/ o.op = "function" /\ (\E x : o.items = <<x>> /\ X = {x}) /\ Y = {}

LEMMA JoinsOps ==
  ASSUME NEW t, NEW u, NEW o, NEW e, Joins(t, u, o, e)
  PROVE  \A x, op : <<x, op>> \in Ops(u) <=>
           \/ x # o.id /\ <<x, op>> \in Ops(t)
           \/ x = o.id /\ op = o.op
<1> SUFFICES ASSUME NEW x, NEW op
             PROVE  <<x, op>> \in Ops(u) <=>
                      \/ x # o.id /\ <<x, op>> \in Ops(t)
                      \/ x = o.id /\ op = o.op
  OBVIOUS
<1>1. u.objs[e].id = o.id /\ u.objs[e].op = o.op /\ e \in Kept(u)
  BY DEF Joins, SameOp
<1>2. ASSUME NEW k \in Kept(t) PROVE u.objs[k].id = t.objs[k].id /\ u.objs[k].op = t.objs[k].op
  BY DEF Joins, SameOp
<1>3. ASSUME NEW k \in Kept(u) PROVE k = e \/ (k \in Kept(t) /\ t.objs[k].id # o.id)
  BY DEF Joins
<1>4. ASSUME NEW k \in Kept(t), t.objs[k].id # o.id PROVE k \in Kept(u)
  BY <1>4 DEF Joins
<1>5. ASSUME <<x, op>> \in Ops(u) PROVE (x # o.id /\ <<x, op>> \in Ops(t)) \/ (x = o.id /\ op = o.op)
  <2>1. PICK k \in Kept(u) : u.objs[k].id = x /\ u.objs[k].op = op
    BY <1>5, OpsOf
  <2>2. CASE k = e
    BY <1>1, <2>1, <2>2
  <2>3. CASE k # e
    <3>1. k \in Kept(t) /\ t.objs[k].id # o.id /\ t.objs[k].id = x /\ t.objs[k].op = op
      BY <1>2, <1>3, <2>1, <2>3
    <3> QED BY <3>1, OpsOf
  <2> QED BY <2>2, <2>3
<1>6. ASSUME x # o.id, <<x, op>> \in Ops(t) PROVE <<x, op>> \in Ops(u)
  <2>1. PICK k \in Kept(t) : t.objs[k].id = x /\ t.objs[k].op = op
    BY <1>6, OpsOf
  <2>2. k \in Kept(u) /\ u.objs[k].id = x /\ u.objs[k].op = op
    BY <1>2, <1>4, <1>6, <2>1
  <2> QED BY <2>2, OpsOf
<1>7. ASSUME x = o.id, op = o.op PROVE <<x, op>> \in Ops(u)
  BY <1>1, <1>7, OpsOf
<1> QED BY <1>5, <1>6, <1>7

\* The entries of a kind are those there were, and o.
KeptWith(t, u, o, e, op) ==
  \A k : k \in Kept(u) /\ u.objs[k].op = op <=>
    \/ k \in Kept(t) /\ t.objs[k].op = op
    \/ k = e /\ o.op = op

LEMMA JoinsKept ==
  ASSUME NEW t, NEW u, NEW o, NEW e, Joins(t, u, o, e), Awaited(t, o), NEW op, op # "forward"
  PROVE  KeptWith(t, u, o, e, op)
<1> SUFFICES ASSUME NEW k
             PROVE  k \in Kept(u) /\ u.objs[k].op = op <=>
                      \/ k \in Kept(t) /\ t.objs[k].op = op
                      \/ k = e /\ o.op = op
  BY DEF KeptWith
<1>1. u.objs[e].op = o.op /\ e \in Kept(u) /\ e \notin Kept(t)
  BY DEF Joins, SameOp
<1>2. ASSUME k \in Kept(t) PROVE u.objs[k].op = t.objs[k].op /\ (k \in Kept(u) <=> t.objs[k].id # o.id)
  BY <1>1, <1>2 DEF Joins, SameOp
<1>3. ASSUME k \in Kept(t), t.objs[k].op = op PROVE t.objs[k].id # o.id
  <2>1. <<t.objs[k].id, op>> \in Ops(t)
    BY <1>3 DEF Ops
  <2> QED BY <2>1 DEF Awaited
<1>4. k \in Kept(u) => k = e \/ k \in Kept(t)
  BY DEF Joins
<1> QED BY <1>1, <1>2, <1>3, <1>4

LEMMA VectorGrown ==
  ASSUME NEW t, NEW u, NEW o, NEW e, Joins(t, u, o, e), Awaited(t, o), NEW op, op # "forward",
         NEW s, Vector(t, s, op), IsSeq(s), NEW r, r = IF o.op = op THEN Append(s, e) ELSE s
  PROVE  Vector(u, r, op) /\ IsSeq(r)
<1>0. KeptWith(t, u, o, e, op)
  BY JoinsKept
<1>1. \A k : k \in Kept(u) /\ u.objs[k].op = op <=>
        \/ k \in Kept(t) /\ t.objs[k].op = op
        \/ k = e /\ o.op = op
  BY <1>0 DEF KeptWith
<1>2. \A k : k \in {s[j] : j \in DOMAIN s} <=> k \in Kept(t) /\ t.objs[k].op = op
  BY DEF Vector
<1>3. CASE o.op # op
  <2>1. r = s /\ {s[k] : k \in DOMAIN s} = {k \in Kept(u) : u.objs[k].op = op}
    BY <1>1, <1>2, <1>3
  <2> QED BY <2>1 DEF Vector
<1>4. CASE o.op = op
  <2>1. Appended(s, e, r)
    BY <1>4, AppendFacts
  <2>2. IsSeq(r) /\ DOMAIN r = DOMAIN s \cup {Len(r)} /\ Len(r) \notin DOMAIN s
        /\ (\A k \in DOMAIN s : r[k] = s[k]) /\ r[Len(r)] = e
    BY <2>1 DEF Appended
  <2>3. \A k \in DOMAIN s : s[k] # e
    BY <1>2 DEF Joins
  <2>4. \A j, k \in DOMAIN r : r[j] = r[k] => j = k
    BY <2>2, <2>3 DEF Vector
  <2>5. \A k : k \in {r[j] : j \in DOMAIN r} <=> k \in {s[j] : j \in DOMAIN s} \/ k = e
    BY <2>2
  <2>6. {r[j] : j \in DOMAIN r} = {k \in Kept(u) : u.objs[k].op = op}
    BY <1>1, <1>2, <1>4, <2>5
  <2> QED BY <2>2, <2>4, <2>6 DEF Vector
<1> QED BY <1>3, <1>4

LEMMA GroupsGrown ==
  ASSUME NEW t, NEW u, NEW o, NEW e, Joins(t, u, o, e), LaidOut(t, u, o, e), GroupsLeft(t, o),
         IsSeq(t.groups), GroupsPlaced(t)
  PROVE  GroupsPlaced(u) /\ IsSeq(u.groups)
<1>1. PICK g, h : g = t.groups /\ h = u.groups
  OBVIOUS
<1>2. \A x : (\E k \in DOMAIN h : h[k] = x) <=> (\E k \in DOMAIN g : g[k] = x) \/ (o.op = "group" /\ x = o.id)
  <2>1. CASE o.op # "group"
    BY <1>1, <2>1 DEF LaidOut
  <2>2. CASE o.op = "group"
    <3>1. IsSeq(g) /\ h = Append(g, o.id)
      BY <1>1, <2>2 DEF LaidOut
    <3>2. Appended(g, o.id, h)
      BY <3>1, AppendFacts
    <3> QED BY <2>2, <3>2 DEF Appended
  <2> QED BY <2>1, <2>2
<1>3. ASSUME NEW p \in Ops(u)
      PROVE  p[2] = "group" <=> \E k \in DOMAIN h : h[k] = p[1]
  <2>1. PICK x, op : p = <<x, op>>
    BY OpsPairs
  <2>2. (x # o.id /\ <<x, op>> \in Ops(t)) \/ (x = o.id /\ op = o.op)
    BY <2>1, JoinsOps
  <2>3. CASE x # o.id /\ <<x, op>> \in Ops(t)
    <3>1. op = "group" <=> \E k \in DOMAIN g : g[k] = x
      BY <1>1, <2>3 DEF GroupsPlaced
    <3> QED BY <1>2, <2>1, <2>3, <3>1
  <2>4. CASE x = o.id /\ op = o.op
    <3>1. ~\E k \in DOMAIN g : g[k] = x
      BY <1>1, <2>4 DEF GroupsLeft
    <3> QED BY <1>2, <2>1, <2>4, <3>1
  <2> QED BY <2>2, <2>3, <2>4
<1>4. IsSeq(h)
  <2>1. CASE o.op # "group"
    BY <1>1, <2>1 DEF LaidOut
  <2>2. CASE o.op = "group"
    <3>1. IsSeq(g) /\ h = Append(g, o.id)
      BY <1>1, <2>2 DEF LaidOut
    <3>2. Appended(g, o.id, h)
      BY <3>1, AppendFacts
    <3> QED BY <3>2 DEF Appended
  <2> QED BY <2>1, <2>2
<1> QED BY <1>1, <1>3, <1>4 DEF GroupsPlaced

IsItem(t, x) == \E op \in Items : <<x, op>> \in Ops(t)
InFunction(t, x) == \E f, k : ItemAt(t, x, f, k)

LEMMA ItemsPlacedFacts ==
  ASSUME NEW t, NEW X
  PROVE  ItemsPlaced(t, X) <=>
           /\ \A x : InFunction(t, x) <=> x \notin X /\ IsItem(t, x)
           /\ \A x \in X : IsItem(t, x)
           /\ \A x, f, g, j, k : ItemAt(t, x, f, j) /\ ItemAt(t, x, g, k) => f = g /\ j = k
BY DEF ItemsPlaced, InFunction, IsItem

LEMMA ItemAtGrown ==
  ASSUME NEW t, NEW u, NEW o, NEW e, Joins(t, u, o, e), Awaited(t, o), LaidOut(t, u, o, e),
         Vector(t, t.functions, "function"), IsSeq(t.functions)
  PROVE  \A x, f, k : ItemAt(u, x, f, k) <=>
           \/ ItemAt(t, x, f, k)
           \/ f = e /\ o.op = "function" /\ k \in DOMAIN o.items /\ o.items[k] = x
<1>1. PICK s, r : s = t.functions /\ r = u.functions
  OBVIOUS
<1>2. r = IF o.op = "function" THEN Append(s, e) ELSE s
  BY <1>1 DEF LaidOut
<1>3. \A f : (\E j \in DOMAIN r : f = r[j]) <=> (\E j \in DOMAIN s : f = s[j]) \/ (f = e /\ o.op = "function")
  <2>1. CASE o.op # "function"
    BY <1>2, <2>1
  <2>2. CASE o.op = "function"
    <3>1. IsSeq(s) /\ r = Append(s, e)
      BY <1>1, <1>2, <2>2
    <3>2. Appended(s, e, r)
      BY <3>1, AppendFacts
    <3> QED BY <2>2, <3>2 DEF Appended
  <2> QED BY <2>1, <2>2
<1>4. ASSUME NEW j \in DOMAIN s PROVE s[j] \in Kept(t) /\ s[j] # e
  <2>1. s[j] \in Kept(t)
    BY <1>1, VectorIn
  <2> QED BY <2>1 DEF Joins
<1> SUFFICES ASSUME NEW x, NEW f, NEW k
             PROVE  ItemAt(u, x, f, k) <=>
                      \/ ItemAt(t, x, f, k)
                      \/ f = e /\ o.op = "function" /\ k \in DOMAIN o.items /\ o.items[k] = x
  OBVIOUS
<1>5. CASE \E j \in DOMAIN s : f = s[j]
  <2>1. f \in Kept(t) /\ f # e
    BY <1>4, <1>5
  <2>2. u.objs[f].items = t.objs[f].items
    BY <2>1 DEF Joins, SameOp
  <2> QED BY <1>1, <1>3, <1>5, <2>1, <2>2 DEF ItemAt
<1>6. CASE ~\E j \in DOMAIN s : f = s[j]
  <2>1. ~ItemAt(t, x, f, k)
    BY <1>1, <1>6 DEF ItemAt
  <2>2. u.objs[e].items = o.items
    BY DEF Joins, SameOp
  <2> QED BY <1>1, <1>3, <1>6, <2>1, <2>2 DEF ItemAt
<1> QED BY <1>5, <1>6

LEMMA ItemsGrown ==
  ASSUME NEW t, NEW u, NEW o, NEW e, Joins(t, u, o, e), Awaited(t, o), LaidOut(t, u, o, e),
         Vector(t, t.functions, "function"), IsSeq(t.functions),
         NEW X, ItemsPlaced(t, X), NEW Y, Takes(o, X, Y)
  PROVE  ItemsPlaced(u, Y)
<1>1. /\ \A x : InFunction(t, x) <=> x \notin X /\ IsItem(t, x)
      /\ \A x \in X : IsItem(t, x)
      /\ \A x, f, g, j, k : ItemAt(t, x, f, j) /\ ItemAt(t, x, g, k) => f = g /\ j = k
  BY ItemsPlacedFacts
<1>2. \A x, f, k : ItemAt(u, x, f, k) <=>
        \/ ItemAt(t, x, f, k)
        \/ f = e /\ o.op = "function" /\ k \in DOMAIN o.items /\ o.items[k] = x
  BY ItemAtGrown
<1>3. \A x : IsItem(u, x) <=> IsItem(t, x) \/ (x = o.id /\ o.op \in Items)
  <2> SUFFICES ASSUME NEW x
               PROVE  IsItem(u, x) <=> IsItem(t, x) \/ (x = o.id /\ o.op \in Items)
    OBVIOUS
  <2>1. \A op : <<x, op>> \in Ops(u) <=> (x # o.id /\ <<x, op>> \in Ops(t)) \/ (x = o.id /\ op = o.op)
    BY JoinsOps
  <2>2. x = o.id => ~IsItem(t, x)
    BY DEF IsItem, Items, Awaited
  <2> QED BY <2>1, <2>2 DEF IsItem
<1>4. ~IsItem(t, o.id)
  BY DEF IsItem, Items, Awaited
<1>5. CASE o.items = << >> /\ Y = X \cup (IF o.op \in Items THEN {o.id} ELSE {})
  <2>1. \A x, f, k : ItemAt(u, x, f, k) <=> ItemAt(t, x, f, k)
    <3>1. DOMAIN o.items = {}
      BY <1>5
    <3> QED BY <1>2, <3>1
  <2>2. \A x : InFunction(u, x) <=> InFunction(t, x)
    BY <2>1 DEF InFunction
  <2>3. \A x : x \in Y <=> x \in X \/ (x = o.id /\ o.op \in Items)
    BY <1>5
  <2>4. \A x : InFunction(u, x) <=> x \notin Y /\ IsItem(u, x)
    BY <1>1, <1>3, <1>4, <2>2, <2>3
  <2>5. \A x \in Y : IsItem(u, x)
    BY <1>1, <1>3, <2>3
  <2>6. \A x, f, g, j, k : ItemAt(u, x, f, j) /\ ItemAt(u, x, g, k) => f = g /\ j = k
    BY <1>1, <2>1
  <2> QED BY <2>4, <2>5, <2>6, ItemsPlacedFacts
<1>6. CASE o.op = "function" /\ (\E x : o.items = <<x>> /\ X = {x}) /\ Y = {}
  <2>1. PICK y : o.items = <<y>> /\ X = {y}
    BY <1>6
  <2>2. DOMAIN o.items = {1} /\ o.items[1] = y
    BY <2>1
  <2>3. \A x, f, k : ItemAt(u, x, f, k) <=> ItemAt(t, x, f, k) \/ (f = e /\ k = 1 /\ x = y)
    BY <1>2, <1>6, <2>2
  <2>4. \A x : InFunction(u, x) <=> InFunction(t, x) \/ x = y
    BY <2>3 DEF InFunction
  <2>5. \A x : IsItem(u, x) <=> IsItem(t, x)
    BY <1>3, <1>6 DEF Items
  <2>6. \A x : InFunction(u, x) <=> x \notin Y /\ IsItem(u, x)
    BY <1>1, <1>6, <2>1, <2>4, <2>5
  <2>7. \A f, k : ~ItemAt(t, y, f, k)
    BY <1>1, <2>1 DEF InFunction
  <2>8. \A x, f, g, j, k : ItemAt(u, x, f, j) /\ ItemAt(u, x, g, k) => f = g /\ j = k
    BY <1>1, <2>3, <2>7
  <2>9. \A x \in Y : IsItem(u, x)
    BY <1>6
  <2> QED BY <2>6, <2>8, <2>9, ItemsPlacedFacts
<1> QED BY <1>5, <1>6 DEF Takes

LEMMA PlacedGrown ==
  ASSUME NEW t, NEW u, NEW o, NEW e, Joins(t, u, o, e), Awaited(t, o), LaidOut(t, u, o, e),
         GroupsLeft(t, o), o.op \in Kinds,
         NEW X, Placed(t, X), NEW Y, Takes(o, X, Y), Vectors(t)
  PROVE  Placed(u, Y) /\ Vectors(u)
<1>1. \A p \in Ops(u) : p[2] \in Kinds
  <2> SUFFICES ASSUME NEW p \in Ops(u) PROVE p[2] \in Kinds
    OBVIOUS
  <2>1. PICK x, op : p = <<x, op>>
    BY OpsPairs
  <2>2. (x # o.id /\ <<x, op>> \in Ops(t)) \/ (x = o.id /\ op = o.op)
    BY <2>1, JoinsOps
  <2> QED BY <2>1, <2>2 DEF Placed
<1>2. Vector(u, u.strings, "string") /\ IsSeq(u.strings)
  <2>1. /\ Vector(t, t.strings, "string") /\ IsSeq(t.strings)
        /\ u.strings = IF o.op = "string" THEN Append(t.strings, e) ELSE t.strings
    BY DEF Placed, Vectors, LaidOut
  <2> QED BY <2>1, VectorGrown
<1>3. Vector(u, u.globals, "global") /\ IsSeq(u.globals)
  <2>1. /\ Vector(t, t.globals, "global") /\ IsSeq(t.globals)
        /\ u.globals = IF o.op = "global" THEN Append(t.globals, e) ELSE t.globals
    BY DEF Placed, Vectors, LaidOut
  <2> QED BY <2>1, VectorGrown
<1>4. Vector(u, u.functions, "function") /\ IsSeq(u.functions)
  <2>1. /\ Vector(t, t.functions, "function") /\ IsSeq(t.functions)
        /\ u.functions = IF o.op = "function" THEN Append(t.functions, e) ELSE t.functions
    BY DEF Placed, Vectors, LaidOut
  <2> QED BY <2>1, VectorGrown
<1>5. ItemsPlaced(u, Y)
  BY ItemsGrown DEF Placed, Vectors
<1>6. GroupsPlaced(u) /\ IsSeq(u.groups)
  BY GroupsGrown DEF Placed, Vectors
<1> QED BY <1>1, <1>2, <1>3, <1>4, <1>5, <1>6 DEF Placed, Vectors

Settled(t, X) == Placed(t, X) /\ Vectors(t)

\* addEntry and layoutEntry.
LEMMA AddJoins ==
  ASSUME NEW t, Good(t), NEW o, Blank(o), Addable(t, o.id), NEW u, u = Add(t, o)
  PROVE  /\ Joins(t, u, o, Newest(u)) /\ Awaited(t, o) /\ LaidOut(t, u, o, Newest(u))
         /\ Remarks(t, u, o)
<1>1. PICK s : s = AddEntry(t, o)
  OBVIOUS
<1>2. PICK e : e = Newest(s)
  OBVIOUS
<1>3. Grown(t, s, o, e) /\ Remarks(t, s, o) /\ \A op : <<o.id, op>> \in Ops(t) => op = "forward"
  BY <1>1, <1>2, AddEntryGrown DEF Blank
<1>4. Shaped(s)
  <2>1. CASE o.id \notin DOMAIN t.idMap
    BY <1>1, <2>1, NewEntryGood, GoodShaped
  <2>2. CASE o.id \in DOMAIN t.idMap
    <3>1. t.objs[t.idMap[o.id]].op = "forward"
      BY <2>2, MappedFacts DEF Addable, IsForward
    <3> QED BY <1>1, <2>2, <3>1, ForwardedEntryGood, GoodShaped
  <2> QED BY <2>1, <2>2
<1>5. s.objs[e].op = o.op /\ s.objs[e].id = o.id
  BY <1>3 DEF Grown, Joins, SameOp
<1>6. u = Layout(s, e)
  BY <1>1, <1>2 DEF Add
<1>7. /\ u.objs = s.objs /\ u.idMap = s.idMap /\ u.named = s.named /\ u.lines = s.lines
      /\ u.entryPointSet = s.entryPointSet /\ u.strMap = s.strMap
      /\ u.strings = IF o.op = "string" THEN Append(s.strings, e) ELSE s.strings
      /\ u.globals = IF o.op = "global" THEN Append(s.globals, e) ELSE s.globals
      /\ u.functions = IF o.op = "function" THEN Append(s.functions, e) ELSE s.functions
      /\ u.groups = IF o.op = "group" THEN Append(s.groups, o.id) ELSE s.groups
  BY <1>4, <1>5, <1>6 DEF Layout, Shaped, TableFields
<1>8. LaidOut(t, u, o, e)
  BY <1>3, <1>7 DEF Grown, SameVectors, LaidOut
<1>9. Joins(t, u, o, e)
  <2>1. Kept(u) = Kept(s)
    BY <1>7 DEF Kept, Entered
  <2> QED BY <1>3, <1>7, <2>1 DEF Grown, Joins
<1>10. Remarks(t, u, o)
  <2>1. Marks(u) = Marks(s)
    BY <1>7 DEF Marks
  <2>2. Texts(u) = Texts(s)
    BY <1>7 DEF Texts
  <2> QED BY <1>3, <2>1, <2>2 DEF Remarks
<1>11. Newest(u) = e
  BY <1>2, <1>7 DEF Newest
<1> QED BY <1>3, <1>8, <1>9, <1>10, <1>11 DEF Awaited

LEMMA AddSettled ==
  ASSUME NEW t, Good(t), NEW o, Blank(o), Addable(t, o.id), GroupsLeft(t, o), o.op \in Kinds,
         NEW X, Settled(t, X), NEW Y, Takes(o, X, Y), NEW u, u = Add(t, o)
  PROVE  /\ Settled(u, Y) /\ Joins(t, u, o, Newest(u)) /\ Awaited(t, o) /\ LaidOut(t, u, o, Newest(u))
         /\ Remarks(t, u, o)
<1>1. /\ Joins(t, u, o, Newest(u)) /\ Awaited(t, o) /\ LaidOut(t, u, o, Newest(u)) /\ Remarks(t, u, o)
  BY AddJoins
<1>2. Placed(u, Y) /\ Vectors(u)
  BY <1>1, PlacedGrown DEF Settled
<1> QED BY <1>1, <1>2 DEF Settled

LEMMA SteadySettled ==
  ASSUME NEW t, NEW u, Steady(t, u), NEW X, Settled(t, X)
  PROVE  Settled(u, X)
<1>1. Placed(u, X)
  BY SteadyPlaced DEF Settled
<1>2. Vectors(u)
  BY DEF Settled, Vectors, Steady, SameVectors
<1> QED BY <1>1, <1>2 DEF Settled

InFunctions(t, f) == \E j \in DOMAIN t.functions : f = t.functions[j]

WithItem(t, e, x, u) == u = [t EXCEPT !.objs[e].items = Append(t.objs[e].items, x)]

\* The item x is put into the function e.
LEMMA ItemSettled ==
  ASSUME NEW t, Shaped(t), NEW x, NEW X, X = {x}, Settled(t, X), NEW e, InFunctions(t, e),
         IsSeq(t.objs[e].items), NEW u, WithItem(t, e, x, u)
  PROVE  Settled(u, {}) /\ Ops(u) = Ops(t) /\ Marks(u) = Marks(t) /\ Texts(u) = Texts(t) /\ u.idMap = t.idMap
         /\ SameVectors(t, u)
<1>1. PICK items : items = Append(t.objs[e].items, x)
  OBVIOUS
<1>2. PICK n : n = Len(items)
  OBVIOUS
<1>3. /\ DOMAIN items = DOMAIN t.objs[e].items \cup {n} /\ n \notin DOMAIN t.objs[e].items
      /\ (\A k \in DOMAIN t.objs[e].items : items[k] = t.objs[e].items[k]) /\ items[n] = x
  <2>1. Appended(t.objs[e].items, x, items)
    BY <1>1, AppendFacts
  <2> QED BY <1>2, <2>1 DEF Appended
<1>4. e \in Kept(t) /\ e \in DOMAIN t.objs
  BY VectorIn DEF Settled, Placed, InFunctions
<1>5. PICK o : o = [t.objs[e] EXCEPT !.items = items]
  OBVIOUS
<1>6. PICK objs : objs = [t.objs EXCEPT ![e] = o]
  OBVIOUS
<1>7. u = [t EXCEPT !.objs = objs]
  BY <1>1, <1>5, <1>6 DEF WithItem
<1>8. /\ u.objs = objs /\ u.idMap = t.idMap /\ SameVectors(t, u) /\ u.named = t.named
      /\ u.lines = t.lines /\ u.entryPointSet = t.entryPointSet /\ u.strMap = t.strMap
  BY <1>7 DEF Shaped, TableFields, SameVectors
<1>9. /\ DOMAIN objs = DOMAIN t.objs /\ objs[e] = o
      /\ \A k \in DOMAIN t.objs : k # e => objs[k] = t.objs[k]
  <2>1. IsSeq(t.objs)
    BY DEF Shaped
  <2> QED BY <1>4, <1>6, <2>1, ExceptFacts
<1>10. o.op = t.objs[e].op /\ o.id = t.objs[e].id /\ o.items = items
  BY <1>4, <1>5 DEF Shaped, EntryFields
<1>11. \A k \in DOMAIN t.objs : objs[k].op = t.objs[k].op /\ objs[k].id = t.objs[k].id
  <2> SUFFICES ASSUME NEW k \in DOMAIN t.objs
               PROVE  objs[k].op = t.objs[k].op /\ objs[k].id = t.objs[k].id
    OBVIOUS
  <2>1. CASE k = e
    BY <1>9, <1>10, <2>1
  <2>2. CASE k # e
    BY <1>9, <2>2
  <2> QED BY <2>1, <2>2
<1>12. Kept(u) = Kept(t)
  BY <1>8, <1>9, <1>11 DEF Kept, Entered
<1>13. \A k \in Kept(t) : u.objs[k].op = t.objs[k].op /\ u.objs[k].id = t.objs[k].id
  BY <1>8, <1>11 DEF Kept
<1>14. Ops(u) = Ops(t)
  BY <1>12, <1>13 DEF Ops
<1>15. ASSUME NEW s, NEW op, Vector(t, s, op) PROVE Vector(u, s, op)
  <2>1. {k \in Kept(u) : u.objs[k].op = op} = {k \in Kept(t) : t.objs[k].op = op}
    BY <1>12, <1>13
  <2> QED BY <1>15, <2>1 DEF Vector
<1>16. Vector(u, u.strings, "string") /\ Vector(u, u.globals, "global") /\ Vector(u, u.functions, "function")
  BY <1>8, <1>15 DEF Settled, Placed, SameVectors
<1>17. \A y, f, k : ItemAt(u, y, f, k) <=> ItemAt(t, y, f, k) \/ (f = e /\ k = n /\ y = x)
  <2> SUFFICES ASSUME NEW y, NEW f, NEW k
               PROVE  ItemAt(u, y, f, k) <=> ItemAt(t, y, f, k) \/ (f = e /\ k = n /\ y = x)
    OBVIOUS
  <2>1. u.functions = t.functions
    BY <1>8 DEF SameVectors
  <2>2. CASE f = e
    <3>1. u.objs[e].items = items
      BY <1>8, <1>9, <1>10
    <3> QED BY <1>3, <2>1, <2>2, <3>1 DEF ItemAt, InFunctions
  <2>3. CASE f # e
    <3>1. ASSUME NEW j \in DOMAIN t.functions, f = t.functions[j] PROVE u.objs[f] = t.objs[f]
      <4>1. f \in DOMAIN t.objs
        BY <3>1, VectorIn DEF Settled, Placed
      <4> QED BY <1>8, <1>9, <2>3, <4>1
    <3> QED BY <2>1, <2>3, <3>1 DEF ItemAt
  <2> QED BY <2>2, <2>3
<1>18. ItemsPlaced(u, {})
  <2>1. /\ \A y : InFunction(t, y) <=> y \notin X /\ IsItem(t, y)
        /\ \A y \in X : IsItem(t, y)
        /\ \A y, f, g, j, k : ItemAt(t, y, f, j) /\ ItemAt(t, y, g, k) => f = g /\ j = k
    BY ItemsPlacedFacts DEF Settled, Placed
  <2>2. \A y : IsItem(u, y) <=> IsItem(t, y)
    BY <1>14 DEF IsItem
  <2>7. \A y : y \in X <=> y = x
    OBVIOUS
  <2>3. \A y : InFunction(u, y) <=> InFunction(t, y) \/ y = x
    BY <1>17 DEF InFunction
  <2>4. \A y : InFunction(u, y) <=> y \notin {} /\ IsItem(u, y)
    BY <2>1, <2>2, <2>3, <2>7
  <2>5. \A f, k : ~ItemAt(t, x, f, k)
    BY <2>1, <2>7 DEF InFunction
  <2>6. \A y, f, g, j, k : ItemAt(u, y, f, j) /\ ItemAt(u, y, g, k) => f = g /\ j = k
    BY <1>17, <2>1, <2>5
  <2> QED BY <2>4, <2>6, ItemsPlacedFacts
<1>19. GroupsPlaced(u)
  BY <1>8, <1>14 DEF Settled, Placed, GroupsPlaced, SameVectors
<1>20. Placed(u, {})
  BY <1>14, <1>16, <1>18, <1>19 DEF Settled, Placed
<1>21. Vectors(u)
  BY <1>8 DEF Settled, Vectors, SameVectors
<1>22. Marks(u) = Marks(t) /\ Texts(u) = Texts(t)
  BY <1>8 DEF Marks, Texts
<1> QED BY <1>8, <1>14, <1>20, <1>21, <1>22 DEF Settled

-----------------------------------------------------------------------------
(***************************************************************************)
(* The translation: every step leaves the tables ready to be written, but  *)
(* for the items in X, that are in no function yet.                        *)
(***************************************************************************)
Ready(t, X) == Built(t) /\ Settled(t, X) /\ Noted(t) /\ Tidied(t) /\ t.groups = << >>

Stays(t, u) ==
  /\ \A k \in Kept(t) : k \in Kept(u) /\ u.objs[k].op = t.objs[k].op /\ u.objs[k].id = t.objs[k].id
  /\ \A f : InFunctions(t, f) => InFunctions(u, f)
MayBeMarked(t, e) == e \in Kept(t) /\ t.objs[e].op \in Kinds \ {"string"}

LEMMA StaysTrans ==
  ASSUME NEW t, NEW s, NEW u, Stays(t, s), Stays(s, u)
  PROVE  Stays(t, u)
BY DEF Stays

LEMMA StaysMarked ==
  ASSUME NEW t, NEW u, Stays(t, u), NEW e, MayBeMarked(t, e)
  PROVE  MayBeMarked(u, e)
BY DEF Stays, MayBeMarked

LEMMA MarkedMarkable ==
  ASSUME NEW t, NEW e, MayBeMarked(t, e)
  PROVE  Markable(t, t.objs[e].id) /\ Entered(t, e)
<1>1. <<t.objs[e].id, t.objs[e].op>> \in Ops(t)
  BY DEF MayBeMarked, Ops
<1> QED BY <1>1 DEF MayBeMarked, Markable, Kept

LEMMA SteadyStays ==
  ASSUME NEW t, NEW u, Steady(t, u)
  PROVE  Stays(t, u)
<1>1. Kept(u) = Kept(t)
  BY SteadyOps
<1>2. \A k \in Kept(t) : u.objs[k].op = t.objs[k].op /\ u.objs[k].id = t.objs[k].id
  BY DEF Kept, Steady, SameOp
<1> QED BY <1>1, <1>2 DEF Stays, Steady, SameVectors, InFunctions

LEMMA NotedSteady ==
  ASSUME NEW t, Noted(t), NEW u, Steady(t, u), NEW x, Notes(t, u, x), Markable(t, x)
  PROVE  Noted(u)
<1>1. Richer(t, u)
  BY SteadyRicher
<1>2. MarksMore(t, u)
  BY <1>1 DEF Richer, MarksMore, Notes
<1> QED BY <1>1, <1>2, NotedRicher

LEMMA NotedGrown ==
  ASSUME NEW t, Noted(t), NEW u, NEW o, NEW e, Joins(t, u, o, e), Awaited(t, o), Remarks(t, u, o),
         o.op \in Kinds, o.op # "string" \/ o.id \notin DOMAIN t.idMap
  PROVE  Noted(u)
<1>1. \A x, op : <<x, op>> \in Ops(u) <=> (x # o.id /\ <<x, op>> \in Ops(t)) \/ (x = o.id /\ op = o.op)
  BY JoinsOps
<1>2. \A op : <<o.id, op>> \in Ops(t) => op = "forward" /\ o.op # "string"
  BY OpsMapped DEF Awaited
<1>3. Richer(t, u)
  <2>1. ASSUME NEW x, Markable(t, x) PROVE Markable(u, x)
    <3>1. PICK op \in Kinds \ {"string"} : <<x, op>> \in Ops(t)
      BY <2>1 DEF Markable
    <3>2. CASE x = o.id
      <4>1. <<x, o.op>> \in Ops(u) /\ o.op \in Kinds \ {"string"}
        BY <1>1, <1>2, <3>1, <3>2
      <4> QED BY <4>1 DEF Markable
    <3>3. CASE x # o.id
      BY <1>1, <3>1, <3>3 DEF Markable
    <3> QED BY <3>2, <3>3
  <2>2. ASSUME NEW x, <<x, "string">> \in Ops(t) PROVE <<x, "string">> \in Ops(u)
    BY <1>1, <1>2, <2>2
  <2> QED BY <2>1, <2>2 DEF Richer
<1>4. MarksMore(t, u)
  <2>1. ASSUME NEW x \in Marks(u), x \notin Marks(t) PROVE Markable(u, x)
    <3>1. x = o.id /\ <<x, "forward">> \in Ops(t)
      BY <2>1 DEF Remarks
    <3>2. <<x, o.op>> \in Ops(u) /\ o.op \in Kinds \ {"string"}
      BY <1>1, <1>2, <3>1
    <3> QED BY <3>2 DEF Markable
  <2> QED BY <2>1 DEF Remarks, MarksMore
<1> QED BY <1>3, <1>4, NotedRicher

\* A name, the modes.
LEMMA ChangesReady ==
  ASSUME NEW t, NEW X, Ready(t, X), NEW x, Markable(t, x), NEW u, Changes(t, u, x), Built(u), Tidied(u)
  PROVE  Ready(u, X) /\ Stays(t, u)
<1>1. Steady(t, u) /\ Notes(t, u, x) /\ Settled(t, X) /\ Noted(t) /\ t.groups = << >>
  BY DEF Changes, Ready
<1>2. Settled(u, X)
  BY <1>1, SteadySettled
<1>3. Noted(u)
  BY <1>1, NotedSteady
<1>4. u.groups = << >>
  BY <1>1 DEF Steady, SameVectors
<1>5. Stays(t, u)
  BY <1>1, SteadyStays
<1> QED BY <1>2, <1>3, <1>4, <1>5 DEF Ready

LEMMA SetNameReady ==
  ASSUME NEW t, NEW X, Ready(t, X), NEW e, MayBeMarked(t, e), NEW name, NEW u, u = SetName(t, e, name)
  PROVE  Ready(u, X) /\ Stays(t, u)
<1>1. Good(t) /\ Shaped(t) /\ Fresh(t) /\ Tidied(t)
  BY GoodShaped DEF Ready, Built
<1>2. Entered(t, e) /\ Markable(t, t.objs[e].id) /\ e \in DOMAIN t.objs
  BY MarkedMarkable DEF Entered
<1>3. Changes(t, u, t.objs[e].id)
  BY <1>1, <1>2, SetNameChanges
<1>4. Good(u) /\ SameIds(t, u)
  BY <1>1, <1>2, SetNameBuilt
<1>5. Built(u)
  BY <1>1, <1>4, SameIdsFresh DEF Built
<1>6. Tidied(u)
  BY <1>1, SetNameTidies DEF Tidies
<1> QED BY <1>2, <1>3, <1>5, <1>6, ChangesReady

LEMMA AddModeReady ==
  ASSUME NEW t, NEW X, Ready(t, X), NEW e, MayBeMarked(t, e), NEW kind, NEW literals,
         NEW u, u = AddExecutionMode(t, e, kind, literals)
  PROVE  Ready(u, X) /\ Stays(t, u)
<1>1. Good(t) /\ Shaped(t) /\ Fresh(t) /\ Tidied(t)
  BY GoodShaped DEF Ready, Built
<1>2. Entered(t, e) /\ Markable(t, t.objs[e].id) /\ e \in DOMAIN t.objs
  BY MarkedMarkable DEF Entered
<1>3. PICK modes : modes = Put(t.objs[e].modes, kind, literals)
  OBVIOUS
<1>4. PICK v : v = [t EXCEPT !.objs[e].modes = modes]
  OBVIOUS
<1>5. Changes(t, v, t.objs[e].id)
  BY <1>1, <1>2, <1>4, SetModesChanges
<1>6. Good(v) /\ Alike(t, v) /\ v.nextId = t.nextId
  BY <1>1, <1>4, SetModesGood
<1>9. u = v
  BY <1>3, <1>4 DEF AddExecutionMode
<1>7. Built(u)
  <2>1. SameIds(t, u)
    BY <1>6, <1>9, AlikeKeeps
  <2> QED BY <1>1, <1>6, <1>9, <2>1, SameIdsFresh DEF Built
<1>8. Tidied(u)
  BY <1>1, AddModeTidies DEF Tidies
<1> QED BY <1>2, <1>5, <1>7, <1>8, <1>9, ChangesReady

LEMMA TakeIdsSteady ==
  ASSUME NEW t, Shaped(t), NEW n, NEW u, u = TakeIds(t, n)
  PROVE  Steady(t, u) /\ Marks(u) = Marks(t) /\ Texts(u) = Texts(t)
<1>1. /\ u.objs = t.objs /\ u.idMap = t.idMap /\ SameVectors(t, u) /\ u.named = t.named
      /\ u.lines = t.lines /\ u.entryPointSet = t.entryPointSet /\ u.strMap = t.strMap
  BY DEF TakeIds, Shaped, TableFields, SameVectors
<1>2. Steady(t, u)
  BY <1>1 DEF Steady, SameOp
<1> QED BY <1>1, <1>2 DEF Marks, Texts

\* A new entry.
LEMMA AddReady ==
  ASSUME NEW t, Good(t), Tidied(t), NEW X, Settled(t, X), Noted(t), t.groups = << >>,
         NEW o, Blank(o), Inside(o, DOMAIN t.idMap \cup {o.id}),
         o.op \in Kinds \ {"group"}, o.id \notin DOMAIN t.idMap, NEW Y, Takes(o, X, Y),
         NEW u, u = Add(t, o), Built(u)
  PROVE  /\ Ready(u, Y) /\ Stays(t, u) /\ Newest(u) \in Kept(u) /\ SameOp(o, u.objs[Newest(u)])
         /\ o.op # "function" => u.functions = t.functions
<1>1. Addable(t, o.id)
  BY MappedFacts DEF Addable
<1>2. GroupsLeft(t, o)
  BY DEF GroupsLeft
<1>3. /\ Settled(u, Y) /\ Joins(t, u, o, Newest(u)) /\ Awaited(t, o) /\ LaidOut(t, u, o, Newest(u))
      /\ Remarks(t, u, o)
  BY <1>1, <1>2, AddSettled
<1>4. Noted(u)
  BY <1>3, NotedGrown
<1>5. Tidied(u) /\ u.groups = << >>
  BY <1>1, AddTidies DEF Adding, GroupsAfter
<1>6. \A k \in Kept(t) : t.objs[k].id # o.id
  BY DEF Kept, Entered
<1>7. Stays(t, u)
  <2>1. ASSUME NEW k \in Kept(t)
        PROVE  k \in Kept(u) /\ u.objs[k].op = t.objs[k].op /\ u.objs[k].id = t.objs[k].id
    BY <1>3, <1>6 DEF Joins, SameOp
  <2>2. ASSUME NEW f, InFunctions(t, f) PROVE InFunctions(u, f)
    <3>1. CASE o.op # "function"
      BY <1>3, <2>2, <3>1 DEF LaidOut, InFunctions
    <3>2. CASE o.op = "function"
      <4>1. PICK s, r, e : s = t.functions /\ r = u.functions /\ e = Newest(u)
        OBVIOUS
      <4>2. IsSeq(s) /\ r = Append(s, e)
        BY <1>3, <3>2, <4>1 DEF LaidOut, Settled, Vectors
      <4>3. Appended(s, e, r)
        BY <4>2, AppendFacts
      <4> QED BY <2>2, <4>1, <4>3 DEF Appended, InFunctions
    <3> QED BY <3>1, <3>2
  <2> QED BY <2>1, <2>2 DEF Stays
<1>8. Newest(u) \in Kept(u) /\ SameOp(o, u.objs[Newest(u)])
  BY <1>3 DEF Joins
<1>9. o.op # "function" => u.functions = t.functions
  BY <1>3 DEF LaidOut
<1> QED BY <1>3, <1>4, <1>5, <1>7, <1>8, <1>9 DEF Ready

LEMMA TakeIdsReady ==
  ASSUME NEW t, Ready(t, {}), NEW n, NEW u, u = TakeIds(t, n)
  PROVE  /\ Good(u) /\ Tidied(u) /\ Settled(u, {}) /\ Noted(u) /\ u.groups = << >>
         /\ u.idMap = t.idMap /\ u.nextId = t.nextId + n /\ Stays(t, u)
         /\ u.functions = t.functions
<1>1. Good(t) /\ Shaped(t) /\ Tidied(t)
  BY GoodShaped DEF Ready, Built
<1>2. Steady(t, u) /\ Marks(u) = Marks(t) /\ Texts(u) = Texts(t)
  BY <1>1, TakeIdsSteady
<1>3. Good(u) /\ Alike(t, u) /\ u.nextId = t.nextId + n
  BY <1>1, TakeIdsGood
<1>4. Tidied(u)
  BY <1>1, TakeIdsTidies DEF Tidies
<1>5. Settled(u, {})
  BY <1>2, SteadySettled DEF Ready
<1>6. Noted(u)
  <2>1. Richer(t, u) /\ MarksMore(t, u)
    BY <1>2, SteadyRicher DEF MarksMore
  <2> QED BY <2>1, NotedRicher DEF Ready
<1>7. u.groups = << >> /\ u.idMap = t.idMap /\ u.functions = t.functions
  BY <1>2 DEF Ready, Steady, SameVectors
<1>8. Stays(t, u)
  BY <1>2, SteadyStays
<1> QED BY <1>3, <1>4, <1>5, <1>6, <1>7, <1>8

LEMMA MadeReady ==
  ASSUME NEW t, Ready(t, {}), NEW o, Blank(o), \A X : Inside(o, X), o.id = t.nextId,
         o.op \in Kinds \ {"group"}, o.items = << >>,
         NEW Y, Y = IF o.op \in Items THEN {o.id} ELSE {}, NEW u, u = Add(TakeIds(t, 1), o)
  PROVE  /\ Ready(u, Y) /\ Stays(t, u) /\ Newest(u) \in Kept(u) /\ SameOp(o, u.objs[Newest(u)])
         /\ o.op # "function" => u.functions = t.functions
<1>1. PICK s : s = TakeIds(t, 1)
  OBVIOUS
<1>2. /\ Good(s) /\ Tidied(s) /\ Settled(s, {}) /\ Noted(s) /\ s.groups = << >>
      /\ s.idMap = t.idMap /\ Stays(t, s) /\ s.functions = t.functions
  BY <1>1, TakeIdsReady
<1>3. o.id \notin DOMAIN s.idMap
  BY <1>2 DEF Ready, Built, Fresh
<1>4. Built(u)
  BY MadeBuilt DEF Ready
<1>5. Takes(o, {}, Y)
  BY DEF Takes
<1>6. Inside(o, DOMAIN s.idMap \cup {o.id})
  OBVIOUS
<1>7. /\ Ready(u, Y) /\ Stays(s, u) /\ Newest(u) \in Kept(u) /\ SameOp(o, u.objs[Newest(u)])
      /\ o.op # "function" => u.functions = s.functions
  BY <1>1, <1>2, <1>3, <1>4, <1>5, <1>6, AddReady
<1> QED BY <1>2, <1>7, StaysTrans

NotesLine(t, u, x, string) == Marks(u) \subseteq Marks(t) \cup {x} /\ Texts(u) \subseteq Texts(t) \cup {string}

LEMMA AddLineSteady ==
  ASSUME NEW t, Shaped(t), NEW e \in DOMAIN t.objs, NEW string, NEW no, NEW u, u = AddLine(t, e, string, no)
  PROVE  Steady(t, u) /\ NotesLine(t, u, t.objs[e].id, string)
<1>1. PICK o : o = [t.objs[e] EXCEPT !.line = Len(t.lines) + 1]
  OBVIOUS
<1>2. PICK l : l = [target |-> t.objs[e].id, string |-> string, no |-> no]
  OBVIOUS
<1>3. PICK lines : lines = Append(t.lines, l)
  OBVIOUS
<1>4. u = [t EXCEPT !.lines = lines, !.objs = [t.objs EXCEPT ![e] = o]]
  BY <1>1, <1>2, <1>3 DEF AddLine, Shaped, TableFields
<1>5. /\ u.objs = [t.objs EXCEPT ![e] = o] /\ u.lines = lines /\ u.named = t.named
      /\ u.entryPointSet = t.entryPointSet /\ u.strMap = t.strMap /\ u.idMap = t.idMap /\ SameVectors(t, u)
  BY <1>4 DEF Shaped, TableFields, SameVectors
<1>6. SameOp(t.objs[e], o)
  BY <1>1 DEF Shaped, EntryFields, SameOp
<1>7. PICK objs : objs = u.objs
  OBVIOUS
<1>8. /\ DOMAIN objs = DOMAIN t.objs /\ objs[e] = o
      /\ \A k \in DOMAIN t.objs : k # e => objs[k] = t.objs[k]
  <2>1. IsSeq(t.objs) /\ objs = [t.objs EXCEPT ![e] = o]
    BY <1>5, <1>7 DEF Shaped
  <2> QED BY <2>1, ExceptFacts
<1>9. Steady(t, u)
  <2>1. \A k \in DOMAIN t.objs : SameOp(t.objs[k], objs[k])
    <3> SUFFICES ASSUME NEW k \in DOMAIN t.objs PROVE SameOp(t.objs[k], objs[k])
      OBVIOUS
    <3>1. CASE k = e
      BY <1>6, <1>8, <3>1
    <3>2. CASE k # e
      BY <1>8, <3>2 DEF SameOp
    <3> QED BY <3>1, <3>2
  <2> QED BY <1>5, <1>7, <1>8, <2>1 DEF Steady
<1>10. /\ DOMAIN lines = DOMAIN t.lines \cup {Len(lines)} /\ lines[Len(lines)] = l
       /\ \A k \in DOMAIN t.lines : lines[k] = t.lines[k]
  <2>1. IsSeq(t.lines)
    BY DEF Shaped
  <2>2. Appended(t.lines, l, lines)
    BY <1>3, <2>1, AppendFacts
  <2> QED BY <2>2 DEF Appended
<1>11. l.target = t.objs[e].id /\ l.string = string
  BY <1>2
<1>12. ASSUME NEW k \in DOMAIN lines
       PROVE  /\ lines[k].target = t.objs[e].id \/ (k \in DOMAIN t.lines /\ lines[k].target = t.lines[k].target)
              /\ lines[k].string = string \/ (k \in DOMAIN t.lines /\ lines[k].string = t.lines[k].string)
  BY <1>10, <1>11, Zenon
<1>13. Marks(u) \subseteq Marks(t) \cup {t.objs[e].id}
  BY <1>5, <1>12 DEF Marks
<1>14. Texts(u) \subseteq Texts(t) \cup {string}
  BY <1>5, <1>12 DEF Texts
<1> QED BY <1>9, <1>13, <1>14 DEF NotesLine

LEMMA SteadyReady ==
  ASSUME NEW t, NEW X, Ready(t, X), NEW u, Steady(t, u), MarksMore(t, u), Built(u), Tidied(u)
  PROVE  Ready(u, X) /\ Stays(t, u)
<1>1. Settled(u, X)
  BY SteadySettled DEF Ready
<1>2. Noted(u)
  <2>1. Richer(t, u)
    BY SteadyRicher
  <2> QED BY <2>1, NotedRicher DEF Ready
<1>3. u.groups = << >>
  BY DEF Ready, Steady, SameVectors
<1>4. Stays(t, u)
  BY SteadyStays
<1> QED BY <1>1, <1>2, <1>3, <1>4 DEF Ready

LEMMA AddLineReady ==
  ASSUME NEW t, NEW X, Ready(t, X), NEW e, MayBeMarked(t, e), NEW string, <<string, "string">> \in Ops(t), NEW no,
         NEW u, u = AddLine(t, e, string, no)
  PROVE  Ready(u, X) /\ Stays(t, u)
<1>1. Good(t) /\ Shaped(t) /\ Fresh(t) /\ Tidied(t)
  BY GoodShaped DEF Ready, Built
<1>2. Entered(t, e) /\ Markable(t, t.objs[e].id) /\ e \in DOMAIN t.objs
  BY MarkedMarkable DEF Entered
<1>3. Steady(t, u) /\ NotesLine(t, u, t.objs[e].id, string)
  BY <1>1, <1>2, AddLineSteady
<1>4. string \in DOMAIN t.idMap
  BY OpsMapped
<1>5. Good(u) /\ SameIds(t, u)
  BY <1>1, <1>2, <1>4, AddLineGood
<1>6. Built(u)
  BY <1>1, <1>5, SameIdsFresh DEF Built
<1>7. Tidied(u)
  BY <1>1, AddLineTidies DEF Tidies
<1>8. MarksMore(t, u)
  <2>1. Richer(t, u)
    BY <1>3, SteadyRicher
  <2> QED BY <1>2, <1>3, <2>1 DEF NotesLine, MarksMore, Richer
<1> QED BY <1>3, <1>6, <1>7, <1>8, SteadyReady

LEMMA GetStringReady ==
  ASSUME NEW t, Ready(t, {}), NEW str, NEW u, u = GetString(t, str)
  PROVE  Ready(u, {}) /\ Stays(t, u) /\ <<u.strMap[str], "string">> \in Ops(u)
<1>1. Built(t) /\ Tidied(t)
  BY DEF Ready
<1>2. Built(u) /\ Tidied(u) /\ str \in DOMAIN u.strMap
  BY <1>1, GetStringBuilt, GetStringTidies DEF Tidies
<1>3. Ready(u, {}) /\ Stays(t, u)
  <2>1. CASE str \in DOMAIN t.strMap
    <3>1. u = t
      BY <2>1 DEF GetString
    <3> QED BY <3>1 DEF Stays
  <2>2. CASE str \notin DOMAIN t.strMap
    <3>1. PICK o : o = [Entry("string", t.nextId) EXCEPT !.str = str]
      OBVIOUS
    <3>2. Blank(o) /\ o.id = t.nextId /\ o.op = "string" /\ \A X : Inside(o, X)
      <4>1. IsText(o, "string", t.nextId, str)
        BY <3>1 DEF IsText
      <4> QED BY <4>1, TextInside
    <3>3. o.items = << >>
      BY <3>1 DEF Entry
    <3>4. PICK made : made = Add(TakeIds(t, 1), o)
      OBVIOUS
    <3>5. o.op \in Kinds \ {"group"} /\ {} = IF o.op \in Items THEN {o.id} ELSE {}
      BY <3>2 DEF Kinds, Definitions, Items
    <3>6. PICK e : e = Newest(made)
      OBVIOUS
    <3>7. Ready(made, {}) /\ Stays(t, made) /\ e \in Kept(made) /\ SameOp(o, made.objs[e])
      BY <3>2, <3>3, <3>4, <3>5, <3>6, MadeReady
    <3>8. <<t.nextId, "string">> \in Ops(made)
      BY <3>2, <3>7, OpsOf DEF SameOp
    <3>9. PICK strMap : strMap = Put(made.strMap, str, t.nextId)
      OBVIOUS
    <3>10. u = [made EXCEPT !.strMap = strMap]
      BY <2>2, <3>1, <3>4, <3>9 DEF GetString
    <3>11. /\ u.objs = made.objs /\ u.idMap = made.idMap /\ SameVectors(made, u) /\ u.named = made.named
           /\ u.lines = made.lines /\ u.entryPointSet = made.entryPointSet /\ u.strMap = strMap
      BY <3>7, <3>10, GoodShaped DEF Ready, Built, Shaped, TableFields, SameVectors
    <3>12. Steady(made, u)
      BY <3>11 DEF Steady, SameOp
    <3>13. Marks(u) = Marks(made)
      BY <3>11 DEF Marks
    <3>14. Texts(u) \subseteq Texts(made) \cup {t.nextId}
      <4>1. /\ DOMAIN strMap = DOMAIN made.strMap \cup {str} /\ strMap[str] = t.nextId
            /\ \A s \in DOMAIN made.strMap : s # str => strMap[s] = made.strMap[s]
        BY <3>9 DEF Put
      <4> QED BY <3>11, <4>1 DEF Texts
    <3>15. MarksMore(made, u)
      <4>1. Richer(made, u)
        BY <3>12, SteadyRicher
      <4> QED BY <3>8, <3>13, <3>14, <4>1 DEF MarksMore, Richer
    <3>16. Ready(u, {}) /\ Stays(made, u)
      BY <1>2, <3>7, <3>12, <3>15, SteadyReady
    <3> QED BY <3>7, <3>16, StaysTrans
  <2> QED BY <2>1, <2>2
<1>4. u.strMap[str] \in Texts(u)
  BY <1>2 DEF Texts
<1> QED BY <1>3, <1>4 DEF Ready, Noted

LEMMA TransDbgInfoReady ==
  ASSUME NEW t, Ready(t, {}), NEW e, MayBeMarked(t, e), NEW d, NEW u, u = TransDbgInfo(t, e, d)
  PROVE  Ready(u, {}) /\ Stays(t, u)
<1>1. CASE d = NoDebugInfo
  BY <1>1 DEF TransDbgInfo, Stays
<1>2. CASE d # NoDebugInfo
  <2>1. PICK s : s = GetString(t, d.file)
    OBVIOUS
  <2>2. PICK id : id = s.strMap[d.file]
    OBVIOUS
  <2>3. Ready(s, {}) /\ Stays(t, s) /\ <<id, "string">> \in Ops(s)
    BY <2>1, <2>2, GetStringReady
  <2>4. MayBeMarked(s, e)
    BY <2>3, StaysMarked
  <2>5. u = AddLine(s, e, id, d.no)
    BY <1>2, <2>1, <2>2 DEF TransDbgInfo
  <2>6. Ready(u, {}) /\ Stays(s, u)
    BY <2>3, <2>4, <2>5, AddLineReady
  <2> QED BY <2>3, <2>6, StaysTrans
<1> QED BY <1>1, <1>2

LEMMA AnnotatedReady ==
  ASSUME NEW t, Ready(t, {}), NEW e, MayBeMarked(t, e), NEW name, NEW d, NEW u, u = Annotated(t, e, name, d)
  PROVE  Ready(u, {}) /\ Stays(t, u)
<1>1. PICK s : s = IF name = "" THEN t ELSE SetName(t, e, name)
  OBVIOUS
<1>2. Ready(s, {}) /\ Stays(t, s)
  <2>1. CASE name = ""
    BY <1>1, <2>1 DEF Stays
  <2>2. CASE name # ""
    <3>1. s = SetName(t, e, name)
      BY <1>1, <2>2
    <3> QED BY <3>1, SetNameReady
  <2> QED BY <2>1, <2>2
<1>3. u = TransDbgInfo(s, e, d)
  BY <1>1 DEF Annotated
<1>4. MayBeMarked(s, e)
  BY <1>2, StaysMarked
<1>5. Ready(u, {}) /\ Stays(s, u)
  BY <1>2, <1>3, <1>4, TransDbgInfoReady
<1> QED BY <1>2, <1>5, StaysTrans

LEMMA AddEntryPointReady ==
  ASSUME NEW t, NEW X, Ready(t, X), NEW e, MayBeMarked(t, e), NEW id, id = t.objs[e].id,
         NEW u, u = AddEntryPoint(t, id)
  PROVE  Ready(u, X) /\ Stays(t, u)
<1>1. Good(t) /\ Shaped(t) /\ Fresh(t) /\ Tidied(t)
  BY GoodShaped DEF Ready, Built
<1>2. Entered(t, e) /\ Markable(t, id) /\ id \in DOMAIN t.idMap
  BY MarkedMarkable DEF Entered
<1>3. /\ u.objs = t.objs /\ u.idMap = t.idMap /\ SameVectors(t, u) /\ u.named = t.named
      /\ u.lines = t.lines /\ u.entryPointSet = t.entryPointSet \cup {id} /\ u.strMap = t.strMap
  BY <1>1 DEF AddEntryPoint, Shaped, TableFields, SameVectors
<1>4. Steady(t, u)
  BY <1>3 DEF Steady, SameOp
<1>5. Marks(u) \subseteq Marks(t) \cup {id} /\ Texts(u) = Texts(t)
  BY <1>3 DEF Marks, Texts
<1>6. Good(u) /\ SameIds(t, u)
  BY <1>1, AddEntryPointGood
<1>7. Built(u)
  BY <1>1, <1>6, SameIdsFresh DEF Built
<1>8. Tidied(u)
  BY <1>1, <1>2, AddEntryPointTidies DEF Tidies
<1>9. MarksMore(t, u)
  <2>1. Richer(t, u)
    BY <1>4, SteadyRicher
  <2> QED BY <1>2, <1>5, <2>1 DEF MarksMore, Richer
<1> QED BY <1>4, <1>7, <1>8, <1>9, SteadyReady

LEMMA InBodyReady ==
  ASSUME NEW t, NEW x, Ready(t, {x}), InFunctions(t, body), NEW u, u = InBody(t, x)
  PROVE  Ready(u, {}) /\ Stays(t, u)
<1>1. Good(t) /\ Shaped(t) /\ Tidied(t) /\ Built(t) /\ Settled(t, {x}) /\ Noted(t) /\ t.groups = << >>
  BY GoodShaped DEF Ready, Built
<1>2. body \in DOMAIN t.objs /\ IsSeq(t.objs[body].items)
  <2>1. body \in DOMAIN t.objs
    BY <1>1, VectorIn DEF InFunctions, Settled, Placed
  <2> QED BY <1>1, <2>1 DEF Tidied, Inside, Listed
<1>3. PICK v : v = [t EXCEPT !.objs[body].items = Append(@, x)]
  OBVIOUS
<1>4. u = v
  BY <1>3 DEF InBody
<1>5. Settled(v, {}) /\ Ops(v) = Ops(t) /\ Marks(v) = Marks(t) /\ Texts(v) = Texts(t) /\ v.idMap = t.idMap
      /\ SameVectors(t, v)
  <2>1. PICK e, X : e = body /\ X = {x}
    OBVIOUS
  <2>2. Shaped(t) /\ X = {x} /\ Settled(t, X) /\ InFunctions(t, e) /\ IsSeq(t.objs[e].items)
    BY <1>1, <1>2, <2>1
  <2>3. WithItem(t, e, x, v)
    BY <1>3, <2>1 DEF WithItem
  <2> QED BY <2>2, <2>3, ItemSettled
<1>6. Built(u) /\ Keeps(t, u)
  BY <1>1, InBodyBuilt
<1>7. x \in DOMAIN t.idMap
  <2>1. IsItem(t, x)
    BY <1>1, ItemsPlacedFacts DEF Settled, Placed
  <2> QED BY <2>1, OpsMapped DEF IsItem
<1>8. Tidied(u)
  BY <1>1, <1>7, InBodyTidies DEF Tidies
<1>9. Noted(v)
  BY <1>1, <1>5 DEF Noted, Markable
<1>10. Stays(t, u)
  <2>1. ASSUME NEW k \in Kept(t)
        PROVE  k \in Kept(v) /\ v.objs[k].op = t.objs[k].op /\ v.objs[k].id = t.objs[k].id
    <3>1. k \in Kept(v)
      BY <1>4, <1>6 DEF Keeps, Kept, Entered
    <3>2. k \in DOMAIN t.objs /\ DOMAIN t.objs[k] = EntryFields
      BY <1>1 DEF Kept, Shaped
    <3>3. PICK o : o = [t.objs[body] EXCEPT !.items = Append(t.objs[body].items, x)]
      OBVIOUS
    <3>4. o.op = t.objs[body].op /\ o.id = t.objs[body].id
      BY <1>1, <1>2, <3>3 DEF Shaped, EntryFields
    <3>5. v.objs = [t.objs EXCEPT ![body] = o]
      BY <1>1, <1>3, <3>3 DEF Shaped, TableFields
    <3> QED BY <3>1, <3>2, <3>4, <3>5
  <2>2. \A f : InFunctions(t, f) => InFunctions(v, f)
    BY <1>5 DEF InFunctions, SameVectors
  <2> QED BY <1>4, <2>1, <2>2 DEF Stays
<1> QED BY <1>1, <1>4, <1>5, <1>6, <1>8, <1>9, <1>10 DEF Ready, SameVectors

-----------------------------------------------------------------------------
LEMMA NewEntryMarkable ==
  ASSUME NEW u, NEW e \in Kept(u), NEW o, SameOp(o, u.objs[e]), o.op \in Kinds \ {"string"}
  PROVE  MayBeMarked(u, e) /\ u.objs[e].id = o.id
BY DEF MayBeMarked, SameOp

LEMMA MakeReady ==
  ASSUME NEW t, Ready(t, {}), NEW op, op \in Kinds \ {"group", "string"},
         NEW Y, Y = IF op \in Items THEN {t.nextId} ELSE {}, NEW u, u = Make(t, op),
         NEW e, e = Newest(u)
  PROVE  /\ Ready(u, Y) /\ Stays(t, u) /\ MayBeMarked(u, e)
         /\ op # "function" => u.functions = t.functions
<1>1. PICK o : o = Entry(op, t.nextId)
  OBVIOUS
<1>2. Blank(o) /\ o.op = op /\ o.id = t.nextId /\ \A X : Inside(o, X)
  BY <1>1, EntryInside
<1>3. o.items = << >>
  BY <1>1 DEF Entry
<1>4. u = Add(TakeIds(t, 1), o)
  BY <1>1 DEF Make
<1>5. o.op \in Kinds \ {"group"} /\ Y = IF o.op \in Items THEN {o.id} ELSE {}
  BY <1>2
<1>6. /\ Ready(u, Y) /\ Stays(t, u) /\ e \in Kept(u) /\ SameOp(o, u.objs[e])
      /\ o.op # "function" => u.functions = t.functions
  BY <1>2, <1>3, <1>4, <1>5, MadeReady
<1>7. MayBeMarked(u, e)
  BY <1>2, <1>6, NewEntryMarkable
<1> QED BY <1>2, <1>6, <1>7

\* The tables are ready, and the body that is translated is one of a function.
Writing(t) == Ready(t, {}) /\ (body = 0 \/ InFunctions(t, body))

LEMMA WritingStays ==
  ASSUME NEW t, Writing(t), NEW u, Ready(u, {}), Stays(t, u)
  PROVE  Writing(u)
BY DEF Writing, Stays

LEMMA VectorsOf ==
  ASSUME NEW t, Tidied(t), IsSeq(t.groups)
  PROVE  Vectors(t)
BY DEF Tidied, Listed, Vectors

LEMMA BuildingWriting ==
  ASSUME IInv, FInv, LInv, phase = "building"
  PROVE  Writing(m)
<1>1. Built(m) /\ Tidied(m) /\ m.groups = << >> /\ IsSeq(m.groups)
  BY DEF IInv, Built, FInv, Numbered, GroupsFresh
<1>2. Settled(m, {}) /\ Noted(m)
  BY <1>1, VectorsOf DEF LInv, Settled
<1>3. body = 0 \/ InFunctions(m, body)
  BY DEF LInv, InFunctions
<1> QED BY <1>1, <1>2, <1>3 DEF Ready, Writing

LEMMA WritingLayout ==
  ASSUME LInv, phase = "building", AfterInit, body' = body, NEW t, t = m', Writing(t)
  PROVE  LInv'
<1>1. Placed(t, {}) /\ Noted(t) /\ (body = 0 \/ InFunctions(t, body))
  BY DEF Writing, Ready, Settled
<1>2. Placed(m', {}) /\ Noted(m') /\ (body = 0 \/ body \in {m'.functions[k] : k \in DOMAIN m'.functions})
  BY <1>1 DEF InFunctions
<1>3. phase' = "building" /\ source' = Empty
  BY DEF AfterInit, LInv
<1> QED BY <1>2, <1>3 DEF LInv

LEMMA AddGlobalLayout ==
  ASSUME IInv, FInv, LInv, AddGlobal
  PROVE  LInv'
<1>1. Writing(m) /\ Ready(m, {}) /\ phase = "building" /\ AfterInit /\ body' = body
  BY BuildingWriting DEF AddGlobal, Building, Writing
<1>2. PICK name : m' = Annotated(Make(m, "global"), Newest(Make(m, "global")), name, NoDebugInfo)
  BY DEF AddGlobal
<1>3. PICK t : t = Make(m, "global")
  OBVIOUS
<1>4. PICK e : e = Newest(t)
  OBVIOUS
<1>5. PICK op : op = "global"
  OBVIOUS
<1>6. op \in Kinds \ {"group", "string"} /\ {} = IF op \in Items THEN {m.nextId} ELSE {}
  BY <1>5 DEF Kinds, Definitions, Items
<1>7. Ready(t, {}) /\ Stays(m, t) /\ MayBeMarked(t, e)
  BY <1>1, <1>3, <1>4, <1>5, <1>6, MakeReady
<1>8. PICK u : u = m'
  OBVIOUS
<1>9. u = Annotated(t, e, name, NoDebugInfo)
  BY <1>2, <1>3, <1>4, <1>8
<1>10. Ready(u, {}) /\ Stays(t, u)
  BY <1>7, <1>9, AnnotatedReady
<1>11. Writing(u)
  BY <1>1, <1>7, <1>10, StaysTrans, WritingStays
<1> QED BY <1>1, <1>8, <1>11, WritingLayout

LEMMA AddForwardLayout ==
  ASSUME IInv, FInv, LInv, AddForward
  PROVE  LInv'
<1>1. Writing(m) /\ Ready(m, {}) /\ phase = "building" /\ AfterInit /\ body' = body
  BY BuildingWriting DEF AddForward, Building, Writing
<1>2. PICK name, d : m' = Annotated(Make(m, "forward"), Newest(Make(m, "forward")), name, d)
  BY DEF AddForward
<1>3. PICK t : t = Make(m, "forward")
  OBVIOUS
<1>4. PICK e : e = Newest(t)
  OBVIOUS
<1>5. PICK op : op = "forward"
  OBVIOUS
<1>6. op \in Kinds \ {"group", "string"} /\ {} = IF op \in Items THEN {m.nextId} ELSE {}
  BY <1>5 DEF Kinds, Definitions, Items
<1>7. Ready(t, {}) /\ Stays(m, t) /\ MayBeMarked(t, e)
  BY <1>1, <1>3, <1>4, <1>5, <1>6, MakeReady
<1>8. PICK u : u = m'
  OBVIOUS
<1>9. u = Annotated(t, e, name, d)
  BY <1>2, <1>3, <1>4, <1>8
<1>10. Ready(u, {}) /\ Stays(t, u)
  BY <1>7, <1>9, AnnotatedReady
<1>11. Writing(u)
  BY <1>1, <1>7, <1>10, StaysTrans, WritingStays
<1> QED BY <1>1, <1>8, <1>11, WritingLayout

LEMMA AddInstructionLayout ==
  ASSUME IInv, FInv, LInv, AddInstruction
  PROVE  LInv'
<1>1. /\ Writing(m) /\ Ready(m, {}) /\ phase = "building" /\ AfterInit /\ body' = body
      /\ InFunctions(m, body)
  BY BuildingWriting DEF AddInstruction, Building, Writing
<1>2. PICK name, d : m' = Annotated(InBody(Make(m, "instruction"), m.nextId), Newest(Make(m, "instruction")), name, d)
  BY DEF AddInstruction
<1>3. PICK t : t = Make(m, "instruction")
  OBVIOUS
<1>4. PICK e : e = Newest(t)
  OBVIOUS
<1>5. PICK op, x : op = "instruction" /\ x = m.nextId
  OBVIOUS
<1>6. op \in Kinds \ {"group", "string"} /\ {x} = IF op \in Items THEN {m.nextId} ELSE {}
  BY <1>5 DEF Kinds, Definitions, Items
<1>7. Ready(t, {x}) /\ Stays(m, t) /\ MayBeMarked(t, e)
  BY <1>1, <1>3, <1>4, <1>5, <1>6, MakeReady
<1>8. PICK s : s = InBody(t, x)
  OBVIOUS
<1>9. InFunctions(t, body)
  BY <1>1, <1>7 DEF Stays
<1>10. Ready(s, {}) /\ Stays(t, s)
  BY <1>7, <1>8, <1>9, InBodyReady
<1>11. MayBeMarked(s, e)
  BY <1>7, <1>10, StaysMarked
<1>12. PICK u : u = m'
  OBVIOUS
<1>13. u = Annotated(s, e, name, d)
  BY <1>2, <1>3, <1>4, <1>5, <1>8, <1>12
<1>14. Ready(u, {}) /\ Stays(s, u)
  BY <1>10, <1>11, <1>13, AnnotatedReady
<1>15. Writing(u)
  <2>1. Stays(m, s)
    BY <1>7, <1>10, StaysTrans
  <2>2. Stays(m, u)
    BY <1>14, <2>1, StaysTrans
  <2> QED BY <1>1, <1>14, <2>2, WritingStays
<1> QED BY <1>1, <1>12, <1>15, WritingLayout

LEMMA AddModeLayout ==
  ASSUME IInv, FInv, LInv, AddMode
  PROVE  LInv'
<1>1. Writing(m) /\ Ready(m, {}) /\ phase = "building" /\ AfterInit /\ body' = body
  BY BuildingWriting DEF AddMode, Building, Writing
<1>2. PICK id \in m.entryPointSet :
        \E kind, literals : m' = AddExecutionMode(m, m.idMap[id], kind, literals)
  BY DEF AddMode
<1>3. PICK e : e = m.idMap[id]
  OBVIOUS
<1>4. Markable(m, id)
  BY <1>1 DEF Ready, Noted, Marks
<1>5. MayBeMarked(m, e)
  <2>1. PICK op \in Kinds \ {"string"} : <<id, op>> \in Ops(m)
    BY <1>4 DEF Markable
  <2>2. PICK k \in Kept(m) : m.objs[k].id = id /\ m.objs[k].op = op
    BY <2>1, OpsOf
  <2>3. k = e
    BY <1>3, <2>2 DEF Kept, Entered
  <2> QED BY <2>1, <2>2, <2>3 DEF MayBeMarked
<1>6. PICK u : u = m'
  OBVIOUS
<1>7. PICK kind, literals : u = AddExecutionMode(m, e, kind, literals)
  BY <1>2, <1>3, <1>6
<1>8. Ready(u, {}) /\ Stays(m, u)
  BY <1>1, <1>5, <1>7, AddModeReady
<1>9. Writing(u)
  BY <1>1, <1>8, WritingStays
<1> QED BY <1>1, <1>6, <1>9, WritingLayout

LEMMA StartBodyLayout ==
  ASSUME LInv, StartBody
  PROVE  LInv'
<1>1. body' \in {m.functions[k] : k \in DOMAIN m.functions}
  BY DEF StartBody, Range
<1>2. m' = m /\ source' = source /\ phase' = phase /\ phase = "building"
  BY DEF StartBody, AfterInit, Building
<1> QED BY <1>1, <1>2 DEF LInv

LEMMA AddFresh ==
  ASSUME NEW t, Built(t), NEW o, Blank(o), Addable(t, o.id), o.id \in Nat, o.id < t.nextId,
         NEW u, u = Add(t, o)
  PROVE  Built(u)
<1>1. Good(u) /\ DOMAIN u.idMap = DOMAIN t.idMap \cup {o.id} /\ u.nextId = t.nextId
  BY AddGood DEF Built
<1> QED BY <1>1 DEF Built, Fresh

LEMMA TakenFresh ==
  ASSUME NEW t, Ready(t, {}), NEW n \in Nat, NEW u, u = TakeIds(t, n)
  PROVE  Ready(u, {}) /\ Stays(t, u) /\ u.idMap = t.idMap /\ u.nextId = t.nextId + n
<1>1. /\ Good(u) /\ Tidied(u) /\ Settled(u, {}) /\ Noted(u) /\ u.groups = << >>
      /\ u.idMap = t.idMap /\ u.nextId = t.nextId + n /\ Stays(t, u)
  BY TakeIdsReady
<1>2. t.nextId \in Nat /\ \A id \in DOMAIN t.idMap : id \in Nat /\ id < t.nextId
  BY DEF Ready, Built, Fresh
<1>3. Fresh(u)
  BY <1>1, <1>2 DEF Fresh
<1> QED BY <1>1, <1>3 DEF Ready, Built

\* The parameter of a function, entered before it.
ParameterAdded(taken, params, id) ==
  IF params = 0 THEN taken ELSE Add(taken, Entry("parameter", id + 1))
ItemsOf(params, id) == IF params = 0 THEN << >> ELSE <<id + 1>>
LEMMA ParameterReady ==
  ASSUME NEW t, Ready(t, {}), NEW params \in {0, 1}, NEW id, id = t.nextId,
         NEW taken, taken = TakeIds(t, params + 1), NEW u, u = ParameterAdded(taken, params, id),
         NEW X, X = IF params = 0 THEN {} ELSE {id + 1}, NEW p, p = Newest(u)
  PROVE  /\ Ready(u, X) /\ Stays(t, u) /\ u.nextId = id + (params + 1)
         /\ id \notin DOMAIN u.idMap
         /\ params # 0 => MayBeMarked(u, p) /\ id + 1 \in DOMAIN u.idMap
<1>1. id \in Nat /\ \A x \in DOMAIN t.idMap : x \in Nat /\ x < id
  BY DEF Ready, Built, Fresh
<1>2. Ready(taken, {}) /\ Stays(t, taken) /\ taken.idMap = t.idMap /\ taken.nextId = id + (params + 1)
  <2>1. PICK n : n = params + 1
    OBVIOUS
  <2>2. n \in Nat /\ taken = TakeIds(t, n)
    BY <2>1
  <2> QED BY <2>1, <2>2, TakenFresh
<1>3. id \notin DOMAIN taken.idMap /\ id + 1 \notin DOMAIN taken.idMap
  BY <1>1, <1>2
<1>4. CASE params = 0
  <2>1. u = taken /\ X = {}
    BY <1>4 DEF ParameterAdded
  <2> QED BY <1>2, <1>3, <1>4, <2>1
<1>5. CASE params # 0
  <2>1. PICK o : o = Entry("parameter", id + 1)
    OBVIOUS
  <2>2. Blank(o) /\ o.op = "parameter" /\ o.id = id + 1 /\ \A Y : Inside(o, Y)
    BY <2>1, EntryInside
  <2>3. o.items = << >>
    BY <2>1 DEF Entry
  <2>4. u = Add(taken, o)
    BY <1>5, <2>1 DEF ParameterAdded
  <2>5. o.id \notin DOMAIN taken.idMap /\ Addable(taken, o.id)
    <3>1. o.id \notin DOMAIN taken.idMap
      BY <1>3, <2>2
    <3> QED BY <1>2, <3>1, MappedFacts DEF Addable, Ready, Built
  <2>6. o.id \in Nat /\ o.id < taken.nextId
    BY <1>1, <1>2, <1>5, <2>2
  <2>7. Built(u)
    BY <1>2, <2>2, <2>4, <2>5, <2>6, AddFresh DEF Ready
  <2>8. o.op \in Kinds \ {"group", "string"} /\ o.op \in Items
    BY <2>2 DEF Kinds, Definitions, Items
  <2>9. Takes(o, {}, X)
    BY <1>5, <2>2, <2>3, <2>8 DEF Takes
  <2>10. /\ Good(taken) /\ Tidied(taken) /\ Settled(taken, {}) /\ Noted(taken) /\ taken.groups = << >>
         /\ Inside(o, DOMAIN taken.idMap \cup {o.id}) /\ o.op \in Kinds \ {"group"}
    BY <1>2, <2>2, <2>8 DEF Ready, Built
  <2>11. Ready(u, X) /\ Stays(taken, u) /\ p \in Kept(u) /\ SameOp(o, u.objs[p])
    BY <2>2, <2>4, <2>5, <2>7, <2>9, <2>10, AddReady
  <2>12. MayBeMarked(u, p)
    BY <2>8, <2>11, NewEntryMarkable
  <2>13. DOMAIN u.idMap = DOMAIN taken.idMap \cup {o.id} /\ u.nextId = taken.nextId
    BY <2>2, <2>4, <2>5, <2>10, AddGood
  <2>14. id \notin DOMAIN u.idMap /\ id + 1 \in DOMAIN u.idMap
    BY <1>1, <1>3, <2>2, <2>13
  <2> QED BY <1>2, <2>11, <2>12, <2>13, <2>14, StaysTrans
<1> QED BY <1>4, <1>5

LEMMA FunctionAddedReady ==
  ASSUME NEW t, Ready(t, {}), NEW params \in {0, 1}, NEW name,
         NEW param, HasParameter(params, param),
         NEW kernel, NEW d, NEW u, u = FunctionAdded(t, params, name, param, kernel, d)
  PROVE  Ready(u, {}) /\ Stays(t, u)
<1>1. PICK id, X : id = t.nextId /\ X = IF params = 0 THEN {} ELSE {id + 1}
  OBVIOUS
<1>2. PICK taken : taken = TakeIds(t, params + 1)
  OBVIOUS
<1>3. PICK withPar : withPar = ParameterAdded(taken, params, id)
  OBVIOUS
<1>4. PICK p : p = Newest(withPar)
  OBVIOUS
<1>5. PICK o : o = [Entry("function", id) EXCEPT !.items = ItemsOf(params, id)]
  OBVIOUS
<1>6. PICK made : made = Add(withPar, o)
  OBVIOUS
<1>7. PICK f : f = Newest(made)
  OBVIOUS
<1>8. PICK called : called = SetName(made, f, name)
  OBVIOUS
<1>9. PICK entered : entered = IF kernel THEN AddEntryPoint(called, id) ELSE called
  OBVIOUS
<1>10. PICK parName : parName = IF param = "" THEN entered ELSE SetName(entered, f - 1, param)
  OBVIOUS
<1>11. u = TransDbgInfo(parName, f, d)
  BY <1>1, <1>2, <1>3, <1>5, <1>6, <1>7, <1>8, <1>9, <1>10 DEF FunctionAdded, ParameterAdded, ItemsOf
<1>12. /\ Ready(withPar, X) /\ Stays(t, withPar) /\ withPar.nextId = id + (params + 1)
       /\ id \notin DOMAIN withPar.idMap
       /\ params # 0 => MayBeMarked(withPar, p) /\ id + 1 \in DOMAIN withPar.idMap
  BY <1>1, <1>2, <1>3, <1>4, ParameterReady
<1>13. /\ Blank(o) /\ o.id = id /\ o.op = "function" /\ o.items = ItemsOf(params, id)
       /\ Inside(o, DOMAIN withPar.idMap \cup {o.id})
  <2>1. PICK items : items = ItemsOf(params, id)
    OBVIOUS
  <2>2. /\ Blank(o) /\ o.id = id /\ o.op = "function" /\ o.items = items /\ o.modes = << >>
    BY <1>5, <2>1 DEF Blank, Entry, EntryFields
  <2>3. IsFiniteSet(DOMAIN o.modes)
    <3>1. DOMAIN << >> = {}
      OBVIOUS
    <3> QED BY <2>2, <3>1, FS_EmptySet
  <2>4. Listed(items, DOMAIN withPar.idMap \cup {o.id})
    <3>1. CASE params = 0
      <4>1. items = << >> /\ DOMAIN << >> = {} /\ << >> \in Seq({})
        BY <2>1, <3>1 DEF ItemsOf
      <4> QED BY <4>1 DEF Listed, IsSeq
    <3>2. CASE params # 0
      <4>1. items = <<id + 1>> /\ id + 1 \in DOMAIN withPar.idMap
        BY <1>12, <2>1, <3>2 DEF ItemsOf
      <4>2. DOMAIN items = {1} /\ items[1] = id + 1 /\ items \in Seq({id + 1})
        BY <4>1
      <4>3. {items[k] : k \in DOMAIN items} = {id + 1}
        BY <4>2
      <4> QED BY <4>1, <4>2, <4>3 DEF Listed, IsSeq
    <3> QED BY <3>1, <3>2
  <2> QED BY <2>1, <2>2, <2>3, <2>4 DEF Inside
<1>14. Takes(o, X, {})
  <2>1. CASE params = 0
    <3>1. o.items = << >> /\ X = {} /\ o.op \notin Items
      BY <1>1, <1>13, <2>1 DEF ItemsOf, Items
    <3> QED BY <3>1 DEF Takes
  <2>2. CASE params # 0
    <3>1. o.items = <<id + 1>> /\ X = {id + 1} /\ o.op = "function"
      BY <1>1, <1>13, <2>2 DEF ItemsOf
    <3> QED BY <3>1 DEF Takes
  <2> QED BY <2>1, <2>2
<1>15. /\ Good(withPar) /\ Built(withPar) /\ Tidied(withPar) /\ Settled(withPar, X) /\ Noted(withPar)
       /\ withPar.groups = << >>
  BY <1>12 DEF Ready, Built
<1>16. o.id \notin DOMAIN withPar.idMap /\ Addable(withPar, o.id)
  <2>1. o.id \notin DOMAIN withPar.idMap
    BY <1>12, <1>13
  <2> QED BY <1>15, <2>1, MappedFacts DEF Addable
<1>17. Built(made)
  <2>1. o.id \in Nat /\ o.id < withPar.nextId
    <3>1. id \in Nat
      BY <1>1 DEF Ready, Built, Fresh
    <3> QED BY <1>12, <1>13, <3>1
  <2> QED BY <1>6, <1>13, <1>15, <1>16, <2>1, AddFresh
<1>18. o.op \in Kinds \ {"group", "string"} /\ o.op \in Kinds \ {"group"}
  BY <1>13 DEF Kinds, Definitions, Items
<1>19. Ready(made, {}) /\ Stays(withPar, made) /\ f \in Kept(made) /\ SameOp(o, made.objs[f])
  BY <1>6, <1>7, <1>13, <1>14, <1>15, <1>16, <1>17, <1>18, AddReady
<1>20. MayBeMarked(made, f) /\ made.objs[f].id = id
  BY <1>13, <1>18, <1>19, NewEntryMarkable
<1>21. Ready(called, {}) /\ Stays(made, called)
  BY <1>8, <1>19, <1>20, SetNameReady
<1>22. MayBeMarked(called, f) /\ called.objs[f].id = id
  BY <1>20, <1>21, StaysMarked DEF Stays, MayBeMarked
<1>23. Ready(entered, {}) /\ Stays(called, entered)
  <2>1. CASE kernel
    <3>1. entered = AddEntryPoint(called, id)
      BY <1>9, <2>1
    <3> QED BY <1>21, <1>22, <3>1, AddEntryPointReady
  <2>2. CASE ~kernel
    BY <1>9, <1>21, <2>2 DEF Stays
  <2> QED BY <2>1, <2>2
<1>24. Stays(made, entered) /\ MayBeMarked(entered, f)
  BY <1>20, <1>21, <1>23, StaysTrans, StaysMarked
<1>25. Ready(parName, {}) /\ Stays(entered, parName)
  <2>1. CASE param = ""
    BY <1>10, <1>23, <2>1 DEF Stays
  <2>2. CASE param # ""
    <3>1. MayBeMarked(withPar, p)
      BY <1>12, <2>2 DEF HasParameter
    <3>2. Stays(withPar, entered)
      BY <1>19, <1>24, StaysTrans
    <3>3. MayBeMarked(entered, p)
      BY <3>1, <3>2, StaysMarked
    <3>4. f = p + 1 /\ p \in Nat
      <4>1. f = Newest(withPar) + 1
        BY <1>6, <1>7, <1>13, <1>15, <1>16, AddNewGood
      <4>2. p \in Nat
        BY <1>4, <1>15, SeqDomain DEF Good, Sound, Shaped, Newest
      <4> QED BY <1>4, <4>1, <4>2
    <3>5. parName = SetName(entered, p, param)
      <4>1. f - 1 = p
        BY <3>4
      <4> QED BY <1>10, <2>2, <4>1
    <3> QED BY <1>23, <3>3, <3>5, SetNameReady
  <2> QED BY <2>1, <2>2
<1>26. MayBeMarked(parName, f)
  BY <1>24, <1>25, StaysMarked
<1>27. Ready(u, {}) /\ Stays(parName, u)
  BY <1>11, <1>25, <1>26, TransDbgInfoReady
<1>28. Stays(t, u)
  <2>1. Stays(t, made)
    BY <1>12, <1>19, StaysTrans
  <2>2. Stays(t, entered)
    BY <1>24, <2>1, StaysTrans
  <2>3. Stays(t, parName)
    BY <1>25, <2>2, StaysTrans
  <2> QED BY <1>27, <2>3, StaysTrans
<1> QED BY <1>27, <1>28

LEMMA AddFunctionLayout ==
  ASSUME IInv, FInv, LInv, AddFunction
  PROVE  LInv'
<1>1. Writing(m) /\ Ready(m, {}) /\ phase = "building" /\ AfterInit /\ body' = body
  BY BuildingWriting DEF AddFunction, Building, Writing
<1>2. PICK params \in {0, 1}, name \in Names, param \in Names \cup {""},
           kernel \in BOOLEAN, d \in DebugInfo :
        (params = 0 => param = "") /\ m' = FunctionAdded(m, params, name, param, kernel, d)
  BY DEF AddFunction, FunctionAdded
<1>3. HasParameter(params, param)
  BY <1>2 DEF HasParameter
<1>4. PICK u : u = m'
  OBVIOUS
<1>5. u = FunctionAdded(m, params, name, param, kernel, d)
  BY <1>2, <1>4
<1>6. Ready(u, {}) /\ Stays(m, u)
  BY <1>1, <1>3, <1>5, FunctionAddedReady
<1>7. Writing(u)
  BY <1>1, <1>6, WritingStays
<1> QED BY <1>1, <1>4, <1>7, WritingLayout

LEMMA MadeFields ==
  ASSUME NEW t, Good(t), NEW op, op = "instruction", t.nextId \notin DOMAIN t.idMap, NEW u, u = Make(t, op),
         NEW e, e = Newest(u), NEW o, o = Entry(op, t.nextId)
  PROVE  /\ Appended(t.objs, o, u.objs) /\ e = Len(u.objs)
         /\ u.idMap = Put(t.idMap, t.nextId, e)
         /\ SameVectors(t, u) /\ u.named = t.named /\ u.lines = t.lines /\ u.strMap = t.strMap
         /\ u.entryPointSet = t.entryPointSet
<1>1. Shaped(t)
  BY GoodShaped
<1>2. PICK s : s = TakeIds(t, 1)
  OBVIOUS
<1>3. /\ DOMAIN s = TableFields /\ s.objs = t.objs /\ s.idMap = t.idMap /\ SameVectors(t, s) /\ s.named = t.named
      /\ s.lines = t.lines /\ s.entryPointSet = t.entryPointSet /\ s.strMap = t.strMap
  BY <1>1, <1>2 DEF TakeIds, Shaped, TableFields, SameVectors
<1>4. o.op = op /\ o.id = t.nextId
  BY DEF Entry
<1>5. Good(s)
  BY <1>2, TakeIdsGood
<1>6. Mapped(s, o.id) = NoEntry
  BY <1>3, <1>4, <1>5, MappedFacts
<1>7. PICK objs, n : objs = Append(t.objs, o) /\ n = Len(objs)
  OBVIOUS
<1>8. PICK made : made = [s EXCEPT !.objs = objs]
  OBVIOUS
<1>9. made.objs = objs /\ made.idMap = t.idMap /\ DOMAIN made = TableFields /\ SameVectors(t, made)
      /\ made.named = t.named /\ made.lines = t.lines /\ made.strMap = t.strMap
      /\ made.entryPointSet = t.entryPointSet
  BY <1>3, <1>8 DEF TableFields, SameVectors
<1>10. PICK idMap : idMap = Put(t.idMap, t.nextId, n)
  OBVIOUS
<1>11. PICK a : a = [made EXCEPT !.idMap = idMap]
  OBVIOUS
<1>12. AddEntry(s, o) = a
  <2>1. AddEntry(s, o) = [[s EXCEPT !.objs = Append(@, o)] EXCEPT !.idMap = Put(@, o.id, Newest([s EXCEPT !.objs = Append(@, o)]))]
    BY <1>6 DEF AddEntry
  <2>2. [s EXCEPT !.objs = Append(@, o)] = made
    BY <1>3, <1>7, <1>8
  <2>3. Newest(made) = n
    BY <1>7, <1>9 DEF Newest
  <2> QED BY <1>4, <1>9, <1>10, <1>11, <2>1, <2>2, <2>3
<1>13. a.objs = objs /\ a.idMap = idMap /\ SameVectors(t, a) /\ a.named = t.named /\ a.lines = t.lines
       /\ a.strMap = t.strMap /\ a.entryPointSet = t.entryPointSet
  BY <1>9, <1>11 DEF TableFields, SameVectors
<1>14. Newest(a) = n
  BY <1>7, <1>13 DEF Newest
<1>15. Appended(t.objs, o, objs)
  BY <1>1, <1>7, AppendFacts DEF Shaped
<1>16. u = a
  <2>1. u = Layout(a, n)
    BY <1>2, <1>12, <1>14 DEF Make, Add
  <2>2. a.objs[n].op = op
    BY <1>4, <1>7, <1>13, <1>15 DEF Appended
  <2> QED BY <2>1, <2>2 DEF Layout
<1> QED BY <1>7, <1>10, <1>13, <1>14, <1>15, <1>16

\* addForward's entry f gives its id to the instruction that is made for it.
LEMMA ForwardedBuilt ==
  ASSUME NEW t, Built(t), Tidied(t), NEW f, Entered(t, f), t.objs[f].op = "forward",
         NEW id, id = t.objs[f].id, NEW made, made = Make(t, "instruction"), NEW e, e = Newest(made),
         NEW renamed, renamed = [made EXCEPT !.objs[e].id = id], NEW u, u = ReplaceForward(renamed, f, e)
  PROVE  Built(u) /\ Tidied(u)
<1>5. /\ Built(made) /\ Keeps(t, made) /\ Entered(made, e) /\ Blank(made.objs[e])
      /\ made.objs[e].op = "instruction"
      /\ \A k \in DOMAIN t.objs : k \in DOMAIN made.objs /\ made.objs[k] = t.objs[k]
      /\ \A k : Entered(t, k) => k # e
      /\ Tidies(t, made)
  BY MakeBuilt, MakeTidies
<1>7. /\ Entered(made, f) /\ e # f /\ made.objs[f] = t.objs[f]
      /\ made.objs[f].op = "forward" /\ made.objs[e].op # "forward"
      /\ made.objs[e].name = "" /\ made.objs[e].line = 0
  <2>1. Entered(made, f) /\ e # f /\ made.objs[f] = t.objs[f]
    BY <1>5 DEF Keeps, Entered
  <2>2. made.objs[e].op # "forward"
    BY <1>5
  <2>3. made.objs[e].name = "" /\ made.objs[e].line = 0
    BY <1>5 DEF Blank
  <2> QED BY <2>1, <2>2, <2>3
<1>8. PICK r : r = [made EXCEPT !.objs[e].id = made.objs[f].id]
  OBVIOUS
<1>9. Pending(r, f, e) /\ SameIds(made, r) /\ Tidies(made, r)
  BY <1>5, <1>7, <1>8, RenamedPending, RenamedTidies, GoodShaped DEF Built
<1>10. r = renamed
  BY <1>7, <1>8
<1>11. Good(u) /\ DOMAIN u.idMap = DOMAIN r.idMap /\ u.nextId = r.nextId
  <2>1. u = ReplaceForward(r, f, e)
    BY <1>10
  <2> QED BY <1>9, <2>1, ReplaceForwardGood
<1>12. Tidies(r, u)
  <2>1. r.objs[f].op = "forward"
    BY <1>5, <1>7, <1>8, GoodShaped, ZenonT(60) DEF Built, Shaped, TableFields, Entered
  <2> QED BY <1>9, <1>10, <2>1, ReplaceForwardTidies
<1>13. Built(u)
  <2>1. SameIds(made, u)
    BY <1>9, <1>11 DEF SameIds
  <2> QED BY <1>5, <1>11, <2>1, SameIdsFresh DEF Built
<1>14. Tidied(u)
  <2>1. Tidies(t, r)
    BY <1>5, <1>9, TidiesTrans
  <2> QED BY <1>12, <2>1 DEF Tidies
<1> QED BY <1>13, <1>14

LEMMA ForwardedGrown ==
  ASSUME NEW t, Good(t), Fresh(t), NEW f, Entered(t, f), t.objs[f].op = "forward",
         NEW id, id = t.objs[f].id, NEW made, made = Make(t, "instruction"), NEW e, e = Newest(made),
         NEW renamed, renamed = [made EXCEPT !.objs[e].id = id], NEW u, u = ReplaceForward(renamed, f, e),
         NEW o, o = Entry("instruction", id)
  PROVE  Grown(t, u, o, e) /\ Remarks(t, u, o)
<1>1. PICK x, n : x = t.nextId /\ n = Entry("instruction", x)
  OBVIOUS
<1>2. x \notin DOMAIN t.idMap
  BY <1>1 DEF Fresh
<1>3. /\ Appended(t.objs, n, made.objs) /\ e = Len(made.objs)
      /\ made.idMap = Put(t.idMap, x, e)
      /\ SameVectors(t, made) /\ made.named = t.named /\ made.lines = t.lines /\ made.strMap = t.strMap
      /\ made.entryPointSet = t.entryPointSet
  BY <1>1, <1>2, MadeFields
<1>4. DOMAIN made.objs = DOMAIN t.objs \cup {e} /\ e \notin DOMAIN t.objs /\ made.objs[e] = n
      /\ \A k \in DOMAIN t.objs : made.objs[k] = t.objs[k]
  BY <1>3 DEF Appended
<1>5. Shaped(made)
  <2>1. Built(made)
    BY MakeBuilt DEF Built
  <2> QED BY <2>1, GoodShaped DEF Built
<1>6. PICK ne : ne = [n EXCEPT !.id = id]
  OBVIOUS
<1>7. ne.op = "instruction" /\ ne.id = id /\ ne.items = << >> /\ DOMAIN ne = EntryFields
  BY <1>1, <1>6 DEF Entry, EntryFields
<1>8. PICK objs : objs = [made.objs EXCEPT ![e] = ne]
  OBVIOUS
<1>9. renamed = [made EXCEPT !.objs = objs]
  BY <1>4, <1>6, <1>8 DEF Shaped, TableFields
<1>10. /\ renamed.objs = objs /\ renamed.idMap = made.idMap /\ SameVectors(made, renamed)
       /\ renamed.named = made.named /\ renamed.lines = made.lines /\ renamed.strMap = made.strMap
       /\ renamed.entryPointSet = made.entryPointSet /\ DOMAIN renamed = TableFields
       /\ renamed.entryPoints = made.entryPoints
  BY <1>5, <1>9 DEF Shaped, TableFields, SameVectors
<1>11. /\ IsSeq(objs) /\ DOMAIN objs = DOMAIN made.objs /\ objs[e] = ne
       /\ \A k \in DOMAIN made.objs : k # e => objs[k] = made.objs[k]
  <2>1. IsSeq(made.objs)
    BY <1>5 DEF Shaped
  <2> QED BY <1>4, <1>8, <2>1, ExceptFacts
<1>12. Shaped(renamed)
  <2>1. \A k \in DOMAIN objs : DOMAIN objs[k] = EntryFields
    BY <1>5, <1>7, <1>11 DEF Shaped
  <2> QED BY <1>5, <1>10, <1>11, <2>1 DEF Shaped
<1>13. f \in DOMAIN t.objs /\ f # e /\ id \in DOMAIN t.idMap /\ t.idMap[id] = f
  BY <1>4 DEF Entered
<1>14. f \in DOMAIN renamed.objs /\ e \in DOMAIN renamed.objs /\ id = renamed.objs[f].id /\ renamed.objs[e].id = id
  BY <1>4, <1>7, <1>10, <1>11, <1>13
<1>15. PICK s : s = [renamed EXCEPT !.idMap = Put(@, id, e)]
  OBVIOUS
<1>16. Changes(s, u, id)
  <2>1. Redirects(renamed, id, e, s)
    BY <1>15 DEF Redirects
  <2> QED BY <1>12, <1>14, <2>1, ReplaceForwardChanges
<1>25. PICK idMap : idMap = Put(renamed.idMap, id, e)
  OBVIOUS
<1>17. /\ s.objs = objs /\ s.idMap = idMap /\ SameVectors(t, s)
       /\ s.named = t.named /\ s.lines = t.lines /\ s.strMap = t.strMap
       /\ s.entryPointSet = t.entryPointSet
  BY <1>3, <1>10, <1>15, <1>25 DEF TableFields, SameVectors
<1>18. DOMAIN u.objs = DOMAIN t.objs \cup {e} /\ u.idMap = idMap /\ SameVectors(t, u)
  BY <1>4, <1>11, <1>16, <1>17 DEF Changes, Steady, SameVectors
<1>19. \A k \in DOMAIN t.objs : SameOp(t.objs[k], u.objs[k])
  BY <1>4, <1>11, <1>16, <1>17 DEF Changes, Steady, SameOp
<1>20. SameOp(o, u.objs[e])
  <2>1. o.op = "instruction" /\ o.id = id /\ o.items = << >>
    BY DEF Entry
  <2>2. SameOp(objs[e], u.objs[e])
    BY <1>4, <1>11, <1>16, <1>17 DEF Changes, Steady
  <2> QED BY <1>7, <1>11, <2>1, <2>2 DEF SameOp
<1>21. o.id = id
  BY DEF Entry
<1>22. Diverted(t, u, id, e)
  <2>1. /\ DOMAIN idMap = DOMAIN t.idMap \cup {x} \cup {id} /\ idMap[id] = e
        /\ \A y \in DOMAIN idMap : y # id => idMap[y] = IF y = x THEN e ELSE t.idMap[y]
    BY <1>3, <1>10, <1>25 DEF Put
  <2>2. \A y \in DOMAIN t.idMap : y # x
    BY <1>2
  <2>3. id \in DOMAIN u.idMap /\ u.idMap[id] = e
    BY <1>18, <2>1
  <2>4. \A y \in DOMAIN u.idMap : y # id => u.idMap[y] = e \/ (y \in DOMAIN t.idMap /\ u.idMap[y] = t.idMap[y])
    BY <1>18, <2>1
  <2>5. \A y \in DOMAIN t.idMap : y # id => y \in DOMAIN u.idMap /\ u.idMap[y] = t.idMap[y]
    BY <1>18, <2>1, <2>2
  <2> QED BY <2>3, <2>4, <2>5 DEF Diverted
<1>23. Grown(t, u, o, e)
  BY <1>4, <1>18, <1>19, <1>20, <1>21, <1>22, IdMapGrown
<1>24. Remarks(t, u, o)
  <2>1. <<id, "forward">> \in Ops(t)
    <3>1. f \in Kept(t) /\ t.objs[f].id = id /\ t.objs[f].op = "forward"
      BY DEF Kept, Entered
    <3> QED BY <3>1, OpsOf
  <2>2. Marks(u) \subseteq Marks(s) \cup {id} /\ Texts(u) \subseteq Texts(s)
    BY <1>16 DEF Changes, Notes
  <2>3. Marks(s) = Marks(t)
    BY <1>17 DEF Marks
  <2>4. Texts(s) = Texts(t)
    BY <1>17 DEF Texts
  <2> QED BY <1>21, <2>1, <2>2, <2>3, <2>4 DEF Remarks
<1> QED BY <1>23, <1>24

LEMMA ForwardedReady ==
  ASSUME NEW t, Ready(t, {}), NEW f, Entered(t, f), t.objs[f].op = "forward",
         NEW id, id = t.objs[f].id, NEW made, made = Make(t, "instruction"), NEW e, e = Newest(made),
         NEW renamed, renamed = [made EXCEPT !.objs[e].id = id], NEW u, u = ReplaceForward(renamed, f, e)
  PROVE  Ready(u, {id}) /\ MayBeMarked(u, e) /\ u.functions = t.functions
<1>1. Good(t) /\ Fresh(t) /\ Built(t) /\ Tidied(t) /\ Settled(t, {}) /\ Noted(t) /\ t.groups = << >>
  BY DEF Ready, Built
<1>2. Built(u) /\ Tidied(u)
  BY <1>1, ForwardedBuilt
<1>3. PICK o : o = Entry("instruction", id)
  OBVIOUS
<1>4. o.op = "instruction" /\ o.id = id /\ o.items = << >>
  BY <1>3 DEF Entry
<1>5. Grown(t, u, o, e) /\ Remarks(t, u, o)
  BY <1>1, <1>3, ForwardedGrown
<1>6. Joins(t, u, o, e) /\ SameVectors(t, u)
  BY <1>5 DEF Grown
<1>7. Awaited(t, o)
  <2>1. <<id, "forward">> \in Ops(t)
    <3>1. f \in Kept(t) /\ t.objs[f].id = id /\ t.objs[f].op = "forward"
      BY DEF Kept, Entered
    <3> QED BY <3>1, OpsOf
  <2> QED BY <1>4, <2>1, OpsUnique DEF Awaited
<1>8. LaidOut(t, u, o, e)
  BY <1>4, <1>6 DEF SameVectors, LaidOut
<1>9. GroupsLeft(t, o)
  BY <1>1 DEF GroupsLeft
<1>10. o.op \in Kinds \ {"string"} /\ o.op \in Items /\ o.op \in Kinds
  BY <1>4 DEF Kinds, Definitions, Items
<1>11. PICK X : X = {id}
  OBVIOUS
<1>12. Takes(o, {}, X)
  BY <1>4, <1>10, <1>11 DEF Takes
<1>13. Placed(t, {}) /\ Vectors(t)
  BY <1>1 DEF Settled
<1>14. Placed(u, X) /\ Vectors(u)
  BY <1>6, <1>7, <1>8, <1>9, <1>10, <1>12, <1>13, PlacedGrown
<1>15. Noted(u)
  <2>1. o.op # "string" \/ o.id \notin DOMAIN t.idMap
    BY <1>4
  <2> QED BY <1>1, <1>5, <1>6, <1>7, <1>10, <2>1, NotedGrown
<1>16. u.groups = << >> /\ u.functions = t.functions
  BY <1>1, <1>6 DEF SameVectors
<1>17. MayBeMarked(u, e)
  <2>1. e \in Kept(u) /\ SameOp(o, u.objs[e])
    BY <1>6 DEF Joins
  <2> QED BY <1>10, <2>1, NewEntryMarkable
<1>18. Ready(u, X)
  BY <1>2, <1>14, <1>15, <1>16 DEF Ready, Settled
<1> QED BY <1>11, <1>16, <1>17, <1>18

LEMMA AddForwardedLayout ==
  ASSUME IInv, FInv, LInv, AddForwarded
  PROVE  LInv'
<1>1. /\ Writing(m) /\ Ready(m, {}) /\ phase = "building" /\ AfterInit /\ body' = body
      /\ InFunctions(m, body) /\ Built(m)
  BY BuildingWriting, Zenon DEF AddForwarded, Building, Writing, Ready
<1>2. PICK f \in Forwards :
        LET forward == m.objs[f]
            made    == Make(m, "instruction")
            e       == Newest(made)
            renamed == [made EXCEPT !.objs[e].id = forward.id]
            t       == ReplaceForward(renamed, f, e)
            d       == IF forward.line = 0 THEN NoDebugInfo
                       ELSE LET l == m.lines[forward.line]
                            IN [file |-> m.objs[m.idMap[l.string]].str, no |-> l.no]
        IN m' = Annotated(InBody(t, forward.id), e, forward.name, d)
  BY Zenon DEF AddForwarded
<1>3. PICK made : made = Make(m, "instruction")
  OBVIOUS
<1>4. PICK e : e = Newest(made)
  OBVIOUS
<1>5. PICK id : id = m.objs[f].id
  OBVIOUS
<1>6. Entered(m, f) /\ m.objs[f].op = "forward"
  BY <1>1 DEF Forwards, Built, Good, Sound, EntriesKnown, Entered
<1>7. PICK renamed : renamed = [made EXCEPT !.objs[e].id = id]
  OBVIOUS
<1>8. PICK t : t = ReplaceForward(renamed, f, e)
  OBVIOUS
<1>9. Ready(t, {id}) /\ MayBeMarked(t, e) /\ t.functions = m.functions
  BY <1>1, <1>3, <1>4, <1>5, <1>6, <1>7, <1>8, ForwardedReady
<1>10. PICK s : s = InBody(t, id)
  OBVIOUS
<1>11. InFunctions(t, body)
  BY <1>1, <1>9 DEF InFunctions
<1>12. Ready(s, {}) /\ Stays(t, s)
  BY <1>9, <1>10, <1>11, InBodyReady
<1>13. MayBeMarked(s, e) /\ InFunctions(s, body)
  BY <1>9, <1>11, <1>12, StaysMarked DEF Stays
<1>14. PICK u : u = m'
  OBVIOUS
<1>15. PICK name, d : u = Annotated(s, e, name, d)
  BY <1>2, <1>3, <1>4, <1>5, <1>7, <1>8, <1>10, <1>14, Zenon
<1>16. Ready(u, {}) /\ Stays(s, u)
  BY <1>12, <1>13, <1>15, AnnotatedReady
<1>17. Writing(u)
  BY <1>13, <1>16 DEF Writing, Stays
<1> QED BY <1>1, <1>14, <1>17, WritingLayout

-----------------------------------------------------------------------------
(***************************************************************************)
(* What operator<< writes is in the layout.  X: the ids that a sequence of *)
(* instructions defines, each with what it is.                             *)
(***************************************************************************)
Defines(s, X) ==
  /\ \A k \in DOMAIN s : IsAnnotation(s[k]) \/ <<s[k].id, s[k].op>> \in X
  /\ \A x, op : <<x, op>> \in X => \E k \in DOMAIN s : s[k].id = x /\ s[k].op = op /\ ~IsAnnotation(s[k])
Notated(t, s) ==
  \A k \in DOMAIN s :
    IsAnnotation(s[k]) => s[k].id \in Marks(t) /\ (s[k].op = "line" => s[k].string \in Texts(t))
Behind(s) ==
  \A j \in DOMAIN s : s[j].op \in Items => \E i \in 1 .. (j - 1) : s[i].op = "function"
Apart(s) ==
  \A j \in DOMAIN s : \A i \in 1 .. (j - 1) : s[i].id = s[j].id => IsAnnotation(s[i])
Laid(t, s, X) ==
  IsSeq(s) /\ InLayout(s) /\ Behind(s) /\ Notated(t, s) /\ Defines(s, X)
\* b may come behind what defines X.
Follows(b, X) ==
  /\ \A j \in DOMAIN b : \A op : <<b[j].id, op>> \notin X
  /\ \A j \in DOMAIN b : b[j].op = "line" => \E op : <<b[j].string, op>> \in X
  /\ Apart(b)

Joined(a, b, c) ==
  /\ IsSeq(c) /\ Len(a) \in Nat
  /\ \A i \in DOMAIN a : i \in Nat /\ i >= 1 /\ i <= Len(a) /\ i \in DOMAIN c /\ c[i] = a[i]
  /\ \A j \in DOMAIN b : j \in Nat /\ j >= 1 /\ Len(a) + j \in DOMAIN c /\ c[Len(a) + j] = b[j]
  /\ \A i \in DOMAIN c : i \in DOMAIN a \/ \E j \in DOMAIN b : i = Len(a) + j
  /\ \A i \in Nat : i >= 1 /\ i <= Len(a) => i \in DOMAIN a
  /\ \A j \in DOMAIN b : \A i \in Nat : i >= 1 /\ i <= j => i \in DOMAIN b

LEMMA JoinedFacts ==
  ASSUME NEW a, IsSeq(a), NEW b, IsSeq(b), NEW c, c = a \o b
  PROVE  Joined(a, b, c)
<1>1. PICK A, B : A = {a[k] : k \in DOMAIN a} /\ B = {b[k] : k \in DOMAIN b}
  OBVIOUS
<1>2. a \in Seq(A \cup B) /\ b \in Seq(A \cup B)
  BY <1>1 DEF IsSeq
<1>3. c \in Seq(A \cup B)
  BY <1>2
<1>4. PICK n \in Nat, k \in Nat : n = Len(a) /\ k = Len(b)
  BY <1>2
<1>5. DOMAIN a = 1 .. n /\ DOMAIN b = 1 .. k /\ DOMAIN c = 1 .. (n + k)
  BY <1>2, <1>3, <1>4
<1>6. \A i \in 1 .. n : c[i] = a[i]
  BY <1>2, <1>4
<1>7. \A j \in 1 .. k : c[n + j] = b[j]
  BY <1>2, <1>4
<1>8. IsSeq(c)
  BY <1>3, SequenceIsSeq
<1>9. \A i \in DOMAIN a : i \in Nat /\ i >= 1 /\ i <= n /\ i \in DOMAIN c /\ c[i] = a[i]
  BY <1>5, <1>6
<1>10. \A j \in DOMAIN b : j \in Nat /\ j >= 1 /\ n + j \in DOMAIN c /\ c[n + j] = b[j]
  BY <1>5, <1>7
<1>11. ASSUME NEW i \in DOMAIN c PROVE i \in DOMAIN a \/ \E j \in DOMAIN b : i = n + j
  <2>1. CASE i <= n
    BY <1>5, <2>1
  <2>2. CASE ~(i <= n)
    <3>1. i - n \in 1 .. k /\ i = n + (i - n)
      BY <1>5, <2>2
    <3> QED BY <1>5, <3>1
  <2> QED BY <2>1, <2>2
<1>12. \A i \in Nat : i >= 1 /\ i <= n => i \in DOMAIN a
  BY <1>5
<1>13. \A j \in DOMAIN b : \A i \in Nat : i >= 1 /\ i <= j => i \in DOMAIN b
  BY <1>5
<1> QED BY <1>4, <1>8, <1>9, <1>10, <1>11, <1>12, <1>13 DEF Joined

LEMMA LaidJoined ==
  ASSUME NEW t, NEW a, NEW X, Laid(t, a, X),
         NEW b, IsSeq(b), Behind(b), Notated(t, b), NEW Y, Defines(b, Y), Follows(b, X),
         NEW c, c = a \o b
  PROVE  Laid(t, c, X \cup Y)
<1>1. Joined(a, b, c)
  BY JoinedFacts DEF Laid
<1>2. PICK n \in Nat : n = Len(a)
  BY <1>1 DEF Joined
<1>3. \A i \in DOMAIN a : i \in Nat /\ i >= 1 /\ i <= n /\ i \in DOMAIN c /\ c[i] = a[i]
  BY <1>1, <1>2 DEF Joined
<1>4. \A j \in DOMAIN b : j \in Nat /\ j >= 1 /\ n + j \in DOMAIN c /\ c[n + j] = b[j]
  BY <1>1, <1>2 DEF Joined
<1>5. \A i \in DOMAIN c : i \in DOMAIN a \/ \E j \in DOMAIN b : i = n + j
  BY <1>1, <1>2 DEF Joined
<1>6. \A i \in Nat : i >= 1 /\ i <= n => i \in DOMAIN a
  BY <1>1, <1>2 DEF Joined
<1>7. \A j \in DOMAIN b : \A i \in Nat : i >= 1 /\ i <= j => i \in DOMAIN b
  BY <1>1 DEF Joined
<1>8. ASSUME NEW j \in DOMAIN c, NEW i \in 1 .. (j - 1)
      PROVE  /\ i \in DOMAIN c
             /\ \/ j \in DOMAIN a /\ i \in DOMAIN a /\ i \in 1 .. (j - 1)
                \/ \E l \in DOMAIN b : j = n + l /\ (i \in DOMAIN a \/ \E k \in DOMAIN b : i = n + k /\ k \in 1 .. (l - 1))
  <2>1. CASE j \in DOMAIN a
    <3>1. j \in Nat /\ j <= n
      BY <1>3, <2>1
    <3>2. i \in DOMAIN a
      BY <1>6, <3>1
    <3> QED BY <1>3, <2>1, <3>2
  <2>2. CASE j \notin DOMAIN a
    <3>1. PICK l \in DOMAIN b : j = n + l
      BY <1>5, <2>2
    <3>2. l \in Nat /\ l >= 1
      BY <1>4
    <3>3. CASE i <= n
      <4>1. i \in DOMAIN a
        BY <1>6, <3>3
      <4> QED BY <1>3, <3>1, <4>1
    <3>4. CASE ~(i <= n)
      <4>1. PICK k \in Nat : i = n + k /\ k >= 1 /\ k <= l - 1
        <5>1. i - n \in Nat /\ i = n + (i - n) /\ i - n >= 1 /\ i - n <= l - 1
          BY <3>1, <3>2, <3>4
        <5> QED BY <5>1
      <4>2. k \in DOMAIN b /\ k \in 1 .. (l - 1)
        BY <1>7, <3>2, <4>1
      <4> QED BY <1>4, <3>1, <4>1, <4>2
    <3> QED BY <3>3, <3>4
  <2> QED BY <2>1, <2>2
<1>9. IsSeq(c)
  BY <1>1 DEF Joined
<1>10. Defines(c, X \cup Y)
  <2>1. ASSUME NEW k \in DOMAIN c PROVE IsAnnotation(c[k]) \/ <<c[k].id, c[k].op>> \in X \cup Y
    <3>1. CASE k \in DOMAIN a
      BY <1>3, <3>1 DEF Laid, Defines
    <3>2. CASE \E j \in DOMAIN b : k = n + j
      BY <1>4, <3>2 DEF Defines
    <3> QED BY <1>5, <3>1, <3>2
  <2>2. ASSUME NEW x, NEW op, <<x, op>> \in X \cup Y
        PROVE  \E k \in DOMAIN c : c[k].id = x /\ c[k].op = op /\ ~IsAnnotation(c[k])
    <3>1. CASE <<x, op>> \in X
      <4>1. PICK k \in DOMAIN a : a[k].id = x /\ a[k].op = op /\ ~IsAnnotation(a[k])
        BY <3>1 DEF Laid, Defines
      <4> QED BY <1>3, <4>1
    <3>2. CASE <<x, op>> \in Y
      <4>1. PICK k \in DOMAIN b : b[k].id = x /\ b[k].op = op /\ ~IsAnnotation(b[k])
        BY <3>2 DEF Defines
      <4> QED BY <1>4, <4>1
    <3> QED BY <2>2, <3>1, <3>2
  <2> QED BY <2>1, <2>2 DEF Defines
<1>11. Notated(t, c)
  <2>1. ASSUME NEW k \in DOMAIN c, IsAnnotation(c[k])
        PROVE  c[k].id \in Marks(t) /\ (c[k].op = "line" => c[k].string \in Texts(t))
    <3>1. CASE k \in DOMAIN a
      BY <1>3, <2>1, <3>1 DEF Laid, Notated
    <3>2. CASE \E j \in DOMAIN b : k = n + j
      BY <1>4, <2>1, <3>2 DEF Notated
    <3> QED BY <1>5, <3>1, <3>2
  <2> QED BY <2>1 DEF Notated
<1>12. Behind(c)
  <2>1. ASSUME NEW j \in DOMAIN c, c[j].op \in Items PROVE \E i \in 1 .. (j - 1) : c[i].op = "function"
    <3>1. CASE j \in DOMAIN a
      <4>1. PICK i \in 1 .. (j - 1) : a[i].op = "function"
        BY <1>3, <2>1, <3>1 DEF Laid, Behind
      <4>2. i \in DOMAIN a
        BY <1>3, <1>6, <3>1
      <4> QED BY <1>3, <4>1, <4>2
    <3>2. CASE \E l \in DOMAIN b : j = n + l
      <4>1. PICK l \in DOMAIN b : j = n + l
        BY <3>2
      <4>2. PICK i \in 1 .. (l - 1) : b[i].op = "function"
        BY <1>4, <2>1, <4>1 DEF Behind
      <4>3. l \in Nat /\ i \in DOMAIN b /\ n + i \in 1 .. (j - 1)
        BY <1>4, <1>7, <4>1
      <4> QED BY <1>4, <4>2, <4>3
    <3> QED BY <1>5, <3>1, <3>2
  <2> QED BY <2>1 DEF Behind
<1>13. InLayout(c)
  <2>1. ASSUME NEW j \in DOMAIN c, NEW i \in 1 .. (j - 1), c[i].id = c[j].id PROVE IsAnnotation(c[i])
    <3>1. CASE j \in DOMAIN a /\ i \in DOMAIN a
      BY <1>3, <2>1, <3>1 DEF Laid, InLayout
    <3>2. ASSUME NEW l \in DOMAIN b, j = n + l, i \in DOMAIN a PROVE IsAnnotation(c[i])
      <4>1. a[i].id = b[l].id /\ c[i] = a[i]
        BY <1>3, <1>4, <2>1, <3>2
      <4>2. <<a[i].id, a[i].op>> \notin X
        BY <4>1 DEF Follows
      <4> QED BY <3>2, <4>1, <4>2 DEF Laid, Defines
    <3>3. ASSUME NEW l \in DOMAIN b, j = n + l, NEW k \in DOMAIN b, i = n + k, k \in 1 .. (l - 1)
          PROVE  IsAnnotation(c[i])
      BY <1>4, <2>1, <3>3 DEF Follows, Apart
    <3> QED BY <1>8, <3>1, <3>2, <3>3
  <2>2. ASSUME NEW j \in DOMAIN c, c[j].op = "line" PROVE \E i \in 1 .. (j - 1) : c[i].id = c[j].string
    <3>1. CASE j \in DOMAIN a
      <4>1. PICK i \in 1 .. (j - 1) : a[i].id = a[j].string
        BY <1>3, <2>2, <3>1 DEF Laid, InLayout
      <4>2. i \in DOMAIN a
        BY <1>3, <1>6, <3>1
      <4> QED BY <1>3, <3>1, <4>1, <4>2
    <3>2. CASE \E l \in DOMAIN b : j = n + l
      <4>1. PICK l \in DOMAIN b : j = n + l
        BY <3>2
      <4>2. c[j] = b[l] /\ l \in Nat /\ l >= 1
        BY <1>4, <4>1
      <4>3. PICK op : <<b[l].string, op>> \in X
        BY <2>2, <4>2 DEF Follows
      <4>4. PICK i \in DOMAIN a : a[i].id = b[l].string
        BY <4>3 DEF Laid, Defines
      <4>5. i \in 1 .. (j - 1)
        BY <1>3, <4>1, <4>2
      <4> QED BY <1>3, <4>2, <4>4, <4>5
    <3> QED BY <1>5, <3>1, <3>2
  <2> QED BY <2>1, <2>2 DEF InLayout
<1> QED BY <1>9, <1>10, <1>11, <1>12, <1>13 DEF Laid

LEMMA EmptyLaid ==
  ASSUME NEW t, NEW s, s = << >>
  PROVE  Laid(t, s, {})
<1>1. DOMAIN s = {} /\ s \in Seq({})
  OBVIOUS
<1>2. IsSeq(s)
  BY <1>1, SequenceIsSeq
<1> QED BY <1>1, <1>2 DEF Laid, InLayout, Behind, Notated, Defines

\* Annotations, of what is not defined yet.
LEMMA NotesLaid ==
  ASSUME NEW t, NEW a, NEW X, Laid(t, a, X), NEW b, IsSeq(b), Notated(t, b),
         \A k \in DOMAIN b : IsAnnotation(b[k]),
         \A x \in Marks(t) : \A op : <<x, op>> \notin X,
         \A k \in DOMAIN b : b[k].op = "line" => \E op : <<b[k].string, op>> \in X,
         NEW c, c = a \o b
  PROVE  Laid(t, c, X)
<1>1. \A j \in DOMAIN b : \A i \in 1 .. (j - 1) : i \in DOMAIN b
  <2>1. Len(b) \in Nat /\ DOMAIN b = 1 .. Len(b)
    BY SeqDomain
  <2> QED BY <2>1
<1>2. Apart(b)
  BY <1>1 DEF Apart
<1>3. Follows(b, X)
  BY <1>2 DEF Follows, Notated
<1>4. Behind(b)
  BY DEF Behind, IsAnnotation, Items
<1>5. Defines(b, {})
  BY DEF Defines
<1>6. X \cup {} = X
  OBVIOUS
<1>7. Laid(t, c, X \cup {})
  BY <1>3, <1>4, <1>5, LaidJoined
<1> QED BY <1>6, <1>7

\* Definitions, each of another id.
Spelt(s, Y) ==
  /\ IsSeq(s) /\ Defines(s, Y)
  /\ \A k \in DOMAIN s : ~IsAnnotation(s[k])
  /\ \A i, j \in DOMAIN s : s[i].id = s[j].id => i = j

LEMMA SpeltLaid ==
  ASSUME NEW t, NEW a, NEW X, Laid(t, a, X), NEW b, NEW Y, Spelt(b, Y), Behind(b),
         \A x, o, op : <<x, o>> \in Y => <<x, op>> \notin X,
         NEW c, c = a \o b
  PROVE  Laid(t, c, X \cup Y)
<1>1. \A j \in DOMAIN b : \A i \in 1 .. (j - 1) : i \in DOMAIN b /\ i # j
  <2>1. Len(b) \in Nat /\ DOMAIN b = 1 .. Len(b)
    BY SeqDomain DEF Spelt
  <2> QED BY <2>1
<1>2. Apart(b)
  BY <1>1 DEF Apart, Spelt
<1>3. \A k \in DOMAIN b : b[k].op # "line"
  BY DEF Spelt, IsAnnotation
<1>4. Follows(b, X)
  BY <1>2, <1>3 DEF Follows, Spelt, Defines
<1>5. Notated(t, b)
  BY DEF Notated, Spelt
<1>6. IsSeq(b) /\ Defines(b, Y)
  BY DEF Spelt
<1> QED BY <1>4, <1>5, <1>6, LaidJoined

Entries(t, es) ==
  /\ IsSeq(es)
  /\ \A k \in DOMAIN es : es[k] \in Kept(t) /\ t.objs[es[k]].op \in Definitions
  /\ \A j, k \in DOMAIN es : es[j] = es[k] => j = k
PairsOf(t, es, Y) ==
  \A x, op : <<x, op>> \in Y <=> \E k \in DOMAIN es : t.objs[es[k]].id = x /\ t.objs[es[k]].op = op

LEMMA EntriesSpelt ==
  ASSUME NEW t, NEW es, Entries(t, es), NEW Y, PairsOf(t, es, Y), NEW s, s = EntriesWritten(t, es)
  PROVE  Spelt(s, Y) /\ DOMAIN s = DOMAIN es /\ \A k \in DOMAIN s : s[k].op = t.objs[es[k]].op
<1>1. /\ DOMAIN s = DOMAIN es
      /\ \A k \in DOMAIN es :
           s[k] = [op |-> t.objs[es[k]].op, id |-> t.objs[es[k]].id, str |-> t.objs[es[k]].str]
      /\ s = [k \in DOMAIN es |-> s[k]]
  BY DEF EntriesWritten
<1>2. ASSUME NEW k \in DOMAIN es PROVE s[k].id = t.objs[es[k]].id /\ s[k].op = t.objs[es[k]].op
  <2>1. PICK o : o = t.objs[es[k]]
    OBVIOUS
  <2>2. s[k] = [op |-> o.op, id |-> o.id, str |-> o.str]
    BY <1>1, <2>1
  <2> QED BY <2>1, <2>2
<1>3. IsSeq(s)
  <2>1. PICK X : X = {s[j].id : j \in DOMAIN es}
    OBVIOUS
  <2>2. \A k \in DOMAIN es : s[k].id \in X
    BY <2>1
  <2>3. IdsIn(s, X)
    BY <1>1, <2>2, MappedIds DEF Entries
  <2> QED BY <2>3 DEF IdsIn
<1>4. \A k \in DOMAIN s : ~IsAnnotation(s[k])
  <2>1. \A op \in Definitions : op \notin {"entry point", "name", "mode", "line"}
    BY DEF Definitions, Items
  <2> QED BY <1>1, <1>2, <2>1 DEF IsAnnotation, Entries
<1>5. \A i, j \in DOMAIN s : s[i].id = s[j].id => i = j
  <2> SUFFICES ASSUME NEW i \in DOMAIN s, NEW j \in DOMAIN s, s[i].id = s[j].id PROVE i = j
    OBVIOUS
  <2>1. PICK e, f : e = es[i] /\ f = es[j]
    OBVIOUS
  <2>2. e \in Kept(t) /\ f \in Kept(t) /\ t.objs[e].id = t.objs[f].id
    BY <1>1, <1>2, <2>1 DEF Entries
  <2>3. e = f
    BY <2>2, KeptUnique
  <2> QED BY <1>1, <2>1, <2>3 DEF Entries
<1>6. Defines(s, Y)
  BY <1>1, <1>2, <1>4 DEF Defines, PairsOf
<1> QED BY <1>1, <1>2, <1>3, <1>4, <1>5, <1>6 DEF Spelt

OfKinds(t, K) == {p \in Ops(t) : p[2] \in K}

LEMMA OfKindsPairs ==
  ASSUME NEW t, NEW K, NEW x, NEW op
  PROVE  <<x, op>> \in OfKinds(t, K) <=> <<x, op>> \in Ops(t) /\ op \in K
BY DEF OfKinds

LEMMA VectorSpelt ==
  ASSUME NEW t, NEW es, IsSeq(es), NEW op, op \in Definitions \ Items, Vector(t, es, op),
         NEW s, s = EntriesWritten(t, es), NEW Y, Y = OfKinds(t, {op})
  PROVE  Spelt(s, Y) /\ Behind(s)
<1>1. \A k \in DOMAIN es : es[k] \in Kept(t) /\ t.objs[es[k]].op = op
  BY VectorIn
<1>2. \A j, k \in DOMAIN es : es[j] = es[k] => j = k
  BY DEF Vector
<1>3. ASSUME NEW x, NEW o
      PROVE  <<x, o>> \in Y <=> \E k \in DOMAIN es : t.objs[es[k]].id = x /\ t.objs[es[k]].op = o
  <2>1. <<x, o>> \in Y <=> <<x, o>> \in Ops(t) /\ o = op
    BY OfKindsPairs
  <2>2. <<x, o>> \in Ops(t) <=> \E e \in Kept(t) : t.objs[e].id = x /\ t.objs[e].op = o
    BY OpsOf
  <2>3. \A e : e \in Kept(t) /\ t.objs[e].op = op <=> \E k \in DOMAIN es : es[k] = e
    BY DEF Vector
  <2> QED BY <2>1, <2>2, <2>3
<1>4. Spelt(s, Y) /\ DOMAIN s = DOMAIN es /\ \A k \in DOMAIN s : s[k].op = t.objs[es[k]].op
  <2>1. Entries(t, es)
    BY <1>1, <1>2 DEF Entries
  <2>2. PairsOf(t, es, Y)
    BY <1>3 DEF PairsOf
  <2> QED BY <2>1, <2>2, EntriesSpelt
<1>5. Behind(s)
  BY <1>1, <1>4 DEF Behind
<1> QED BY <1>4, <1>5

GroupPairs(t) == {<<t.groups[k], "group">> : k \in DOMAIN t.groups}

LEMMA GroupsSpelt ==
  ASSUME NEW t, IsSeq(t.groups), \A i, j \in DOMAIN t.groups : i # j => t.groups[i] # t.groups[j],
         NEW s, s = [k \in DOMAIN t.groups |-> [op |-> "group", id |-> t.groups[k], str |-> ""]]
  PROVE  Spelt(s, GroupPairs(t)) /\ Behind(s)
<1>1. PICK gs : gs = t.groups
  OBVIOUS
<1>2. IsSeq(gs) /\ \A i, j \in DOMAIN gs : i # j => gs[i] # gs[j]
  BY <1>1
<1>3. /\ DOMAIN s = DOMAIN gs /\ s = [k \in DOMAIN gs |-> s[k]]
      /\ \A k \in DOMAIN gs : s[k].id = gs[k] /\ s[k].op = "group"
  BY <1>1
<1>4. IsSeq(s)
  <2>1. PICK X : X = {gs[j] : j \in DOMAIN gs}
    OBVIOUS
  <2>2. \A k \in DOMAIN gs : s[k].id \in X
    BY <1>3, <2>1
  <2>3. IdsIn(s, X)
    BY <1>2, <1>3, <2>2, MappedIds
  <2> QED BY <2>3 DEF IdsIn
<1>5. \A k \in DOMAIN s : ~IsAnnotation(s[k])
  BY <1>3 DEF IsAnnotation
<1>6. ASSUME NEW i \in DOMAIN s, NEW j \in DOMAIN s, s[i].id = s[j].id
      PROVE  i = j
  <2>1. i \in DOMAIN gs /\ j \in DOMAIN gs /\ s[i].id = gs[i] /\ s[j].id = gs[j]
    BY <1>3
  <2> QED BY <1>2, <1>6, <2>1
<1>7. \A x, op : <<x, op>> \in GroupPairs(t) <=> op = "group" /\ \E k \in DOMAIN gs : gs[k] = x
  BY <1>1 DEF GroupPairs
<1>8. Defines(s, GroupPairs(t))
  <2>1. \A k \in DOMAIN s : <<s[k].id, s[k].op>> \in GroupPairs(t)
    BY <1>3, <1>7
  <2>2. ASSUME NEW x, NEW op, <<x, op>> \in GroupPairs(t)
        PROVE  \E k \in DOMAIN s : s[k].id = x /\ s[k].op = op /\ ~IsAnnotation(s[k])
    <3>1. PICK k \in DOMAIN gs : gs[k] = x /\ op = "group"
      <4>1. PICK k \in DOMAIN gs : <<x, op>> = <<gs[k], "group">>
        BY <1>1, <2>2 DEF GroupPairs
      <4> QED BY <4>1
    <3> QED BY <1>3, <1>5, <3>1
  <2> QED BY <2>1, <2>2 DEF Defines
<1>9. Behind(s)
  BY <1>3 DEF Behind, Items
<1> QED BY <1>4, <1>5, <1>6, <1>8, <1>9 DEF Spelt

\* A function and what is in it.
OfFunction(t, f) ==
  {p \in Ops(t) : p = <<t.objs[f].id, "function">> \/ \E k : ItemAt(t, p[1], f, k)}

ItemEntry(t, x, e) == e \in Kept(t) /\ t.objs[e].id = x /\ t.objs[e].op \in Items

LEMMA ItemKept ==
  ASSUME NEW t, ItemsPlaced(t, {}), NEW x, InFunction(t, x)
  PROVE  ItemEntry(t, x, t.idMap[x])
<1>1. IsItem(t, x)
  BY ItemsPlacedFacts
<1>2. PICK op \in Items : <<x, op>> \in Ops(t)
  BY <1>1 DEF IsItem
<1>3. PICK d \in Kept(t) : t.objs[d].id = x /\ t.objs[d].op = op
  BY <1>2, OpsOf
<1>4. d = t.idMap[x]
  BY <1>3 DEF Kept, Entered
<1> QED BY <1>2, <1>3, <1>4 DEF ItemEntry

\* The entries of a function: itself, and what is in it.
FunctionEntries(t, f) ==
  <<f>> \o [i \in DOMAIN t.objs[f].items |-> t.idMap[t.objs[f].items[i]]]

LEMMA FunctionEntriesFacts ==
  ASSUME NEW t, NEW f, NEW items, items = t.objs[f].items, IsSeq(items),
         NEW es, es = FunctionEntries(t, f)
  PROVE  /\ IsSeq(es) /\ 1 \in DOMAIN es /\ es[1] = f
         /\ \A j \in DOMAIN items : j \in Nat /\ j >= 1 /\ 1 + j \in DOMAIN es /\ es[1 + j] = t.idMap[items[j]]
         /\ \A k \in DOMAIN es : k = 1 \/ \E j \in DOMAIN items : k = 1 + j
<1>1. PICK g : g = [i \in DOMAIN items |-> t.idMap[items[i]]]
  OBVIOUS
<1>2. IsSeq(g) /\ DOMAIN g = DOMAIN items /\ \A i \in DOMAIN items : g[i] = t.idMap[items[i]]
  <2>1. Len(items) \in Nat /\ DOMAIN items = 1 .. Len(items)
    BY SeqDomain
  <2>2. g \in [1 .. Len(items) -> {g[i] : i \in DOMAIN items}] /\ DOMAIN g = DOMAIN items
    BY <1>1, <2>1
  <2>3. IsSeq(g)
    BY <2>1, <2>2, FunctionIsSeq
  <2> QED BY <1>1, <2>2, <2>3, Zenon
<1>3. PICK a : a = <<f>>
  OBVIOUS
<1>4. IsSeq(a) /\ DOMAIN a = {1} /\ a[1] = f /\ Len(a) = 1
  <2>1. a \in Seq({f}) /\ DOMAIN a = {1} /\ a[1] = f /\ Len(a) = 1
    BY <1>3
  <2> QED BY <2>1, SequenceIsSeq
<1>5. es = a \o g
  BY <1>1, <1>3, Zenon DEF FunctionEntries
<1>6. Joined(a, g, es)
  BY <1>2, <1>4, <1>5, JoinedFacts
<1>7. IsSeq(es) /\ 1 \in DOMAIN es /\ es[1] = f
  BY <1>4, <1>6 DEF Joined
<1>8. \A j \in DOMAIN g : j \in Nat /\ j >= 1 /\ 1 + j \in DOMAIN es /\ es[1 + j] = g[j]
  BY <1>4, <1>6 DEF Joined
<1>9. \A k \in DOMAIN es : k = 1 \/ \E j \in DOMAIN g : k = 1 + j
  BY <1>4, <1>6 DEF Joined
<1> QED BY <1>2, <1>7, <1>8, <1>9

LEMMA FunctionSpelt ==
  ASSUME NEW t, ItemsPlaced(t, {}), Vector(t, t.functions, "function"),
         NEW f, InFunctions(t, f), IsSeq(t.objs[f].items),
         NEW s, s = EntriesWritten(t, FunctionEntries(t, f))
  PROVE  Spelt(s, OfFunction(t, f)) /\ Behind(s)
<1>0. PICK items, es : items = t.objs[f].items /\ es = FunctionEntries(t, f)
  OBVIOUS
<1>1. f \in Kept(t) /\ t.objs[f].op = "function"
  <2>1. PICK j \in DOMAIN t.functions : f = t.functions[j]
    BY DEF InFunctions
  <2> QED BY <2>1, VectorIn
<1>2. ASSUME NEW i \in DOMAIN items
      PROVE  LET e == t.idMap[items[i]]
             IN  /\ ItemAt(t, items[i], f, i)
                 /\ e \in Kept(t) /\ t.objs[e].id = items[i] /\ t.objs[e].op \in Items
  <2>1. PICK x, e : x = items[i] /\ e = t.idMap[x]
    OBVIOUS
  <2>2. i \in DOMAIN t.objs[f].items /\ x = t.objs[f].items[i]
    BY <1>0, <2>1
  <2>3. ItemAt(t, x, f, i)
    BY <2>2 DEF ItemAt, InFunctions
  <2>4. InFunction(t, x)
    BY <2>3 DEF InFunction
  <2>5. ItemEntry(t, x, e)
    BY <2>1, <2>4, ItemKept
  <2> QED BY <2>1, <2>3, <2>5 DEF ItemEntry
<1>7. IsSeq(es) /\ 1 \in DOMAIN es /\ es[1] = f
  BY <1>0, FunctionEntriesFacts
<1>8. \A j \in DOMAIN items : j \in Nat /\ j >= 1 /\ 1 + j \in DOMAIN es /\ es[1 + j] = t.idMap[items[j]]
  BY <1>0, FunctionEntriesFacts
<1>9. \A k \in DOMAIN es : k = 1 \/ \E j \in DOMAIN items : k = 1 + j
  BY <1>0, FunctionEntriesFacts
<1>10. \A op \in Items : op # "function" /\ op \in Definitions
  BY DEF Items, Definitions
<1>11. \A k \in DOMAIN es : es[k] \in Kept(t) /\ t.objs[es[k]].op \in Definitions
  BY <1>1, <1>2, <1>7, <1>8, <1>9, <1>10 DEF Definitions
<1>12. ASSUME NEW j \in DOMAIN es, NEW k \in DOMAIN es, es[j] = es[k] PROVE j = k
  <2>1. \A i \in DOMAIN items : es[1 + i] # f
    BY <1>1, <1>2, <1>8, <1>10
  <2>2. ASSUME NEW i \in DOMAIN items, NEW l \in DOMAIN items, t.idMap[items[i]] = t.idMap[items[l]] PROVE i = l
    <3>1. PICK x : x = items[i]
      OBVIOUS
    <3>2. ItemAt(t, x, f, i) /\ ItemAt(t, x, f, l)
      BY <1>2, <2>2, <3>1
    <3> QED BY <3>2 DEF ItemsPlaced
  <2>3. CASE j = 1 \/ k = 1
    BY <1>7, <1>9, <1>12, <2>1, <2>3
  <2>4. CASE j # 1 /\ k # 1
    <3>1. PICK i \in DOMAIN items, l \in DOMAIN items : j = 1 + i /\ k = 1 + l
      BY <1>9, <2>4
    <3>2. i = l
      BY <1>8, <1>12, <2>2, <3>1
    <3> QED BY <3>1, <3>2
  <2> QED BY <2>3, <2>4
<1>13. ASSUME NEW x, NEW op
       PROVE  <<x, op>> \in OfFunction(t, f) <=>
                \E k \in DOMAIN es : t.objs[es[k]].id = x /\ t.objs[es[k]].op = op
  <2>1. PICK p : p = <<x, op>>
    OBVIOUS
  <2>2. p[1] = x /\ p[2] = op
    BY <2>1
  <2>3. p \in OfFunction(t, f) <=>
          p \in Ops(t) /\ ((x = t.objs[f].id /\ op = "function") \/ \E k : ItemAt(t, x, f, k))
    BY <2>1, <2>2 DEF OfFunction
  <2>4. p \in Ops(t) <=> \E e \in Kept(t) : t.objs[e].id = x /\ t.objs[e].op = op
    BY <2>1, OpsOf
  <2>5. ASSUME p \in OfFunction(t, f)
        PROVE  \E k \in DOMAIN es : t.objs[es[k]].id = x /\ t.objs[es[k]].op = op
    <3>1. CASE x = t.objs[f].id /\ op = "function"
      BY <1>1, <1>7, <3>1
    <3>2. CASE \E k : ItemAt(t, x, f, k)
      <4>1. PICK k : ItemAt(t, x, f, k)
        BY <3>2
      <4>2. k \in DOMAIN items /\ items[k] = x
        BY <1>0, <4>1 DEF ItemAt
      <4>3. t.idMap[x] \in Kept(t) /\ t.objs[t.idMap[x]].id = x
        BY <1>2, <4>2
      <4>4. PICK e \in Kept(t) : t.objs[e].id = x /\ t.objs[e].op = op
        BY <2>3, <2>4, <2>5
      <4>5. e = t.idMap[x]
        BY <4>3, <4>4, KeptUnique
      <4> QED BY <1>8, <4>2, <4>4, <4>5
    <3> QED BY <2>3, <2>5, <3>1, <3>2
  <2>6. ASSUME NEW k \in DOMAIN es, t.objs[es[k]].id = x, t.objs[es[k]].op = op
        PROVE  p \in OfFunction(t, f)
    <3>1. p \in Ops(t)
      BY <1>11, <2>4, <2>6
    <3>2. CASE k = 1
      BY <1>1, <1>7, <2>3, <2>6, <3>1, <3>2
    <3>3. CASE \E j \in DOMAIN items : k = 1 + j
      <4>1. PICK j \in DOMAIN items : k = 1 + j
        BY <3>3
      <4>2. ItemAt(t, items[j], f, j) /\ items[j] = x
        BY <1>2, <1>8, <2>6, <4>1
      <4> QED BY <2>3, <3>1, <4>2
    <3> QED BY <1>9, <3>2, <3>3
  <2> QED BY <2>1, <2>5, <2>6
<1>14. /\ Spelt(s, OfFunction(t, f)) /\ DOMAIN s = DOMAIN es
       /\ \A k \in DOMAIN s : s[k].op = t.objs[es[k]].op
  <2>1. s = EntriesWritten(t, es)
    BY <1>0
  <2>2. Entries(t, es)
    BY <1>7, <1>11, <1>12 DEF Entries
  <2>3. PairsOf(t, es, OfFunction(t, f))
    BY <1>13 DEF PairsOf
  <2> QED BY <2>1, <2>2, <2>3, EntriesSpelt
<1>15. Behind(s)
  <2>1. ASSUME NEW j \in DOMAIN s, s[j].op \in Items PROVE \E i \in 1 .. (j - 1) : s[i].op = "function"
    <3>1. s[1].op = "function"
      BY <1>1, <1>7, <1>14
    <3>2. j # 1
      BY <1>10, <2>1, <3>1
    <3>4. PICK i \in DOMAIN items : j = 1 + i
      BY <1>9, <1>14, <3>2
    <3>5. i \in Nat /\ i >= 1
      BY <1>8
    <3>3. 1 \in 1 .. (j - 1)
      BY <3>4, <3>5
    <3> QED BY <3>1, <3>3
  <2> QED BY <2>1 DEF Behind
<1> QED BY <1>14, <1>15

-----------------------------------------------------------------------------
(***************************************************************************)
(* The functions, one behind the other.                                    *)
(***************************************************************************)
OfFunctions(t, n) ==
  {p \in Ops(t) : \E k \in DOMAIN t.functions : k <= n /\ p \in OfFunction(t, t.functions[k])}
InnerKinds == {"function"} \cup Items

LEMMA OfFunctionCases ==
  ASSUME NEW t, ItemsPlaced(t, {}), NEW f \in Kept(t), t.objs[f].op = "function",
         NEW x, NEW op, <<x, op>> \in OfFunction(t, f)
  PROVE  /\ <<x, op>> \in Ops(t)
         /\ \/ op = "function" /\ t.objs[f].id = x
            \/ op \in Items /\ \E k : ItemAt(t, x, f, k)
<1>1. PICK p : p = <<x, op>>
  OBVIOUS
<1>2. p[1] = x /\ p[2] = op
  BY <1>1
<1>3. p \in Ops(t) /\ (p = <<t.objs[f].id, "function">> \/ \E k : ItemAt(t, x, f, k))
  BY <1>1, <1>2 DEF OfFunction
<1>4. CASE p = <<t.objs[f].id, "function">>
  BY <1>1, <1>3, <1>4
<1>5. CASE \E k : ItemAt(t, x, f, k)
  <2>1. InFunction(t, x)
    BY <1>5 DEF InFunction
  <2>2. IsItem(t, x)
    BY <2>1, ItemsPlacedFacts
  <2>3. PICK i \in Items : <<x, i>> \in Ops(t)
    BY <2>2 DEF IsItem
  <2>4. i = op
    BY <1>1, <1>3, <2>3, OpsUnique
  <2> QED BY <1>1, <1>3, <1>5, <2>3, <2>4
<1> QED BY <1>3, <1>4, <1>5

\* No id is in two functions.
LEMMA FunctionsApart ==
  ASSUME NEW t, ItemsPlaced(t, {}), Vector(t, t.functions, "function"),
         NEW j \in DOMAIN t.functions, NEW k \in DOMAIN t.functions,
         NEW f, f = t.functions[j], NEW g, g = t.functions[k],
         NEW x, NEW o, NEW op, <<x, o>> \in OfFunction(t, f), <<x, op>> \in OfFunction(t, g)
  PROVE  j = k
<1>1. f \in Kept(t) /\ t.objs[f].op = "function" /\ g \in Kept(t) /\ t.objs[g].op = "function"
  BY VectorIn
<1>2. /\ <<x, o>> \in Ops(t)
      /\ (o = "function" /\ t.objs[f].id = x) \/ (o \in Items /\ \E i : ItemAt(t, x, f, i))
  BY <1>1, OfFunctionCases
<1>3. /\ <<x, op>> \in Ops(t)
      /\ (op = "function" /\ t.objs[g].id = x) \/ (op \in Items /\ \E i : ItemAt(t, x, g, i))
  BY <1>1, OfFunctionCases
<1>4. o = op
  BY <1>2, <1>3, OpsUnique
<1>5. "function" \notin Items
  BY DEF Items
<1>6. CASE o = "function"
  <2>1. f = g
    BY <1>1, <1>2, <1>3, <1>4, <1>5, <1>6, KeptUnique
  <2> QED BY <2>1 DEF Vector
<1>7. CASE o # "function"
  <2>1. PICK i, l : ItemAt(t, x, f, i) /\ ItemAt(t, x, g, l)
    BY <1>2, <1>3, <1>4, <1>7
  <2>2. f = g
    BY <2>1 DEF ItemsPlaced
  <2> QED BY <2>2 DEF Vector
<1> QED BY <1>6, <1>7

LEMMA AllFunctions ==
  ASSUME NEW t, ItemsPlaced(t, {}), Vector(t, t.functions, "function"), IsSeq(t.functions),
         NEW n, n = Len(t.functions)
  PROVE  OfFunctions(t, n) = OfKinds(t, InnerKinds)
<1>1. \A k \in DOMAIN t.functions : k <= n
  BY SeqDomain
<1>2. ASSUME NEW p \in Ops(t)
      PROVE  p[2] \in InnerKinds <=> \E k \in DOMAIN t.functions : p \in OfFunction(t, t.functions[k])
  <2>1. PICK x, op : p = <<x, op>> /\ x = p[1] /\ op = p[2]
    BY OpsPairs
  <2>2. ASSUME op = "function" PROVE \E k \in DOMAIN t.functions : p \in OfFunction(t, t.functions[k])
    <3>1. PICK e \in Kept(t) : t.objs[e].id = x /\ t.objs[e].op = op
      BY <2>1, OpsOf
    <3>2. PICK k \in DOMAIN t.functions : t.functions[k] = e
      BY <2>2, <3>1 DEF Vector
    <3>3. p = <<t.objs[e].id, "function">>
      BY <2>1, <2>2, <3>1
    <3>4. p \in OfFunction(t, e)
      BY <3>3 DEF OfFunction
    <3> QED BY <3>2, <3>4
  <2>3. ASSUME op \in Items PROVE \E k \in DOMAIN t.functions : p \in OfFunction(t, t.functions[k])
    <3>1. IsItem(t, x)
      BY <2>1, <2>3 DEF IsItem
    <3>2. InFunction(t, x)
      BY <3>1, ItemsPlacedFacts
    <3>3. PICK f, k : ItemAt(t, x, f, k)
      BY <3>2 DEF InFunction
    <3>4. PICK j \in DOMAIN t.functions : f = t.functions[j]
      BY <3>3 DEF ItemAt
    <3>5. p \in OfFunction(t, f)
      BY <2>1, <3>3 DEF OfFunction
    <3> QED BY <3>4, <3>5
  <2>4. ASSUME NEW k \in DOMAIN t.functions, p \in OfFunction(t, t.functions[k]) PROVE op \in InnerKinds
    <3>1. PICK f : f = t.functions[k]
      OBVIOUS
    <3>2. f \in Kept(t) /\ t.objs[f].op = "function"
      BY <3>1, VectorIn
    <3>3. <<x, op>> \in OfFunction(t, f)
      BY <2>1, <2>4, <3>1
    <3> QED BY <3>2, <3>3, OfFunctionCases DEF InnerKinds
  <2> QED BY <2>1, <2>2, <2>3, <2>4 DEF InnerKinds
<1> QED BY <1>1, <1>2 DEF OfFunctions, OfKinds

\* The sequences that FlattenSeq joins, one after the other.
Elements(ss) == UNION {{ss[k][i] : i \in DOMAIN ss[k]} : k \in DOMAIN ss}
Joining(ss, S, f) ==
  /\ \A k \in DOMAIN ss : ss[k] \in Seq(S)
  /\ f \in [Nat -> Seq(S)] /\ f[0] = << >>
  /\ \A n \in 0 .. Len(ss) - 1 : f[n + 1] = f[n] \o ss[n + 1]

LEMMA FlattenJoins ==
  ASSUME NEW ss, IsSeq(ss), \A k \in DOMAIN ss : IsSeq(ss[k]), NEW c, c = FlattenSeq(ss)
  PROVE  \E f : Joining(ss, Elements(ss), f) /\ c = f[Len(ss)]
<1>1. PICK S : S = Elements(ss)
  OBVIOUS
<1>3. ASSUME NEW k \in DOMAIN ss PROVE ss[k] \in Seq(S)
  <2>1. PICK T : T = {ss[k][i] : i \in DOMAIN ss[k]}
    OBVIOUS
  <2>2. ss[k] \in Seq(T) /\ T \subseteq S
    BY <1>1, <2>1 DEF IsSeq, Elements
  <2> QED BY <2>2
<1>4. ss \in Seq(Seq(S))
  <2>1. PICK Q : Q = Seq(S)
    OBVIOUS
  <2>2. PICK V : V = {ss[k] : k \in DOMAIN ss}
    OBVIOUS
  <2>3. ss \in Seq(V) /\ V \subseteq Q
    BY <1>3, <2>1, <2>2 DEF IsSeq
  <2>4. ss \in Seq(Q)
    BY <2>3
  <2> QED BY <2>1, <2>4
<1> QED BY <1>1, <1>3, <1>4, FlattenRuns DEF Joining

\* c and d: a with the first n of them behind it, and with one more, b.
OneMore(ss, f, a, n, c, b, d) ==
  /\ n \in Nat /\ n < Len(ss) /\ Len(ss) \in Nat /\ DOMAIN ss = 1 .. Len(ss)
  /\ c = a \o f[n] /\ b = ss[n + 1] /\ d = a \o f[n + 1]

LEMMA JoiningStep ==
  ASSUME NEW ss, NEW S, NEW f, Joining(ss, S, f), NEW a, IsSeq(a),
         NEW n, NEW c, NEW b, NEW d, OneMore(ss, f, a, n, c, b, d)
  PROVE  n + 1 \in DOMAIN ss /\ d = c \o b
<1>0. /\ n \in Nat /\ n < Len(ss) /\ Len(ss) \in Nat /\ DOMAIN ss = 1 .. Len(ss)
      /\ c = a \o f[n] /\ b = ss[n + 1] /\ d = a \o f[n + 1]
  BY DEF OneMore
<1>1. n + 1 \in DOMAIN ss /\ n \in 0 .. Len(ss) - 1
  BY <1>0
<1>2. PICK A : A = {a[k] : k \in DOMAIN a}
  OBVIOUS
<1>3. PICK T : T = A \cup S
  OBVIOUS
<1>4. a \in Seq(T)
  <2>1. a \in Seq(A) /\ A \subseteq T
    BY <1>2, <1>3 DEF IsSeq
  <2> QED BY <2>1
<1>5. f[n] \in Seq(T) /\ b \in Seq(T)
  <2>1. PICK g : g = f[n]
    OBVIOUS
  <2>2. g \in Seq(S) /\ b \in Seq(S) /\ S \subseteq T
    <3>1. PICK Q : Q = Seq(S)
      OBVIOUS
    <3>2. f \in [Nat -> Q] /\ b \in Q
      BY <1>0, <1>1, <3>1 DEF Joining
    <3> QED BY <1>0, <1>3, <2>1, <3>1, <3>2
  <2>3. g \in Seq(T) /\ b \in Seq(T)
    BY <2>2
  <2> QED BY <2>1, <2>3
<1>6. f[n + 1] = f[n] \o b
  BY <1>0, <1>1 DEF Joining
<1>7. (a \o f[n]) \o b = a \o (f[n] \o b)
  <2>1. PICK g : g = f[n]
    OBVIOUS
  <2>2. PICK x \in Seq(T), y \in Seq(T), z \in Seq(T) : x = a /\ y = g /\ z = b
    BY <1>4, <1>5, <2>1
  <2>3. (x \o y) \o z = x \o (y \o z)
    BY ConcatAssociative
  <2> QED BY <2>1, <2>2, <2>3
<1> QED BY <1>0, <1>1, <1>6, <1>7

LEMMA FunctionsLaid ==
  ASSUME NEW t, ItemsPlaced(t, {}), Vector(t, t.functions, "function"), IsSeq(t.functions),
         \A f : InFunctions(t, f) => IsSeq(t.objs[f].items),
         NEW a, NEW X, Laid(t, a, X),
         \A x, o, op : <<x, o>> \in Ops(t) /\ o \in InnerKinds => <<x, op>> \notin X,
         NEW s, s = FunctionsWritten(t), NEW c, c = a \o s
  PROVE  Laid(t, c, X \cup OfKinds(t, InnerKinds))
<1>1. PICK fs : fs = t.functions
  OBVIOUS
<1>3. PICK ss : ss = [k \in DOMAIN t.functions |->
        LET f == t.functions[k]
            items == t.objs[f].items
        IN EntriesWritten(t, <<f>> \o [i \in DOMAIN items |-> t.idMap[items[i]]])]
  OBVIOUS
<1>4. s = FlattenSeq(ss)
  BY <1>3, Zenon DEF FunctionsWritten
<1>5. ASSUME NEW k \in DOMAIN fs
      PROVE  LET f == fs[k] IN Spelt(ss[k], OfFunction(t, f)) /\ Behind(ss[k])
  <2>1. PICK f, r : f = fs[k] /\ r = ss[k]
    OBVIOUS
  <2>2. InFunctions(t, f)
    BY <1>1, <2>1 DEF InFunctions
  <2>3. r = EntriesWritten(t, FunctionEntries(t, f))
    BY <1>1, <1>3, <2>1, Zenon DEF FunctionEntries
  <2>4. IsSeq(t.objs[f].items)
    BY <2>2
  <2>5. Spelt(r, OfFunction(t, f)) /\ Behind(r)
    BY <2>2, <2>3, <2>4, FunctionSpelt
  <2> QED BY <2>1, <2>5
<1>6. IsSeq(ss) /\ DOMAIN ss = DOMAIN fs /\ Len(ss) = Len(fs)
  <2>1. DOMAIN ss = DOMAIN fs /\ Len(fs) \in Nat /\ DOMAIN fs = 1 .. Len(fs)
    BY <1>1, <1>3, SeqDomain
  <2>2. ss \in [1 .. Len(fs) -> {ss[k] : k \in DOMAIN fs}]
    BY <1>1, <1>3, <2>1, Zenon
  <2> QED BY <2>1, <2>2, FunctionIsSeq
<1>7. PICK S, f : S = Elements(ss) /\ Joining(ss, S, f) /\ s = f[Len(ss)]
  <2>1. \A k \in DOMAIN ss : IsSeq(ss[k])
    BY <1>5, <1>6 DEF Spelt
  <2> QED BY <1>4, <1>6, <2>1, FlattenJoins
<1>8. PICK N \in Nat : N = Len(ss) /\ DOMAIN ss = 1 .. N
  BY <1>6, SeqDomain
<1>9. PICK G : G = {n \in Nat : n <= N => Laid(t, a \o f[n], X \cup OfFunctions(t, n))}
  OBVIOUS
<1>10. 0 \in G
  <2>1. a \o f[0] = a
    <3>1. PICK A : A = {a[k] : k \in DOMAIN a}
      OBVIOUS
    <3>2. a \in Seq(A)
      BY <3>1 DEF Laid, IsSeq
    <3>3. a \o << >> = a
      BY <3>2, ConcatEmptySeq
    <3> QED BY <1>7, <3>3 DEF Joining
  <2>2. OfFunctions(t, 0) = {}
    BY <1>1, <1>6, <1>8 DEF OfFunctions
  <2>3. X \cup OfFunctions(t, 0) = X
    BY <2>2
  <2> QED BY <1>9, <2>1, <2>3
<1>11. ASSUME NEW n \in G PROVE n + 1 \in G
  <2>1. n \in Nat
    BY <1>9
  <2> SUFFICES ASSUME n + 1 <= N PROVE Laid(t, a \o f[n + 1], X \cup OfFunctions(t, n + 1))
    BY <1>9, <2>1
  <2>2. n < Len(ss) /\ n <= N
    BY <1>8, <2>1
  <2>3. PICK d, b, e : d = a \o f[n] /\ b = ss[n + 1] /\ e = a \o f[n + 1]
    OBVIOUS
  <2>4. n + 1 \in DOMAIN ss /\ e = d \o b
    <3>1. Joining(ss, S, f) /\ IsSeq(a)
      BY <1>7 DEF Laid
    <3>2. OneMore(ss, f, a, n, d, b, e)
      BY <1>8, <2>1, <2>2, <2>3 DEF OneMore
    <3> QED BY <3>1, <3>2, JoiningStep
  <2>5. PICK h, Y, Z : h = fs[n + 1] /\ Y = OfFunction(t, h) /\ Z = X \cup OfFunctions(t, n)
    OBVIOUS
  <2>6. Spelt(b, Y) /\ Behind(b)
    BY <1>5, <1>6, <2>3, <2>4, <2>5
  <2>7. Laid(t, d, Z)
    BY <1>9, <2>2, <2>3, <2>5
  <2>8. ASSUME NEW x, NEW o, NEW op, <<x, o>> \in Y PROVE <<x, op>> \notin Z
    <3>1. h \in Kept(t) /\ t.objs[h].op = "function"
      BY <1>1, <1>6, <2>4, <2>5, VectorIn
    <3>2. <<x, o>> \in OfFunction(t, h)
      BY <2>5, <2>8
    <3>3. <<x, o>> \in Ops(t) /\ o \in InnerKinds
      BY <3>1, <3>2, OfFunctionCases DEF InnerKinds
    <3>4. <<x, op>> \notin X
      BY <3>3
    <3>5. ASSUME <<x, op>> \in OfFunctions(t, n) PROVE FALSE
      <4>1. PICK k \in DOMAIN t.functions : k <= n /\ <<x, op>> \in OfFunction(t, t.functions[k])
        BY <3>5 DEF OfFunctions
      <4>2. PICK g : g = t.functions[k]
        OBVIOUS
      <4>3. <<x, op>> \in OfFunction(t, g)
        BY <4>1, <4>2
      <4>4. PICK j \in DOMAIN t.functions : j = n + 1 /\ h = t.functions[j]
        BY <1>1, <1>6, <2>4, <2>5
      <4>5. j = k
        BY <3>2, <4>2, <4>3, <4>4, FunctionsApart
      <4> QED BY <2>1, <4>1, <4>4, <4>5
    <3> QED BY <2>5, <3>4, <3>5
  <2>9. Laid(t, d \o b, Z \cup Y)
    BY <2>6, <2>7, <2>8, SpeltLaid
  <2>10. Z \cup Y = X \cup OfFunctions(t, n + 1)
    <3>1. n + 1 \in DOMAIN t.functions /\ h = t.functions[n + 1]
      BY <1>1, <1>6, <2>4, <2>5
    <3>2. ASSUME NEW p
          PROVE  p \in OfFunctions(t, n + 1) <=> p \in OfFunctions(t, n) \/ p \in Y
      <4>1. \A k \in DOMAIN t.functions : k <= n + 1 <=> k <= n \/ k = n + 1
        BY <1>1, <1>6, <1>8, <2>1
      <4>2. p \in Y => p \in Ops(t)
        BY <2>5 DEF OfFunction
      <4> QED BY <2>5, <3>1, <4>1, <4>2 DEF OfFunctions
    <3> QED BY <2>5, <3>2
  <2> QED BY <2>3, <2>4, <2>9, <2>10
<1>12. N \in G
  <2>1. G \in SUBSET Nat
    BY <1>9
  <2>2. G = Nat
    BY <1>10, <1>11, <2>1, SetInduction
  <2> QED BY <2>2
<1>13. Laid(t, a \o f[N], X \cup OfFunctions(t, N))
  BY <1>9, <1>12
<1>14. OfFunctions(t, N) = OfKinds(t, InnerKinds)
  BY <1>1, <1>6, <1>8, AllFunctions
<1> QED BY <1>7, <1>8, <1>13, <1>14

-----------------------------------------------------------------------------
(***************************************************************************)
(* The sections of a file.                                                 *)
(***************************************************************************)
Unlike(s)   == \A i, j \in DOMAIN s : i # j => s[i] # s[j]
Scribed(t)  == Writable(t) /\ Settled(t, {}) /\ Noted(t) /\ NoForwards(t) /\ Unlike(t.groups)
AllNotes(t, s, op) == IsSeq(s) /\ \A k \in DOMAIN s : s[k].op = op /\ s[k].id \in Marks(t)

LEMMA AnnotationsLaid ==
  ASSUME NEW t, NEW a, NEW X, Laid(t, a, X), NEW op \in {"entry point", "name", "mode"},
         NEW b, AllNotes(t, b, op), \A x \in Marks(t) : \A o : <<x, o>> \notin X, NEW c, c = a \o b
  PROVE  Laid(t, c, X)
<1>1. IsSeq(b) /\ Notated(t, b)
  BY DEF AllNotes, Notated
<1>2. \A k \in DOMAIN b : IsAnnotation(b[k]) /\ b[k].op # "line"
  BY DEF AllNotes, IsAnnotation
<1> QED BY <1>1, <1>2, NotesLaid

LEMMA FlattenElements ==
  ASSUME NEW ss, IsSeq(ss), \A k \in DOMAIN ss : IsSeq(ss[k]), NEW c, c = FlattenSeq(ss)
  PROVE  IsSeq(c) /\ \A k \in DOMAIN c : \E j \in DOMAIN ss : \E i \in DOMAIN ss[j] : c[k] = ss[j][i]
<1>1. PICK S, f : S = Elements(ss) /\ Joining(ss, S, f) /\ c = f[Len(ss)]
  BY FlattenJoins
<1>2. c \in Seq(S)
  <2>1. PICK Q : Q = Seq(S)
    OBVIOUS
  <2>2. Len(ss) \in Nat
    BY SeqDomain
  <2>3. c \in Q
    BY <1>1, <2>1, <2>2 DEF Joining
  <2> QED BY <2>1, <2>3
<1>3. \A k \in DOMAIN c : c[k] \in S
  BY <1>2
<1> QED BY <1>1, <1>2, <1>3, SequenceIsSeq DEF Elements

LEMMA EntryPointsNotes ==
  ASSUME NEW t, Writable(t), NEW s, s = EntryPointsWritten(t)
  PROVE  AllNotes(t, s, "entry point")
<1>1. IsSeq(s)
  BY EntryPointsWrittenIds DEF IdsIn
<1>2. DOMAIN s = DOMAIN t.entryPoints
      /\ \A k \in DOMAIN s : s[k].op = "entry point" /\ s[k].id = t.entryPoints[k]
  BY DEF EntryPointsWritten
<1>3. \A k \in DOMAIN s : t.entryPoints[k] \in Marks(t)
  BY <1>2 DEF Writable, Good, Sound, EntryPointsAgree, Range, Marks
<1> QED BY <1>1, <1>2, <1>3 DEF AllNotes

LEMMA NamesNotes ==
  ASSUME NEW t, Writable(t), NEW s, s = NamesWritten(t)
  PROVE  AllNotes(t, s, "name")
<1>1. PICK named : named = t.named \ t.entryPointSet
  OBVIOUS
<1>2. named \subseteq DOMAIN t.idMap
  BY <1>1 DEF Writable, Good, NamesAgree, NameAgrees
<1>3. PICK N \in Nat : N = t.nextId
  BY DEF Writable, Fresh
<1>4. named \subseteq {i \in Nat : i < N}
  BY <1>2, <1>3 DEF Writable, Fresh
<1>5. PICK ids : ids = Ascending(named)
  OBVIOUS
<1>6. IsSeq(ids) /\ \A k \in DOMAIN ids : ids[k] \in named
  BY <1>4, <1>5, AscendingIsSeq
<1>7. s = [k \in DOMAIN ids |-> [op |-> "name", id |-> ids[k], name |-> t.objs[t.idMap[ids[k]]].name]]
  BY <1>1, <1>5 DEF NamesWritten
<1>8. DOMAIN s = DOMAIN ids /\ \A k \in DOMAIN s : s[k].op = "name" /\ s[k].id = ids[k]
  BY <1>7
<1>9. named \subseteq Marks(t)
  BY <1>1 DEF Marks
<1>10. IsSeq(s)
  BY NamesWrittenIds DEF IdsIn
<1> QED BY <1>6, <1>8, <1>9, <1>10 DEF AllNotes

LEMMA ModesNotes ==
  ASSUME NEW t, Writable(t), NEW s, s = ModesWritten(t)
  PROVE  AllNotes(t, s, "mode")
<1>1. PICK es : es = t.entryPoints
  OBVIOUS
<1>2. IsSeq(es) /\ \A k \in DOMAIN es : es[k] \in DOMAIN t.idMap /\ es[k] \in Marks(t)
  <2>1. IsSeq(es) /\ \A k \in DOMAIN es : es[k] \in DOMAIN t.idMap
    BY <1>1, EntryPointsWrittenIds, GoodShaped DEF Writable, Shaped
  <2>2. \A k \in DOMAIN es : es[k] \in Marks(t)
    BY <1>1 DEF Writable, Good, Sound, EntryPointsAgree, Range, Marks
  <2> QED BY <2>1, <2>2
<1>3. PICK ss : ss = [k \in DOMAIN t.entryPoints |->
        LET modes == Function(t, t.entryPoints[k]).modes
            kinds == SetToSeq(DOMAIN modes)
        IN [i \in DOMAIN kinds |->
              [op |-> "mode", id |-> t.entryPoints[k], kind |-> kinds[i],
               literals |-> modes[kinds[i]]]]]
  OBVIOUS
<1>4. s = FlattenSeq(ss)
  BY <1>3 DEF ModesWritten
<1>5. ASSUME NEW k \in DOMAIN es
      PROVE  IsSeq(ss[k]) /\ \A i \in DOMAIN ss[k] : ss[k][i].op = "mode" /\ ss[k][i].id = es[k]
  <2>1. PICK modes : modes = Function(t, es[k]).modes
    OBVIOUS
  <2>2. PICK kinds : kinds = SetToSeq(DOMAIN modes)
    OBVIOUS
  <2>3. IsSeq(kinds)
    <3>1. t.idMap[es[k]] \in DOMAIN t.objs
      BY <1>2 DEF Writable, Good, Sound, Linked, Entered
    <3>2. IsFiniteSet(DOMAIN modes)
      BY <2>1, <3>1 DEF Function, Writable, Tidied, Inside
    <3> QED BY <2>2, <3>2, SetToSeqIsSeq
  <2>4. PICK r : r = [i \in DOMAIN kinds |->
          [op |-> "mode", id |-> es[k], kind |-> kinds[i], literals |-> modes[kinds[i]]]]
    OBVIOUS
  <2>5. ss[k] = r
    BY <1>1, <1>3, <2>1, <2>2, <2>4
  <2>6. /\ DOMAIN r = DOMAIN kinds /\ r = [i \in DOMAIN kinds |-> r[i]]
        /\ \A i \in DOMAIN kinds : r[i].op = "mode" /\ r[i].id = es[k]
    BY <2>4
  <2>7. PICK X : X = {es[k]}
    OBVIOUS
  <2>8. \A i \in DOMAIN kinds : r[i].id \in X
    BY <2>6, <2>7
  <2>9. IdsIn(r, X)
    BY <2>3, <2>6, <2>8, MappedIds
  <2> QED BY <2>5, <2>6, <2>9 DEF IdsIn
<1>6. IsSeq(ss) /\ DOMAIN ss = DOMAIN es
  <2>1. DOMAIN ss = DOMAIN es /\ Len(es) \in Nat /\ DOMAIN es = 1 .. Len(es)
    BY <1>1, <1>2, <1>3, SeqDomain
  <2>2. ss \in [1 .. Len(es) -> {ss[k] : k \in DOMAIN es}]
    BY <1>1, <1>3, <2>1
  <2> QED BY <2>1, <2>2, FunctionIsSeq
<1>7. \A k \in DOMAIN ss : IsSeq(ss[k])
  BY <1>5, <1>6
<1>8. IsSeq(s) /\ \A k \in DOMAIN s : \E j \in DOMAIN ss : \E i \in DOMAIN ss[j] : s[k] = ss[j][i]
  BY <1>4, <1>6, <1>7, FlattenElements
<1>9. ASSUME NEW k \in DOMAIN s PROVE s[k].op = "mode" /\ s[k].id \in Marks(t)
  <2>1. PICK j \in DOMAIN es : \E i \in DOMAIN ss[j] : s[k] = ss[j][i]
    BY <1>6, <1>8
  <2>2. PICK i \in DOMAIN ss[j] : s[k] = ss[j][i]
    BY <2>1
  <2> QED BY <1>2, <1>5, <2>2
<1> QED BY <1>8, <1>9 DEF AllNotes

LEMMA LinesLaid ==
  ASSUME NEW t, Writable(t), NEW a, NEW X, Laid(t, a, X), \A x \in Marks(t) : \A o : <<x, o>> \notin X,
         \A x \in Texts(t) : <<x, "string">> \in X,
         NEW s, s = LinesWritten(t), NEW c, c = a \o s
  PROVE  Laid(t, c, X)
<1>1. PICK ls : ls = t.lines
  OBVIOUS
<1>2. IsSeq(s)
  BY LinesWrittenIds DEF IdsIn
<1>3. DOMAIN s = DOMAIN ls
      /\ \A k \in DOMAIN s : s[k].op = "line" /\ s[k].id = ls[k].target /\ s[k].string = ls[k].string
  BY <1>1 DEF LinesWritten
<1>4. \A k \in DOMAIN ls : ls[k].target \in Marks(t)
  BY <1>1 DEF Marks
<1>5. \A k \in DOMAIN ls : ls[k].string \in Texts(t)
  BY <1>1 DEF Texts
<1>6. Notated(t, s)
  BY <1>3, <1>4, <1>5 DEF Notated
<1>7. \A k \in DOMAIN s : IsAnnotation(s[k])
  BY <1>3 DEF IsAnnotation
<1>8. \A k \in DOMAIN s : s[k].op = "line" => \E op : <<s[k].string, op>> \in X
  BY <1>3, <1>5
<1> QED BY <1>2, <1>6, <1>7, <1>8, NotesLaid

-----------------------------------------------------------------------------
(***************************************************************************)
(* A whole file.                                                           *)
(***************************************************************************)
Strings(t)  == OfKinds(t, {"string"})
Written(t)  ==
  Strings(t) \cup GroupPairs(t) \cup OfKinds(t, {"global"}) \cup OfKinds(t, InnerKinds)

LEMMA ScribedFacts ==
  ASSUME NEW t, Scribed(t)
  PROVE  /\ Vector(t, t.strings, "string") /\ Vector(t, t.globals, "global")
         /\ Vector(t, t.functions, "function") /\ ItemsPlaced(t, {}) /\ GroupsPlaced(t) /\ Vectors(t)
         /\ \A x \in Marks(t) : \A o : <<x, o>> \notin Strings(t)
         /\ \A x \in Texts(t) : <<x, "string">> \in Strings(t)
         /\ \A f : InFunctions(t, f) => IsSeq(t.objs[f].items)
<1>1. /\ Vector(t, t.strings, "string") /\ Vector(t, t.globals, "global")
      /\ Vector(t, t.functions, "function") /\ ItemsPlaced(t, {}) /\ GroupsPlaced(t) /\ Vectors(t)
  BY DEF Scribed, Settled, Placed
<1>2. ASSUME NEW x \in Marks(t), NEW o, <<x, o>> \in Strings(t) PROVE FALSE
  <2>1. <<x, o>> \in Ops(t) /\ o = "string"
    BY <1>2, OfKindsPairs DEF Strings
  <2>2. PICK op \in Kinds \ {"string"} : <<x, op>> \in Ops(t)
    BY DEF Scribed, Noted, Markable
  <2>3. o = op
    BY <2>1, <2>2, OpsUnique
  <2> QED BY <2>1, <2>2, <2>3
<1>3. ASSUME NEW x \in Texts(t) PROVE <<x, "string">> \in Strings(t)
  <2>1. <<x, "string">> \in Ops(t)
    BY DEF Scribed, Noted
  <2> QED BY <2>1, OfKindsPairs DEF Strings
<1>4. ASSUME NEW f, InFunctions(t, f) PROVE IsSeq(t.objs[f].items)
  <2>1. PICK j \in DOMAIN t.functions : f = t.functions[j]
    BY <1>4 DEF InFunctions
  <2>2. f \in DOMAIN t.objs
    BY <1>1, <2>1, VectorIn
  <2> QED BY <2>2 DEF Scribed, Writable, Tidied, Inside, Listed
<1> QED BY <1>1, <1>2, <1>3, <1>4

\* What is a group is nothing else.
LEMMA GroupsOnly ==
  ASSUME NEW t, GroupsPlaced(t), NEW x, NEW o, <<x, o>> \in GroupPairs(t)
  PROVE  o = "group" /\ \A op : <<x, op>> \in Ops(t) => op = "group"
<1>1. PICK k \in DOMAIN t.groups : <<x, o>> = <<t.groups[k], "group">>
  BY DEF GroupPairs
<1>2. x = t.groups[k] /\ o = "group"
  BY <1>1
<1>3. ASSUME NEW op, <<x, op>> \in Ops(t) PROVE op = "group"
  <2>1. PICK p : p = <<x, op>>
    OBVIOUS
  <2>2. p[1] = x /\ p[2] = op /\ p \in Ops(t)
    BY <1>3, <2>1
  <2> QED BY <1>2, <2>2 DEF GroupsPlaced
<1> QED BY <1>2, <1>3

LEMMA WrittenPairs ==
  ASSUME NEW t, Scribed(t), NEW x, NEW op
  PROVE  /\ <<x, op>> \in Ops(t) => <<x, op>> \in Written(t) /\ op \in Definitions
         /\ <<x, op>> \in Written(t) => op \in Definitions /\ (<<x, op>> \in Ops(t) \/ op = "group")
<1>1. ASSUME <<x, op>> \in Ops(t) PROVE <<x, op>> \in Written(t) /\ op \in Definitions
  <2>1. PICK p : p = <<x, op>>
    OBVIOUS
  <2>2. p[1] = x /\ p[2] = op /\ p \in Ops(t)
    BY <1>1, <2>1
  <2>3. op \in Kinds /\ op # "forward"
    BY <2>2 DEF Scribed, Settled, Placed, NoForwards
  <2>4. CASE op = "group"
    <3>1. PICK k \in DOMAIN t.groups : t.groups[k] = x
      BY <2>2, <2>4, ScribedFacts DEF GroupsPlaced
    <3>2. p \in GroupPairs(t)
      BY <2>1, <2>4, <3>1 DEF GroupPairs
    <3> QED BY <2>1, <2>4, <3>2 DEF Written, Definitions
  <2>5. CASE op # "group"
    <3>1. op \in {"string", "global"} \cup InnerKinds
      BY <2>3, <2>5 DEF Kinds, Definitions, InnerKinds
    <3>2. p \in OfKinds(t, {"string"}) \/ p \in OfKinds(t, {"global"}) \/ p \in OfKinds(t, InnerKinds)
      BY <2>2, <3>1 DEF OfKinds
    <3> QED BY <2>1, <2>3, <3>2 DEF Written, Strings, Kinds
  <2> QED BY <2>4, <2>5
<1>2. ASSUME <<x, op>> \in Written(t) PROVE op \in Definitions /\ (<<x, op>> \in Ops(t) \/ op = "group")
  <2>1. CASE <<x, op>> \in GroupPairs(t)
    BY <2>1, GroupsOnly, ScribedFacts DEF Definitions
  <2>2. CASE <<x, op>> \notin GroupPairs(t)
    <3>1. <<x, op>> \in Ops(t) /\ op \in {"string", "global"} \cup InnerKinds
      <4>1. \/ <<x, op>> \in OfKinds(t, {"string"}) \/ <<x, op>> \in OfKinds(t, {"global"})
            \/ <<x, op>> \in OfKinds(t, InnerKinds)
        BY <1>2, <2>2 DEF Written, Strings
      <4> QED BY <4>1, OfKindsPairs
    <3> QED BY <3>1 DEF Definitions, InnerKinds
  <2> QED BY <2>1, <2>2
<1> QED BY <1>1, <1>2

LEMMA InstructionsLaid ==
  ASSUME NEW t, Scribed(t), NEW s, s = Instructions(t)
  PROVE  Laid(t, s, Written(t))
<1>1. PICK a, b, c, d : /\ a = EntryPointsWritten(t) /\ b = ModesWritten(t)
                        /\ c = EntriesWritten(t, t.strings) /\ d = NamesWritten(t)
  OBVIOUS
<1>2. PICK e, f, g, h : /\ e = LinesWritten(t)
                        /\ f = [k \in DOMAIN t.groups |-> [op |-> "group", id |-> t.groups[k], str |-> ""]]
                        /\ g = EntriesWritten(t, t.globals) /\ h = FunctionsWritten(t)
  OBVIOUS
<1>3. s = a \o b \o c \o d \o e \o f \o g \o h
  BY <1>1, <1>2 DEF Instructions
<1>4. PICK ab, abc, abcd : ab = a \o b /\ abc = ab \o c /\ abcd = abc \o d
  OBVIOUS
<1>5. PICK ae, af, ag : ae = abcd \o e /\ af = ae \o f /\ ag = af \o g
  OBVIOUS
<1>6. s = ag \o h
  BY <1>3, <1>4, <1>5
<1>7. /\ Vector(t, t.strings, "string") /\ Vector(t, t.globals, "global")
      /\ Vector(t, t.functions, "function") /\ ItemsPlaced(t, {}) /\ GroupsPlaced(t) /\ Vectors(t)
      /\ \A x \in Marks(t) : \A o : <<x, o>> \notin Strings(t)
      /\ \A x \in Texts(t) : <<x, "string">> \in Strings(t)
      /\ \A i : InFunctions(t, i) => IsSeq(t.objs[i].items)
  BY ScribedFacts
<1>8. Writable(t) /\ IsSeq(t.strings) /\ IsSeq(t.globals) /\ IsSeq(t.functions) /\ IsSeq(t.groups)
  BY <1>7 DEF Scribed, Vectors
<1>9. Laid(t, a, {})
  <2>1. PICK z : z = << >>
    OBVIOUS
  <2>2. Laid(t, z, {})
    BY <2>1, EmptyLaid
  <2>3. AllNotes(t, a, "entry point")
    BY <1>1, <1>8, EntryPointsNotes
  <2>4. a = z \o a
    <3>1. PICK A : A = {a[k] : k \in DOMAIN a}
      OBVIOUS
    <3>2. a \in Seq(A)
      BY <2>3, <3>1 DEF AllNotes, IsSeq
    <3> QED BY <2>1, <3>2, ConcatEmptySeq
  <2> QED BY <2>2, <2>3, <2>4, AnnotationsLaid
<1>10. Laid(t, ab, {})
  <2>1. AllNotes(t, b, "mode")
    BY <1>1, <1>8, ModesNotes
  <2> QED BY <1>4, <1>9, <2>1, AnnotationsLaid
<1>11. PICK X, Y, Z, W : X = Strings(t) /\ Y = GroupPairs(t) /\ Z = OfKinds(t, {"global"}) /\ W = OfKinds(t, InnerKinds)
  OBVIOUS
<1>12. Laid(t, abc, X)
  <2>1. Spelt(c, X) /\ Behind(c)
    <3>1. "string" \in Definitions \ Items
      BY DEF Definitions, Items
    <3> QED BY <1>1, <1>7, <1>8, <1>11, <3>1, VectorSpelt DEF Strings
  <2>2. Laid(t, abc, {} \cup X)
    BY <1>4, <1>10, <2>1, SpeltLaid
  <2> QED BY <2>2
<1>13. Laid(t, abcd, X)
  <2>1. AllNotes(t, d, "name")
    BY <1>1, <1>8, NamesNotes
  <2> QED BY <1>4, <1>7, <1>11, <1>12, <2>1, AnnotationsLaid
<1>14. Laid(t, ae, X)
  BY <1>2, <1>5, <1>7, <1>8, <1>11, <1>13, LinesLaid
<1>15. Laid(t, af, X \cup Y)
  <2>1. Spelt(f, Y) /\ Behind(f)
    <3>1. \A i, j \in DOMAIN t.groups : i # j => t.groups[i] # t.groups[j]
      BY DEF Scribed, Unlike
    <3> QED BY <1>2, <1>8, <1>11, <3>1, GroupsSpelt
  <2>2. ASSUME NEW x, NEW o, NEW op, <<x, o>> \in Y PROVE <<x, op>> \notin X
    <3>1. <<x, o>> \in GroupPairs(t) /\ GroupsPlaced(t)
      BY <1>7, <1>11, <2>2
    <3>2. \A i : <<x, i>> \in Ops(t) => i = "group"
      BY <3>1, GroupsOnly
    <3> QED BY <1>11, <3>2, OfKindsPairs DEF Strings
  <2> QED BY <1>5, <1>14, <2>1, <2>2, SpeltLaid
<1>16. Laid(t, ag, X \cup Y \cup Z)
  <2>1. Spelt(g, Z) /\ Behind(g)
    <3>1. "global" \in Definitions \ Items
      BY DEF Definitions, Items
    <3> QED BY <1>2, <1>7, <1>8, <1>11, <3>1, VectorSpelt
  <2>2. ASSUME NEW x, NEW o, NEW op, <<x, o>> \in Z PROVE <<x, op>> \notin X \cup Y
    <3>1. <<x, o>> \in Ops(t) /\ o = "global"
      BY <1>11, <2>2, OfKindsPairs
    <3>2. ASSUME <<x, op>> \in X PROVE FALSE
      <4>1. <<x, op>> \in Ops(t) /\ op = "string"
        BY <1>11, <3>2, OfKindsPairs DEF Strings
      <4>2. o = op
        BY <3>1, <4>1, OpsUnique
      <4> QED BY <3>1, <4>1, <4>2
    <3>3. ASSUME <<x, op>> \in Y PROVE FALSE
      <4>1. <<x, op>> \in GroupPairs(t) /\ GroupsPlaced(t)
        BY <1>7, <1>11, <3>3
      <4>2. \A i : <<x, i>> \in Ops(t) => i = "group"
        BY <4>1, GroupsOnly
      <4> QED BY <3>1, <4>2
    <3> QED BY <3>2, <3>3
  <2> QED BY <1>5, <1>15, <2>1, <2>2, SpeltLaid
<1>17. Laid(t, s, X \cup Y \cup Z \cup W)
  <2>1. PICK V : V = X \cup Y \cup Z
    OBVIOUS
  <2>2. ASSUME NEW x, NEW o, NEW op, <<x, o>> \in Ops(t), o \in InnerKinds PROVE <<x, op>> \notin V
    <3>1. o \notin {"string", "global", "group"}
      BY <2>2 DEF InnerKinds, Items
    <3>2. ASSUME <<x, op>> \in X \/ <<x, op>> \in Z PROVE FALSE
      <4>1. <<x, op>> \in Ops(t) /\ op \in {"string", "global"}
        BY <1>11, <3>2, OfKindsPairs DEF Strings
      <4>2. o = op
        BY <2>2, <4>1, OpsUnique
      <4> QED BY <3>1, <4>1, <4>2
    <3>3. ASSUME <<x, op>> \in Y PROVE FALSE
      <4>1. <<x, op>> \in GroupPairs(t) /\ GroupsPlaced(t)
        BY <1>7, <1>11, <3>3
      <4>2. \A i : <<x, i>> \in Ops(t) => i = "group"
        BY <4>1, GroupsOnly
      <4> QED BY <2>2, <3>1, <4>2
    <3> QED BY <2>1, <3>2, <3>3
  <2>3. Laid(t, ag, V)
    BY <1>16, <2>1
  <2>4. Laid(t, s, V \cup W)
    BY <1>2, <1>6, <1>7, <1>8, <1>11, <2>2, <2>3, FunctionsLaid
  <2> QED BY <2>1, <2>4
<1> QED BY <1>11, <1>17 DEF Written

\* What operator<< writes is in the layout, and each of its ids is made.
LEMMA WrittenLayout ==
  ASSUME NEW t, Scribed(t), NEW s, s = Instructions(t)
  PROVE  InLayout(s) /\ IdsMade(s)
<1>1. InLayout(s) /\ Behind(s) /\ Notated(t, s) /\ Defines(s, Written(t))
  BY InstructionsLaid DEF Laid
<1>2. ASSUME NEW x, NEW op, <<x, op>> \in Ops(t)
      PROVE  \E i \in DOMAIN s : s[i].id = x /\ s[i].op = op /\ ~IsAnnotation(s[i])
  <2>1. <<x, op>> \in Written(t)
    BY <1>2, WrittenPairs
  <2> QED BY <1>1, <2>1 DEF Defines
<1>3. ASSUME NEW x \in Marks(t)
      PROVE  \E op : op # "string" /\ <<x, op>> \in Ops(t)
  BY DEF Scribed, Noted, Markable
<1>4. ASSUME NEW x \in Texts(t)
      PROVE  <<x, "string">> \in Ops(t)
  BY DEF Scribed, Noted
<1>5. ASSUME NEW j \in DOMAIN s PROVE IsAnnotation(s[j]) \/ s[j].op \in Definitions
  BY <1>1, WrittenPairs DEF Defines
<1>6. ASSUME NEW j \in DOMAIN s PROVE \E i \in DOMAIN s : s[i].id = s[j].id /\ ~IsAnnotation(s[i])
  <2>1. CASE IsAnnotation(s[j])
    <3>1. s[j].id \in Marks(t)
      BY <1>1, <2>1 DEF Notated
    <3>2. PICK op : <<s[j].id, op>> \in Ops(t)
      BY <1>3, <3>1
    <3> QED BY <1>2, <3>2
  <2>2. CASE ~IsAnnotation(s[j])
    BY <2>2
  <2> QED BY <2>1, <2>2
<1>7. ASSUME NEW j \in DOMAIN s, s[j].op = "string", NEW i \in DOMAIN s, s[i].id = s[j].id, IsAnnotation(s[i])
      PROVE  FALSE
  <2>1. PICK x : x = s[j].id
    OBVIOUS
  <2>2. x \in Marks(t)
    BY <1>1, <1>7, <2>1 DEF Notated
  <2>3. PICK op : op # "string" /\ <<x, op>> \in Ops(t)
    BY <1>3, <2>2
  <2>4. <<x, "string">> \in Written(t)
    <3>1. ~IsAnnotation(s[j])
      BY <1>7 DEF IsAnnotation
    <3> QED BY <1>1, <1>7, <2>1, <3>1 DEF Defines
  <2>5. <<x, "string">> \in Ops(t)
    BY <2>4, WrittenPairs
  <2> QED BY <2>3, <2>5, OpsUnique
<1>8. ASSUME NEW j \in DOMAIN s, s[j].op = "line"
      PROVE  \E i \in DOMAIN s : s[i].op = "string" /\ s[i].id = s[j].string
  <2>1. PICK y : y = s[j].string
    OBVIOUS
  <2>2. y \in Texts(t)
    BY <1>1, <1>8, <2>1 DEF Notated, IsAnnotation
  <2>3. <<y, "string">> \in Ops(t)
    BY <1>4, <2>2
  <2>4. PICK i \in DOMAIN s : s[i].id = y /\ s[i].op = "string"
    BY <1>2, <2>3
  <2> QED BY <2>1, <2>4
<1>9. \A j \in DOMAIN s : s[j].op \in Items => \E i \in 1 .. (j - 1) : s[i].op = "function"
  BY <1>1 DEF Behind
<1> QED BY <1>1, <1>5, <1>6, <1>7, <1>8, <1>9 DEF IdsMade

-----------------------------------------------------------------------------
(***************************************************************************)
(* Writing.                                                                *)
(***************************************************************************)
WithGroup(t, u) == u = [TakeIds(t, 1) EXCEPT !.groups = Append(@, t.nextId)]

LEMMA GroupAddedPlaced ==
  ASSUME NEW t, Good(t), Numbered(t), Settled(t, {}), NEW u, WithGroup(t, u)
  PROVE  Settled(u, {}) /\ Ops(u) = Ops(t) /\ Marks(u) = Marks(t) /\ Texts(u) = Texts(t)
<1>1. PICK n \in Nat : n = t.nextId
  BY DEF Numbered, Fresh
<1>2. PICK groups : groups = Append(t.groups, n)
  OBVIOUS
<1>3. u = [t EXCEPT !.nextId = n + 1, !.groups = groups]
  BY <1>1, <1>2, GoodShaped DEF TakeIds, Shaped, TableFields, WithGroup
<1>4. /\ u.objs = t.objs /\ u.idMap = t.idMap /\ u.named = t.named /\ u.lines = t.lines
      /\ u.entryPointSet = t.entryPointSet /\ u.groups = groups /\ u.strMap = t.strMap
      /\ u.strings = t.strings /\ u.globals = t.globals /\ u.functions = t.functions
  BY <1>3, GoodShaped DEF Shaped, TableFields
<1>5. Appended(t.groups, n, groups)
  BY <1>2, AppendFacts DEF Numbered, GroupsFresh
<1>6. Kept(u) = Kept(t)
  BY <1>4 DEF Kept, Entered
<1>7. Ops(u) = Ops(t)
  BY <1>4, <1>6 DEF Ops
<1>8. Marks(u) = Marks(t)
  BY <1>4 DEF Marks
<1>9. Texts(u) = Texts(t)
  BY <1>4 DEF Texts
<1>10. Vector(u, u.strings, "string") /\ Vector(u, u.globals, "global") /\ Vector(u, u.functions, "function")
  BY <1>4, <1>6 DEF Settled, Placed, Vector
<1>11. \A x, f, k : ItemAt(u, x, f, k) <=> ItemAt(t, x, f, k)
  BY <1>4 DEF ItemAt
<1>12. ItemsPlaced(u, {})
  <2>1. ItemsPlaced(t, {})
    BY DEF Settled, Placed
  <2>2. /\ \A x : InFunction(t, x) <=> x \notin {} /\ IsItem(t, x)
        /\ \A x, f, g, j, k : ItemAt(t, x, f, j) /\ ItemAt(t, x, g, k) => f = g /\ j = k
    BY <2>1, ItemsPlacedFacts
  <2>3. \A x : InFunction(u, x) <=> InFunction(t, x)
    BY <1>11 DEF InFunction
  <2>4. \A x : IsItem(u, x) <=> IsItem(t, x)
    BY <1>7 DEF IsItem
  <2>5. \A x, f, g, j, k : ItemAt(u, x, f, j) /\ ItemAt(u, x, g, k) => f = g /\ j = k
    BY <1>11, <2>2
  <2>6. \A x : InFunction(u, x) <=> x \notin {} /\ IsItem(u, x)
    BY <2>2, <2>3, <2>4
  <2> QED BY <2>5, <2>6, ItemsPlacedFacts
<1>13. GroupsPlaced(u)
  <2> SUFFICES ASSUME NEW p \in Ops(t)
               PROVE  p[2] = "group" <=> \E k \in DOMAIN groups : groups[k] = p[1]
    BY <1>4, <1>7 DEF GroupsPlaced
  <2>1. PICK x, op : p = <<x, op>> /\ x = p[1] /\ op = p[2]
    BY OpsPairs
  <2>2. x \in DOMAIN t.idMap
    BY <2>1, OpsMapped
  <2>3. x # n
    BY <1>1, <2>2 DEF Numbered, Fresh
  <2>4. \A k \in DOMAIN groups : groups[k] = x <=> k \in DOMAIN t.groups /\ t.groups[k] = x
    BY <1>5, <2>3 DEF Appended
  <2>5. DOMAIN t.groups \subseteq DOMAIN groups
    BY <1>5 DEF Appended
  <2>6. op = "group" <=> \E k \in DOMAIN t.groups : t.groups[k] = x
    BY <2>1 DEF Settled, Placed, GroupsPlaced
  <2> QED BY <2>1, <2>4, <2>5, <2>6
<1>14. Vectors(u)
  BY <1>4, <1>5 DEF Settled, Vectors, Appended
<1>15. Settled(u, {})
  BY <1>7, <1>10, <1>12, <1>13, <1>14 DEF Settled, Placed
<1> QED BY <1>7, <1>8, <1>9, <1>15

LEMMA OptimizedScribed ==
  ASSUME NEW t, Good(t), Numbered(t), Settled(t, {}), Noted(t), NoForwards(t), NEW u \in Optimized(t)
  PROVE  Scribed(u)
<1>1. Good(u) /\ Numbered(u)
  BY OptimizedGood, OptimizedNumbered
<1>2. Writable(u) /\ Unlike(u.groups)
  BY <1>1 DEF Writable, Unlike, Numbered, GroupsFresh
<1>3. CASE u = t
  BY <1>2, <1>3 DEF Scribed
<1>4. CASE WithGroup(t, u)
  <2>1. Settled(u, {}) /\ Ops(u) = Ops(t) /\ Marks(u) = Marks(t) /\ Texts(u) = Texts(t)
    BY <1>4, GroupAddedPlaced
  <2>2. Noted(u) /\ NoForwards(u)
    BY <2>1 DEF Noted, NoForwards, Markable
  <2> QED BY <1>2, <2>1, <2>2 DEF Scribed
<1> QED BY <1>3, <1>4 DEF Optimized, WithGroup

LEMMA PlacedSettled ==
  ASSUME IInv, FInv, LInv
  PROVE  Good(m) /\ Numbered(m) /\ Settled(m, {})
<1>1. Good(m) /\ Numbered(m)
  BY DEF IInv, FInv
<1>2. Vectors(m)
  BY <1>1, VectorsOf DEF Numbered, GroupsFresh
<1> QED BY <1>1, <1>2 DEF LInv, Settled

\* operator<<: when a module is written, no forward is left.
LEMMA WriteLayout ==
  ASSUME IInv, FInv, LInv, Write
  PROVE  LInv'
<1>1. PICK t : t = source'
  OBVIOUS
<1>2. Good(m) /\ Numbered(m) /\ Settled(m, {})
  BY PlacedSettled
<1>3. Noted(m)
  BY DEF LInv, Write, Building
<1>4. NoForwards(m)
  <2>1. CASE phase = "read"
    BY <2>1 DEF LInv
  <2>2. CASE Forwards = {}
    <3>1. ASSUME NEW p \in Ops(m), p[2] = "forward" PROVE FALSE
      <4>1. PICK x, op : p = <<x, op>> /\ x = p[1] /\ op = p[2]
        BY OpsPairs
      <4>2. PICK e \in Kept(m) : m.objs[e].id = x /\ m.objs[e].op = op
        BY <4>1, OpsOf
      <4>3. e \in Forwards
        BY <3>1, <4>1, <4>2 DEF Forwards, Kept, Entered
      <4> QED BY <2>2, <4>3
    <3> QED BY <3>1 DEF NoForwards
  <2> QED BY <2>1, <2>2 DEF Write
<1>5. t \in Optimized(m)
  BY <1>1 DEF Write, Optimized
<1>6. Scribed(t)
  BY <1>2, <1>3, <1>4, <1>5, OptimizedScribed
<1>7. PICK s : s = Instructions(t)
  OBVIOUS
<1>8. InLayout(s) /\ IdsMade(s)
  BY <1>6, <1>7, WrittenLayout
<1>9. file'.instructions = s /\ phase' = "written" /\ m' = m
  BY <1>1, <1>7 DEF Write
<1>11. IdsMade(file'.instructions) /\ InLayout(file'.instructions)
  BY <1>8, <1>9
<1>12. Placed(m, {})'
  BY <1>9 DEF LInv
<1> QED BY <1>9, <1>11, <1>12 DEF LInv

-----------------------------------------------------------------------------
(***************************************************************************)
(* Reading.  What stands in front of an instruction decides whether an     *)
(* assertion fails on it.                                                  *)
(***************************************************************************)
Fits(ins, j) ==
  /\ \A i \in 1 .. (j - 1) : ins[i].id = ins[j].id => IsAnnotation(ins[i])
  /\ ins[j].op = "line" => \E i \in 1 .. (j - 1) : ins[i].id = ins[j].string

LEMMA LayoutFits ==
  ASSUME NEW ins, IsSeq(ins), NEW n \in 0 .. Len(ins), NEW s, s = SubSeq(ins, 1, n)
  PROVE  InLayout(s) <=> \A j \in 1 .. n : Fits(ins, j)
<1>1. PICK X : X = {ins[k] : k \in DOMAIN ins}
  OBVIOUS
<1>2. ins \in Seq(X) /\ Len(ins) \in Nat
  BY <1>1 DEF IsSeq
<1>3. DOMAIN s = 1 .. n /\ \A j \in 1 .. n : s[j] = ins[j]
  <2>1. s \in Seq(X) /\ Len(s) = n /\ \A j \in 1 .. n : s[j] = ins[j]
    BY <1>2
  <2> QED BY <2>1
<1>4. \A j \in 1 .. n : \A i \in 1 .. (j - 1) : i \in 1 .. n
  OBVIOUS
<1> QED BY <1>3, <1>4 DEF InLayout, Fits

LEMMA LayoutAll ==
  ASSUME NEW ins, IsSeq(ins)
  PROVE  InLayout(ins) <=> \A j \in DOMAIN ins : Fits(ins, j)
BY DEF InLayout, Fits

LEMMA LeftFacts ==
  ASSUME NEW ins, IsSeq(ins), NEW n \in 0 .. Len(ins), NEW l, l = LeftOf(ins, n)
  PROVE  /\ l = << >> => n = Len(ins)
         /\ l # << >> => n + 1 \in DOMAIN ins /\ n + 1 \in 0 .. Len(ins)
                         /\ Head(l) = ins[n + 1] /\ Tail(l) = LeftOf(ins, n + 1)
<1>1. PICK X : X = {ins[k] : k \in DOMAIN ins}
  OBVIOUS
<1>2. PICK N \in Nat : N = Len(ins)
  BY SeqDomain
<1>3. ins \in Seq(X) /\ DOMAIN ins = 1 .. N
  BY <1>1, <1>2 DEF IsSeq
<1>4. l = SubSeq(ins, n + 1, N)
  BY <1>2 DEF LeftOf
<1>5. l \in Seq(X) /\ Len(l) = N - n /\ \A j \in 1 .. N - n : l[j] = ins[n + j]
  BY <1>2, <1>3, <1>4
<1>6. ASSUME l = << >> PROVE n = N
  BY <1>2, <1>5, <1>6
<1>7. ASSUME l # << >> PROVE n + 1 \in DOMAIN ins /\ n + 1 \in 0 .. N
                             /\ Head(l) = ins[n + 1] /\ Tail(l) = LeftOf(ins, n + 1)
  <2>1. n < N
    <3>1. Len(l) # 0
      BY <1>5, <1>7
    <3> QED BY <1>2, <1>5, <3>1
  <2>2. Head(l) = ins[n + 1]
    BY <1>2, <1>5, <1>7, <2>1
  <2>3. PICK r, q : r = Tail(l) /\ q = SubSeq(ins, n + 2, N)
    OBVIOUS
  <2>4. r \in Seq(X) /\ Len(r) = N - n - 1 /\ \A j \in 1 .. N - n - 1 : r[j] = ins[n + 1 + j]
    <3>1. r \in Seq(X) /\ Len(r) = N - n - 1 /\ \A j \in 1 .. N - n - 1 : r[j] = l[j + 1]
      <4>1. PICK k \in Nat : k = Len(l) /\ k = N - n
        BY <1>5
      <4>2. r \in Seq(X) /\ Len(r) = k - 1 /\ \A j \in 1 .. k - 1 : r[j] = l[j + 1]
        BY <1>5, <1>7, <2>3, <4>1
      <4> QED BY <4>1, <4>2
    <3>2. \A j \in 1 .. N - n - 1 : l[j + 1] = ins[n + (j + 1)]
      BY <1>2, <1>5, <2>1
    <3>3. \A j \in 1 .. N - n - 1 : n + (j + 1) = n + 1 + j
      BY <1>2
    <3> QED BY <3>1, <3>2, <3>3
  <2>5. q \in Seq(X) /\ Len(q) = N - n - 1 /\ \A j \in 1 .. N - n - 1 : q[j] = ins[n + 1 + j]
    BY <1>2, <1>3, <2>1, <2>3
  <2>6. r = q
    BY <2>4, <2>5
  <2>7. (n + 1) + 1 = n + 2
    BY <1>2
  <2> QED BY <1>2, <1>3, <2>1, <2>2, <2>3, <2>6, <2>7 DEF LeftOf
<1> QED BY <1>2, <1>6, <1>7

LEMMA MadeIds ==
  ASSUME NEW ins, IdsMade(ins), NEW j \in DOMAIN ins
  PROVE  /\ IsAnnotation(ins[j]) \/ ins[j].op \in Definitions
         /\ \E i \in DOMAIN ins : ins[i].id = ins[j].id /\ ~IsAnnotation(ins[i])
         /\ ins[j].op = "string" =>
              \A i \in DOMAIN ins : ins[i].id = ins[j].id => ~IsAnnotation(ins[i])
         /\ ins[j].op = "line" => \E i \in DOMAIN ins : ins[i].op = "string" /\ ins[i].id = ins[j].string
         /\ ins[j].op \in Items => \E i \in 1 .. (j - 1) : ins[i].op = "function"
BY DEF IdsMade

\* A definition is no forward, and no annotation.
LEMMA DefinitionOps ==
  /\ "forward" \notin Definitions
  /\ \A ins : ins.op \in Definitions => ~IsAnnotation(ins)
BY DEF Definitions, Items, IsAnnotation

\* "Annotations only allowed on forward", "Id used twice", "Id is not in map".
LEMMA DecodableFits ==
  ASSUME NEW ins, IsSeq(ins), IdsMade(ins), NEW n \in Nat, n + 1 \in DOMAIN ins,
         NEW t, Good(t), ReadUpTo(t, ins, n), NEW x, x = ins[n + 1]
  PROVE  Decodable(t, x) <=> Fits(ins, n + 1)
<1>1. /\ DOMAIN t.idMap = {ins[j].id : j \in 1 .. n}
      /\ \A y \in DOMAIN t.idMap : \E op \in Kinds : <<y, op>> \in Ops(t)
      /\ \A p \in Ops(t) : p[2] # "forward" => \E j \in 1 .. n : p = <<ins[j].id, ins[j].op>>
      /\ \A j \in 1 .. n : ~IsAnnotation(ins[j]) => <<ins[j].id, ins[j].op>> \in Ops(t)
  BY DEF ReadUpTo
<1>2. 1 .. n = 1 .. ((n + 1) - 1) /\ 1 .. n \subseteq DOMAIN ins
  <2>1. Len(ins) \in Nat /\ DOMAIN ins = 1 .. Len(ins)
    BY SeqDomain
  <2> QED BY <2>1
<1>3. PICK id : id = x.id
  OBVIOUS
<1>4. Addable(t, id) <=> (id \in DOMAIN t.idMap => t.objs[t.idMap[id]].op = "forward")
  BY MappedFacts DEF Addable, IsForward
<1>5. Addable(t, id) <=> \A i \in 1 .. n : ins[i].id = id => IsAnnotation(ins[i])
  <2>1. ASSUME Addable(t, id), NEW i \in 1 .. n, ins[i].id = id, ~IsAnnotation(ins[i]) PROVE FALSE
    <3>1. id \in DOMAIN t.idMap
      BY <1>1, <2>1
    <3>2. t.objs[t.idMap[id]].op = "forward"
      BY <1>4, <2>1, <3>1
    <3>3. PICK op : op = ins[i].op
      OBVIOUS
    <3>4. <<id, op>> \in Ops(t)
      BY <1>1, <2>1, <3>3
    <3>5. op = "forward"
      BY <3>2, <3>4, OpsMapped
    <3>6. op \in Definitions
      BY <1>2, <2>1, <3>3, MadeIds
    <3> QED BY <3>5, <3>6, DefinitionOps
  <2>2. ASSUME \A i \in 1 .. n : ins[i].id = id => IsAnnotation(ins[i]), id \in DOMAIN t.idMap
        PROVE  t.objs[t.idMap[id]].op = "forward"
    <3>1. PICK op \in Kinds : <<id, op>> \in Ops(t)
      BY <1>1, <2>2
    <3>2. op = "forward"
      <4> SUFFICES ASSUME op # "forward" PROVE FALSE
        OBVIOUS
      <4>1. PICK p : p = <<id, op>>
        OBVIOUS
      <4>2. p[2] # "forward" /\ p \in Ops(t)
        BY <3>1, <4>1
      <4>3. PICK j \in 1 .. n : p = <<ins[j].id, ins[j].op>>
        BY <1>1, <4>2
      <4>4. ins[j].id = id /\ ins[j].op = op
        BY <4>1, <4>3
      <4>5. ins[j].op \in Definitions
        BY <3>1, <4>4 DEF Kinds
      <4> QED BY <2>2, <4>4, <4>5, DefinitionOps
    <3> QED BY <3>1, <3>2, OpsMapped
  <2>3. ASSUME Addable(t, id) PROVE \A i \in 1 .. n : ins[i].id = id => IsAnnotation(ins[i])
    BY <2>1, <2>3
  <2>4. ASSUME \A i \in 1 .. n : ins[i].id = id => IsAnnotation(ins[i]) PROVE Addable(t, id)
    BY <1>4, <2>2, <2>4
  <2> QED BY <2>3, <2>4
<1>6. x.op = "line" => (x.string \in DOMAIN t.idMap <=> \E i \in 1 .. n : ins[i].id = x.string)
  BY <1>1
<1> QED BY <1>2, <1>3, <1>5, <1>6 DEF Decodable, Fits

-----------------------------------------------------------------------------
\* What decode() does: u is t with the instruction x.
Onward(t, u, x) ==
  /\ DOMAIN u.idMap = DOMAIN t.idMap \cup {x.id}
  /\ IF IsAnnotation(x)
     THEN \A y, op : <<y, op>> \in Ops(u) <=>
            <<y, op>> \in Ops(t) \/ (y = x.id /\ op = "forward" /\ y \notin DOMAIN t.idMap)
     ELSE \A y, op : <<y, op>> \in Ops(u) <=>
            (y # x.id /\ <<y, op>> \in Ops(t)) \/ (y = x.id /\ op = x.op)
  /\ \A y \in Marks(u) : y \in Marks(t) \/ (y = x.id /\ (IsAnnotation(x) \/ y \in DOMAIN t.idMap))
  /\ \A y \in Texts(u) : y \in Texts(t) \/ (x.op = "line" /\ y = x.string)

LEMMA OnwardReads ==
  ASSUME NEW ins, IsSeq(ins), IdsMade(ins), NEW n \in Nat, n + 1 \in DOMAIN ins, Fits(ins, n + 1),
         NEW t, ReadUpTo(t, ins, n), NEW x, x = ins[n + 1], NEW u, Onward(t, u, x)
  PROVE  ReadUpTo(u, ins, n + 1)
<1>1. /\ DOMAIN t.idMap = {ins[j].id : j \in 1 .. n}
      /\ \A y \in DOMAIN t.idMap : \E op \in Kinds : <<y, op>> \in Ops(t)
      /\ \A p \in Ops(t) : p[2] # "forward" => \E j \in 1 .. n : p = <<ins[j].id, ins[j].op>>
      /\ \A j \in 1 .. n : ~IsAnnotation(ins[j]) => <<ins[j].id, ins[j].op>> \in Ops(t)
  BY DEF ReadUpTo
<1>2. /\ \A y \in Marks(t) : \E j \in 1 .. n : IsAnnotation(ins[j]) /\ ins[j].id = y
      /\ \A y \in Texts(t) : \E j \in 1 .. n : ins[j].op = "line" /\ ins[j].string = y
      /\ InLayout(SubSeq(ins, 1, n))
  BY DEF ReadUpTo
<1>3. /\ 1 .. n = 1 .. ((n + 1) - 1) /\ n \in 0 .. Len(ins) /\ n + 1 \in 0 .. Len(ins)
      /\ \A j : j \in 1 .. (n + 1) <=> j \in 1 .. n \/ j = n + 1
  <2>1. Len(ins) \in Nat /\ DOMAIN ins = 1 .. Len(ins)
    BY SeqDomain
  <2> QED BY <2>1
<1>4. \A i \in 1 .. n : ins[i].id = x.id => IsAnnotation(ins[i])
  BY <1>3 DEF Fits
<1>5. IsAnnotation(x) \/ x.op \in Definitions
  BY MadeIds
<1>6. DOMAIN u.idMap = {ins[j].id : j \in 1 .. (n + 1)}
  <2>1. DOMAIN u.idMap = DOMAIN t.idMap \cup {x.id}
    BY DEF Onward
  <2> QED BY <1>1, <1>3, <2>1
<1>7. ASSUME NEW y \in DOMAIN u.idMap PROVE \E op \in Kinds : <<y, op>> \in Ops(u)
  <2>1. y \in DOMAIN t.idMap \/ y = x.id
    BY DEF Onward
  <2>2. CASE y = x.id /\ ~IsAnnotation(x)
    BY <1>5, <2>2 DEF Onward, Kinds
  <2>3. CASE y = x.id /\ IsAnnotation(x) /\ y \notin DOMAIN t.idMap
    BY <2>3 DEF Onward, Kinds
  <2>4. CASE y \in DOMAIN t.idMap /\ (IsAnnotation(x) \/ y # x.id)
    <3>1. PICK op \in Kinds : <<y, op>> \in Ops(t)
      BY <1>1, <2>4
    <3>2. <<y, op>> \in Ops(u)
      BY <2>4, <3>1 DEF Onward
    <3> QED BY <3>2
  <2> QED BY <2>1, <2>2, <2>3, <2>4
<1>8. ASSUME NEW p \in Ops(u), p[2] # "forward" PROVE \E j \in 1 .. (n + 1) : p = <<ins[j].id, ins[j].op>>
  <2>1. PICK y, op : p = <<y, op>> /\ op = p[2]
    BY OpsPairs
  <2>2. <<y, op>> \in Ops(t) \/ (y = x.id /\ op = x.op)
    BY <1>8, <2>1 DEF Onward
  <2>3. CASE <<y, op>> \in Ops(t)
    <3>1. PICK j \in 1 .. n : p = <<ins[j].id, ins[j].op>>
      BY <1>1, <1>8, <2>1, <2>3
    <3> QED BY <1>3, <3>1
  <2>4. CASE y = x.id /\ op = x.op
    BY <1>3, <2>1, <2>4
  <2> QED BY <2>2, <2>3, <2>4
<1>9. ASSUME NEW j \in 1 .. (n + 1), ~IsAnnotation(ins[j]) PROVE <<ins[j].id, ins[j].op>> \in Ops(u)
  <2>1. CASE j \in 1 .. n
    <3>1. PICK y, op : y = ins[j].id /\ op = ins[j].op
      OBVIOUS
    <3>2. <<y, op>> \in Ops(t)
      BY <1>1, <1>9, <2>1, <3>1
    <3>3. y # x.id
      BY <1>4, <1>9, <2>1, <3>1
    <3>4. <<y, op>> \in Ops(u)
      BY <3>2, <3>3 DEF Onward
    <3> QED BY <3>1, <3>4
  <2>2. CASE j = n + 1
    BY <1>9, <2>2 DEF Onward
  <2> QED BY <1>3, <2>1, <2>2
<1>10. ASSUME NEW y \in Marks(u) PROVE \E j \in 1 .. (n + 1) : IsAnnotation(ins[j]) /\ ins[j].id = y
  <2>1. CASE y \in Marks(t)
    <3>1. PICK j \in 1 .. n : IsAnnotation(ins[j]) /\ ins[j].id = y
      BY <1>2, <2>1
    <3> QED BY <1>3, <3>1
  <2>2. CASE y = x.id /\ IsAnnotation(x)
    BY <1>3, <2>2
  <2>3. CASE y = x.id /\ y \in DOMAIN t.idMap
    <3>1. PICK j \in 1 .. n : ins[j].id = y
      BY <1>1, <2>3
    <3>2. IsAnnotation(ins[j])
      BY <1>4, <2>3, <3>1
    <3> QED BY <1>3, <3>1, <3>2
  <2> QED BY <2>1, <2>2, <2>3 DEF Onward
<1>11. ASSUME NEW y \in Texts(u) PROVE \E j \in 1 .. (n + 1) : ins[j].op = "line" /\ ins[j].string = y
  <2>1. CASE y \in Texts(t)
    <3>1. PICK j \in 1 .. n : ins[j].op = "line" /\ ins[j].string = y
      BY <1>2, <2>1
    <3> QED BY <1>3, <3>1
  <2>2. CASE x.op = "line" /\ y = x.string
    BY <1>3, <2>2
  <2> QED BY <2>1, <2>2 DEF Onward
<1>12. InLayout(SubSeq(ins, 1, n + 1))
  <2>1. \A j \in 1 .. n : Fits(ins, j)
    BY <1>2, <1>3, LayoutFits
  <2>2. \A j \in 1 .. (n + 1) : Fits(ins, j)
    BY <1>3, <2>1
  <2> QED BY <1>3, <2>2, LayoutFits
<1> QED BY <1>6, <1>7, <1>8, <1>9, <1>10, <1>11, <1>12 DEF ReadUpTo

-----------------------------------------------------------------------------
(***************************************************************************)
(* decode() of a definition.                                               *)
(***************************************************************************)
\* A group that has been read has an entry, which no forward stands for.
GroupsSolid(t) == \A k \in DOMAIN t.groups : t.groups[k] \in Solid(t)

LEMMA AddableGroups ==
  ASSUME NEW t, Good(t), GroupsSolid(t), NEW o, Addable(t, o.id)
  PROVE  GroupsLeft(t, o)
<1> SUFFICES ASSUME NEW k \in DOMAIN t.groups, t.groups[k] = o.id PROVE FALSE
  BY DEF GroupsLeft
<1>1. o.id \in DOMAIN t.idMap /\ t.objs[t.idMap[o.id]].op # "forward"
  BY DEF GroupsSolid, Solid
<1> QED BY <1>1, MappedFacts DEF Addable, IsForward

\* Everything about the tables that are read.
OwnIds(t)  == \A y \in DOMAIN t.idMap : \E op : <<y, op>> \in Ops(t)
Reading(t) == Good(t) /\ Tidied(t) /\ Settled(t, {}) /\ GroupsSolid(t) /\ OwnIds(t)

\* A new entry that was read: o with the kind and the id of x.
IsRead(o, x) ==
  /\ Blank(o) /\ o.op = x.op /\ o.id = x.id /\ o.items = << >> /\ o.op \in Definitions
  /\ \A X : Inside(o, X)

LEMMA AddOnward ==
  ASSUME NEW t, Reading(t), NEW x, NEW o, IsRead(o, x), Addable(t, x.id),
         NEW Y, Y = IF x.op \in Items THEN {x.id} ELSE {}, NEW u, u = Add(t, o)
  PROVE  /\ Onward(t, u, x) /\ Settled(u, Y) /\ Good(u) /\ Tidied(u)
         /\ x.op # "function" => u.functions = t.functions
<1>1. /\ Blank(o) /\ o.op = x.op /\ o.id = x.id /\ o.items = << >> /\ o.op \in Definitions
      /\ \A X : Inside(o, X)
  BY DEF IsRead
<1>2. Good(t) /\ Addable(t, o.id) /\ GroupsLeft(t, o) /\ o.op \in Kinds /\ Settled(t, {}) /\ Takes(o, {}, Y)
  BY <1>1, AddableGroups DEF Reading, Kinds, Takes
<1>3. /\ Settled(u, Y) /\ Joins(t, u, o, Newest(u)) /\ Awaited(t, o) /\ LaidOut(t, u, o, Newest(u))
      /\ Remarks(t, u, o)
  BY <1>1, <1>2, AddSettled
<1>4. Good(u) /\ DOMAIN u.idMap = DOMAIN t.idMap \cup {o.id}
  BY <1>1, <1>2, AddGood
<1>5. Tidied(u)
  <2>1. Adding(t, o, u)
    BY <1>1, <1>2, AddTidies DEF Reading
  <2> QED BY <2>1 DEF Adding
<1>6. ~IsAnnotation(x)
  BY <1>1, DefinitionOps
<1>7. \A y, op : <<y, op>> \in Ops(u) <=> (y # x.id /\ <<y, op>> \in Ops(t)) \/ (y = x.id /\ op = x.op)
  <2>1. PICK e : Joins(t, u, o, e)
    BY <1>3
  <2>2. \A y, op : <<y, op>> \in Ops(u) <=> (y # o.id /\ <<y, op>> \in Ops(t)) \/ (y = o.id /\ op = o.op)
    BY <2>1, JoinsOps
  <2> QED BY <1>1, <2>2
<1>8. \A y \in Marks(u) : y \in Marks(t) \/ (y = x.id /\ y \in DOMAIN t.idMap)
  <2> SUFFICES ASSUME NEW y \in Marks(u), y \notin Marks(t) PROVE y = x.id /\ y \in DOMAIN t.idMap
    OBVIOUS
  <2>1. y = o.id /\ <<y, "forward">> \in Ops(t)
    BY <1>3 DEF Remarks
  <2> QED BY <1>1, <2>1, OpsMapped
<1>9. Texts(u) \subseteq Texts(t)
  BY <1>3 DEF Remarks
<1>10. Onward(t, u, x)
  BY <1>1, <1>4, <1>6, <1>7, <1>8, <1>9 DEF Onward
<1> QED BY <1>1, <1>3, <1>4, <1>5, <1>10 DEF LaidOut

LEMMA DefinitionOnward ==
  ASSUME NEW t, Reading(t), NEW x, x.op \in Definitions \ Items, Addable(t, x.id), NEW u, u = Decode(t, x)
  PROVE  Onward(t, u, x) /\ Settled(u, {})
<1>1. PICK o : o = [Entry(x.op, x.id) EXCEPT !.str = x.str]
  OBVIOUS
<1>2. u = Add(t, o)
  BY <1>1 DEF Decode, Definitions, Items
<1>3. IsText(o, x.op, x.id, x.str)
  BY <1>1 DEF IsText
<1>4. Blank(o) /\ o.op = x.op /\ o.id = x.id /\ \A X : Inside(o, X)
  BY <1>3, TextInside
<1>5. o.items = << >>
  BY <1>1 DEF Entry
<1>6. IsRead(o, x)
  BY <1>4, <1>5 DEF IsRead
<1>7. PICK Y : Y = IF x.op \in Items THEN {x.id} ELSE {}
  OBVIOUS
<1>8. Onward(t, u, x) /\ Settled(u, Y)
  BY <1>2, <1>6, <1>7, AddOnward
<1> QED BY <1>7, <1>8

\* A parameter or instruction goes into the function that was read last.
LEMMA ItemOnward ==
  ASSUME NEW t, Reading(t), NEW x, x.op \in Items, Addable(t, x.id), NEW f, <<f, "function">> \in Ops(t),
         NEW u, u = Decode(t, x)
  PROVE  Onward(t, u, x) /\ Settled(u, {})
<1>1. PICK o, s : o = Entry(x.op, x.id) /\ s = Add(t, o)
  OBVIOUS
<1>2. PICK e : e = Last(s.functions)
  OBVIOUS
<1>3. WithItem(s, e, x.id, u)
  BY <1>1, <1>2 DEF Decode, Items, DecodeItem, WithItem
<1>4. IsRead(o, x)
  <2>1. Blank(o) /\ o.op = x.op /\ o.id = x.id /\ \A X : Inside(o, X)
    BY <1>1, EntryInside
  <2>2. o.items = << >>
    BY <1>1 DEF Entry
  <2> QED BY <2>1, <2>2 DEF IsRead, Definitions
<1>5. PICK Y : Y = {x.id}
  OBVIOUS
<1>6. /\ Onward(t, s, x) /\ Settled(s, Y) /\ Good(s) /\ Tidied(s)
      /\ x.op # "function" => s.functions = t.functions
  <2>1. Y = IF x.op \in Items THEN {x.id} ELSE {}
    BY <1>5
  <2> QED BY <1>1, <1>4, <2>1, AddOnward
<1>7. InFunctions(s, e)
  <2>1. PICK k \in Kept(t) : t.objs[k].op = "function"
    BY OpsOf
  <2>2. Vector(t, t.functions, "function") /\ IsSeq(t.functions)
    BY DEF Reading, Settled, Placed, Vectors
  <2>3. PICK j \in DOMAIN t.functions : t.functions[j] = k
    BY <2>1, <2>2 DEF Vector
  <2>4. PICK N \in Nat : N = Len(t.functions) /\ DOMAIN t.functions = 1 .. N
    BY <2>2, SeqDomain
  <2>5. N \in DOMAIN t.functions
    BY <2>3, <2>4
  <2>6. s.functions = t.functions
    BY <1>6 DEF Items
  <2>7. e = s.functions[N] /\ N \in DOMAIN s.functions
    BY <1>2, <2>4, <2>5, <2>6 DEF Last
  <2> QED BY <2>7 DEF InFunctions
<1>8. IsSeq(s.objs[e].items)
  <2>1. PICK j \in DOMAIN s.functions : e = s.functions[j]
    BY <1>7 DEF InFunctions
  <2>2. e \in DOMAIN s.objs
    BY <1>6, <2>1, VectorIn DEF Settled, Placed
  <2> QED BY <1>6, <2>2 DEF Tidied, Inside, Listed
<1>9. PICK id : id = x.id
  OBVIOUS
<1>10. /\ Settled(u, {}) /\ Ops(u) = Ops(s) /\ Marks(u) = Marks(s) /\ Texts(u) = Texts(s) /\ u.idMap = s.idMap
       /\ SameVectors(s, u)
  <2>1. Shaped(s) /\ Y = {id} /\ WithItem(s, e, id, u)
    BY <1>3, <1>5, <1>6, <1>9, GoodShaped
  <2> QED BY <1>6, <1>7, <1>8, <2>1, ItemSettled
<1>11. Onward(t, u, x)
  BY <1>6, <1>10 DEF Onward
<1> QED BY <1>10, <1>11

-----------------------------------------------------------------------------
(***************************************************************************)
(* decode() of an annotation.                                              *)
(***************************************************************************)
\* u is t with an entry for the id, a forward if there was none.
Targets(t, u, id) ==
  /\ Good(u) /\ Settled(u, {})
  /\ DOMAIN u.idMap = DOMAIN t.idMap \cup {id}
  /\ \A y, op : <<y, op>> \in Ops(u) <=>
       <<y, op>> \in Ops(t) \/ (y = id /\ op = "forward" /\ y \notin DOMAIN t.idMap)
  /\ Marks(u) \subseteq Marks(t) /\ Texts(u) \subseteq Texts(t)
  /\ u.idMap[id] \in DOMAIN u.objs /\ u.objs[u.idMap[id]].id = id

LEMMA TargetedTargets ==
  ASSUME NEW t, Reading(t), NEW id, NEW u, u = Targeted(t, id)
  PROVE  Targets(t, u, id)
<1>1. Good(u) /\ id \in DOMAIN u.idMap /\ Entered(u, u.idMap[id])
  BY TargetedGood DEF Reading
<1>2. u.idMap[id] \in DOMAIN u.objs
  BY <1>1 DEF Entered
<1>3. CASE id \in DOMAIN t.idMap
  <2>1. u = t
    BY <1>3 DEF Targeted
  <2>2. PICK op : <<id, op>> \in Ops(t)
    BY <1>3 DEF Reading, OwnIds
  <2>3. t.objs[t.idMap[id]].id = id
    BY <2>2, OpsMapped
  <2> QED BY <1>1, <1>2, <1>3, <2>1, <2>3 DEF Targets, Reading
<1>4. CASE id \notin DOMAIN t.idMap
  <2>1. PICK o : o = Entry("forward", id)
    OBVIOUS
  <2>2. Blank(o) /\ o.op = "forward" /\ o.id = id
    BY <2>1, EntryInside
  <2>3. o.items = << >>
    BY <2>1 DEF Entry
  <2>4. u = Add(t, o)
    BY <1>4, <2>1 DEF Targeted
  <2>5. Good(t) /\ Addable(t, o.id)
    BY <1>4, <2>2, MappedFacts DEF Reading, Addable
  <2>6. PICK Y : Y = {}
    OBVIOUS
  <2>7. GroupsLeft(t, o) /\ o.op \in Kinds /\ Settled(t, {}) /\ Takes(o, {}, Y)
    <3>1. GroupsLeft(t, o)
      BY <2>5, AddableGroups DEF Reading
    <3>2. "forward" \in Kinds /\ "forward" \notin Items
      BY DEF Kinds, Items
    <3> QED BY <2>2, <2>3, <2>6, <3>1, <3>2 DEF Reading, Takes
  <2>8. /\ Settled(u, Y) /\ Joins(t, u, o, Newest(u)) /\ Awaited(t, o) /\ LaidOut(t, u, o, Newest(u))
        /\ Remarks(t, u, o)
    BY <2>2, <2>4, <2>5, <2>7, AddSettled
  <2>9. DOMAIN u.idMap = DOMAIN t.idMap \cup {o.id}
    BY <2>2, <2>4, <2>5, AddGood
  <2>10. \A y, op : <<y, op>> \in Ops(u) <=>
           <<y, op>> \in Ops(t) \/ (y = id /\ op = "forward" /\ y \notin DOMAIN t.idMap)
    <3>1. PICK e : Joins(t, u, o, e)
      BY <2>8
    <3>2. \A y, op : <<y, op>> \in Ops(u) <=> (y # o.id /\ <<y, op>> \in Ops(t)) \/ (y = o.id /\ op = o.op)
      BY <3>1, JoinsOps
    <3>3. \A op : <<id, op>> \notin Ops(t)
      BY <1>4, OpsMapped
    <3> QED BY <1>4, <2>2, <3>2, <3>3
  <2>11. Marks(u) \subseteq Marks(t) /\ Texts(u) \subseteq Texts(t)
    <3>1. \A x : <<x, "forward">> \in Ops(t) => x # id
      BY <1>4, OpsMapped
    <3> QED BY <2>2, <2>8, <3>1 DEF Remarks
  <2>12. u.objs[u.idMap[id]].id = id
    <3>1. <<id, "forward">> \in Ops(u)
      BY <1>4, <2>10
    <3> QED BY <3>1, OpsMapped
  <2> QED BY <1>1, <1>2, <2>2, <2>6, <2>8, <2>9, <2>10, <2>11, <2>12 DEF Targets
<1> QED BY <1>3, <1>4

\* x says nothing but a name, an entry point, a mode or a line of its id.
Says(s, u, x) ==
  /\ Marks(u) \subseteq Marks(s) \cup {x.id}
  /\ \A y \in Texts(u) : y \in Texts(s) \/ (x.op = "line" /\ y = x.string)

LEMMA SaysOnward ==
  ASSUME NEW t, NEW x, IsAnnotation(x), NEW s, Targets(t, s, x.id), NEW u, Steady(s, u), Says(s, u, x)
  PROVE  Onward(t, u, x) /\ Settled(u, {})
<1>1. Settled(u, {})
  BY SteadySettled DEF Targets
<1>2. Ops(u) = Ops(s)
  BY SteadyOps
<1>3. u.idMap = s.idMap
  BY DEF Steady
<1>4. DOMAIN u.idMap = DOMAIN t.idMap \cup {x.id}
  BY <1>3 DEF Targets
<1>5. \A y, op : <<y, op>> \in Ops(u) <=>
        <<y, op>> \in Ops(t) \/ (y = x.id /\ op = "forward" /\ y \notin DOMAIN t.idMap)
  BY <1>2 DEF Targets
<1>6. \A y \in Marks(u) : y \in Marks(t) \/ (y = x.id /\ (IsAnnotation(x) \/ y \in DOMAIN t.idMap))
  BY DEF Says, Targets
<1>7. \A y \in Texts(u) : y \in Texts(t) \/ (x.op = "line" /\ y = x.string)
  BY DEF Says, Targets
<1>8. Onward(t, u, x)
  BY <1>4, <1>5, <1>6, <1>7 DEF Onward
<1> QED BY <1>1, <1>8

LEMMA NamedSays ==
  ASSUME NEW t, Reading(t), NEW x, NEW s, s = Targeted(t, x.id), NEW u, u = Named(t, x.id, x.name)
  PROVE  Targets(t, s, x.id) /\ Steady(s, u) /\ Says(s, u, x) /\ Shaped(u)
<1>1. PICK id, e : id = x.id /\ e = s.idMap[id]
  OBVIOUS
<1>2. Targets(t, s, id)
  BY <1>1, TargetedTargets
<1>3. Shaped(s) /\ e \in DOMAIN s.objs /\ s.objs[e].id = id
  BY <1>1, <1>2, GoodShaped DEF Targets
<1>4. u = SetName(s, e, x.name)
  BY <1>1 DEF Named
<1>5. Changes(s, u, s.objs[e].id)
  BY <1>3, <1>4, SetNameChanges
<1> QED BY <1>1, <1>2, <1>3, <1>5 DEF Changes, Notes, Says

LEMMA NameOnward ==
  ASSUME NEW t, Reading(t), NEW x, x.op = "name", NEW u, u = Decode(t, x)
  PROVE  Onward(t, u, x) /\ Settled(u, {})
<1>1. u = Named(t, x.id, x.name)
  BY DEF Decode
<1>2. PICK s : s = Targeted(t, x.id)
  OBVIOUS
<1>3. IsAnnotation(x)
  BY DEF IsAnnotation
<1>4. Targets(t, s, x.id) /\ Steady(s, u) /\ Says(s, u, x)
  BY <1>1, <1>2, NamedSays
<1> QED BY <1>3, <1>4, SaysOnward

LEMMA EntryPointOnward ==
  ASSUME NEW t, Reading(t), NEW x, x.op = "entry point", NEW u, u = Decode(t, x)
  PROVE  Onward(t, u, x) /\ Settled(u, {})
<1>1. PICK s, v, id : s = Targeted(t, x.id) /\ v = Named(t, x.id, x.name) /\ id = x.id
  OBVIOUS
<1>2. u = AddEntryPoint(v, id)
  BY <1>1 DEF Decode
<1>3. IsAnnotation(x)
  BY DEF IsAnnotation
<1>4. Targets(t, s, x.id) /\ Steady(s, v) /\ Says(s, v, x) /\ Shaped(v)
  BY <1>1, NamedSays
<1>5. /\ u.objs = v.objs /\ u.idMap = v.idMap /\ SameVectors(v, u) /\ u.named = v.named
      /\ u.lines = v.lines /\ u.entryPointSet = v.entryPointSet \cup {id} /\ u.strMap = v.strMap
  BY <1>2, <1>4 DEF AddEntryPoint, Shaped, TableFields, SameVectors
<1>6. Steady(v, u)
  BY <1>5 DEF Steady, SameOp
<1>7. Marks(u) \subseteq Marks(v) \cup {id} /\ Texts(u) = Texts(v)
  BY <1>5 DEF Marks, Texts
<1>8. Steady(s, u)
  BY <1>4, <1>6, SteadyTrans
<1>9. Says(s, u, x)
  BY <1>1, <1>4, <1>7 DEF Says
<1> QED BY <1>3, <1>4, <1>8, <1>9, SaysOnward

LEMMA ModeOnward ==
  ASSUME NEW t, Reading(t), NEW x, x.op = "mode", NEW u, u = Decode(t, x)
  PROVE  Onward(t, u, x) /\ Settled(u, {})
<1>1. PICK s, id : s = Targeted(t, x.id) /\ id = x.id
  OBVIOUS
<1>2. PICK e : e = s.idMap[id]
  OBVIOUS
<1>3. PICK modes : modes = Put(s.objs[e].modes, x.kind, LiteralsRead(x))
  OBVIOUS
<1>4. u = AddExecutionMode(s, e, x.kind, LiteralsRead(x))
  BY <1>1, <1>2 DEF Decode
<1>5. u = [s EXCEPT !.objs[e].modes = modes]
  BY <1>3, <1>4 DEF AddExecutionMode
<1>6. Targets(t, s, id)
  BY <1>1, TargetedTargets
<1>7. Shaped(s) /\ e \in DOMAIN s.objs
  BY <1>2, <1>6, GoodShaped DEF Targets
<1>8. Changes(s, u, id)
  BY <1>5, <1>7, SetModesChanges
<1>9. Steady(s, u) /\ Says(s, u, x)
  BY <1>1, <1>8 DEF Changes, Notes, Says
<1>10. IsAnnotation(x)
  BY DEF IsAnnotation
<1> QED BY <1>1, <1>6, <1>9, <1>10, SaysOnward

LEMMA AppendLineSteady ==
  ASSUME NEW t, DOMAIN t = TableFields, IsSeq(t.lines), NEW l, NEW u, u = [t EXCEPT !.lines = Append(@, l)]
  PROVE  Steady(t, u) /\ NotesLine(t, u, l.target, l.string)
<1>1. PICK lines : lines = Append(t.lines, l)
  OBVIOUS
<1>2. /\ u.objs = t.objs /\ u.lines = lines /\ u.named = t.named
      /\ u.entryPointSet = t.entryPointSet /\ u.strMap = t.strMap /\ u.idMap = t.idMap /\ SameVectors(t, u)
  BY <1>1 DEF TableFields, SameVectors
<1>3. Steady(t, u)
  BY <1>2 DEF Steady, SameOp
<1>4. Appended(t.lines, l, lines)
  BY <1>1, AppendFacts
<1>5. ASSUME NEW k \in DOMAIN lines
      PROVE  /\ lines[k].target = l.target \/ (k \in DOMAIN t.lines /\ lines[k].target = t.lines[k].target)
             /\ lines[k].string = l.string \/ (k \in DOMAIN t.lines /\ lines[k].string = t.lines[k].string)
  BY <1>4 DEF Appended
<1>6. Marks(u) \subseteq Marks(t) \cup {l.target}
  BY <1>2, <1>5 DEF Marks
<1>7. Texts(u) \subseteq Texts(t) \cup {l.string}
  BY <1>2, <1>5 DEF Texts
<1> QED BY <1>3, <1>6, <1>7 DEF NotesLine

LEMMA LineOnward ==
  ASSUME NEW t, Reading(t), NEW x, x.op = "line", x.string \in DOMAIN t.idMap, NEW u, u = Decode(t, x)
  PROVE  Onward(t, u, x) /\ Settled(u, {})
<1>1. PICK s, id : s = Targeted(t, x.id) /\ id = x.id
  OBVIOUS
<1>2. PICK e : e = s.idMap[id]
  OBVIOUS
<1>3. PICK string, no : string = x.string /\ no = x.no
  OBVIOUS
<1>4. PICK line : line = AddLine(s, e, string, no)
  OBVIOUS
<1>5. PICK l : l = [target |-> id, string |-> string, no |-> no]
  OBVIOUS
<1>6. u = [line EXCEPT !.lines = Append(@, l)]
  BY <1>1, <1>2, <1>3, <1>4, <1>5 DEF Decode, DecodeLine
<1>7. l.target = id /\ l.string = string
  BY <1>5
<1>8. Targets(t, s, id)
  BY <1>1, TargetedTargets
<1>9. Good(s) /\ Shaped(s) /\ e \in DOMAIN s.objs /\ s.objs[e].id = id
  BY <1>2, <1>8, GoodShaped DEF Targets
<1>10. Steady(s, line) /\ NotesLine(s, line, s.objs[e].id, string)
  BY <1>4, <1>9, AddLineSteady
<1>11. Shaped(line)
  <2>1. Entered(s, e) /\ string \in DOMAIN s.idMap
    <3>1. id \in DOMAIN s.idMap /\ string \in DOMAIN s.idMap
      BY <1>3, <1>8 DEF Targets
    <3> QED BY <1>2, <1>9, <3>1 DEF Good, Sound, Linked
  <2>2. Good(line)
    BY <1>4, <1>9, <2>1, AddLineGood
  <2> QED BY <2>2, GoodShaped
<1>12. Steady(line, u) /\ NotesLine(line, u, l.target, l.string)
  <2>1. DOMAIN line = TableFields /\ IsSeq(line.lines)
    BY <1>11 DEF Shaped
  <2> QED BY <1>6, <2>1, AppendLineSteady
<1>13. Steady(s, u)
  BY <1>10, <1>12, SteadyTrans
<1>14. Says(s, u, x)
  BY <1>1, <1>3, <1>7, <1>9, <1>10, <1>12 DEF NotesLine, Says
<1>15. IsAnnotation(x)
  BY DEF IsAnnotation
<1> QED BY <1>1, <1>8, <1>13, <1>14, <1>15, SaysOnward

LEMMA DecodeOnward ==
  ASSUME NEW t, Reading(t), NEW x, Decodable(t, x), IsAnnotation(x) \/ x.op \in Definitions,
         x.op \in Items => \E f : <<f, "function">> \in Ops(t), NEW u, u = Decode(t, x)
  PROVE  Onward(t, u, x) /\ Settled(u, {})
<1>1. Addable(t, x.id) /\ (x.op = "line" => x.string \in DOMAIN t.idMap)
  BY DEF Decodable
<1>2. CASE x.op = "entry point"
  BY <1>2, EntryPointOnward
<1>3. CASE x.op = "name"
  BY <1>3, NameOnward
<1>4. CASE x.op = "mode"
  BY <1>4, ModeOnward
<1>5. CASE x.op = "line"
  BY <1>1, <1>5, LineOnward
<1>6. CASE x.op \in Items
  BY <1>1, <1>6, ItemOnward
<1>7. CASE x.op \in Definitions \ Items
  BY <1>1, <1>7, DefinitionOnward
<1> QED BY <1>2, <1>3, <1>4, <1>5, <1>6, <1>7 DEF IsAnnotation

-----------------------------------------------------------------------------
(***************************************************************************)
(* The steps of the decoder.                                               *)
(***************************************************************************)
\* A module of which nothing has been said.
LEMMA EmptyPlaced ==
  ASSUME NEW n, NEW t, t = [Empty EXCEPT !.nextId = n]
  PROVE  Placed(t, {}) /\ Noted(t) /\ \A ins : InLayout(SubSeq(ins, 1, 0)) => ReadUpTo(t, ins, 0)
<1>1. /\ t.objs = << >> /\ t.idMap = << >> /\ t.named = {} /\ t.strMap = << >> /\ t.lines = << >>
      /\ t.entryPointSet = {} /\ t.groups = << >> /\ t.strings = << >> /\ t.globals = << >>
      /\ t.functions = << >>
  BY DEF Empty
<1>2. PICK z : z = << >> /\ DOMAIN z = {}
  OBVIOUS
<1>3. Kept(t) = {} /\ Ops(t) = {}
  BY <1>1, <1>2 DEF Kept, Ops
<1>4. Marks(t) = {}
  BY <1>1, <1>2 DEF Marks
<1>5. Texts(t) = {}
  BY <1>1, <1>2 DEF Texts
<1>6. Vector(t, t.strings, "string") /\ Vector(t, t.globals, "global") /\ Vector(t, t.functions, "function")
  BY <1>1, <1>2, <1>3 DEF Vector
<1>7. ItemsPlaced(t, {})
  <2>1. \A x, f, k : ~ItemAt(t, x, f, k)
    BY <1>1, <1>2 DEF ItemAt
  <2>2. \A x : ~InFunction(t, x) /\ ~IsItem(t, x)
    BY <1>3, <2>1 DEF InFunction, IsItem
  <2> QED BY <2>1, <2>2, ItemsPlacedFacts
<1>8. Placed(t, {})
  BY <1>3, <1>6, <1>7 DEF Placed, GroupsPlaced
<1>9. Noted(t)
  BY <1>4, <1>5 DEF Noted
<1>10. ASSUME NEW ins, InLayout(SubSeq(ins, 1, 0)) PROVE ReadUpTo(t, ins, 0)
  BY <1>1, <1>2, <1>3, <1>4, <1>5, <1>10 DEF ReadUpTo
<1> QED BY <1>8, <1>9, <1>10

LEMMA StartReadingLayout ==
  ASSUME FInv, LInv, StartReading
  PROVE  LInv'
<1>1. /\ m' = [Empty EXCEPT !.nextId = file.bound] /\ left' = file.instructions
      /\ phase' = "reading" /\ phase = "written" /\ file' = file /\ source' = source
  BY DEF StartReading
<1>2. PICK ins, t : ins = file.instructions /\ t = m'
  OBVIOUS
<1>3. IsSeq(ins) /\ IdsMade(ins) /\ (source # Empty => InLayout(ins))
  BY <1>1, <1>2 DEF FInv, LInv, IdsIn
<1>4. PICK X : X = {ins[k] : k \in DOMAIN ins}
  OBVIOUS
<1>5. ins \in Seq(X) /\ Len(ins) \in Nat
  BY <1>3, <1>4 DEF IsSeq
<1>6. 0 \in 0 .. Len(ins) /\ ins = LeftOf(ins, 0)
  BY <1>5 DEF LeftOf
<1>7. InLayout(SubSeq(ins, 1, 0))
  <2>1. PICK n, s : n = 0 /\ s = SubSeq(ins, 1, n)
    OBVIOUS
  <2>2. n \in 0 .. Len(ins) /\ \A j \in 1 .. n : Fits(ins, j)
    BY <1>6, <2>1
  <2>3. InLayout(s)
    BY <1>3, <2>1, <2>2, LayoutFits
  <2> QED BY <2>1, <2>3
<1>8. Placed(t, {}) /\ ReadUpTo(t, ins, 0)
  BY <1>1, <1>2, <1>7, EmptyPlaced
<1>9. \E n \in 0 .. Len(ins) : left' = LeftOf(ins, n) /\ ReadUpTo(t, ins, n)
  BY <1>1, <1>2, <1>6, <1>8
<1> QED BY <1>1, <1>2, <1>3, <1>8, <1>9 DEF LInv

\* Where the decoder is.
At(ins, n) ==
  /\ IsSeq(ins) /\ IdsMade(ins) /\ n \in Nat /\ n \in 0 .. Len(ins)
  /\ left = LeftOf(ins, n) /\ ReadUpTo(m, ins, n)

LEMMA ReadingAt ==
  ASSUME FInv, LInv, phase = "reading", NEW ins, ins = file.instructions
  PROVE  \E n : At(ins, n)
<1>1. IsSeq(ins) /\ IdsMade(ins)
  BY DEF FInv, LInv, IdsIn
<1>2. PICK n \in 0 .. Len(ins) : left = LeftOf(ins, n) /\ ReadUpTo(m, ins, n)
  BY DEF LInv
<1>3. n \in Nat
  <2>1. Len(ins) \in Nat
    BY <1>1, SeqDomain
  <2> QED BY <2>1
<1> QED BY <1>1, <1>2, <1>3 DEF At

LEMMA ReadInstructionLayout ==
  ASSUME IInv, FInv, LInv, ReadInstruction
  PROVE  LInv'
<1>1. PICK x, t, u : x = Head(left) /\ t = m /\ u = m'
  OBVIOUS
<1>2. /\ u = Decode(t, x) /\ Decodable(t, x) /\ left' = Tail(left) /\ left # << >>
      /\ phase = "reading" /\ phase' = phase /\ file' = file /\ source' = source
  BY <1>1 DEF ReadInstruction
<1>3. PICK ins : ins = file.instructions
  OBVIOUS
<1>4. PICK n : At(ins, n)
  BY <1>2, <1>3, ReadingAt
<1>5. /\ IsSeq(ins) /\ IdsMade(ins) /\ n \in Nat /\ n \in 0 .. Len(ins)
      /\ left = LeftOf(ins, n) /\ ReadUpTo(t, ins, n)
  BY <1>1, <1>4 DEF At
<1>6. n + 1 \in DOMAIN ins /\ n + 1 \in 0 .. Len(ins) /\ x = ins[n + 1] /\ left' = LeftOf(ins, n + 1)
  BY <1>1, <1>2, <1>5, LeftFacts
<1>7. Reading(t)
  <2>1. Good(t) /\ Numbered(t) /\ Settled(t, {})
    BY <1>1, PlacedSettled
  <2>2. GroupsSolid(t)
    BY <1>1, <1>2 DEF FInv, GroupsSolid, Range
  <2>3. OwnIds(t)
    BY <1>5 DEF ReadUpTo, OwnIds
  <2> QED BY <2>1, <2>2, <2>3 DEF Reading, Numbered
<1>8. Fits(ins, n + 1)
  BY <1>2, <1>5, <1>6, <1>7, DecodableFits DEF Reading
<1>9. IsAnnotation(x) \/ x.op \in Definitions
  BY <1>5, <1>6, MadeIds
<1>10. ASSUME x.op \in Items PROVE \E f : <<f, "function">> \in Ops(t)
  <2>1. PICK i \in 1 .. ((n + 1) - 1) : ins[i].op = "function"
    BY <1>5, <1>6, <1>10, MadeIds
  <2>2. i \in 1 .. n
    BY <1>5, <2>1
  <2>3. ~IsAnnotation(ins[i])
    BY <2>1 DEF IsAnnotation
  <2>4. <<ins[i].id, ins[i].op>> \in Ops(t)
    BY <1>5, <2>2, <2>3 DEF ReadUpTo
  <2> QED BY <2>1, <2>4
<1>11. Onward(t, u, x) /\ Settled(u, {})
  BY <1>2, <1>7, <1>9, <1>10, DecodeOnward
<1>12. ReadUpTo(u, ins, n + 1)
  BY <1>5, <1>6, <1>8, <1>11, OnwardReads
<1>13. Placed(u, {})
  BY <1>11 DEF Settled
<1>14. \E k \in 0 .. Len(ins) : left' = LeftOf(ins, k) /\ ReadUpTo(u, ins, k)
  BY <1>6, <1>12
<1>15. IdsMade(ins) /\ (source # Empty => InLayout(ins))
  BY <1>2, <1>3 DEF LInv
<1> QED BY <1>1, <1>2, <1>3, <1>13, <1>14, <1>15 DEF LInv

\* The assertion fails where the file leaves the layout.
LEMMA AssertionFailsLayout ==
  ASSUME IInv, FInv, LInv, AssertionFails
  PROVE  LInv'
<1>1. PICK x, ins : x = Head(left) /\ ins = file.instructions
  OBVIOUS
<1>2. /\ ~Decodable(m, x) /\ left # << >> /\ m' = m /\ phase = "reading" /\ phase' = "failed"
      /\ file' = file /\ source' = source
  BY <1>1 DEF AssertionFails
<1>3. PICK n : At(ins, n)
  BY <1>1, <1>2, ReadingAt
<1>4. /\ IsSeq(ins) /\ IdsMade(ins) /\ n \in Nat /\ n \in 0 .. Len(ins)
      /\ left = LeftOf(ins, n) /\ ReadUpTo(m, ins, n)
  BY <1>3 DEF At
<1>5. n + 1 \in DOMAIN ins /\ x = ins[n + 1]
  BY <1>1, <1>2, <1>4, LeftFacts
<1>6. ~Fits(ins, n + 1)
  <2>1. Good(m)
    BY DEF IInv
  <2> QED BY <1>2, <1>4, <1>5, <2>1, DecodableFits
<1>7. ~InLayout(ins)
  BY <1>4, <1>5, <1>6, LayoutAll
<1>8. Placed(m, {}) /\ IdsMade(ins) /\ (source # Empty => InLayout(ins))
  BY <1>1, <1>2 DEF LInv
<1> QED BY <1>1, <1>2, <1>7, <1>8 DEF LInv

LEMMA FinishReadingLayout ==
  ASSUME IInv, FInv, LInv, FinishReading
  PROVE  LInv'
<1>1. PICK t, u, ins : t = m /\ u = m' /\ ins = file.instructions
  OBVIOUS
<1>2. /\ left = << >> /\ u \in Optimized(t) /\ phase = "reading" /\ phase' = "read"
      /\ file' = file /\ source' = source
  BY <1>1 DEF FinishReading
<1>3. PICK n : At(ins, n)
  BY <1>1, <1>2, ReadingAt
<1>4. /\ IsSeq(ins) /\ IdsMade(ins) /\ n \in Nat /\ n \in 0 .. Len(ins)
      /\ left = LeftOf(ins, n) /\ ReadUpTo(t, ins, n)
  BY <1>1, <1>3 DEF At
<1>5. n = Len(ins) /\ DOMAIN ins = 1 .. n
  <2>1. n = Len(ins)
    BY <1>2, <1>4, LeftFacts
  <2> QED BY <1>4, <2>1, SeqDomain
<1>6. /\ DOMAIN t.idMap = {ins[j].id : j \in DOMAIN ins}
      /\ \A j \in DOMAIN ins : ~IsAnnotation(ins[j]) => <<ins[j].id, ins[j].op>> \in Ops(t)
      /\ \A x \in Marks(t) : \E j \in DOMAIN ins : IsAnnotation(ins[j]) /\ ins[j].id = x
      /\ \A x \in Texts(t) : \E j \in DOMAIN ins : ins[j].op = "line" /\ ins[j].string = x
      /\ InLayout(SubSeq(ins, 1, n))
  BY <1>4, <1>5 DEF ReadUpTo
<1>7. InLayout(ins)
  <2>1. \A j \in DOMAIN ins : Fits(ins, j)
    BY <1>4, <1>5, <1>6, LayoutFits
  <2> QED BY <1>4, <2>1, LayoutAll
<1>8. NoForwards(t)
  <2> SUFFICES ASSUME NEW p \in Ops(t), p[2] = "forward" PROVE FALSE
    BY DEF NoForwards
  <2>1. PICK x, op : p = <<x, op>> /\ op = p[2]
    BY OpsPairs
  <2>2. x \in DOMAIN t.idMap
    BY <2>1, OpsMapped
  <2>3. PICK j \in DOMAIN ins : ins[j].id = x
    BY <1>6, <2>2
  <2>4. PICK i \in DOMAIN ins : ins[i].id = ins[j].id /\ ~IsAnnotation(ins[i])
    BY <1>4, MadeIds
  <2>5. PICK o : o = ins[i].op
    OBVIOUS
  <2>6. <<x, o>> \in Ops(t)
    BY <1>6, <2>3, <2>4, <2>5
  <2>7. o = op
    BY <2>1, <2>6, OpsUnique
  <2>8. o \in Definitions
    BY <1>4, <2>4, <2>5, MadeIds
  <2> QED BY <2>1, <2>7, <2>8, DefinitionOps
<1>9. Noted(t)
  <2>1. ASSUME NEW x \in Marks(t) PROVE Markable(t, x)
    <3>1. PICK j \in DOMAIN ins : IsAnnotation(ins[j]) /\ ins[j].id = x
      BY <1>6
    <3>2. PICK i \in DOMAIN ins : ins[i].id = ins[j].id /\ ~IsAnnotation(ins[i])
      BY <1>4, MadeIds
    <3>3. ins[i].op \in Definitions
      BY <1>4, <3>2, MadeIds
    <3>4. ins[i].op # "string"
      <4>1. ins[i].op = "string" => \A k \in DOMAIN ins : ins[k].id = ins[i].id => ~IsAnnotation(ins[k])
        BY <1>4, MadeIds
      <4> QED BY <3>1, <3>2, <4>1
    <3>5. PICK o : o = ins[i].op
      OBVIOUS
    <3>6. <<x, o>> \in Ops(t)
      BY <1>6, <3>1, <3>2, <3>5
    <3> QED BY <3>3, <3>4, <3>5, <3>6 DEF Markable, Kinds
  <2>2. ASSUME NEW x \in Texts(t) PROVE <<x, "string">> \in Ops(t)
    <3>1. PICK j \in DOMAIN ins : ins[j].op = "line" /\ ins[j].string = x
      BY <1>6
    <3>2. PICK i \in DOMAIN ins : ins[i].op = "string" /\ ins[i].id = ins[j].string
      BY <1>4, <3>1, MadeIds
    <3>3. ~IsAnnotation(ins[i])
      BY <3>2 DEF IsAnnotation
    <3>4. <<ins[i].id, ins[i].op>> \in Ops(t)
      BY <1>6, <3>3
    <3> QED BY <3>1, <3>2, <3>4
  <2> QED BY <2>1, <2>2 DEF Noted
<1>10. Scribed(u)
  <2>1. Good(t) /\ Numbered(t) /\ Settled(t, {})
    BY <1>1, PlacedSettled
  <2> QED BY <1>2, <1>8, <1>9, <2>1, OptimizedScribed
<1>11. Placed(u, {}) /\ Noted(u) /\ NoForwards(u)
  BY <1>10 DEF Scribed, Settled
<1>12. IdsMade(ins) /\ (source # Empty => InLayout(ins))
  BY <1>4, <1>7
<1> QED BY <1>1, <1>2, <1>7, <1>11, <1>12 DEF LInv

-----------------------------------------------------------------------------
(***************************************************************************)
(* The theorem.                                                            *)
(***************************************************************************)
LEMMA InitLInv ==
  ASSUME Init
  PROVE  LInv
<1>1. m = Empty /\ source = Empty /\ body = 0
  BY DEF Init
<1>2. Placed(m, {}) /\ Noted(m)
  <2>1. PICK t : t = [Empty EXCEPT !.nextId = 1]
    OBVIOUS
  <2>2. t = m
    BY <1>1, <2>1 DEF Empty
  <2> QED BY <2>1, <2>2, EmptyPlaced
<1>3. phase = "building" \/ (phase = "written" /\ IdsMade(file.instructions))
  BY IdsAssumption DEF Init
<1> QED BY <1>1, <1>2, <1>3 DEF LInv

LEMMA NextLInv ==
  ASSUME IInv, FInv, LInv, [Next]_vars
  PROVE  LInv'
<1>1. CASE AddGlobal
  BY <1>1, AddGlobalLayout
<1>2. CASE AddFunction
  BY <1>2, AddFunctionLayout
<1>3. CASE StartBody
  BY <1>3, StartBodyLayout
<1>4. CASE AddForward
  BY <1>4, AddForwardLayout
<1>5. CASE AddInstruction
  BY <1>5, AddInstructionLayout
<1>6. CASE AddForwarded
  BY <1>6, AddForwardedLayout
<1>7. CASE AddMode
  BY <1>7, AddModeLayout
<1>8. CASE Write
  BY <1>8, WriteLayout
<1>9. CASE StartReading
  BY <1>9, StartReadingLayout
<1>10. CASE ReadInstruction
  BY <1>10, ReadInstructionLayout
<1>11. CASE AssertionFails
  BY <1>11, AssertionFailsLayout
<1>12. CASE FinishReading
  BY <1>12, FinishReadingLayout
<1>13. CASE UNCHANGED vars
  BY <1>13 DEF vars, LInv
<1> QED BY <1>1, <1>2, <1>3, <1>4, <1>5, <1>6, <1>7, <1>8, <1>9, <1>10, <1>11, <1>12, <1>13
        DEF Next

LEMMA LInvLayoutSuffices ==
  ASSUME IInv, LInv
  PROVE  LayoutSuffices
<1>1. ASSUME phase = "failed" PROVE ~InLayout(file.instructions) /\ source = Empty
  BY <1>1 DEF LInv
<1>2. ASSUME phase = "read", NEW id \in DOMAIN m.idMap, m.objs[m.idMap[id]].op = "forward" PROVE FALSE
  <2>1. PICK e : e = m.idMap[id]
    OBVIOUS
  <2>2. Entered(m, e) /\ m.objs[e].id = id
    BY <1>2, <2>1 DEF IInv, Good, Sound, Linked, ForwardsOnce
  <2>3. e \in Kept(m)
    BY <2>2 DEF Kept, Entered
  <2>4. <<id, "forward">> \in Ops(m)
    BY <1>2, <2>1, <2>2, <2>3, OpsOf
  <2>5. PICK p \in Ops(m) : p[2] = "forward"
    BY <2>4
  <2> QED BY <1>2, <2>5 DEF LInv, NoForwards
<1>3. ASSUME phase = "read" PROVE InLayout(file.instructions)
  BY <1>3 DEF LInv
<1> QED BY <1>1, <1>2, <1>3 DEF LayoutSuffices

\* The layout of SPIR-V is what operator>> asks for and what operator<< delivers: the
\* assertions of addEntry() and getEntry() fail on the files that leave it and on no other,
\* none of them on a file that the library has written, and when a file has been read, no
\* forward is left.  The ids of the files of other tools are taken to be made
\* (IdsAssumption).
THEOREM LayoutSufficesHolds == Spec => []LayoutSuffices
<1>1. Init => IInv /\ FInv /\ LInv
  BY InitIInv, InitFInv, InitLInv
<1>2. IInv /\ FInv /\ LInv /\ [Next]_vars => IInv' /\ FInv' /\ LInv'
  BY NextIInv, NextFInv, NextLInv
<1>3. IInv /\ FInv /\ LInv => LayoutSuffices
  BY LInvLayoutSuffices
<1> QED BY <1>1, <1>2, <1>3, PTL DEF Spec
=============================================================================
