------------------------- MODULE DecorationsProofs -------------------------
(***************************************************************************)
(* The decorations of a module, grouped, written and read as often as one  *)
(* likes: the module implements DecorationStore, its entries have what it  *)
(* means, and no two targets share a decoration outside a group.           *)
(***************************************************************************)
EXTENDS Decorations, FiniteSetTheorems, SequenceTheorems, TLAPS

(***************************************************************************)
(* Induction over the natural numbers for a set of numbers, and what it    *)
(* gives for functions defined by recursion.  The sets stand where the     *)
(* theorems of the library have an operator as their parameter.            *)
(***************************************************************************)
\* A set of numbers has a least one: of the intervals 0 .. n up to its elements, one
\* contains no other.
LEMMA LeastNumber ==
  ASSUME NEW X \in SUBSET Nat, X # {}
  PROVE  \E n \in X : \A m \in X : n <= m
<1> DEFINE R == StrictSubsetOrdering(Nat)
           T == {0 .. n : n \in X}
<1>1. T \in SUBSET FiniteSubsetsOf(Nat)
  <2>1. \A n \in X : IsFiniteSet(0 .. n) /\ 0 .. n \in SUBSET Nat
    <3> TAKE n \in X
    <3>1. 0 \in Int /\ n \in Int
      OBVIOUS
    <3> QED BY <3>1, FS_Interval
  <2> QED BY <2>1 DEF FiniteSubsetsOf
<1>2. IsWellFoundedOn(R, FiniteSubsetsOf(Nat))
  BY FS_StrictSubsetOrderingWellFounded
<1>3. \E s \in T : \A t \in T : ~(<<t, s>> \in R)
  <2>1. T # {}
    OBVIOUS
  <2> HIDE DEF R, T
  <2> QED BY <1>1, <1>2, <2>1, WFMin
<1>4. PICK n \in X : \A m \in X : ~(<<0 .. m, 0 .. n>> \in R)
  BY <1>3
<1>5. ASSUME NEW m \in X, m < n PROVE FALSE
  <2>1. 0 .. m \subseteq 0 .. n /\ 0 .. m # 0 .. n /\ 0 .. n \in SUBSET Nat /\ 0 .. m \in SUBSET Nat
    BY <1>5
  <2>2. <<0 .. m, 0 .. n>> \in R
    BY <2>1 DEF StrictSubsetOrdering
  <2> QED BY <1>4, <2>2
<1> QED BY <1>5

\* Induction: the numbers for which something holds are all of them.
LEMMA SetInduction ==
  ASSUME NEW X \in SUBSET Nat, 0 \in X, \A n \in X : n + 1 \in X
  PROVE  X = Nat
<1> SUFFICES ASSUME Nat \ X # {} PROVE FALSE
  OBVIOUS
<1>1. Nat \ X \in SUBSET Nat
  OBVIOUS
<1>2. PICK n \in Nat \ X : \A m \in Nat \ X : n <= m
  BY <1>1, LeastNumber
<1>3. n - 1 \in Nat /\ n - 1 \notin Nat \ X
  BY <1>2
<1> QED BY <1>2, <1>3

(***************************************************************************)
(* The values x, step[x], step[step[x]] ... as a function of the number of *)
(* steps.                                                                  *)
(***************************************************************************)
IsRun(f, n, x, step) ==
  f[0] = x /\ \A i \in 0 .. n - 1 : f[i + 1] = step[f[i]]

LEMMA RunsExist ==
  ASSUME NEW S, NEW x \in S, NEW step \in [S -> S]
  PROVE  \A n \in Nat : \E f \in [Nat -> S] : IsRun(f, n, x, step)
<1> DEFINE X == {n \in Nat : \E f \in [Nat -> S] : IsRun(f, n, x, step)}
<1>1. 0 \in X
  <2>1. [i \in Nat |-> x] \in [Nat -> S] /\ IsRun([i \in Nat |-> x], 0, x, step)
    BY DEF IsRun
  <2> QED BY <2>1
<1>2. ASSUME NEW n \in X PROVE n + 1 \in X
  <2>1. PICK f \in [Nat -> S] : IsRun(f, n, x, step)
    OBVIOUS
  <2>2. PICK g : g = [i \in Nat |-> IF i = n + 1 THEN step[f[n]] ELSE f[i]]
    OBVIOUS
  <2>3. g \in [Nat -> S]
    BY <2>2
  <2>4. IsRun(g, n + 1, x, step)
    <3>1. g[0] = x
      BY <2>1, <2>2 DEF IsRun
    <3>2. ASSUME NEW i \in 0 .. n PROVE g[i + 1] = step[g[i]]
      <4>1. CASE i = n
        BY <2>2, <4>1
      <4>2. CASE i # n
        BY <2>1, <2>2, <4>2 DEF IsRun
      <4> QED BY <4>1, <4>2
    <3> QED BY <3>1, <3>2 DEF IsRun
  <2> QED BY <2>3, <2>4
<1>3. X = Nat
  <2> HIDE DEF X
  <2>1. X \in SUBSET Nat
    BY DEF X
  <2> QED BY <1>1, <1>2, <2>1, SetInduction
<1> QED BY <1>3

LEMMA RunsAgree ==
  ASSUME NEW S, NEW x \in S, NEW step \in [S -> S],
         NEW f, NEW g, NEW m \in Nat, NEW n \in Nat,
         IsRun(f, m, x, step), IsRun(g, n, x, step)
  PROVE  \A i \in Nat : i <= m /\ i <= n => f[i] = g[i]
<1> DEFINE X == {i \in Nat : i <= m /\ i <= n => f[i] = g[i]}
<1>1. 0 \in X
  BY DEF IsRun
<1>2. ASSUME NEW i \in X PROVE i + 1 \in X
  <2> SUFFICES ASSUME i + 1 <= m, i + 1 <= n PROVE f[i + 1] = g[i + 1]
    OBVIOUS
  <2>1. i \in 0 .. m - 1 /\ i \in 0 .. n - 1 /\ f[i] = g[i]
    OBVIOUS
  <2>2. f[i + 1] = step[f[i]] /\ g[i + 1] = step[g[i]]
    BY <2>1 DEF IsRun
  <2> QED BY <2>1, <2>2
<1>3. X = Nat
  <2> HIDE DEF X
  <2>1. X \in SUBSET Nat
    BY DEF X
  <2> QED BY <1>1, <1>2, <2>1, SetInduction
<1> QED BY <1>3

LEMMA Iteration ==
  ASSUME NEW S, NEW x \in S, NEW step \in [S -> S]
  PROVE  \E f \in [Nat -> S] : f[0] = x /\ \A n \in Nat : f[n + 1] = step[f[n]]
<1> DEFINE run(n) == CHOOSE f \in [Nat -> S] : IsRun(f, n, x, step)
<1>1. \A n \in Nat : run(n) \in [Nat -> S] /\ IsRun(run(n), n, x, step)
  BY RunsExist
<1> HIDE DEF run
<1>2. PICK f : f = [n \in Nat |-> run(n)[n]]
  OBVIOUS
<1>3. f \in [Nat -> S]
  BY <1>1, <1>2
<1>4. f[0] = x
  BY <1>1, <1>2 DEF IsRun
<1>5. ASSUME NEW n \in Nat PROVE f[n + 1] = step[f[n]]
  <2>1. IsRun(run(n), n, x, step) /\ IsRun(run(n + 1), n + 1, x, step) /\ n + 1 \in Nat
    BY <1>1
  <2>2. run(n)[n] = run(n + 1)[n]
    <3>1. n <= n /\ n <= n + 1
      OBVIOUS
    <3> QED BY <2>1, <3>1, RunsAgree
  <2>3. run(n + 1)[n + 1] = step[run(n + 1)[n]]
    BY <2>1 DEF IsRun
  <2> QED BY <1>2, <2>1, <2>2, <2>3
<1> QED BY <1>3, <1>4, <1>5

\* The same for steps that look at the number they start from.
IsIndexedStep(step, S) == \A n \in Nat : \A y \in S : step[<<n, y>>] \in S

LEMMA IndexedIteration ==
  ASSUME NEW S, NEW x \in S, NEW step, IsIndexedStep(step, S)
  PROVE  \E f \in [Nat -> S] : f[0] = x /\ \A n \in Nat : f[n + 1] = step[<<n, f[n]>>]
<1>1. PICK P : P = Nat \X S
  OBVIOUS
<1>2. PICK y \in P : y = <<0, x>>
  BY <1>1
<1>3. PICK next \in [P -> P] : \A p \in P : next[p] = <<p[1] + 1, step[p]>>
  <2>1. PICK next : next = [p \in P |-> <<p[1] + 1, step[p]>>]
    OBVIOUS
  <2>2. \A p \in P : <<p[1] + 1, step[p]>> \in P
    BY <1>1 DEF IsIndexedStep
  <2> QED BY <2>1, <2>2
<1>4. PICK g \in [Nat -> P] : g[0] = y /\ \A n \in Nat : g[n + 1] = next[g[n]]
  BY Iteration
<1>5. \A n \in Nat : g[n][1] = n
  <2> DEFINE X == {n \in Nat : g[n][1] = n}
  <2>1. 0 \in X
    BY <1>2, <1>4
  <2>2. ASSUME NEW n \in X PROVE n + 1 \in X
    <3>1. g[n] \in P /\ g[n + 1] = next[g[n]] /\ g[n][1] = n
      BY <1>4
    <3>2. g[n + 1][1] = n + 1
      BY <3>1, <1>3
    <3> QED BY <3>2
  <2>3. X \in SUBSET Nat
    OBVIOUS
  <2> HIDE DEF X
  <2>4. X = Nat
    BY <2>1, <2>2, <2>3, SetInduction
  <2> QED BY <2>4 DEF X
<1>6. PICK f : f = [n \in Nat |-> g[n][2]]
  OBVIOUS
<1>7. f \in [Nat -> S]
  BY <1>6, <1>4, <1>1
<1>8. f[0] = x
  BY <1>6, <1>4, <1>2
<1>9. ASSUME NEW n \in Nat PROVE f[n + 1] = step[<<n, f[n]>>]
  <2>1. g[n] \in P /\ g[n + 1] = next[g[n]] /\ g[n][1] = n /\ n + 1 \in Nat
    BY <1>4, <1>5
  <2>2. g[n] = <<n, f[n]>>
    BY <2>1, <1>1, <1>6
  <2>3. g[n + 1][2] = step[g[n]]
    BY <2>1, <1>3
  <2> QED BY <2>1, <2>2, <2>3, <1>6
<1> QED BY <1>7, <1>8, <1>9

\* The parts of a sequence of sequences, put together one after the other.
LEMMA FlattenRuns ==
  ASSUME NEW S, NEW ss \in Seq(Seq(S))
  PROVE  \E f \in [Nat -> Seq(S)] :
           /\ f[0] = << >>
           /\ \A n \in 0 .. Len(ss) - 1 : f[n + 1] = f[n] \o ss[n + 1]
           /\ FlattenSeq(ss) = f[Len(ss)]
<1>1. Len(ss) \in Nat /\ DOMAIN ss = 1 .. Len(ss) /\ \A i \in 1 .. Len(ss) : ss[i] \in Seq(S)
  BY LenProperties, ElementOfSeq
<1>2. PICK Q : Q = Seq(S)
  OBVIOUS
<1>3. PICK step : step = [p \in Nat \X Q |->
                            IF p[1] + 1 \in 1 .. Len(ss) THEN p[2] \o ss[p[1] + 1] ELSE p[2]]
  OBVIOUS
<1>4. \A n \in Nat : \A q \in Q :
        step[<<n, q>>] = IF n + 1 \in 1 .. Len(ss) THEN q \o ss[n + 1] ELSE q
  BY <1>3
<1>5. IsIndexedStep(step, Q)
  <2> SUFFICES ASSUME NEW n \in Nat, NEW q \in Q PROVE step[<<n, q>>] \in Q
    BY DEF IsIndexedStep
  <2>1. CASE n + 1 \in 1 .. Len(ss)
    <3>1. q \o ss[n + 1] \in Seq(S)
      BY <2>1, <1>1, <1>2, ConcatProperties
    <3> QED BY <3>1, <2>1, <1>4, <1>2
  <2>2. CASE n + 1 \notin 1 .. Len(ss)
    BY <2>2, <1>4
  <2> QED BY <2>1, <2>2
<1>6. << >> \in Q
  BY <1>2, EmptySeq
<1>7. PICK f \in [Nat -> Q] : f[0] = << >> /\ \A n \in Nat : f[n + 1] = step[<<n, f[n]>>]
  BY <1>5, <1>6, IndexedIteration
<1>8. ASSUME NEW n \in 0 .. Len(ss) - 1 PROVE f[n + 1] = f[n] \o ss[n + 1]
  <2>1. n \in Nat /\ n + 1 \in 1 .. Len(ss) /\ f[n] \in Q
    BY <1>1, <1>7
  <2> QED BY <2>1, <1>4, <1>7
<1>9. FlattenSeq(ss) = f[Len(ss)]
  <2>1. CASE Len(ss) = 0
    <3>1. ss = << >>
      BY <2>1, <1>1, EmptySeq
    <3> QED BY <3>1, <2>1, <1>6, <1>7 DEF FlattenSeq
  <2>2. CASE Len(ss) # 0
    <3> DEFINE Eq(g) == g = [i \in 1 .. Len(ss) |-> IF i = 1 THEN ss[i] ELSE g[i - 1] \o ss[i]]
               flatten == CHOOSE g : Eq(g)
    <3>1. PICK g : g = [i \in 1 .. Len(ss) |-> f[i]]
      OBVIOUS
    <3>2. ASSUME NEW i \in 1 .. Len(ss)
          PROVE  g[i] = IF i = 1 THEN ss[i] ELSE g[i - 1] \o ss[i]
      <4>1. i - 1 \in 0 .. Len(ss) - 1 /\ (i - 1) + 1 = i
        BY <1>1
      <4>2. f[i] = f[i - 1] \o ss[i]
        BY <4>1, <1>8
      <4>3. CASE i = 1
        <5>1. f[0] \o ss[1] = ss[1]
          BY <4>3, <1>1, <1>6, <1>7, ConcatEmptySeq
        <5>2. i - 1 = 0
          BY <4>3
        <5>3. f[i] = ss[i]
          BY <5>1, <5>2, <4>2, <4>3
        <5> QED BY <5>3, <4>3, <3>1
      <4>4. CASE i # 1
        <5>1. i - 1 \in 1 .. Len(ss)
          BY <4>4, <1>1
        <5>2. g[i - 1] = f[i - 1] /\ g[i] = f[i]
          BY <5>1, <3>1
        <5> QED BY <5>2, <4>2, <4>4
      <4> QED BY <4>3, <4>4
    <3>3. Eq(g)
      <4>1. g = [i \in 1 .. Len(ss) |-> g[i]]
        BY <3>1
      <4> QED BY <4>1, <3>2
    <3>4. Eq(flatten)
      BY <3>3
    <3>5. PICK h : h = flatten
      OBVIOUS
    <3>6. \A i \in 1 .. Len(ss) : h[i] = IF i = 1 THEN ss[i] ELSE h[i - 1] \o ss[i]
      BY <3>4, <3>5, ZenonT(40)
    <3>7. FlattenSeq(ss) = h[Len(ss)]
      BY <2>2, <3>5 DEF FlattenSeq
    <3> HIDE DEF flatten, Eq
    <3> DEFINE X == {n \in Nat : n + 1 \in 1 .. Len(ss) => h[n + 1] = f[n + 1]}
    <3>8. 0 \in X
      <4>1. CASE 1 \in 1 .. Len(ss)
        BY <4>1, <3>2, <3>6, <3>1
      <4>2. CASE 1 \notin 1 .. Len(ss)
        BY <4>2
      <4> QED BY <4>1, <4>2
    <3>9. ASSUME NEW n \in X PROVE n + 1 \in X
      <4>1. CASE n + 2 \in 1 .. Len(ss)
        <5>1. n + 1 \in 1 .. Len(ss) /\ h[n + 1] = f[n + 1] /\ n + 1 \in 0 .. Len(ss) - 1
          BY <4>1, <1>1
        <5>2. h[n + 2] = h[n + 1] \o ss[n + 2]
          <6>1. n \in Nat /\ (n + 2) - 1 = n + 1 /\ n + 2 # 1
            OBVIOUS
          <6>2. h[n + 2] = IF n + 2 = 1 THEN ss[n + 2] ELSE h[(n + 2) - 1] \o ss[n + 2]
            BY <4>1, <3>6
          <6> QED BY <6>1, <6>2
        <5>3. f[(n + 1) + 1] = f[n + 1] \o ss[(n + 1) + 1]
          BY <5>1, <1>8
        <5>4. (n + 1) + 1 = n + 2 /\ n + 1 \in Nat
          OBVIOUS
        <5> QED BY <5>1, <5>2, <5>3, <5>4
      <4>2. CASE n + 2 \notin 1 .. Len(ss)
        <5>1. (n + 1) + 1 = n + 2 /\ n + 1 \in Nat
          OBVIOUS
        <5> QED BY <5>1, <4>2
      <4> QED BY <4>1, <4>2
    <3>10. X \in SUBSET Nat
      OBVIOUS
    <3>11. X = Nat
      <4> HIDE DEF X
      <4> QED BY <3>8, <3>9, <3>10, SetInduction
    <3>12. Len(ss) - 1 \in Nat /\ (Len(ss) - 1) + 1 = Len(ss) /\ Len(ss) \in 1 .. Len(ss)
      BY <2>2, <1>1
    <3>13. Len(ss) - 1 \in X
      BY <3>11, <3>12
    <3>14. h[(Len(ss) - 1) + 1] = f[(Len(ss) - 1) + 1]
      BY <3>12, <3>13
    <3> QED BY <3>12, <3>14, <3>7
  <2> QED BY <2>1, <2>2
<1> QED BY <1>2, <1>6, <1>7, <1>8, <1>9

\* Selected() walks along the sequence and keeps what is in the set.
Selects(f, s, ds) ==
  /\ f[0] = << >>
  /\ \A n \in 0 .. Len(s) - 1 :
       f[n + 1] = IF s[n + 1] \in ds THEN Append(f[n], s[n + 1]) ELSE f[n]
  /\ Selected(s, ds) = f[Len(s)]

LEMMA SelectedRuns ==
  ASSUME NEW S, NEW s \in Seq(S), NEW ds
  PROVE  \E f \in [Nat -> Seq(S)] : Selects(f, s, ds)
<1>1. Len(s) \in Nat /\ DOMAIN s = 1 .. Len(s) /\ \A i \in 1 .. Len(s) : s[i] \in S
  BY LenProperties, ElementOfSeq
<1>2. PICK Q : Q = Seq(S)
  OBVIOUS
<1>3. PICK step : step = [p \in Nat \X Q |->
                            IF p[1] + 1 \in 1 .. Len(s) /\ s[p[1] + 1] \in ds
                            THEN Append(p[2], s[p[1] + 1]) ELSE p[2]]
  OBVIOUS
<1>4. \A n \in Nat : \A q \in Q :
        step[<<n, q>>] = IF n + 1 \in 1 .. Len(s) /\ s[n + 1] \in ds
                         THEN Append(q, s[n + 1]) ELSE q
  BY <1>3
<1>5. IsIndexedStep(step, Q)
  <2> SUFFICES ASSUME NEW n \in Nat, NEW q \in Q PROVE step[<<n, q>>] \in Q
    BY DEF IsIndexedStep
  <2>1. CASE n + 1 \in 1 .. Len(s) /\ s[n + 1] \in ds
    <3>1. Append(q, s[n + 1]) \in Seq(S)
      BY <2>1, <1>1, <1>2, AppendProperties
    <3> QED BY <3>1, <2>1, <1>4, <1>2
  <2>2. CASE ~(n + 1 \in 1 .. Len(s) /\ s[n + 1] \in ds)
    BY <2>2, <1>4
  <2> QED BY <2>1, <2>2
<1>6. PICK e \in Q : e = << >>
  BY <1>2, EmptySeq
<1>7. PICK f \in [Nat -> Q] : f[0] = e /\ \A n \in Nat : f[n + 1] = step[<<n, f[n]>>]
  BY <1>5, IndexedIteration
<1>8. ASSUME NEW n \in 0 .. Len(s) - 1
      PROVE  f[n + 1] = IF s[n + 1] \in ds THEN Append(f[n], s[n + 1]) ELSE f[n]
  <2>1. n \in Nat /\ n + 1 \in 1 .. Len(s) /\ f[n] \in Q
    BY <1>1, <1>7
  <2> QED BY <2>1, <1>4, <1>7
<1>9. Selected(s, ds) = f[Len(s)]
  <2> DEFINE Eq(g) == g = [n \in 0 .. Len(s) |->
                             IF n = 0 THEN << >>
                             ELSE IF s[n] \in ds THEN Append(g[n - 1], s[n]) ELSE g[n - 1]]
             upTo == CHOOSE g : Eq(g)
  <2>1. PICK g : g = [n \in 0 .. Len(s) |-> f[n]]
    OBVIOUS
  <2>2. ASSUME NEW n \in 0 .. Len(s)
        PROVE  g[n] = IF n = 0 THEN << >>
                      ELSE IF s[n] \in ds THEN Append(g[n - 1], s[n]) ELSE g[n - 1]
    <3>1. CASE n = 0
      BY <3>1, <2>1, <1>6, <1>7
    <3>2. CASE n # 0
      <4>1. n - 1 \in 0 .. Len(s) - 1 /\ (n - 1) + 1 = n /\ n - 1 \in 0 .. Len(s)
        BY <3>2, <1>1
      <4>2. f[n] = IF s[n] \in ds THEN Append(f[n - 1], s[n]) ELSE f[n - 1]
        BY <4>1, <1>8
      <4>3. g[n] = f[n] /\ g[n - 1] = f[n - 1]
        BY <4>1, <2>1
      <4> QED BY <4>2, <4>3, <3>2
    <3> QED BY <3>1, <3>2
  <2>3. Eq(g)
    <3>1. g = [n \in 0 .. Len(s) |-> g[n]]
      BY <2>1
    <3> QED BY <3>1, <2>2
  <2>4. Eq(upTo)
    BY <2>3
  <2>5. PICK h : h = upTo
    BY ZenonT(40)
  <2>6. \A n \in 0 .. Len(s) :
          h[n] = IF n = 0 THEN << >>
                 ELSE IF s[n] \in ds THEN Append(h[n - 1], s[n]) ELSE h[n - 1]
    BY <2>4, <2>5
  <2>7. Selected(s, ds) = h[Len(s)]
    BY <2>5 DEF Selected
  <2> HIDE DEF upTo, Eq
  <2> DEFINE X == {n \in Nat : n <= Len(s) => h[n] = f[n]}
  <2>8. 0 \in X
    <3>1. 0 \in 0 .. Len(s) /\ 0 \in Nat
      BY <1>1
    <3>2. h[0] = << >> /\ f[0] = << >>
      BY <3>1, <2>6, <1>6, <1>7
    <3> QED BY <3>1, <3>2
  <2>9. ASSUME NEW n \in X PROVE n + 1 \in X
    <3> SUFFICES ASSUME n + 1 <= Len(s) PROVE h[n + 1] = f[n + 1]
      OBVIOUS
    <3>1. n \in Nat /\ n \in 0 .. Len(s) - 1 /\ n + 1 \in 0 .. Len(s) /\ h[n] = f[n]
      BY <1>1
    <3>2. (n + 1) - 1 = n /\ n + 1 # 0
      BY <3>1
    <3>3. h[n + 1] = IF n + 1 = 0 THEN << >>
                     ELSE IF s[n + 1] \in ds THEN Append(h[(n + 1) - 1], s[n + 1])
                     ELSE h[(n + 1) - 1]
      BY <3>1, <2>6
    <3>4. h[n + 1] = IF s[n + 1] \in ds THEN Append(h[n], s[n + 1]) ELSE h[n]
      BY <3>2, <3>3
    <3> QED BY <3>1, <3>4, <1>8
  <2>10. X \in SUBSET Nat
    OBVIOUS
  <2>11. X = Nat
    <3> HIDE DEF X
    <3> QED BY <2>8, <2>9, <2>10, SetInduction
  <2> QED BY <2>11, <2>7, <1>1
<1>10. Selects(f, s, ds)
  BY <1>6, <1>7, <1>8, <1>9 DEF Selects
<1> QED BY <1>2, <1>7, <1>10

\* What has been kept of the first n elements, and at which places e it stood.
Stood(e, q, n, s, ds) ==
  /\ \A i \in 1 .. Len(q) : e[i] \in 1 .. n /\ q[i] = s[e[i]] /\ q[i] \in ds
  /\ \A i, j \in 1 .. Len(q) : e[i] = e[j] => i = j
Kept(q, n, s, ds) ==
  /\ \A k \in 1 .. n : s[k] \in ds => \E i \in 1 .. Len(q) : q[i] = s[k]
  /\ \E e : Stood(e, q, n, s, ds)

LEMMA KeptMore ==
  ASSUME NEW S, NEW s, NEW ds, NEW n \in Nat, NEW q \in Seq(S), Kept(q, n, s, ds),
         s[n + 1] \in S, s[n + 1] \in ds, NEW r, r = Append(q, s[n + 1])
  PROVE  Kept(r, n + 1, s, ds)
<1>1. PICK L \in Nat : L = Len(q)
  BY LenProperties
<1>2. PICK e : Stood(e, q, n, s, ds)
  BY DEF Kept
<1>3. /\ \A i \in 1 .. L : e[i] \in 1 .. n /\ q[i] = s[e[i]] /\ q[i] \in ds
      /\ \A i, j \in 1 .. L : e[i] = e[j] => i = j
  BY <1>1, <1>2 DEF Stood
<1>4. \A k \in 1 .. n : s[k] \in ds => \E i \in 1 .. L : q[i] = s[k]
  BY <1>1 DEF Kept
<1>5. Len(r) = L + 1 /\ r[L + 1] = s[n + 1] /\ \A i \in 1 .. L : r[i] = q[i]
  BY <1>1, AppendProperties
<1>6. PICK d : d = [i \in 1 .. L + 1 |-> IF i = L + 1 THEN n + 1 ELSE e[i]]
  OBVIOUS
<1>7. d[L + 1] = n + 1 /\ \A i \in 1 .. L : d[i] = e[i] /\ d[i] # n + 1
  BY <1>6, <1>3
<1>8. \A i \in 1 .. L + 1 : i = L + 1 \/ i \in 1 .. L
  OBVIOUS
<1>9. \A i \in 1 .. L + 1 : d[i] \in 1 .. n + 1 /\ r[i] = s[d[i]] /\ r[i] \in ds
  <2> TAKE i \in 1 .. L + 1
  <2>1. CASE i = L + 1
    BY <2>1, <1>5, <1>7
  <2>2. CASE i \in 1 .. L
    <3>1. e[i] \in 1 .. n + 1
      BY <2>2, <1>3
    <3> QED BY <3>1, <2>2, <1>3, <1>5, <1>7
  <2> QED BY <2>1, <2>2, <1>8
<1>10. \A i, j \in 1 .. L + 1 : d[i] = d[j] => i = j
  BY <1>3, <1>7, <1>8
<1>11. \A k \in 1 .. n + 1 : s[k] \in ds => \E i \in 1 .. L + 1 : r[i] = s[k]
  <2> TAKE k \in 1 .. n + 1
  <2>1. CASE k = n + 1
    <3>1. L + 1 \in 1 .. L + 1
      OBVIOUS
    <3> QED BY <3>1, <2>1, <1>5
  <2>2. CASE k \in 1 .. n
    <3>1. \A i \in 1 .. L : i \in 1 .. L + 1
      OBVIOUS
    <3> QED BY <3>1, <2>2, <1>4, <1>5
  <2>3. k = n + 1 \/ k \in 1 .. n
    OBVIOUS
  <2> QED BY <2>1, <2>2, <2>3
<1>12. Len(r) = L + 1
  BY <1>5
<1>13. Stood(d, r, n + 1, s, ds)
  BY <1>9, <1>10, <1>12 DEF Stood
<1>14. \A k \in 1 .. n + 1 : s[k] \in ds => \E i \in 1 .. Len(r) : r[i] = s[k]
  BY <1>11, <1>12
<1> QED BY <1>13, <1>14 DEF Kept

LEMMA KeptSame ==
  ASSUME NEW s, NEW ds, NEW n \in Nat, NEW q, Kept(q, n, s, ds), s[n + 1] \notin ds
  PROVE  Kept(q, n + 1, s, ds)
<1>1. \A k \in 1 .. n + 1 : k = n + 1 \/ k \in 1 .. n
  OBVIOUS
<1>2. \A k \in 1 .. n : k \in 1 .. n + 1
  OBVIOUS
<1> QED BY <1>1, <1>2, ZenonT(40) DEF Kept, Stood

LEMMA SelectedKept ==
  ASSUME NEW S, NEW s \in Seq(S), NEW ds
  PROVE  Selected(s, ds) \in Seq(S) /\ Kept(Selected(s, ds), Len(s), s, ds)
<1>1. PICK f \in [Nat -> Seq(S)] : Selects(f, s, ds)
  BY SelectedRuns
<1>2. PICK N \in Nat : N = Len(s)
  BY LenProperties
<1>3. \A i \in 1 .. N : s[i] \in S
  BY <1>2, ElementOfSeq
<1> DEFINE X == {n \in Nat : n <= N => Kept(f[n], n, s, ds)}
<1>4. 0 \in X
  <2>1. Len(f[0]) = 0
    BY <1>1, EmptySeq DEF Selects
  <2>2. 1 .. 0 = {} /\ 0 \in Nat
    OBVIOUS
  <2>3. Kept(f[0], 0, s, ds)
    BY <2>1, <2>2 DEF Kept, Stood
  <2> QED BY <2>2, <2>3
<1>5. ASSUME NEW n \in X PROVE n + 1 \in X
  <2> SUFFICES ASSUME n + 1 <= N PROVE Kept(f[n + 1], n + 1, s, ds)
    OBVIOUS
  <2>1. n \in Nat /\ n \in 0 .. N - 1 /\ n + 1 \in 1 .. N
    OBVIOUS
  <2>2. Kept(f[n], n, s, ds)
    OBVIOUS
  <2> HIDE DEF X
  <2>3. f[n] \in Seq(S)
    BY <2>1, <1>1
  <2>4. f[n + 1] = IF s[n + 1] \in ds THEN Append(f[n], s[n + 1]) ELSE f[n]
    BY <2>1, <1>1, <1>2 DEF Selects
  <2>5. CASE s[n + 1] \in ds
    <3>1. s[n + 1] \in S
      BY <2>1, <1>3
    <3> QED BY <3>1, <2>1, <2>2, <2>3, <2>4, <2>5, KeptMore
  <2>6. CASE s[n + 1] \notin ds
    BY <2>1, <2>2, <2>4, <2>6, KeptSame
  <2> QED BY <2>5, <2>6
<1>6. X = Nat
  <2>1. X \in SUBSET Nat
    OBVIOUS
  <2> HIDE DEF X
  <2> QED BY <1>4, <1>5, <2>1, SetInduction
<1>7. Kept(f[N], N, s, ds)
  <2>1. N \in X
    <3> HIDE DEF X
    <3> QED BY <1>6
  <2>2. N <= N
    OBVIOUS
  <2> QED BY <2>1, <2>2
<1>8. Selected(s, ds) = f[N] /\ f[N] \in Seq(S)
  BY <1>1, <1>2 DEF Selects
<1> QED BY <1>2, <1>7, <1>8

DecorateTokens == [op : {"Decorate"}, dec : Decoration]
GroupTokens    == [op : {"DecorationGroup"}, id : Nat]
TargetTokens   == [op : {"GroupDecorate"}, group : Nat, targets : Seq(Targets)]
Groups         == [id : Nat, decs : Seq(Decoration)]
IsGroup(t)     == t.op = "DecorationGroup"

-----------------------------------------------------------------------------
(***************************************************************************)
(* The groups as they are written: each after its decorations.             *)
(***************************************************************************)
AllTokens == DecorateTokens \cup GroupTokens \cup TargetTokens

\* Behind place m of q the next group is the one with this id.
Ahead(q, m, id) ==
  \E l \in 1 .. Len(q) : m < l /\ q[l] = GroupOf(id) /\ \A h \in 1 .. Len(q) : m < h /\ h < l => ~IsGroup(q[h])

\* q is the text of the first n groups.
HasAll(q, n, gs) ==
  \A i \in 1 .. n :
    /\ \E m \in 1 .. Len(q) : q[m] = GroupOf(gs[i].id)
    /\ \A k \in 1 .. Len(gs[i].decs) : \E m \in 1 .. Len(q) : q[m] = Loose(gs[i].decs[k])
HasOnly(q, n, gs) ==
  \A m \in 1 .. Len(q) : \E i \in 1 .. n :
    \/ q[m] = GroupOf(gs[i].id)
    \/ \E k \in 1 .. Len(gs[i].decs) : q[m] = Loose(gs[i].decs[k]) /\ Ahead(q, m, gs[i].id)
HasOnce(q) ==
  \A l, m \in 1 .. Len(q) : IsGroup(q[l]) /\ IsGroup(q[m]) /\ q[l].id = q[m].id => l = m
Laid(q, n, gs) == HasAll(q, n, gs) /\ HasOnly(q, n, gs) /\ HasOnce(q)

DifferentIds(gs) == \A i, j \in DOMAIN gs : gs[i].id = gs[j].id => i = j

PieceOf(g) == Map(Loose, g.decs) \o <<GroupOf(g.id)>>

LEMMA Concat ==
  ASSUME NEW S, NEW s \in Seq(S), NEW t \in Seq(S), NEW r, r = s \o t,
         NEW L \in Nat, L = Len(s), NEW M \in Nat, M = Len(t)
  PROVE  /\ r \in Seq(S)
         /\ Len(r) = L + M
         /\ \A i \in 1 .. L : r[i] = s[i]
         /\ \A i \in 1 .. M : r[L + i] = t[i]
<1>1. r \in Seq(S) /\ Len(r) = L + M
  BY ConcatProperties
<1>2. \A i \in 1 .. L + M : r[i] = IF i <= L THEN s[i] ELSE t[i - L]
  BY ConcatProperties
<1>3. \A i \in 1 .. L : i \in 1 .. L + M /\ i <= L
  OBVIOUS
<1>4. \A i \in 1 .. M : L + i \in 1 .. L + M /\ ~(L + i <= L) /\ (L + i) - L = i
  OBVIOUS
<1> QED BY <1>1, <1>2, <1>3, <1>4

LEMMA LooseGroup ==
  \A d, id : /\ Loose(d).op = "Decorate" /\ Loose(d).dec = d /\ ~IsGroup(Loose(d))
             /\ GroupOf(id).op = "DecorationGroup" /\ GroupOf(id).id = id /\ IsGroup(GroupOf(id))
             /\ Loose(d) # GroupOf(id)
BY DEF Loose, GroupOf, IsGroup

LEMMA PieceFacts ==
  ASSUME NEW g \in Groups
  PROVE  /\ PieceOf(g) \in Seq(AllTokens)
         /\ Len(g.decs) \in Nat
         /\ Len(PieceOf(g)) = Len(g.decs) + 1
         /\ \A k \in 1 .. Len(g.decs) : PieceOf(g)[k] = Loose(g.decs[k])
         /\ PieceOf(g)[Len(g.decs) + 1] = GroupOf(g.id)
<1>1. g.id \in Nat /\ g.decs \in Seq(Decoration)
  BY DEF Groups
<1>2. PICK D \in Seq(Decoration) : D = g.decs
  BY <1>1
<1>3. PICK L \in Nat : L = Len(D)
  BY LenProperties
<1>4. DOMAIN D = 1 .. L /\ \A k \in 1 .. L : D[k] \in Decoration
  BY <1>3, LenProperties, ElementOfSeq
<1>5. PICK a : a = [k \in 1 .. L |-> Loose(D[k])]
  OBVIOUS
<1>6. a = Map(Loose, D)
  BY <1>4, <1>5 DEF Map
<1>7. \A k \in 1 .. L : Loose(D[k]) \in AllTokens
  BY <1>4 DEF Loose, AllTokens, DecorateTokens
<1>8. a \in Seq(AllTokens) /\ Len(a) = L
  BY <1>5, <1>7
<1>9. PICK b : b = <<GroupOf(g.id)>>
  OBVIOUS
<1>10. GroupOf(g.id) \in AllTokens
  BY <1>1 DEF GroupOf, AllTokens, GroupTokens
<1>11. b \in Seq(AllTokens) /\ Len(b) = 1 /\ b[1] = GroupOf(g.id)
  BY <1>9, <1>10
<1>12. PICK p : p = a \o b
  OBVIOUS
<1>13. p = PieceOf(g)
  BY <1>2, <1>6, <1>9, <1>12 DEF PieceOf
<1>14. /\ p \in Seq(AllTokens) /\ Len(p) = L + 1
       /\ \A i \in 1 .. L : p[i] = a[i]
       /\ \A i \in 1 .. 1 : p[L + i] = b[i]
  <2>1. PICK O \in Nat : O = 1
    OBVIOUS
  <2>2. L = Len(a) /\ O = Len(b)
    BY <1>8, <1>11, <2>1
  <2>3. /\ p \in Seq(AllTokens) /\ Len(p) = L + O
        /\ \A i \in 1 .. L : p[i] = a[i]
        /\ \A i \in 1 .. O : p[L + i] = b[i]
    <3>1. a \in Seq(AllTokens) /\ b \in Seq(AllTokens) /\ p = a \o b
      BY <1>8, <1>11, <1>12
    <3> QED BY <3>1, <2>2, Concat
  <2> QED BY <2>1, <2>3
<1>16. \A k \in 1 .. L : p[k] = Loose(D[k])
  BY <1>5, <1>14
<1>17. p[L + 1] = GroupOf(g.id)
  <2>1. 1 \in 1 .. 1
    OBVIOUS
  <2> QED BY <2>1, <1>11, <1>14
<1> QED BY <1>2, <1>3, <1>13, <1>14, <1>16, <1>17

\* What comes behind q changes nothing of what is ahead in it.
LEMMA AheadStays ==
  ASSUME NEW L \in Nat, NEW M \in Nat, NEW q, NEW r, Len(q) = L, Len(r) = M, L <= M,
         \A m \in 1 .. L : r[m] = q[m],
         NEW m \in 1 .. L, NEW id, Ahead(q, m, id)
  PROVE  Ahead(r, m, id)
<1>1. PICK l \in 1 .. L : /\ m < l /\ q[l] = GroupOf(id)
                          /\ \A h \in 1 .. L : m < h /\ h < l => ~IsGroup(q[h])
  BY DEF Ahead
<1>2. l \in 1 .. M /\ r[l] = GroupOf(id)
  BY <1>1
<1>3. ASSUME NEW h \in 1 .. M, m < h, h < l PROVE ~IsGroup(r[h])
  <2>1. h \in 1 .. L
    BY <1>3, <1>1
  <2> QED BY <2>1, <1>3, <1>1
<1> QED BY <1>1, <1>2, <1>3 DEF Ahead

LEMMA LaidMore ==
  ASSUME NEW gs \in Seq(Groups), DifferentIds(gs), NEW n \in Nat, n + 1 \in DOMAIN gs,
         NEW q \in Seq(AllTokens), Laid(q, n, gs), NEW r, r = q \o PieceOf(gs[n + 1])
  PROVE  Laid(r, n + 1, gs)
<1>1. PICK g \in Groups : g = gs[n + 1]
  BY ElementOfSeq, LenProperties
<1>2. PICK L \in Nat : L = Len(q)
  BY LenProperties
<1>3. PICK p \in Seq(AllTokens) : p = PieceOf(g)
  BY PieceFacts
<1>4. PICK D \in Nat : D = Len(g.decs)
  BY PieceFacts
<1>5. Len(p) = D + 1 /\ (\A k \in 1 .. D : p[k] = Loose(g.decs[k])) /\ p[D + 1] = GroupOf(g.id)
  BY <1>3, <1>4, PieceFacts
<1>6. PICK M \in Nat : M = L + (D + 1)
  OBVIOUS
<1>7. Len(r) = M /\ (\A i \in 1 .. L : r[i] = q[i]) /\ \A i \in 1 .. D + 1 : r[L + i] = p[i]
  <2>1. r = q \o p /\ D + 1 \in Nat
    BY <1>1, <1>3
  <2> QED BY <2>1, <1>2, <1>5, <1>6, Concat
<1>8. \A m \in 1 .. L : m \in 1 .. M /\ r[m] = q[m]
  BY <1>6, <1>7
<1>9. ASSUME NEW k \in 1 .. D + 1 PROVE L + k \in 1 .. M /\ r[L + k] = p[k]
  BY <1>6, <1>7
<1>10. D + 1 \in 1 .. D + 1 /\ \A k \in 1 .. D : k \in 1 .. D + 1
  OBVIOUS
<1>11. M \in 1 .. M /\ M = L + (D + 1) /\ r[M] = GroupOf(g.id)
  BY <1>5, <1>6, <1>9, <1>10
<1>12. \A k \in 1 .. D : L + k \in 1 .. M /\ r[L + k] = Loose(g.decs[k])
  BY <1>5, <1>9, <1>10
<1>13. \A i \in 1 .. n : i \in DOMAIN gs /\ i # n + 1 /\ i \in 1 .. n + 1
  BY LenProperties
<1>14. \A i \in 1 .. n : gs[i].id # g.id
  BY <1>1, <1>13 DEF DifferentIds
<1>15. \A i \in 1 .. n + 1 : i = n + 1 \/ i \in 1 .. n
  OBVIOUS
<1>16. n + 1 \in 1 .. n + 1
  OBVIOUS
<1>17. HasAll(r, n + 1, gs)
  <2>1. ASSUME NEW i \in 1 .. n
        PROVE  /\ \E m \in 1 .. M : r[m] = GroupOf(gs[i].id)
               /\ \A k \in 1 .. Len(gs[i].decs) : \E m \in 1 .. M : r[m] = Loose(gs[i].decs[k])
    BY <1>2, <1>8 DEF Laid, HasAll
  <2>2. \E m \in 1 .. M : r[m] = GroupOf(g.id)
    BY <1>11
  <2>3. \A k \in 1 .. Len(g.decs) : \E m \in 1 .. M : r[m] = Loose(g.decs[k])
    BY <1>4, <1>12
  <2> QED BY <2>1, <2>2, <2>3, <1>1, <1>7, <1>15, ZenonT(40) DEF HasAll
<1>18. \A m \in 1 .. M : m \in 1 .. L \/ m = M \/ \E k \in 1 .. D : m = L + k
  <2> SUFFICES ASSUME NEW m \in 1 .. M, m \notin 1 .. L, m # M PROVE \E k \in 1 .. D : m = L + k
    OBVIOUS
  <2>1. m - L \in 1 .. D /\ m = L + (m - L)
    BY <1>6
  <2> QED BY <2>1
<1>19. HasOnly(r, n + 1, gs)
  <2>1. ASSUME NEW m \in 1 .. L
        PROVE  \E i \in 1 .. n + 1 :
                 \/ r[m] = GroupOf(gs[i].id)
                 \/ \E k \in 1 .. Len(gs[i].decs) : r[m] = Loose(gs[i].decs[k]) /\ Ahead(r, m, gs[i].id)
    <3>1. PICK i \in 1 .. n :
            \/ q[m] = GroupOf(gs[i].id)
            \/ \E k \in 1 .. Len(gs[i].decs) : q[m] = Loose(gs[i].decs[k]) /\ Ahead(q, m, gs[i].id)
      BY <1>2 DEF Laid, HasOnly
    <3>2. L <= M
      BY <1>6
    <3>3. ASSUME NEW id, Ahead(q, m, id) PROVE Ahead(r, m, id)
      BY <3>2, <3>3, <1>2, <1>7, AheadStays, ZenonT(40)
    <3>4. i \in 1 .. n + 1 /\ r[m] = q[m]
      BY <1>8, <1>13
    <3>5. CASE q[m] = GroupOf(gs[i].id)
      BY <3>4, <3>5
    <3>6. CASE \E k \in 1 .. Len(gs[i].decs) : q[m] = Loose(gs[i].decs[k]) /\ Ahead(q, m, gs[i].id)
      <4>1. PICK k \in 1 .. Len(gs[i].decs) : q[m] = Loose(gs[i].decs[k]) /\ Ahead(q, m, gs[i].id)
        BY <3>6
      <4>2. Ahead(r, m, gs[i].id)
        BY <4>1, <3>3
      <4> QED BY <4>1, <4>2, <3>4
    <3> QED BY <3>1, <3>5, <3>6
  <2>2. ASSUME NEW k \in 1 .. D PROVE Ahead(r, L + k, g.id)
    <3>1. L + k < M
      BY <1>6
    <3>2. ASSUME NEW h \in 1 .. M, L + k < h, h < M PROVE ~IsGroup(r[h])
      <4>1. h \notin 1 .. L /\ h # M
        BY <3>2
      <4>2. PICK j \in 1 .. D : h = L + j
        BY <4>1, <1>18
      <4> QED BY <4>2, <1>12, LooseGroup, ZenonT(40)
    <3> QED BY <3>1, <3>2, <1>7, <1>11 DEF Ahead
  <2>3. ASSUME NEW m \in 1 .. M
        PROVE  \E i \in 1 .. n + 1 :
                 \/ r[m] = GroupOf(gs[i].id)
                 \/ \E k \in 1 .. Len(gs[i].decs) : r[m] = Loose(gs[i].decs[k]) /\ Ahead(r, m, gs[i].id)
    <3>1. CASE m \in 1 .. L
      BY <3>1, <2>1
    <3>2. CASE m = M
      BY <3>2, <1>11, <1>1, <1>16
    <3>3. CASE \E k \in 1 .. D : m = L + k
      <4>1. PICK k \in 1 .. D : m = L + k
        BY <3>3
      <4>2. k \in 1 .. Len(gs[n + 1].decs) /\ r[m] = Loose(gs[n + 1].decs[k]) /\ Ahead(r, m, gs[n + 1].id)
        BY <4>1, <2>2, <1>12, <1>1, <1>4
      <4> QED BY <4>2, <1>16
    <3> QED BY <3>1, <3>2, <3>3, <1>18
  <2> QED BY <2>3, <1>7 DEF HasOnly
<1>20. HasOnce(r)
  <2>1. ASSUME NEW m \in 1 .. L, IsGroup(r[m]) PROVE r[m].id # g.id
    <3>1. PICK i \in 1 .. n :
            \/ q[m] = GroupOf(gs[i].id)
            \/ \E k \in 1 .. Len(gs[i].decs) : q[m] = Loose(gs[i].decs[k])
      BY <1>2 DEF Laid, HasOnly
    <3>2. r[m] = GroupOf(gs[i].id)
      <4>1. IsGroup(q[m]) /\ r[m] = q[m]
        BY <1>8, <2>1
      <4>2. \A d : ~IsGroup(Loose(d))
        BY LooseGroup
      <4> QED BY <4>1, <4>2, <3>1
    <3>3. r[m].id = gs[i].id
      BY <3>2, LooseGroup
    <3> QED BY <3>3, <1>14
  <2>2. ASSUME NEW m \in 1 .. M, IsGroup(r[m]) PROVE m \in 1 .. L \/ m = M
    <3>1. \A k \in 1 .. D : ~IsGroup(r[L + k])
      BY <1>12, LooseGroup, ZenonT(40)
    <3> QED BY <3>1, <2>2, <1>18
  <2>3. r[M].id = g.id
    BY <1>11, LooseGroup
  <2>4. \A l, m \in 1 .. L : IsGroup(r[l]) /\ IsGroup(r[m]) /\ r[l].id = r[m].id => l = m
    BY <1>2, <1>8 DEF Laid, HasOnce
  <2>5. ASSUME NEW l \in 1 .. M, NEW m \in 1 .. M, IsGroup(r[l]), IsGroup(r[m]), r[l].id = r[m].id
        PROVE  l = m
    BY <2>1, <2>2, <2>3, <2>4, <2>5
  <2> QED BY <2>5, <1>7 DEF HasOnce
<1> QED BY <1>17, <1>19, <1>20 DEF Laid

\* The text of all groups.
LEMMA GroupsLaid ==
  ASSUME NEW gs \in Seq(Groups), DifferentIds(gs),
         NEW q, q = FlattenSeq([i \in DOMAIN gs |-> PieceOf(gs[i])])
  PROVE  q \in Seq(AllTokens) /\ Laid(q, Len(gs), gs)
<1>1. PICK N \in Nat : N = Len(gs)
  BY LenProperties
<1>2. DOMAIN gs = 1 .. N /\ \A i \in 1 .. N : gs[i] \in Groups
  BY <1>1, LenProperties, ElementOfSeq
<1>3. PICK ss : ss = [i \in 1 .. N |-> PieceOf(gs[i])]
  OBVIOUS
<1>4. \A i \in 1 .. N : PieceOf(gs[i]) \in Seq(AllTokens)
  BY <1>2, PieceFacts
<1>5. ss \in Seq(Seq(AllTokens)) /\ Len(ss) = N
  BY <1>3, <1>4
<1>6. q = FlattenSeq(ss)
  BY <1>2, <1>3
<1>7. PICK f \in [Nat -> Seq(AllTokens)] :
        /\ f[0] = << >>
        /\ \A n \in 0 .. Len(ss) - 1 : f[n + 1] = f[n] \o ss[n + 1]
        /\ FlattenSeq(ss) = f[Len(ss)]
  BY <1>5, FlattenRuns
<1> DEFINE X == {n \in Nat : n <= N => Laid(f[n], n, gs)}
<1>8. 0 \in X
  <2>1. PICK e : e = f[0]
    OBVIOUS
  <2>2. Len(e) = 0
    BY <2>1, <1>7, EmptySeq
  <2>3. 1 .. Len(e) = {} /\ 1 .. 0 = {}
    BY <2>2
  <2>4. Laid(e, 0, gs)
    BY <2>3 DEF Laid, HasAll, HasOnly, HasOnce
  <2> QED BY <2>1, <2>4
<1>9. ASSUME NEW n \in X PROVE n + 1 \in X
  <2> SUFFICES ASSUME n + 1 <= N PROVE Laid(f[n + 1], n + 1, gs)
    OBVIOUS
  <2>1. n \in Nat /\ n \in 0 .. N - 1 /\ n + 1 \in 1 .. N
    OBVIOUS
  <2>2. Laid(f[n], n, gs)
    OBVIOUS
  <2> HIDE DEF X
  <2>3. f[n] \in Seq(AllTokens)
    BY <2>1, <1>7
  <2>4. f[n + 1] = f[n] \o ss[n + 1]
    BY <2>1, <1>5, <1>7
  <2>5. ss[n + 1] = PieceOf(gs[n + 1])
    BY <2>1, <1>3
  <2>6. n + 1 \in DOMAIN gs
    BY <2>1, <1>2
  <2> QED BY <2>1, <2>2, <2>3, <2>4, <2>5, <2>6, LaidMore
<1>10. X = Nat
  <2>1. X \in SUBSET Nat
    OBVIOUS
  <2> HIDE DEF X
  <2> QED BY <1>8, <1>9, <2>1, SetInduction
<1>11. Laid(f[N], N, gs)
  <2>1. N \in X
    <3> HIDE DEF X
    <3> QED BY <1>10
  <2>2. N <= N
    OBVIOUS
  <2> QED BY <2>1, <2>2
<1>12. q = f[N] /\ f[N] \in Seq(AllTokens)
  BY <1>5, <1>6, <1>7
<1> QED BY <1>1, <1>11, <1>12

\* No group stands behind place m of q.
NoneAfter(q, m) == \A h \in 1 .. Len(q) : m < h => ~IsGroup(q[h])

AllPlain(t, M) == \A i \in 1 .. M : ~IsGroup(t[i])

\* Where the elements of q and t are in r = q \o t.
Follows(r, q, t, L, M, N) ==
  /\ r \in Seq(AllTokens) /\ Len(r) = N
  /\ HasOnce(r)
  /\ \A m \in 1 .. L : m \in 1 .. N /\ r[m] = q[m]
  /\ \A m \in 1 .. L : \A id : Ahead(q, m, id) => Ahead(r, m, id)
  /\ \A m \in 1 .. L : NoneAfter(q, m) => NoneAfter(r, m)
  /\ \A i \in 1 .. M : L + i \in 1 .. N /\ r[L + i] = t[i] /\ NoneAfter(r, L + i)
  /\ \A m \in 1 .. N : m \in 1 .. L \/ \E i \in 1 .. M : m = L + i

\* What is not a group leaves the groups in front of it as they are.
LEMMA PlainBehind ==
  ASSUME NEW q \in Seq(AllTokens), NEW t \in Seq(AllTokens), NEW r, r = q \o t,
         NEW L \in Nat, L = Len(q), NEW M \in Nat, M = Len(t), NEW N \in Nat, N = L + M,
         AllPlain(t, M), HasOnce(q)
  PROVE  Follows(r, q, t, L, M, N)
<1>1. /\ r \in Seq(AllTokens) /\ Len(r) = L + M
      /\ (\A i \in 1 .. L : r[i] = q[i]) /\ (\A i \in 1 .. M : r[L + i] = t[i])
  BY Concat
<1>2. N = L + M /\ \A i \in 1 .. M : ~IsGroup(t[i])
  BY DEF AllPlain
<1>3. \A m \in 1 .. L : m \in 1 .. N
  BY <1>2
<1>4. \A i \in 1 .. M : L + i \in 1 .. N
  BY <1>2
<1>5. \A m \in 1 .. N : m \in 1 .. L \/ \E i \in 1 .. M : m = L + i
  <2> SUFFICES ASSUME NEW m \in 1 .. N, m \notin 1 .. L PROVE \E i \in 1 .. M : m = L + i
    OBVIOUS
  <2>1. m - L \in 1 .. M /\ m = L + (m - L)
    BY <1>2
  <2> QED BY <2>1
<1>6. \A m \in 1 .. N : IsGroup(r[m]) => m \in 1 .. L
  <2> SUFFICES ASSUME NEW m \in 1 .. N, IsGroup(r[m]), m \notin 1 .. L PROVE FALSE
    OBVIOUS
  <2>1. PICK i \in 1 .. M : m = L + i
    BY <1>5
  <2> QED BY <2>1, <1>1, <1>2
<1>7. L <= N
  BY <1>2
<1>8. Len(r) = N
  BY <1>1, <1>2
<1>9. HasOnce(r)
  <2>1. \A l, m \in 1 .. L : IsGroup(q[l]) /\ IsGroup(q[m]) /\ q[l].id = q[m].id => l = m
    BY DEF HasOnce
  <2>2. ASSUME NEW l \in 1 .. N, NEW m \in 1 .. N, IsGroup(r[l]), IsGroup(r[m]), r[l].id = r[m].id
        PROVE  l = m
    <3>1. l \in 1 .. L /\ m \in 1 .. L
      BY <2>2, <1>6
    <3>2. r[l] = q[l] /\ r[m] = q[m]
      BY <3>1, <1>1
    <3> QED BY <3>1, <3>2, <2>1, <2>2
  <2> QED BY <2>2, <1>8 DEF HasOnce
<1>10. ASSUME NEW m \in 1 .. L, NEW id, Ahead(q, m, id) PROVE Ahead(r, m, id)
  BY <1>10, <1>1, <1>7, <1>8, AheadStays
<1>11. ASSUME NEW m \in 1 .. L, NoneAfter(q, m) PROVE NoneAfter(r, m)
  <2>1. ASSUME NEW h \in 1 .. N, m < h, IsGroup(r[h]) PROVE FALSE
    <3>1. h \in 1 .. L
      BY <2>1, <1>6
    <3>2. r[h] = q[h]
      BY <3>1, <1>1
    <3> QED BY <3>1, <3>2, <2>1, <1>11 DEF NoneAfter
  <2> QED BY <2>1, <1>8 DEF NoneAfter
<1>12. ASSUME NEW i \in 1 .. M PROVE NoneAfter(r, L + i)
  <2>1. ASSUME NEW h \in 1 .. N, L + i < h, IsGroup(r[h]) PROVE FALSE
    <3>1. h \in 1 .. L
      BY <2>1, <1>6
    <3> QED BY <3>1, <2>1
  <2> QED BY <2>1, <1>8 DEF NoneAfter
<1> QED BY <1>1, <1>2, <1>3, <1>4, <1>5, <1>9, <1>10, <1>11, <1>12 DEF Follows

WrittenOf(ds, gs, gd) ==
  FlattenSeq([i \in DOMAIN gs |-> PieceOf(gs[i])]) \o Map(Loose, ds) \o gd

\* What is written: the groups, the other decorations, the targets of the groups.
FromGroup(w, m, gs) ==
  \E i \in 1 .. Len(gs) :
    \/ w[m] = GroupOf(gs[i].id)
    \/ \E k \in 1 .. Len(gs[i].decs) : w[m] = Loose(gs[i].decs[k]) /\ Ahead(w, m, gs[i].id)
Arranged(w, ds, gs, gd) ==
  /\ w \in Seq(AllTokens)
  /\ HasAll(w, Len(gs), gs) /\ HasOnce(w)
  /\ \A i \in 1 .. Len(ds) : \E m \in 1 .. Len(w) : w[m] = Loose(ds[i])
  /\ \A i \in 1 .. Len(gd) : \E m \in 1 .. Len(w) : w[m] = gd[i]
  /\ \A m \in 1 .. Len(w) :
       \/ FromGroup(w, m, gs)
       \/ \E i \in 1 .. Len(ds) : w[m] = Loose(ds[i]) /\ NoneAfter(w, m)
       \/ \E i \in 1 .. Len(gd) : w[m] = gd[i] /\ NoneAfter(w, m)

LEMMA WrittenLaid ==
  ASSUME NEW ds \in Seq(Decoration), NEW gs \in Seq(Groups), DifferentIds(gs),
         NEW gd \in Seq(TargetTokens), NEW w, w = WrittenOf(ds, gs, gd)
  PROVE  Arranged(w, ds, gs, gd)
<1>1. PICK q \in Seq(AllTokens) : /\ q = FlattenSeq([i \in DOMAIN gs |-> PieceOf(gs[i])])
                                  /\ Laid(q, Len(gs), gs)
  BY GroupsLaid
<1>2. PICK L \in Nat, D \in Nat, G \in Nat : L = Len(q) /\ D = Len(ds) /\ G = Len(gd)
  BY LenProperties
<1>3. PICK l : l = [i \in 1 .. D |-> Loose(ds[i])]
  OBVIOUS
<1>4. \A i \in 1 .. D : ds[i] \in Decoration
  BY <1>2, ElementOfSeq
<1>5. \A i \in 1 .. D : Loose(ds[i]) \in AllTokens
  BY <1>4 DEF Loose, AllTokens, DecorateTokens
<1>6. l \in Seq(AllTokens) /\ Len(l) = D /\ \A i \in 1 .. D : l[i] = Loose(ds[i])
  BY <1>3, <1>5
<1>7. l = Map(Loose, ds)
  <2>1. DOMAIN ds = 1 .. D
    BY <1>2, LenProperties
  <2> QED BY <2>1, <1>3 DEF Map
<1>8. PICK a : a = q \o l
  OBVIOUS
<1>9. w = a \o gd
  BY <1>1, <1>7, <1>8 DEF WrittenOf
<1>10. \A i \in 1 .. D : ~IsGroup(l[i])
  BY <1>6, LooseGroup, ZenonT(40)
<1>11. \A i \in 1 .. G : gd[i] \in TargetTokens
  BY <1>2, ElementOfSeq
<1>12. \A i \in 1 .. G : ~IsGroup(gd[i])
  BY <1>11 DEF TargetTokens, IsGroup
<1>13. gd \in Seq(AllTokens)
  BY DEF AllTokens
<1>14. HasOnce(q)
  BY <1>1 DEF Laid
<1>15. PICK A \in Nat : A = L + D
  OBVIOUS
<1>16. /\ a \in Seq(AllTokens) /\ Len(a) = A
       /\ HasOnce(a)
       /\ \A m \in 1 .. L : m \in 1 .. A /\ a[m] = q[m]
       /\ \A m \in 1 .. L : \A id : Ahead(q, m, id) => Ahead(a, m, id)
       /\ \A m \in 1 .. L : NoneAfter(q, m) => NoneAfter(a, m)
       /\ \A i \in 1 .. D : L + i \in 1 .. A /\ a[L + i] = l[i] /\ NoneAfter(a, L + i)
       /\ \A m \in 1 .. A : m \in 1 .. L \/ \E i \in 1 .. D : m = L + i
  <2>1. /\ l \in Seq(AllTokens) /\ a = q \o l /\ L = Len(q) /\ D = Len(l) /\ A = L + D
        /\ AllPlain(l, D) /\ HasOnce(q)
    BY <1>2, <1>6, <1>8, <1>10, <1>14, <1>15 DEF AllPlain
  <2>2. Follows(a, q, l, L, D, A)
    BY <2>1, PlainBehind
  <2> QED BY <2>2 DEF Follows
<1>17. PICK W \in Nat : W = A + G
  OBVIOUS
<1>18. /\ w \in Seq(AllTokens) /\ Len(w) = W
       /\ HasOnce(w)
       /\ \A m \in 1 .. A : m \in 1 .. W /\ w[m] = a[m]
       /\ \A m \in 1 .. A : \A id : Ahead(a, m, id) => Ahead(w, m, id)
       /\ \A m \in 1 .. A : NoneAfter(a, m) => NoneAfter(w, m)
       /\ \A i \in 1 .. G : A + i \in 1 .. W /\ w[A + i] = gd[i] /\ NoneAfter(w, A + i)
       /\ \A m \in 1 .. W : m \in 1 .. A \/ \E i \in 1 .. G : m = A + i
  <2>1. /\ a \in Seq(AllTokens) /\ gd \in Seq(AllTokens) /\ w = a \o gd
        /\ A = Len(a) /\ G = Len(gd) /\ W = A + G /\ AllPlain(gd, G) /\ HasOnce(a)
    BY <1>2, <1>9, <1>12, <1>13, <1>16, <1>17 DEF AllPlain
  <2>2. Follows(w, a, gd, A, G, W)
    BY <2>1, PlainBehind
  <2> QED BY <2>2 DEF Follows
<1>19. \A m \in 1 .. L : m \in 1 .. W /\ w[m] = q[m]
  BY <1>16, <1>18
<1>20. HasAll(w, Len(gs), gs)
  <2>1. HasAll(q, Len(gs), gs)
    BY <1>1 DEF Laid
  <2>2. ASSUME NEW i \in 1 .. Len(gs) PROVE \E m \in 1 .. W : w[m] = GroupOf(gs[i].id)
    BY <2>1, <1>2, <1>19 DEF HasAll
  <2>3. ASSUME NEW i \in 1 .. Len(gs), NEW k \in 1 .. Len(gs[i].decs)
        PROVE  \E m \in 1 .. W : w[m] = Loose(gs[i].decs[k])
    BY <2>1, <1>2, <1>19 DEF HasAll
  <2>4. Len(w) = W
    BY <1>18
  <2> QED BY <2>2, <2>3, <2>4 DEF HasAll
<1>21. ASSUME NEW i \in 1 .. D PROVE \E m \in 1 .. W : w[m] = Loose(ds[i])
  <2>1. L + i \in 1 .. A /\ a[L + i] = Loose(ds[i])
    BY <1>6, <1>16
  <2>2. L + i \in 1 .. W /\ w[L + i] = a[L + i]
    BY <2>1, <1>18
  <2> QED BY <2>1, <2>2
<1>22. \A i \in 1 .. G : \E m \in 1 .. W : w[m] = gd[i]
  BY <1>18
<1>23. ASSUME NEW m \in 1 .. W
       PROVE  \/ \E i \in 1 .. Len(gs) :
                   \/ w[m] = GroupOf(gs[i].id)
                   \/ \E k \in 1 .. Len(gs[i].decs) : w[m] = Loose(gs[i].decs[k]) /\ Ahead(w, m, gs[i].id)
              \/ \E i \in 1 .. D : w[m] = Loose(ds[i]) /\ NoneAfter(w, m)
              \/ \E i \in 1 .. G : w[m] = gd[i] /\ NoneAfter(w, m)
  <2>1. CASE m \in 1 .. L
    <3>1. PICK i \in 1 .. Len(gs) :
            \/ q[m] = GroupOf(gs[i].id)
            \/ \E k \in 1 .. Len(gs[i].decs) : q[m] = Loose(gs[i].decs[k]) /\ Ahead(q, m, gs[i].id)
      BY <2>1, <1>1, <1>2 DEF Laid, HasOnly
    <3>2. ASSUME NEW id, Ahead(q, m, id) PROVE Ahead(w, m, id)
      BY <3>2, <2>1, <1>16, <1>18
    <3>3. w[m] = q[m]
      BY <2>1, <1>19
    <3>4. CASE q[m] = GroupOf(gs[i].id)
      BY <3>3, <3>4
    <3>5. CASE \E k \in 1 .. Len(gs[i].decs) : q[m] = Loose(gs[i].decs[k]) /\ Ahead(q, m, gs[i].id)
      <4>1. PICK k \in 1 .. Len(gs[i].decs) : q[m] = Loose(gs[i].decs[k]) /\ Ahead(q, m, gs[i].id)
        BY <3>5
      <4>2. Ahead(w, m, gs[i].id)
        BY <4>1, <3>2
      <4> QED BY <4>1, <4>2, <3>3
    <3> QED BY <3>1, <3>4, <3>5
  <2>2. CASE m \in 1 .. A /\ m \notin 1 .. L
    <3>1. PICK i \in 1 .. D : m = L + i
      BY <2>2, <1>16
    <3>2. w[m] = Loose(ds[i]) /\ NoneAfter(w, m)
      BY <3>1, <2>2, <1>6, <1>16, <1>18, ZenonT(40)
    <3> QED BY <3>2
  <2>3. CASE m \notin 1 .. A
    <3>1. PICK i \in 1 .. G : m = A + i
      BY <2>3, <1>18
    <3>2. w[m] = gd[i] /\ NoneAfter(w, m)
      BY <3>1, <1>18
    <3> QED BY <3>2
  <2> QED BY <2>1, <2>2, <2>3
<1>24. \A m \in 1 .. Len(w) :
         \/ FromGroup(w, m, gs)
         \/ \E i \in 1 .. Len(ds) : w[m] = Loose(ds[i]) /\ NoneAfter(w, m)
         \/ \E i \in 1 .. Len(gd) : w[m] = gd[i] /\ NoneAfter(w, m)
  BY <1>2, <1>18, <1>23 DEF FromGroup
<1> QED BY <1>2, <1>18, <1>20, <1>21, <1>22, <1>24 DEF Arranged

-----------------------------------------------------------------------------
(***************************************************************************)
(* What a module holds, and what it means, as functions of its tables.     *)
(***************************************************************************)
OwnOf(T)       == {t.dec : t \in {u \in T : u.op = "Decorate"}}
IdsOf(T)       == {t.id : t \in {u \in T : u.op = "DecorationGroup"}}
GroupingsOf(T) == {u \in T : u.op = "GroupDecorate"}
MeaningBy(D, G, O) ==
  {<<d.target, d.member, d.kind>> : d \in {e \in D : e.target \in Targets}}
  \cup
  UNION {{<<t, d.member, d.kind>> : t \in Range(g.targets), d \in {e \in O : e.target = g.group}} : g \in G}

MeansBy(p, D, G, O) ==
  \/ \E d \in D : d.target \in Targets /\ p = <<d.target, d.member, d.kind>>
  \/ \E g \in G : \E k \in DOMAIN g.targets : \E d \in O :
       d.target = g.group /\ p = <<g.targets[k], d.member, d.kind>>

LEMMA MeaningByHolds ==
  ASSUME NEW D, NEW G, NEW O, NEW p
  PROVE  p \in MeaningBy(D, G, O) <=> MeansBy(p, D, G, O)
BY DEF MeaningBy, MeansBy, Range

AlikeMeans(D, G, O, D2, G2, O2) == \A p : MeansBy(p, D, G, O) <=> MeansBy(p, D2, G2, O2)

LEMMA SameMeaning ==
  ASSUME NEW D, NEW G, NEW O, NEW D2, NEW G2, NEW O2,
         AlikeMeans(D, G, O, D2, G2, O2)
  PROVE  MeaningBy(D, G, O) = MeaningBy(D2, G2, O2)
BY MeaningByHolds DEF AlikeMeans

InGroup(d, gs) == \E i \in 1 .. Len(gs) : \E k \in 1 .. Len(gs[i].decs) : d = gs[i].decs[k]
In(d, s)       == \E i \in 1 .. Len(s) : d = s[i]

\* The decorations, the ids and the group decorates of a module with these tables.
Holds(T, ds, gs, gd, f) ==
  /\ T \subseteq AllTokens
  /\ \A d : d \in OwnOf(T) <=> In(d, ds) \/ InGroup(d, gs) \/ In(Loose(d), f)
  /\ \A id : id \in IdsOf(T) <=> (\E i \in 1 .. Len(gs) : id = gs[i].id) \/ In(GroupOf(id), f)
  /\ \A g : g \in GroupingsOf(T) <=> In(g, gd) \/ (In(g, f) /\ g.op = "GroupDecorate")

LEMMA TokenKinds ==
  ASSUME NEW T, T \subseteq AllTokens
  PROVE  /\ \A d : d \in OwnOf(T) <=> Loose(d) \in T
         /\ \A id : id \in IdsOf(T) <=> GroupOf(id) \in T
         /\ \A d \in OwnOf(T) : d \in Decoration
         /\ \A id \in IdsOf(T) : id \in Nat
         /\ \A g \in GroupingsOf(T) : g \in T /\ g \in TargetTokens
<1>1. \A t \in T : t.op = "Decorate" => t = Loose(t.dec) /\ t.dec \in Decoration
  BY DEF AllTokens, DecorateTokens, GroupTokens, TargetTokens, Loose
<1>2. \A t \in T : t.op = "DecorationGroup" => t = GroupOf(t.id) /\ t.id \in Nat
  BY DEF AllTokens, DecorateTokens, GroupTokens, TargetTokens, GroupOf
<1>3. \A t \in T : t.op = "GroupDecorate" => t \in TargetTokens
  BY DEF AllTokens, DecorateTokens, GroupTokens, TargetTokens
<1>4. \A d : d \in OwnOf(T) => Loose(d) \in T /\ d \in Decoration
  BY <1>1 DEF OwnOf
<1>5. \A d : Loose(d) \in T => d \in OwnOf(T)
  BY LooseGroup DEF OwnOf
<1>6. \A id : id \in IdsOf(T) => GroupOf(id) \in T /\ id \in Nat
  BY <1>2 DEF IdsOf
<1>7. \A id : GroupOf(id) \in T => id \in IdsOf(T)
  BY LooseGroup DEF IdsOf, IsGroup
<1> QED BY <1>3, <1>4, <1>5, <1>6, <1>7 DEF GroupingsOf

LEMMA TokensHeld ==
  ASSUME NEW ds \in Seq(Decoration), NEW gs \in Seq(Groups), DifferentIds(gs),
         NEW gd \in Seq(TargetTokens), NEW f \in Seq(AllTokens),
         NEW T, T = Range(WrittenOf(ds, gs, gd)) \cup Range(f)
  PROVE  Holds(T, ds, gs, gd, f)
<1>1. PICK w : w = WrittenOf(ds, gs, gd)
  OBVIOUS
<1>2. Arranged(w, ds, gs, gd)
  BY <1>1, WrittenLaid
<1>3. PICK W \in Nat, F \in Nat : W = Len(w) /\ F = Len(f)
  BY <1>2, LenProperties DEF Arranged
<1>4. /\ DOMAIN w = 1 .. W /\ DOMAIN f = 1 .. F
      /\ (\A m \in 1 .. W : w[m] \in AllTokens) /\ \A m \in 1 .. F : f[m] \in AllTokens
  BY <1>2, <1>3, LenProperties, ElementOfSeq DEF Arranged
<1>5. \A t : t \in T <=> (\E m \in 1 .. W : t = w[m]) \/ \E m \in 1 .. F : t = f[m]
  BY <1>1, <1>4 DEF Range
<1>6. T \subseteq AllTokens
  BY <1>4, <1>5
<1>13. ASSUME NEW m \in 1 .. W
       PROVE  \/ FromGroup(w, m, gs)
              \/ \E i \in 1 .. Len(ds) : w[m] = Loose(ds[i])
              \/ \E i \in 1 .. Len(gd) : w[m] = gd[i]
  BY <1>2, <1>3 DEF Arranged
<1>7. \A g : In(g, gd) => g \in TargetTokens
  BY ElementOfSeq DEF In
<1>14. \A i \in 1 .. Len(gd) : gd[i].op = "GroupDecorate"
  <2> TAKE i \in 1 .. Len(gd)
  <2>1. gd[i] \in TargetTokens
    BY ElementOfSeq
  <2> QED BY <2>1 DEF TargetTokens
<1>8. ASSUME NEW d PROVE Loose(d) \in T <=> In(d, ds) \/ InGroup(d, gs) \/ In(Loose(d), f)
  <2>1. ASSUME In(d, ds) PROVE Loose(d) \in T
    BY <2>1, <1>2, <1>3, <1>5 DEF In, Arranged
  <2>2. ASSUME InGroup(d, gs) PROVE Loose(d) \in T
    BY <2>2, <1>2, <1>3, <1>5 DEF InGroup, HasAll, Arranged
  <2>3. ASSUME In(Loose(d), f) PROVE Loose(d) \in T
    BY <2>3, <1>3, <1>5 DEF In
  <2>4. ASSUME NEW m \in 1 .. W, Loose(d) = w[m] PROVE In(d, ds) \/ InGroup(d, gs)
    <3>1. ASSUME NEW i \in 1 .. Len(gd), w[m] = gd[i] PROVE FALSE
      <4>1. w[m].op = "GroupDecorate"
        BY <3>1, <1>14
      <4> QED BY <4>1, <2>4, LooseGroup
    <3>2. ASSUME NEW i \in 1 .. Len(gs), w[m] = GroupOf(gs[i].id) PROVE FALSE
      BY <3>2, <2>4, LooseGroup
    <3>3. ASSUME NEW e, w[m] = Loose(e) PROVE e = d
      <4>1. Loose(e).dec = Loose(d).dec
        BY <3>3, <2>4
      <4> QED BY <4>1, LooseGroup
    <3>4. CASE FromGroup(w, m, gs)
      BY <3>2, <3>3, <3>4 DEF FromGroup, InGroup
    <3>5. CASE \E i \in 1 .. Len(ds) : w[m] = Loose(ds[i])
      BY <3>3, <3>5 DEF In
    <3> QED BY <3>1, <3>4, <3>5, <1>13
  <2>5. Loose(d) \in T <=> (\E m \in 1 .. W : Loose(d) = w[m]) \/ In(Loose(d), f)
    BY <1>3, <1>5 DEF In
  <2> QED BY <2>1, <2>2, <2>4, <2>5
<1>9. ASSUME NEW id PROVE GroupOf(id) \in T <=> (\E i \in 1 .. Len(gs) : id = gs[i].id) \/ In(GroupOf(id), f)
  <2>1. ASSUME NEW i \in 1 .. Len(gs), id = gs[i].id PROVE GroupOf(id) \in T
    BY <2>1, <1>2, <1>3, <1>5 DEF HasAll, Arranged
  <2>2. ASSUME NEW m \in 1 .. W, GroupOf(id) = w[m] PROVE \E i \in 1 .. Len(gs) : id = gs[i].id
    <3>1. ASSUME NEW i \in 1 .. Len(gd), w[m] = gd[i] PROVE FALSE
      <4>1. w[m].op = "GroupDecorate"
        BY <3>1, <1>14
      <4> QED BY <4>1, <2>2, LooseGroup
    <3>2. ASSUME NEW e, w[m] = Loose(e) PROVE FALSE
      BY <3>2, <2>2, LooseGroup
    <3>3. ASSUME NEW e, w[m] = GroupOf(e) PROVE e = id
      <4>1. GroupOf(e).id = GroupOf(id).id
        BY <3>3, <2>2
      <4> QED BY <4>1, LooseGroup
    <3>4. CASE FromGroup(w, m, gs)
      BY <3>2, <3>3, <3>4 DEF FromGroup
    <3> QED BY <3>1, <3>2, <3>4, <1>13
  <2>3. GroupOf(id) \in T <=> (\E m \in 1 .. W : GroupOf(id) = w[m]) \/ In(GroupOf(id), f)
    BY <1>3, <1>5 DEF In
  <2> QED BY <2>1, <2>2, <2>3
<1>10. ASSUME NEW g PROVE (g \in T /\ g.op = "GroupDecorate") <=> In(g, gd) \/ (In(g, f) /\ g.op = "GroupDecorate")
  <2>1. ASSUME In(g, gd) PROVE g \in T /\ g.op = "GroupDecorate"
    <3>1. g \in T
      BY <2>1, <1>2, <1>3, <1>5 DEF In, Arranged
    <3>2. g.op = "GroupDecorate"
      BY <2>1, <1>7 DEF TargetTokens
    <3> QED BY <3>1, <3>2
  <2>2. ASSUME NEW m \in 1 .. W, g = w[m], g.op = "GroupDecorate" PROVE In(g, gd)
    <3>1. ASSUME NEW i \in 1 .. Len(gs), w[m] = GroupOf(gs[i].id) PROVE FALSE
      BY <3>1, <2>2, LooseGroup
    <3>2. ASSUME NEW e, w[m] = Loose(e) PROVE FALSE
      BY <3>2, <2>2, LooseGroup
    <3>3. CASE FromGroup(w, m, gs)
      BY <3>1, <3>2, <3>3 DEF FromGroup
    <3> QED BY <3>2, <3>3, <2>2, <1>13 DEF In
  <2>3. g \in T <=> (\E m \in 1 .. W : g = w[m]) \/ In(g, f)
    BY <1>3, <1>5 DEF In
  <2> QED BY <2>1, <2>2, <2>3
<1>11. \A d : d \in OwnOf(T) <=> Loose(d) \in T
  BY <1>6, TokenKinds
<1>12. \A id : id \in IdsOf(T) <=> GroupOf(id) \in T
  BY <1>6, TokenKinds
<1> QED BY <1>6, <1>8, <1>9, <1>10, <1>11, <1>12 DEF Holds, GroupingsOf


-----------------------------------------------------------------------------
(***************************************************************************)
(* The operations on the tables.                                           *)
(***************************************************************************)
Distinct(s) == \A i, j \in 1 .. Len(s) : s[i] = s[j] => i = j

\* What is appended.
LEMMA Appended ==
  ASSUME NEW S, NEW s \in Seq(S), NEW x \in S, NEW r, r = Append(s, x)
  PROVE  /\ r \in Seq(S)
         /\ \A y : In(y, r) <=> In(y, s) \/ y = x
         /\ Distinct(s) /\ ~In(x, s) => Distinct(r)
<1>1. PICK L \in Nat : L = Len(s)
  BY LenProperties
<1>2. r \in Seq(S) /\ Len(r) = L + 1 /\ r[L + 1] = x /\ \A i \in 1 .. L : r[i] = s[i]
  BY <1>1, AppendProperties
<1>3. \A i \in 1 .. L + 1 : i \in 1 .. L \/ i = L + 1
  BY <1>1
<1>4. \A i \in 1 .. L : i \in 1 .. L + 1 /\ i # L + 1
  BY <1>1
<1>5. L + 1 \in 1 .. L + 1
  BY <1>1
<1>6. ASSUME NEW y PROVE In(y, r) <=> In(y, s) \/ y = x
  <2>1. In(y, r) <=> \E i \in 1 .. L + 1 : y = r[i]
    BY <1>2 DEF In
  <2>2. In(y, s) <=> \E i \in 1 .. L : y = s[i]
    BY <1>1 DEF In
  <2> QED BY <2>1, <2>2, <1>2, <1>3, <1>4, <1>5
<1>7. ASSUME Distinct(s), ~In(x, s) PROVE Distinct(r)
  <2>1. \A i, j \in 1 .. L : s[i] = s[j] => i = j
    BY <1>1, <1>7 DEF Distinct
  <2>2. \A i \in 1 .. L : s[i] # x
    BY <1>1, <1>7 DEF In
  <2>3. ASSUME NEW i \in 1 .. L + 1, NEW j \in 1 .. L + 1, r[i] = r[j] PROVE i = j
    <3>1. CASE i \in 1 .. L /\ j \in 1 .. L
      BY <3>1, <2>1, <2>3, <1>2
    <3>2. CASE i \in 1 .. L /\ j = L + 1
      BY <3>2, <2>2, <2>3, <1>2
    <3>3. CASE i = L + 1 /\ j \in 1 .. L
      BY <3>3, <2>2, <2>3, <1>2
    <3> QED BY <3>1, <3>2, <3>3, <1>3
  <2> QED BY <2>3, <1>2 DEF Distinct
<1> QED BY <1>2, <1>6, <1>7

\* What is inserted.
LEMMA Inserted ==
  ASSUME NEW s \in Seq(Decoration), NEW d \in Decoration, Distinct(s),
         \A e : In(e, s) /\ Equal(e, d) => e = d,
         NEW r, r = Insert(s, d)
  PROVE  /\ r \in Seq(Decoration)
         /\ \A e : In(e, r) <=> In(e, s) \/ e = d
         /\ Distinct(r)
<1>1. DOMAIN s = 1 .. Len(s)
  BY LenProperties
<1>2. CASE \E i \in 1 .. Len(s) : Equal(s[i], d)
  <2>1. r = s
    BY <1>1, <1>2 DEF Insert
  <2>2. In(d, s)
    BY <1>2 DEF In
  <2> QED BY <2>1, <2>2, SMTT(30)
<1>3. CASE ~\E i \in 1 .. Len(s) : Equal(s[i], d)
  <2>1. r = Append(s, d)
    BY <1>1, <1>3 DEF Insert
  <2>2. ~In(d, s)
    BY <1>3 DEF In, Equal
  <2> QED BY <2>1, <2>2, Appended
<1> QED BY <1>2, <1>3

\* What has been read is taken from the front of the file.
LEMMA TailFacts ==
  ASSUME NEW S, NEW f \in Seq(S), f # << >>, NEW q, q = Tail(f), NEW L \in Nat, L = Len(q)
  PROVE  /\ q \in Seq(S) /\ Len(f) = L + 1 /\ f[1] \in S
         /\ \A i \in 1 .. L : q[i] = f[i + 1]
<1>1. q \in Seq(S) /\ Len(q) = Len(f) - 1
  BY HeadTailProperties
<1>2. \A i \in 1 .. Len(q) : q[i] = f[i + 1]
  BY HeadTailProperties
<1>3. Len(f) \in Nat /\ Len(f) = L + 1
  BY <1>1, LenProperties
<1>4. 1 \in 1 .. Len(f)
  BY <1>3
<1>5. f[1] \in S
  BY <1>4, ElementOfSeq
<1> QED BY <1>1, <1>2, <1>3, <1>5

LEMMA TailShift ==
  ASSUME NEW f \in Seq(AllTokens), f # << >>, NEW q, q = Tail(f), NEW L \in Nat, L = Len(q),
         NEW m \in 0 .. L
  PROVE  /\ \A id : Ahead(f, m + 1, id) => Ahead(q, m, id)
         /\ NoneAfter(f, m + 1) => NoneAfter(q, m)
<1>1. Len(f) = L + 1 /\ \A i \in 1 .. L : q[i] = f[i + 1]
  BY TailFacts
<1>2. \A i \in 1 .. L : i + 1 \in 1 .. L + 1
  OBVIOUS
<1>3. ASSUME NEW id, Ahead(f, m + 1, id) PROVE Ahead(q, m, id)
  <2>1. PICK l \in 1 .. L + 1 : /\ m + 1 < l /\ f[l] = GroupOf(id)
                                /\ \A h \in 1 .. L + 1 : m + 1 < h /\ h < l => ~IsGroup(f[h])
    BY <1>1, <1>3 DEF Ahead
  <2>2. PICK k \in Nat : k = l - 1
    BY <2>1
  <2>3. k \in 1 .. L /\ m < k /\ l = k + 1
    BY <2>1, <2>2
  <2>4. q[k] = GroupOf(id)
    BY <2>1, <2>3, <1>1
  <2>5. ASSUME NEW h \in 1 .. L, m < h, h < k PROVE ~IsGroup(q[h])
    <3>1. h + 1 \in 1 .. L + 1 /\ m + 1 < h + 1 /\ h + 1 < l
      BY <2>3, <2>5
    <3>2. ~IsGroup(f[h + 1])
      BY <3>1, <2>1
    <3> QED BY <3>2, <1>1
  <2> QED BY <2>3, <2>4, <2>5 DEF Ahead
<1>4. ASSUME NoneAfter(f, m + 1) PROVE NoneAfter(q, m)
  <2>1. ASSUME NEW h \in 1 .. L, m < h PROVE ~IsGroup(q[h])
    <3>1. h + 1 \in 1 .. L + 1 /\ m + 1 < h + 1
      BY <2>1
    <3>2. ~IsGroup(f[h + 1])
      BY <3>1, <1>1, <1>4 DEF NoneAfter
    <3> QED BY <3>2, <1>1
  <2> QED BY <2>1 DEF NoneAfter
<1> QED BY <1>3, <1>4

\* When a group is not what is read next, nothing changes for what was read before.
LEMMA PlainFirst ==
  ASSUME NEW f, NEW N \in Nat, N = Len(f), 1 \in 1 .. N, ~IsGroup(f[1])
  PROVE  /\ \A id : Ahead(f, 0, id) => Ahead(f, 1, id)
         /\ NoneAfter(f, 0) => NoneAfter(f, 1)
<1>1. ASSUME NEW id, Ahead(f, 0, id) PROVE Ahead(f, 1, id)
  <2>1. PICK l \in 1 .. N : /\ f[l] = GroupOf(id)
                            /\ \A h \in 1 .. N : 0 < h /\ h < l => ~IsGroup(f[h])
    BY <1>1 DEF Ahead
  <2>2. l # 1
    BY <2>1, LooseGroup
  <2>3. 1 < l /\ \A h \in 1 .. N : 0 < h
    BY <2>2
  <2> QED BY <2>1, <2>3 DEF Ahead
<1>2. \A h \in 1 .. N : 1 < h => 0 < h
  OBVIOUS
<1> QED BY <1>1, <1>2 DEF NoneAfter


\* A sequence without repetitions is as long as the set of its elements is large.
LEMMA DistinctSize ==
  ASSUME NEW S, NEW s \in Seq(S), Distinct(s), NEW A, \A e : e \in A <=> In(e, s)
  PROVE  IsFiniteSet(A) /\ Cardinality(A) = Len(s)
<1>1. PICK L \in Nat : L = Len(s)
  BY LenProperties
<1>2. PICK f : f = [i \in 1 .. L |-> s[i]]
  OBVIOUS
<1>3. \A e : e \in A <=> \E i \in 1 .. L : e = f[i]
  BY <1>1, <1>2 DEF In
<1>4. \A i, j \in 1 .. L : f[i] = f[j] => i = j
  BY <1>1, <1>2 DEF Distinct
<1>5. f \in [1 .. L -> A]
  BY <1>2, <1>3
<1>6. f \in Bijection(1 .. L, A)
  BY <1>3, <1>4, <1>5 DEF Bijection, Injection, IsInjective, Surjection
<1>7. IsFiniteSet(1 .. L) /\ Cardinality(1 .. L) = L
  BY FS_Interval
<1>8. ExistsBijection(1 .. L, A)
  BY <1>6 DEF ExistsBijection
<1>9. IsFiniteSet(A) /\ Cardinality(A) = Cardinality(1 .. L)
  BY <1>7, <1>8, FS_Bijection
<1> QED BY <1>1, <1>7, <1>9

\* What is selected.
LEMMA SelectedFacts ==
  ASSUME NEW S, NEW s \in Seq(S), Distinct(s), NEW ds, NEW r, r = Selected(s, ds)
  PROVE  /\ r \in Seq(S)
         /\ \A e : In(e, r) <=> In(e, s) /\ e \in ds
         /\ Distinct(r)
<1>1. r \in Seq(S) /\ Kept(r, Len(s), s, ds)
  BY SelectedKept
<1>2. PICK L \in Nat, M \in Nat : L = Len(s) /\ M = Len(r)
  BY <1>1, LenProperties
<1>3. PICK e : Stood(e, r, L, s, ds)
  BY <1>1, <1>2 DEF Kept
<1>4. \A k \in 1 .. L : s[k] \in ds => \E i \in 1 .. M : r[i] = s[k]
  BY <1>1, <1>2 DEF Kept
<1>5. /\ \A i \in 1 .. M : e[i] \in 1 .. L /\ r[i] = s[e[i]] /\ r[i] \in ds
      /\ \A i, j \in 1 .. M : e[i] = e[j] => i = j
  BY <1>2, <1>3 DEF Stood
<1>6. ASSUME NEW x PROVE In(x, r) <=> In(x, s) /\ x \in ds
  BY <1>2, <1>4, <1>5 DEF In
<1>7. Distinct(r)
  <2>1. \A i, j \in 1 .. L : s[i] = s[j] => i = j
    BY <1>2 DEF Distinct
  <2>2. ASSUME NEW i \in 1 .. M, NEW j \in 1 .. M, r[i] = r[j] PROVE i = j
    <3>1. e[i] \in 1 .. L /\ e[j] \in 1 .. L /\ s[e[i]] = s[e[j]]
      BY <2>2, <1>5
    <3>2. e[i] = e[j]
      BY <3>1, <2>1
    <3> QED BY <3>2, <1>5
  <2> QED BY <2>2, <1>2 DEF Distinct
<1> QED BY <1>1, <1>6, <1>7

LEMMA InClassFacts ==
  ASSUME NEW s \in Seq(Decoration), Distinct(s), NEW c, NEW r, r = InClass(c, s)
  PROVE  /\ r \in Seq(Decoration)
         /\ \A e : In(e, r) <=> In(e, s) /\ Class(e) = c
         /\ Distinct(r)
<1>1. PICK ds : ds = {d \in Range(s) : Class(d) = c}
  OBVIOUS
<1>2. r = Selected(s, ds)
  BY <1>1 DEF InClass
<1>3. \A e : In(e, s) => e \in Range(s)
  BY LenProperties DEF In, Range
<1>4. \A e : In(e, s) => (e \in ds <=> Class(e) = c)
  BY <1>1, <1>3
<1> QED BY <1>2, <1>4, SelectedFacts

LEMMA OutOfFacts ==
  ASSUME NEW s \in Seq(Decoration), Distinct(s), NEW c, NEW r, r = OutOf(c, s)
  PROVE  /\ r \in Seq(Decoration)
         /\ \A e : In(e, r) <=> In(e, s) /\ Class(e) # c
         /\ Distinct(r)
<1>1. PICK ds : ds = {d \in Range(s) : Class(d) # c}
  OBVIOUS
<1>2. r = Selected(s, ds)
  BY <1>1 DEF OutOf
<1>3. \A e : In(e, s) => e \in Range(s)
  BY LenProperties DEF In, Range
<1>4. \A e : In(e, s) => (e \in ds <=> Class(e) # c)
  BY <1>1, <1>3
<1> QED BY <1>2, <1>4, SelectedFacts

\* Tables with the same decorations of a class have equally long ranges of it.
LEMMA SameLength ==
  ASSUME NEW s \in Seq(Decoration), Distinct(s), NEW t \in Seq(Decoration), Distinct(t),
         NEW c, \A e : Class(e) = c => (In(e, s) <=> In(e, t))
  PROVE  Len(InClass(c, s)) = Len(InClass(c, t))
<1>1. PICK r : r = InClass(c, s)
  OBVIOUS
<1>2. PICK q : q = InClass(c, t)
  OBVIOUS
<1>3. /\ r \in Seq(Decoration) /\ Distinct(r)
      /\ \A e : In(e, r) <=> In(e, s) /\ Class(e) = c
  BY <1>1, InClassFacts
<1>4. /\ q \in Seq(Decoration) /\ Distinct(q)
      /\ \A e : In(e, q) <=> In(e, t) /\ Class(e) = c
  BY <1>2, InClassFacts
<1>5. PICK A : A = {r[i] : i \in 1 .. Len(r)}
  OBVIOUS
<1>6. \A e : e \in A <=> In(e, r)
  BY <1>5 DEF In
<1>7. \A e : e \in A <=> In(e, q)
  BY <1>3, <1>4, <1>6
<1>8. Cardinality(A) = Len(r)
  BY <1>3, <1>6, DistinctSize
<1>9. Cardinality(A) = Len(q)
  BY <1>4, <1>7, DistinctSize
<1> QED BY <1>1, <1>2, <1>8, <1>9

TogetherOf(c, T) == {e \in OwnOf(T) : e.target \notin IdsOf(T) /\ Class(e) = c}

LEMMA ClassSize ==
  ASSUME NEW s \in Seq(Decoration), Distinct(s), NEW T, NEW c,
         \A e : In(e, s) <=> e \in OwnOf(T) /\ e.target \notin IdsOf(T)
  PROVE  /\ IsFiniteSet(TogetherOf(c, T))
         /\ Cardinality(TogetherOf(c, T)) = Len(InClass(c, s))
<1>1. PICK r : r = InClass(c, s)
  OBVIOUS
<1>2. /\ r \in Seq(Decoration) /\ Distinct(r)
      /\ \A e : In(e, r) <=> In(e, s) /\ Class(e) = c
  BY <1>1, InClassFacts
<1>3. PICK A : A = TogetherOf(c, T)
  OBVIOUS
<1>4. \A e : e \in A <=> In(e, r)
  BY <1>2, <1>3 DEF TogetherOf
<1>5. IsFiniteSet(A) /\ Cardinality(A) = Len(r)
  BY <1>2, <1>4, DistinctSize
<1> QED BY <1>1, <1>3, <1>5


-----------------------------------------------------------------------------
(***************************************************************************)
(* What is so at all times of the tables ds, gs, gd (DecorateSet,          *)
(* DecGroupVec, GroupDecVec), the rest f of the file, the tokens T they    *)
(* hold together, and the next id n.                                       *)
(*                                                                         *)
(* A decoration is known by the set it is found in: those on the way to a  *)
(* group stand in front of it in the file and have its id for a target     *)
(* (Waiting, Placed), which is why a group that takes all that was read    *)
(* takes its own.  What the module means depends only on what it holds or  *)
(* is still in the file, which reading does not change.                    *)
(*                                                                         *)
(* The decoration that was given the id of a dropped group stands for no   *)
(* target any more; it does no harm as long as its class is never grouped, *)
(* and it is not, since its class keeps its size (Strays).                 *)
(***************************************************************************)
Shaped(ds, gs, gd, f, n) ==
  /\ ds \in Seq(Decoration) /\ gs \in Seq(Groups) /\ gd \in Seq(TargetTokens)
  /\ f \in Seq(AllTokens) /\ n \in Nat /\ FirstId <= n

GroupsOwn(gs) == \A i \in 1 .. Len(gs) : \A k \in 1 .. Len(gs[i].decs) : gs[i].decs[k].target = gs[i].id
Apart(gs, f)  == \A i \in 1 .. Len(gs) : \A j \in 1 .. Len(f) : IsGroup(f[j]) => f[j].id # gs[i].id

\* Behind place m of the file comes the group of d, or d is of no group and none comes.
Belongs(d, m, f, ids) == Ahead(f, m, d.target) \/ (d.target \notin ids /\ NoneAfter(f, m))

Waiting(ds, f, ids) == \A d : In(d, ds) => Belongs(d, 0, f, ids)
Placed(f, ids)      == \A j \in 1 .. Len(f) : f[j].op = "Decorate" => Belongs(f[j].dec, j, f, ids)
TargetsLast(f)      == \A j \in 1 .. Len(f) : f[j].op = "GroupDecorate" => NoneAfter(f, j)

Bounds(T, n) ==
  /\ \A d \in OwnOf(T) : d.target < n
  /\ \A id \in IdsOf(T) : FirstId <= id /\ id < n
  /\ \A g \in GroupingsOf(T) : g.group \in IdsOf(T)
Unique(T) == \A d, e \in OwnOf(T) : Equal(d, e) => d = e
Strays(T) ==
  \A d \in OwnOf(T) : d.target \notin Targets \cup IdsOf(T) =>
    d.member = 0 /\ Cardinality(TogetherOf(Class(d), T)) >= MaxTargets

Sound(ds, gs, gd, f, T, n) ==
  /\ Shaped(ds, gs, gd, f, n)
  /\ T = Range(WrittenOf(ds, gs, gd)) \cup Range(f)
  /\ GroupsOwn(gs) /\ DifferentIds(gs) /\ HasOnce(f) /\ Apart(gs, f)
  /\ Waiting(ds, f, IdsOf(T)) /\ Placed(f, IdsOf(T)) /\ TargetsLast(f)
  /\ Bounds(T, n) /\ Unique(T) /\ Distinct(ds) /\ Strays(T)

LEMMA SoundHolds ==
  ASSUME NEW ds, NEW gs, NEW gd, NEW f, NEW T, NEW n, Sound(ds, gs, gd, f, T, n)
  PROVE  Holds(T, ds, gs, gd, f)
BY TokensHeld DEF Sound, Shaped

SameThings(T, T2) ==
  OwnOf(T2) = OwnOf(T) /\ IdsOf(T2) = IdsOf(T) /\ GroupingsOf(T2) = GroupingsOf(T)

LEMMA SameStays ==
  ASSUME NEW T, NEW T2, NEW n, SameThings(T, T2), Bounds(T, n), Unique(T), Strays(T)
  PROVE  Bounds(T2, n) /\ Unique(T2) /\ Strays(T2)
<1>1. \A c : TogetherOf(c, T2) = TogetherOf(c, T)
  BY DEF TogetherOf, SameThings
<1> QED BY <1>1 DEF SameThings, Bounds, Unique, Strays

\* The rest of the file is as the file was.
LEMMA RestOfFile ==
  ASSUME NEW f \in Seq(AllTokens), f # << >>, NEW q, q = Tail(f), NEW ids,
         HasOnce(f), Placed(f, ids), TargetsLast(f)
  PROVE  /\ q \in Seq(AllTokens) /\ f[1] \in AllTokens /\ 1 \in 1 .. Len(f)
         /\ \A x : In(x, f) <=> x = f[1] \/ In(x, q)
         /\ HasOnce(q) /\ Placed(q, ids) /\ TargetsLast(q)
         /\ \A d : Belongs(d, 1, f, ids) => Belongs(d, 0, q, ids)
<1>1. q \in Seq(AllTokens)
  BY HeadTailProperties
<1>2. PICK L \in Nat : L = Len(q)
  BY <1>1, LenProperties
<1>3. Len(f) = L + 1 /\ f[1] \in AllTokens /\ \A i \in 1 .. L : q[i] = f[i + 1]
  BY <1>2, TailFacts
<1>4. \A i \in 1 .. L : i + 1 \in 1 .. L + 1 /\ i \in 0 .. L
  OBVIOUS
<1>5. 1 \in 1 .. L + 1 /\ 0 \in 0 .. L /\ 0 + 1 = 1
  OBVIOUS
<1>6. ASSUME NEW x PROVE In(x, f) <=> x = f[1] \/ In(x, q)
  <2>1. ASSUME NEW k \in 1 .. L + 1, x = f[k], k # 1 PROVE In(x, q)
    <3>1. k - 1 \in 1 .. L /\ (k - 1) + 1 = k
      BY <2>1
    <3>2. q[k - 1] = f[k]
      BY <3>1, <1>3
    <3> QED BY <3>1, <3>2, <2>1, <1>2 DEF In
  <2>2. ASSUME In(x, q) PROVE In(x, f)
    BY <2>2, <1>2, <1>3, <1>4 DEF In
  <2>3. x = f[1] => In(x, f)
    BY <1>3, <1>5 DEF In
  <2>4. In(x, f) <=> \E k \in 1 .. L + 1 : x = f[k]
    BY <1>3 DEF In
  <2> QED BY <2>1, <2>2, <2>3, <2>4
<1>7. ASSUME NEW m \in 0 .. L, NEW d, Belongs(d, m + 1, f, ids) PROVE Belongs(d, m, q, ids)
  <2>1. /\ \A id : Ahead(f, m + 1, id) => Ahead(q, m, id)
        /\ NoneAfter(f, m + 1) => NoneAfter(q, m)
    BY <1>2, TailShift
  <2> QED BY <2>1, <1>7 DEF Belongs
<1>8. HasOnce(q)
  <2>1. ASSUME NEW l \in 1 .. L, NEW m \in 1 .. L, IsGroup(q[l]), IsGroup(q[m]), q[l].id = q[m].id
        PROVE  l = m
    <3>1. q[l] = f[l + 1] /\ q[m] = f[m + 1] /\ l + 1 \in 1 .. L + 1 /\ m + 1 \in 1 .. L + 1
      BY <1>3, <1>4
    <3>2. l + 1 = m + 1
      BY <3>1, <2>1, <1>3 DEF HasOnce
    <3> QED BY <3>2
  <2> QED BY <2>1, <1>2 DEF HasOnce
<1>9. Placed(q, ids)
  <2>1. ASSUME NEW j \in 1 .. L, q[j].op = "Decorate" PROVE Belongs(q[j].dec, j, q, ids)
    <3>1. q[j] = f[j + 1] /\ j + 1 \in 1 .. L + 1 /\ j \in 0 .. L
      BY <1>3, <1>4
    <3>2. Belongs(f[j + 1].dec, j + 1, f, ids)
      BY <3>1, <2>1, <1>3 DEF Placed
    <3> QED BY <3>1, <3>2, <1>7
  <2> QED BY <2>1, <1>2 DEF Placed
<1>10. TargetsLast(q)
  <2>1. ASSUME NEW j \in 1 .. L, q[j].op = "GroupDecorate" PROVE NoneAfter(q, j)
    <3>1. q[j] = f[j + 1] /\ j + 1 \in 1 .. L + 1 /\ j \in 0 .. L
      BY <1>3, <1>4
    <3>2. NoneAfter(f, j + 1)
      BY <3>1, <2>1, <1>3 DEF TargetsLast
    <3> QED BY <3>1, <3>2, <1>2, TailShift
  <2> QED BY <2>1, <1>2 DEF TargetsLast
<1>11. \A d : Belongs(d, 1, f, ids) => Belongs(d, 0, q, ids)
  BY <1>5, <1>7
<1> QED BY <1>1, <1>3, <1>5, <1>6, <1>8, <1>9, <1>10, <1>11


\* The three kinds of tokens.
LEMMA TokenShapes ==
  ASSUME NEW t \in AllTokens
  PROVE  /\ t.op = "Decorate" => t = Loose(t.dec) /\ t.dec \in Decoration /\ ~IsGroup(t)
         /\ t.op = "DecorationGroup" => t = GroupOf(t.id) /\ t.id \in Nat /\ IsGroup(t)
         /\ t.op = "GroupDecorate" => t \in TargetTokens /\ ~IsGroup(t)
BY DEF AllTokens, DecorateTokens, GroupTokens, TargetTokens, Loose, GroupOf, IsGroup

LEMMA LooseIsOne ==
  \A d, e, id : /\ Loose(d) = Loose(e) <=> d = e
                /\ GroupOf(d) = GroupOf(e) <=> d = e
                /\ Loose(d) # GroupOf(id)
<1>1. \A d, e : Loose(d) = Loose(e) => d = e
  <2> SUFFICES ASSUME NEW d, NEW e, Loose(d) = Loose(e) PROVE d = e
    OBVIOUS
  <2>1. Loose(d).dec = Loose(e).dec
    OBVIOUS
  <2> QED BY <2>1, LooseGroup
<1>2. \A d, e : GroupOf(d) = GroupOf(e) => d = e
  <2> SUFFICES ASSUME NEW d, NEW e, GroupOf(d) = GroupOf(e) PROVE d = e
    OBVIOUS
  <2>1. GroupOf(d).id = GroupOf(e).id
    OBVIOUS
  <2> QED BY <2>1, LooseGroup
<1> QED BY <1>1, <1>2, LooseGroup

\* ds2 holds d too; ds holds decorations of groups; own is what a group has.
Plus(ds, d, ds2)    == \A x : In(x, ds2) <=> In(x, ds) \/ x = d
OfGroups(ds, T)     == \A d : In(d, ds) => d.target \in IdsOf(T)
GroupHas(O, g, own) == \A d : d \in O /\ d.target = g.group <=> In(d, own)

\* DecodeDecorate.
DecorationRead(ds, f, d, ds2, f2) ==
  f # << >> /\ f[1].op = "Decorate" /\ d = f[1].dec /\ ds2 = Insert(ds, d) /\ f2 = Tail(f)

LEMMA ReadDecoration ==
  ASSUME NEW ds, NEW gs, NEW gd, NEW f, NEW T, NEW n, Sound(ds, gs, gd, f, T, n),
         NEW d, NEW ds2, NEW f2, DecorationRead(ds, f, d, ds2, f2),
         NEW T2, T2 = Range(WrittenOf(ds2, gs, gd)) \cup Range(f2)
  PROVE  Sound(ds2, gs, gd, f2, T2, n) /\ SameThings(T, T2) /\ Plus(ds, d, ds2)
<1> SUFFICES ASSUME f # << >>, f[1].op = "Decorate", d = f[1].dec, ds2 = Insert(ds, d), f2 = Tail(f)
             PROVE  Sound(ds2, gs, gd, f2, T2, n) /\ SameThings(T, T2) /\ Plus(ds, d, ds2)
  BY DEF DecorationRead
<1>1. Shaped(ds, gs, gd, f, n) /\ DifferentIds(gs) /\ Distinct(ds) /\ Unique(T)
  BY DEF Sound
<1>2. /\ f2 \in Seq(AllTokens) /\ f[1] \in AllTokens /\ 1 \in 1 .. Len(f)
      /\ \A x : In(x, f) <=> x = f[1] \/ In(x, f2)
      /\ HasOnce(f2) /\ Placed(f2, IdsOf(T)) /\ TargetsLast(f2)
      /\ \A e : Belongs(e, 1, f, IdsOf(T)) => Belongs(e, 0, f2, IdsOf(T))
  <2>1. f \in Seq(AllTokens) /\ HasOnce(f) /\ Placed(f, IdsOf(T)) /\ TargetsLast(f)
    BY DEF Sound, Shaped
  <2> QED BY <2>1, RestOfFile
<1>3. f[1] = Loose(d) /\ d \in Decoration /\ ~IsGroup(f[1])
  BY <1>2, TokenShapes
<1>4. Holds(T, ds, gs, gd, f)
  BY SoundHolds
<1>5. d \in OwnOf(T) /\ \A e : In(e, ds) => e \in OwnOf(T)
  BY <1>2, <1>3, <1>4 DEF Holds
<1>6. ds \in Seq(Decoration) /\ \A e : In(e, ds) /\ Equal(e, d) => e = d
  BY <1>1, <1>5 DEF Unique, Shaped
<1>7. ds2 \in Seq(Decoration) /\ Distinct(ds2) /\ \A e : In(e, ds2) <=> In(e, ds) \/ e = d
  BY <1>1, <1>3, <1>6, Inserted
<1>8. Shaped(ds2, gs, gd, f2, n)
  BY <1>1, <1>2, <1>7 DEF Shaped
<1>9. Holds(T2, ds2, gs, gd, f2)
  BY <1>1, <1>8, TokensHeld DEF Shaped
<1>10. SameThings(T, T2)
  <2>1. \A e : e \in OwnOf(T2) <=> e \in OwnOf(T)
    BY <1>2, <1>3, <1>4, <1>7, <1>9, LooseIsOne, ZenonT(40) DEF Holds
  <2>2. \A id : GroupOf(id) # f[1]
    BY <1>3, LooseIsOne
  <2>3. \A id : id \in IdsOf(T2) <=> id \in IdsOf(T)
    BY <1>2, <1>4, <1>9, <2>2 DEF Holds
  <2>4. \A g : g \in GroupingsOf(T2) <=> g \in GroupingsOf(T)
    BY <1>2, <1>4, <1>9 DEF Holds
  <2> QED BY <2>1, <2>3, <2>4 DEF SameThings
<1>11. IdsOf(T2) = IdsOf(T)
  BY <1>10 DEF SameThings
<1>12. Waiting(ds2, f2, IdsOf(T2))
  <2>1. ASSUME NEW e, In(e, ds) PROVE Belongs(e, 1, f, IdsOf(T))
    <3>1. Belongs(e, 0, f, IdsOf(T))
      BY <2>1 DEF Sound, Waiting
    <3>2. PICK N \in Nat : N = Len(f)
      BY <1>1, LenProperties DEF Shaped
    <3>3. /\ \A id : Ahead(f, 0, id) => Ahead(f, 1, id)
          /\ NoneAfter(f, 0) => NoneAfter(f, 1)
      BY <1>2, <1>3, <3>2, PlainFirst
    <3> QED BY <3>1, <3>3 DEF Belongs
  <2>2. Belongs(d, 1, f, IdsOf(T))
    BY <1>2 DEF Sound, Placed
  <2> QED BY <2>1, <2>2, <1>2, <1>7, <1>11 DEF Waiting
<1>13. Bounds(T2, n) /\ Unique(T2) /\ Strays(T2)
  BY <1>10, SameStays DEF Sound
<1>14. Apart(gs, f2)
  <2>1. ASSUME NEW i \in 1 .. Len(gs), NEW j \in 1 .. Len(f2), IsGroup(f2[j]) PROVE f2[j].id # gs[i].id
    <3>1. In(f2[j], f)
      BY <1>2 DEF In
    <3> QED BY <3>1, <2>1 DEF In, Sound, Apart
  <2> QED BY <2>1 DEF Apart
<1>15. Sound(ds2, gs, gd, f2, T2, n)
  BY <1>1, <1>2, <1>7, <1>8, <1>11, <1>12, <1>13, <1>14 DEF Sound
<1> QED BY <1>7, <1>10, <1>15 DEF Plus

\* DecodeGroup: what was read since the last group is of this one.
GroupRead(ds, gs, f, g, gs2, f2) ==
  /\ f # << >> /\ f[1].op = "DecorationGroup" /\ g = [id |-> f[1].id, decs |-> ds]
  /\ gs2 = Append(gs, g) /\ f2 = Tail(f)

LEMMA ReadGroup ==
  ASSUME NEW ds, NEW gs, NEW gd, NEW f, NEW T, NEW n, Sound(ds, gs, gd, f, T, n),
         NEW g, NEW gs2, NEW f2, GroupRead(ds, gs, f, g, gs2, f2), NEW e, e = << >>,
         NEW T2, T2 = Range(WrittenOf(e, gs2, gd)) \cup Range(f2)
  PROVE  Sound(e, gs2, gd, f2, T2, n) /\ SameThings(T, T2) /\ OfGroups(ds, T)
<1> SUFFICES ASSUME f # << >>, f[1].op = "DecorationGroup", g = [id |-> f[1].id, decs |-> ds],
                    gs2 = Append(gs, g), f2 = Tail(f)
             PROVE  Sound(e, gs2, gd, f2, T2, n) /\ SameThings(T, T2) /\ OfGroups(ds, T)
  BY DEF GroupRead
<1>1. Shaped(ds, gs, gd, f, n) /\ DifferentIds(gs) /\ Apart(gs, f) /\ HasOnce(f) /\ GroupsOwn(gs)
  BY DEF Sound
<1>2. /\ f2 \in Seq(AllTokens) /\ f[1] \in AllTokens /\ 1 \in 1 .. Len(f)
      /\ \A x : In(x, f) <=> x = f[1] \/ In(x, f2)
      /\ HasOnce(f2) /\ Placed(f2, IdsOf(T)) /\ TargetsLast(f2)
      /\ \A d : Belongs(d, 1, f, IdsOf(T)) => Belongs(d, 0, f2, IdsOf(T))
  <2>1. f \in Seq(AllTokens) /\ HasOnce(f) /\ Placed(f, IdsOf(T)) /\ TargetsLast(f)
    BY DEF Sound, Shaped
  <2> QED BY <2>1, RestOfFile
<1>3. f[1] = GroupOf(g.id) /\ g.id \in Nat /\ IsGroup(f[1]) /\ g.decs = ds /\ f[1].id = g.id
  BY <1>2, TokenShapes
<1>29. \A id : GroupOf(id) = f[1] <=> id = g.id
  <2> SUFFICES ASSUME NEW id PROVE GroupOf(id) = f[1] <=> id = g.id
    OBVIOUS
  <2>1. GroupOf(id) = GroupOf(g.id) <=> id = g.id
    BY LooseIsOne
  <2>2. f[1] = GroupOf(g.id)
    BY <1>3
  <2> QED BY <2>1, <2>2
<1>4. Holds(T, ds, gs, gd, f)
  BY SoundHolds
<1>5. g \in Groups
  BY <1>1, <1>3 DEF Shaped, Groups
<1>6. PICK G \in Nat : G = Len(gs)
  BY <1>1, LenProperties DEF Shaped
<1>7. /\ gs2 \in Seq(Groups) /\ Len(gs2) = G + 1 /\ gs2[G + 1] = g
      /\ \A i \in 1 .. G : gs2[i] = gs[i]
  BY <1>1, <1>5, <1>6, AppendProperties DEF Shaped
<1>8. \A i \in 1 .. G + 1 : i \in 1 .. G \/ i = G + 1
  OBVIOUS
<1>9. \A i \in 1 .. G : i \in 1 .. G + 1
  OBVIOUS
<1>10. G + 1 \in 1 .. G + 1
  OBVIOUS
<1>11. ASSUME NEW i \in 1 .. G PROVE gs[i].id # g.id
  BY <1>1, <1>2, <1>3, <1>6 DEF Apart
<1>12. DifferentIds(gs2)
  <2>1. DOMAIN gs2 = 1 .. G + 1 /\ DOMAIN gs = 1 .. G
    BY <1>1, <1>6, <1>7, LenProperties DEF Shaped
  <2>2. ASSUME NEW i \in 1 .. G + 1, NEW j \in 1 .. G + 1, gs2[i].id = gs2[j].id PROVE i = j
    <3>1. CASE i \in 1 .. G /\ j \in 1 .. G
      BY <3>1, <2>1, <2>2, <1>1, <1>7 DEF DifferentIds
    <3>2. CASE i \in 1 .. G /\ j = G + 1
      BY <3>2, <2>2, <1>7, <1>11
    <3>3. CASE i = G + 1 /\ j \in 1 .. G
      BY <3>3, <2>2, <1>7, <1>11
    <3> QED BY <3>1, <3>2, <3>3, <1>8
  <2> QED BY <2>1, <2>2 DEF DifferentIds
<1>13. e \in Seq(Decoration) /\ Len(e) = 0
  BY EmptySeq
<1>14. \A x : ~In(x, e)
  BY <1>13 DEF In
<1>15. Shaped(e, gs2, gd, f2, n)
  BY <1>1, <1>2, <1>7, <1>13 DEF Shaped
<1>16. Holds(T2, e, gs2, gd, f2)
  BY <1>12, <1>15, TokensHeld DEF Shaped
<1>17. \A d : InGroup(d, gs2) <=> InGroup(d, gs) \/ In(d, ds)
  <2> TAKE d
  <2>1. InGroup(d, gs2) <=> \E i \in 1 .. G + 1 : \E k \in 1 .. Len(gs2[i].decs) : d = gs2[i].decs[k]
    BY <1>7 DEF InGroup
  <2>2. InGroup(d, gs) <=> \E i \in 1 .. G : \E k \in 1 .. Len(gs[i].decs) : d = gs[i].decs[k]
    BY <1>6 DEF InGroup
  <2>3. In(d, ds) <=> \E k \in 1 .. Len(g.decs) : d = g.decs[k]
    BY <1>3 DEF In
  <2> QED BY <2>1, <2>2, <2>3, <1>7, <1>8, <1>9, <1>10
<1>18. \A id : (\E i \in 1 .. Len(gs2) : id = gs2[i].id) <=> (\E i \in 1 .. Len(gs) : id = gs[i].id) \/ id = g.id
  BY <1>6, <1>7, <1>8, <1>9, <1>10, ZenonT(40)
<1>19. SameThings(T, T2)
  <2>1. \A d : Loose(d) # f[1]
    BY <1>3, LooseIsOne
  <2>2. \A d : d \in OwnOf(T2) <=> d \in OwnOf(T)
    BY <1>2, <1>4, <1>14, <1>16, <1>17, <2>1 DEF Holds
  <2>3. \A id : GroupOf(id) = f[1] <=> id = g.id
    BY <1>29
  <2>6. \A id : In(GroupOf(id), f) <=> id = g.id \/ In(GroupOf(id), f2)
    BY <1>2, <2>3
  <2>4. \A id : id \in IdsOf(T2) <=> id \in IdsOf(T)
    <3> TAKE id
    <3>1. id \in IdsOf(T2) <=> (\E i \in 1 .. Len(gs2) : id = gs2[i].id) \/ In(GroupOf(id), f2)
      BY <1>16 DEF Holds
    <3>2. id \in IdsOf(T) <=> (\E i \in 1 .. Len(gs) : id = gs[i].id) \/ In(GroupOf(id), f)
      BY <1>4 DEF Holds
    <3>3. (\E i \in 1 .. Len(gs2) : id = gs2[i].id) <=> (\E i \in 1 .. Len(gs) : id = gs[i].id) \/ id = g.id
      BY <1>18
    <3> QED BY <3>1, <3>2, <3>3, <2>6
  <2>5. \A x : x \in GroupingsOf(T2) <=> x \in GroupingsOf(T)
    BY <1>2, <1>4, <1>16 DEF Holds
  <2> QED BY <2>2, <2>4, <2>5 DEF SameThings
<1>20. IdsOf(T2) = IdsOf(T)
  BY <1>19 DEF SameThings
<1>21. ASSUME NEW d, In(d, ds) PROVE d.target = g.id
  <2>1. Belongs(d, 0, f, IdsOf(T))
    BY <1>21 DEF Sound, Waiting
  <2>2. ~NoneAfter(f, 0)
    <3>1. 0 < 1
      OBVIOUS
    <3> QED BY <3>1, <1>2, <1>3 DEF NoneAfter
  <2>3. PICK l \in 1 .. Len(f) : /\ 0 < l /\ f[l] = GroupOf(d.target)
                                 /\ \A h \in 1 .. Len(f) : 0 < h /\ h < l => ~IsGroup(f[h])
    BY <2>1, <2>2 DEF Belongs, Ahead
  <2>4. ~(1 < l)
    <3>1. 1 \in 1 .. Len(f) /\ 0 < 1 /\ IsGroup(f[1])
      BY <1>2, <1>3
    <3> QED BY <3>1, <2>3
  <2>5. l = 1
    BY <2>4, <2>3
  <2> QED BY <2>3, <2>5, <1>29
<1>22. GroupsOwn(gs2)
  <2>1. ASSUME NEW i \in 1 .. G + 1, NEW k \in 1 .. Len(gs2[i].decs) PROVE gs2[i].decs[k].target = gs2[i].id
    <3>1. CASE i \in 1 .. G
      BY <3>1, <2>1, <1>1, <1>6, <1>7 DEF GroupsOwn
    <3>2. CASE i = G + 1
      <4>1. gs2[i] = g /\ k \in 1 .. Len(ds)
        BY <3>2, <2>1, <1>3, <1>7
      <4>2. In(ds[k], ds)
        BY <4>1 DEF In
      <4> QED BY <4>1, <4>2, <1>3, <1>21
    <3> QED BY <3>1, <3>2, <1>8
  <2> QED BY <2>1, <1>7 DEF GroupsOwn
<1>23. Apart(gs2, f2)
  <2>1. ASSUME NEW j \in 1 .. Len(f2), IsGroup(f2[j]) PROVE f2[j].id # g.id
    <3>1. PICK L \in Nat : L = Len(f2)
      BY <1>2, LenProperties
    <3>2. Len(f) = L + 1 /\ f2[j] = f[j + 1]
      BY <3>1, <1>1, TailFacts DEF Shaped
    <3>3. j + 1 \in 1 .. Len(f) /\ j + 1 # 1
      BY <3>1, <3>2
    <3> QED BY <3>2, <3>3, <2>1, <1>1, <1>2, <1>3 DEF HasOnce
  <2>2. ASSUME NEW i \in 1 .. G, NEW j \in 1 .. Len(f2), IsGroup(f2[j]) PROVE f2[j].id # gs[i].id
    <3>1. In(f2[j], f)
      BY <1>2 DEF In
    <3> QED BY <3>1, <2>2, <1>1, <1>6 DEF In, Apart
  <2> QED BY <2>1, <2>2, <1>7, <1>8 DEF Apart
<1>24. Waiting(e, f2, IdsOf(T2))
  BY <1>14 DEF Waiting
<1>25. Distinct(e)
  BY <1>13 DEF Distinct
<1>26. Bounds(T2, n) /\ Unique(T2) /\ Strays(T2)
  BY <1>19, SameStays DEF Sound
<1>27. Sound(e, gs2, gd, f2, T2, n)
  BY <1>2, <1>12, <1>15, <1>20, <1>22, <1>23, <1>24, <1>25, <1>26 DEF Sound
<1>28. g.id \in IdsOf(T)
  BY <1>2, <1>3, <1>4 DEF Holds
<1> QED BY <1>19, <1>21, <1>27, <1>28 DEF OfGroups


\* Behind a group decorate no decoration of a group is left to come.
LEMMA NothingAhead ==
  ASSUME NEW f, NEW m, NoneAfter(f, m), NEW d, NEW ids, Belongs(d, m, f, ids)
  PROVE  d.target \notin ids
<1>1. ~Ahead(f, m, d.target)
  <2> SUFFICES ASSUME Ahead(f, m, d.target) PROVE FALSE
    OBVIOUS
  <2>1. PICK l \in 1 .. Len(f) : m < l /\ f[l] = GroupOf(d.target)
    BY DEF Ahead
  <2> QED BY <2>1, LooseGroup DEF NoneAfter
<1> QED BY <1>1 DEF Belongs

\* With nothing left of the file, or only group decorates, the set has the decorations
\* that are of no group, and the groups have their own.
LEMMA OwnSorted ==
  ASSUME NEW ds, NEW gs, NEW gd, NEW f, NEW T, NEW n, Sound(ds, gs, gd, f, T, n), NoneAfter(f, 0)
  PROVE  /\ \A d : In(d, ds) \/ In(Loose(d), f) => d \in OwnOf(T) /\ d.target \notin IdsOf(T)
         /\ \A i \in 1 .. Len(gs) : \A k \in 1 .. Len(gs[i].decs) :
              /\ gs[i].decs[k] \in OwnOf(T) /\ gs[i].decs[k].target = gs[i].id
              /\ gs[i].id \in IdsOf(T)
         /\ \A d : d \in OwnOf(T) /\ d.target \notin IdsOf(T) => In(d, ds) \/ In(Loose(d), f)
<1>1. Holds(T, ds, gs, gd, f)
  BY SoundHolds
<1>2. ASSUME NEW d, In(d, ds) PROVE d.target \notin IdsOf(T)
  <2>1. Belongs(d, 0, f, IdsOf(T))
    BY <1>2 DEF Sound, Waiting
  <2> QED BY <2>1, NothingAhead
<1>3. ASSUME NEW d, In(Loose(d), f) PROVE d.target \notin IdsOf(T)
  <2>1. PICK j \in 1 .. Len(f) : f[j] = Loose(d)
    BY <1>3 DEF In
  <2>2. f[j].op = "Decorate" /\ f[j].dec = d
    BY <2>1, LooseGroup
  <2>3. Belongs(d, j, f, IdsOf(T))
    BY <2>2 DEF Sound, Placed
  <2>4. ASSUME NEW h \in 1 .. Len(f), j < h PROVE ~IsGroup(f[h])
    <3>1. 0 < h
      OBVIOUS
    <3> QED BY <3>1 DEF NoneAfter
  <2>5. NoneAfter(f, j)
    BY <2>4 DEF NoneAfter
  <2> QED BY <2>3, <2>5, NothingAhead
<1>4. ASSUME NEW i \in 1 .. Len(gs), NEW k \in 1 .. Len(gs[i].decs)
      PROVE  /\ gs[i].decs[k] \in OwnOf(T) /\ gs[i].decs[k].target = gs[i].id
             /\ gs[i].id \in IdsOf(T)
  <2>1. InGroup(gs[i].decs[k], gs)
    BY DEF InGroup
  <2>2. gs[i].decs[k] \in OwnOf(T)
    BY <2>1, <1>1 DEF Holds
  <2>3. gs[i].id \in IdsOf(T)
    BY <1>1 DEF Holds
  <2>4. gs[i].decs[k].target = gs[i].id
    BY DEF Sound, GroupsOwn
  <2> QED BY <2>2, <2>3, <2>4
<1>5. ASSUME NEW d, d \in OwnOf(T), d.target \notin IdsOf(T) PROVE In(d, ds) \/ In(Loose(d), f)
  <2>1. ~InGroup(d, gs)
    BY <1>4, <1>5 DEF InGroup
  <2> QED BY <2>1, <1>1, <1>5 DEF Holds
<1>6. \A d : In(d, ds) \/ In(Loose(d), f) => d \in OwnOf(T)
  BY <1>1 DEF Holds
<1> QED BY <1>2, <1>3, <1>4, <1>5, <1>6

\* DecodeGroupDecorate.
TargetsRead(gs, gd, f, g, i, gd2, f2) ==
  /\ f # << >> /\ g = f[1] /\ g.op = "GroupDecorate" /\ i \in 1 .. Len(gs) /\ gs[i].id = g.group
  /\ gd2 = Append(gd, g) /\ f2 = Tail(f)

LEMMA ReadTargets ==
  ASSUME NEW ds, NEW gs, NEW gd, NEW f, NEW T, NEW n, Sound(ds, gs, gd, f, T, n),
         NEW g, NEW i, NEW gd2, NEW f2, TargetsRead(gs, gd, f, g, i, gd2, f2),
         NEW T2, T2 = Range(WrittenOf(ds, gs, gd2)) \cup Range(f2)
  PROVE  /\ Sound(ds, gs, gd2, f2, T2, n) /\ SameThings(T, T2) /\ g \in TargetTokens
         /\ Plus(gd, g, gd2) /\ GroupHas(OwnOf(T), g, gs[i].decs)
<1> SUFFICES ASSUME f # << >>, g = f[1], g.op = "GroupDecorate", i \in 1 .. Len(gs), gs[i].id = g.group,
                    gd2 = Append(gd, g), f2 = Tail(f)
             PROVE  /\ Sound(ds, gs, gd2, f2, T2, n) /\ SameThings(T, T2) /\ g \in TargetTokens
                    /\ Plus(gd, g, gd2) /\ GroupHas(OwnOf(T), g, gs[i].decs)
  BY DEF TargetsRead
<1>1. Shaped(ds, gs, gd, f, n) /\ DifferentIds(gs)
  BY DEF Sound
<1>2. /\ f2 \in Seq(AllTokens) /\ f[1] \in AllTokens /\ 1 \in 1 .. Len(f)
      /\ \A x : In(x, f) <=> x = f[1] \/ In(x, f2)
      /\ HasOnce(f2) /\ Placed(f2, IdsOf(T)) /\ TargetsLast(f2)
      /\ \A d : Belongs(d, 1, f, IdsOf(T)) => Belongs(d, 0, f2, IdsOf(T))
  <2>1. f \in Seq(AllTokens) /\ HasOnce(f) /\ Placed(f, IdsOf(T)) /\ TargetsLast(f)
    BY DEF Sound, Shaped
  <2> QED BY <2>1, RestOfFile
<1>3. g \in TargetTokens /\ ~IsGroup(f[1])
  BY <1>2, TokenShapes
<1>4. Holds(T, ds, gs, gd, f)
  BY SoundHolds
<1>5. gd2 \in Seq(TargetTokens) /\ \A x : In(x, gd2) <=> In(x, gd) \/ x = g
  <2>1. gd \in Seq(TargetTokens)
    BY <1>1 DEF Shaped
  <2>2. PICK x \in TargetTokens : x = g
    BY <1>3
  <2>3. gd2 = Append(gd, x)
    BY <2>2
  <2>4. gd2 \in Seq(TargetTokens) /\ \A y : In(y, gd2) <=> In(y, gd) \/ y = x
    BY <2>1, <2>3, Appended, ZenonT(40)
  <2> QED BY <2>2, <2>4
<1>6. Shaped(ds, gs, gd2, f2, n)
  BY <1>1, <1>2, <1>5 DEF Shaped
<1>7. Holds(T2, ds, gs, gd2, f2)
  BY <1>1, <1>6, TokensHeld DEF Shaped
<1>8. SameThings(T, T2)
  <2>1. \A d : Loose(d) # f[1] /\ GroupOf(d) # f[1]
    BY LooseGroup
  <2>2. \A d : d \in OwnOf(T2) <=> d \in OwnOf(T)
    BY <1>2, <1>4, <1>7, <2>1 DEF Holds
  <2>3. \A id : In(GroupOf(id), f) <=> In(GroupOf(id), f2)
    BY <1>2, <2>1
  <2>4. \A id : id \in IdsOf(T2) <=> id \in IdsOf(T)
    BY <1>4, <1>7, <2>3 DEF Holds
  <2>5. \A x : x \in GroupingsOf(T2) <=> x \in GroupingsOf(T)
    <3> TAKE x
    <3>1. x \in GroupingsOf(T2) <=> In(x, gd2) \/ (In(x, f2) /\ x.op = "GroupDecorate")
      BY <1>7 DEF Holds
    <3>2. x \in GroupingsOf(T) <=> In(x, gd) \/ (In(x, f) /\ x.op = "GroupDecorate")
      BY <1>4 DEF Holds
    <3> QED BY <3>1, <3>2, <1>2, <1>5
  <2> QED BY <2>2, <2>4, <2>5 DEF SameThings
<1>9. IdsOf(T2) = IdsOf(T)
  BY <1>8 DEF SameThings
<1>10. NoneAfter(f, 0)
  <2>1. NoneAfter(f, 1)
    BY <1>2 DEF Sound, TargetsLast
  <2>2. ASSUME NEW h \in 1 .. Len(f), 0 < h PROVE ~IsGroup(f[h])
    <3>1. h = 1 \/ 1 < h
      OBVIOUS
    <3> QED BY <3>1, <2>1, <1>3 DEF NoneAfter
  <2> QED BY <2>2 DEF NoneAfter
<1>11. NoneAfter(f2, 0)
  <2>1. ASSUME NEW h \in 1 .. Len(f2) PROVE ~IsGroup(f2[h])
    <3>1. In(f2[h], f)
      BY <1>2 DEF In
    <3>2. PICK l \in 1 .. Len(f) : f2[h] = f[l]
      BY <3>1 DEF In
    <3>3. 0 < l
      OBVIOUS
    <3> QED BY <3>2, <3>3, <1>10 DEF NoneAfter
  <2> QED BY <2>1 DEF NoneAfter
<1>12. Waiting(ds, f2, IdsOf(T2))
  <2>1. \A d : In(d, ds) => d.target \notin IdsOf(T)
    BY <1>10, OwnSorted
  <2> QED BY <2>1, <1>9, <1>11 DEF Waiting, Belongs
<1>13. Apart(gs, f2)
  <2>1. ASSUME NEW h \in 1 .. Len(gs), NEW j \in 1 .. Len(f2), IsGroup(f2[j]) PROVE f2[j].id # gs[h].id
    <3>1. In(f2[j], f)
      BY <1>2 DEF In
    <3> QED BY <3>1, <2>1 DEF In, Sound, Apart
  <2> QED BY <2>1 DEF Apart
<1>14. Bounds(T2, n) /\ Unique(T2) /\ Strays(T2)
  BY <1>8, SameStays DEF Sound
<1>15. Sound(ds, gs, gd2, f2, T2, n)
  <2>1. Distinct(ds) /\ GroupsOwn(gs)
    BY DEF Sound
  <2> QED BY <2>1, <1>1, <1>2, <1>6, <1>9, <1>12, <1>13, <1>14 DEF Sound
<1>16. ASSUME NEW d PROVE d \in OwnOf(T) /\ d.target = g.group <=> In(d, gs[i].decs)
  <2>1. ASSUME In(d, gs[i].decs) PROVE d \in OwnOf(T) /\ d.target = g.group
    <3>1. PICK k \in 1 .. Len(gs[i].decs) : d = gs[i].decs[k]
      BY <2>1 DEF In
    <3> QED BY <3>1, <1>10, OwnSorted
  <2>2. ASSUME d \in OwnOf(T), d.target = g.group PROVE In(d, gs[i].decs)
    <3>1. gs[i].id \in IdsOf(T)
      BY <1>4 DEF Holds
    <3>2. ~In(d, ds) /\ ~In(Loose(d), f)
      BY <3>1, <2>2, <1>10, OwnSorted
    <3>3. InGroup(d, gs)
      BY <3>2, <2>2, <1>4 DEF Holds
    <3>4. PICK h \in 1 .. Len(gs) : \E k \in 1 .. Len(gs[h].decs) : d = gs[h].decs[k]
      BY <3>3 DEF InGroup
    <3>5. PICK k \in 1 .. Len(gs[h].decs) : d = gs[h].decs[k]
      BY <3>4
    <3>6. gs[h].id = g.group
      BY <3>5, <2>2, <1>10, OwnSorted
    <3>7. DOMAIN gs = 1 .. Len(gs)
      BY <1>1, LenProperties DEF Shaped
    <3>8. h = i
      BY <3>6, <3>7, <1>1 DEF DifferentIds
    <3> QED BY <3>5, <3>8 DEF In
  <2> QED BY <2>1, <2>2
<1> QED BY <1>3, <1>5, <1>8, <1>15, <1>16 DEF Plus, GroupHas


\* Write: the file holds what the module held.
LEMMA WriteAll ==
  ASSUME NEW ds, NEW gs, NEW gd, NEW e, e = << >>, NEW T, NEW n, Sound(ds, gs, gd, e, T, n),
         NEW w, w = WrittenOf(ds, gs, gd),
         NEW T2, T2 = Range(WrittenOf(e, e, e)) \cup Range(w)
  PROVE  Sound(e, e, e, w, T2, n) /\ SameThings(T, T2)
<1>1. Shaped(ds, gs, gd, e, n) /\ DifferentIds(gs) /\ GroupsOwn(gs)
  BY DEF Sound
<1>2. Arranged(w, ds, gs, gd)
  BY <1>1, WrittenLaid DEF Shaped
<1>3. e \in Seq(Decoration) /\ e \in Seq(Groups) /\ e \in Seq(TargetTokens) /\ Len(e) = 0
  BY EmptySeq
<1>4. \A x : ~In(x, e) /\ ~InGroup(x, e)
  BY <1>3 DEF In, InGroup
<1>5. Shaped(e, e, e, w, n)
  BY <1>1, <1>2, <1>3 DEF Shaped, Arranged
<1>6. DifferentIds(e) /\ GroupsOwn(e) /\ Distinct(e) /\ Apart(e, w)
  <2>1. DOMAIN e = {}
    BY <1>3, LenProperties
  <2> QED BY <2>1, <1>3 DEF DifferentIds, GroupsOwn, Distinct, Apart
<1>7. Holds(T2, e, e, e, w)
  BY <1>3, <1>5, <1>6, TokensHeld DEF Shaped
<1>8. Holds(T, ds, gs, gd, e)
  BY SoundHolds
<1>9. T \subseteq AllTokens /\ \A t : t \in T <=> In(t, w)
  <2>1. T = Range(w) \cup Range(e)
    BY DEF Sound
  <2>2. Range(e) = {}
    BY <1>3, LenProperties DEF Range
  <2>3. w \in Seq(AllTokens)
    BY <1>2 DEF Arranged
  <2>4. \A t : t \in Range(w) <=> In(t, w)
    BY <2>3, LenProperties DEF Range, In
  <2> QED BY <2>1, <2>2, <2>4, <1>8 DEF Holds
<1>10. SameThings(T, T2)
  <2>1. \A d : d \in OwnOf(T) <=> In(Loose(d), w)
    BY <1>9, TokenKinds
  <2>2. \A d : d \in OwnOf(T2) <=> In(Loose(d), w)
    BY <1>4, <1>7 DEF Holds
  <2>3. \A id : id \in IdsOf(T) <=> In(GroupOf(id), w)
    BY <1>9, TokenKinds
  <2>4. \A id : id \in IdsOf(T2) <=> In(GroupOf(id), w)
    <3> TAKE id
    <3>1. id \in IdsOf(T2) <=> (\E i \in 1 .. Len(e) : id = e[i].id) \/ In(GroupOf(id), w)
      BY <1>7 DEF Holds
    <3> QED BY <3>1, <1>3
  <2>5. \A g : g \in GroupingsOf(T) <=> In(g, w) /\ g.op = "GroupDecorate"
    BY <1>9 DEF GroupingsOf
  <2>6. \A g : g \in GroupingsOf(T2) <=> In(g, w) /\ g.op = "GroupDecorate"
    BY <1>4, <1>7 DEF Holds
  <2> QED BY <2>1, <2>2, <2>3, <2>4, <2>5, <2>6 DEF SameThings
<1>11. IdsOf(T2) = IdsOf(T)
  BY <1>10 DEF SameThings
<1>12. NoneAfter(e, 0)
  BY <1>3 DEF NoneAfter
<1>13. ASSUME NEW m \in 1 .. Len(w), FromGroup(w, m, gs)
       PROVE  /\ w[m].op # "GroupDecorate"
              /\ w[m].op = "Decorate" => Ahead(w, m, w[m].dec.target)
  <2>1. PICK i \in 1 .. Len(gs) :
          \/ w[m] = GroupOf(gs[i].id)
          \/ \E k \in 1 .. Len(gs[i].decs) : w[m] = Loose(gs[i].decs[k]) /\ Ahead(w, m, gs[i].id)
    BY <1>13 DEF FromGroup
  <2>2. CASE w[m] = GroupOf(gs[i].id)
    BY <2>2, LooseGroup
  <2>3. CASE \E k \in 1 .. Len(gs[i].decs) : w[m] = Loose(gs[i].decs[k]) /\ Ahead(w, m, gs[i].id)
    <3>1. PICK k \in 1 .. Len(gs[i].decs) : w[m] = Loose(gs[i].decs[k]) /\ Ahead(w, m, gs[i].id)
      BY <2>3
    <3>2. gs[i].decs[k].target = gs[i].id
      BY <1>1 DEF GroupsOwn
    <3>3. w[m].op = "Decorate" /\ w[m].dec = gs[i].decs[k]
      BY <3>1, LooseGroup
    <3> QED BY <3>1, <3>2, <3>3
  <2> QED BY <2>1, <2>2, <2>3
<1>14. ASSUME NEW m \in 1 .. Len(w), NEW i \in 1 .. Len(ds), w[m] = Loose(ds[i])
       PROVE  w[m].op # "GroupDecorate" /\ w[m].dec.target \notin IdsOf(T)
  <2>1. w[m].op = "Decorate" /\ w[m].dec = ds[i]
    BY <1>14, LooseGroup
  <2>2. In(ds[i], ds)
    BY DEF In
  <2>3. ds[i].target \notin IdsOf(T)
    BY <2>2, <1>12, OwnSorted
  <2> QED BY <2>1, <2>3
<1>15. ASSUME NEW m \in 1 .. Len(w), NEW i \in 1 .. Len(gd), w[m] = gd[i]
       PROVE  w[m].op # "Decorate"
  <2>1. gd[i] \in TargetTokens
    BY <1>1, ElementOfSeq DEF Shaped
  <2> QED BY <2>1, <1>15 DEF TargetTokens
<1>16. ASSUME NEW m \in 1 .. Len(w)
       PROVE  \/ FromGroup(w, m, gs)
              \/ \E i \in 1 .. Len(ds) : w[m] = Loose(ds[i]) /\ NoneAfter(w, m)
              \/ \E i \in 1 .. Len(gd) : w[m] = gd[i] /\ NoneAfter(w, m)
  BY <1>2 DEF Arranged
<1>17. Placed(w, IdsOf(T2))
  <2>1. ASSUME NEW m \in 1 .. Len(w), w[m].op = "Decorate"
        PROVE  Belongs(w[m].dec, m, w, IdsOf(T))
    <3>1. CASE FromGroup(w, m, gs)
      BY <3>1, <2>1, <1>13 DEF Belongs
    <3>2. CASE \E i \in 1 .. Len(ds) : w[m] = Loose(ds[i]) /\ NoneAfter(w, m)
      BY <3>2, <1>14 DEF Belongs
    <3>3. CASE \E i \in 1 .. Len(gd) : w[m] = gd[i] /\ NoneAfter(w, m)
      BY <3>3, <2>1, <1>15
    <3> QED BY <3>1, <3>2, <3>3, <1>16
  <2> QED BY <2>1, <1>11 DEF Placed
<1>18. TargetsLast(w)
  <2>1. ASSUME NEW m \in 1 .. Len(w), w[m].op = "GroupDecorate" PROVE NoneAfter(w, m)
    <3>1. ~FromGroup(w, m, gs)
      BY <2>1, <1>13
    <3> QED BY <3>1, <1>16
  <2> QED BY <2>1 DEF TargetsLast
<1>19. Waiting(e, w, IdsOf(T2))
  BY <1>4 DEF Waiting
<1>20. Bounds(T2, n) /\ Unique(T2) /\ Strays(T2)
  BY <1>10, SameStays DEF Sound
<1>21. HasOnce(w)
  BY <1>2 DEF Arranged
<1>22. Sound(e, e, e, w, T2, n)
  BY <1>5, <1>6, <1>17, <1>18, <1>19, <1>20, <1>21 DEF Sound
<1> QED BY <1>10, <1>22


MeaningOf(T) == MeaningBy(OwnOf(T), GroupingsOf(T), OwnOf(T))

LEMMA EmptyFacts ==
  ASSUME NEW e, e = << >>
  PROVE  /\ e \in Seq(Decoration) /\ e \in Seq(Groups) /\ e \in Seq(TargetTokens)
         /\ e \in Seq(AllTokens) /\ Len(e) = 0 /\ Range(e) = {}
         /\ \A x : ~In(x, e) /\ ~InGroup(x, e)
         /\ HasOnce(e) /\ DifferentIds(e) /\ GroupsOwn(e) /\ Distinct(e) /\ TargetsLast(e)
         /\ NoneAfter(e, 0)
         /\ \A s : Apart(s, e) /\ Apart(e, s)
         /\ \A ids : Placed(e, ids)
<1>1. e \in Seq(Decoration) /\ e \in Seq(Groups) /\ e \in Seq(TargetTokens) /\ e \in Seq(AllTokens)
  BY EmptySeq
<1>2. Len(e) = 0 /\ 1 .. Len(e) = {} /\ DOMAIN e = {}
  BY <1>1, EmptySeq, LenProperties
<1>3. \A x : ~In(x, e) /\ ~InGroup(x, e)
  BY <1>2 DEF In, InGroup
<1>4. HasOnce(e) /\ DifferentIds(e) /\ GroupsOwn(e) /\ Distinct(e) /\ TargetsLast(e) /\ NoneAfter(e, 0)
  BY <1>2 DEF HasOnce, DifferentIds, GroupsOwn, Distinct, TargetsLast, NoneAfter
<1>5. \A s : Apart(s, e) /\ Apart(e, s)
  BY <1>2 DEF Apart
<1>6. \A ids : Placed(e, ids)
  BY <1>2 DEF Placed
<1>7. Range(e) = {}
  BY <1>2 DEF Range
<1> QED BY <1>1, <1>2, <1>3, <1>4, <1>5, <1>6, <1>7

\* Two decorations of a target, one of them not of a member, are the same when equal.
LEMMA EqualIsSame ==
  ASSUME NEW d \in Decoration, NEW e \in Decoration, d.member = 0, Equal(d, e) \/ Equal(e, d)
  PROVE  d = e
<1>1. d.target = e.target /\ <<d.member # 0, d.kind>> = <<e.member # 0, e.kind>>
  BY DEF Equal, Class
<1>2. (d.member # 0) = (e.member # 0) /\ d.kind = e.kind
  BY <1>1
<1>3. e.member = 0
  BY <1>2
<1> QED BY <1>1, <1>2, <1>3 DEF Decoration

\* The module that is built, or a file that another program has written.
LEMMA StartsSound ==
  ASSUME NEW e, e = << >>,
         NEW decs \in Seq([target : Targets, member : Members \cup {0}, kind : Kinds]),
         \A i, j \in DOMAIN decs : Equal(decs[i], decs[j]) => decs[i] = decs[j],
         NEW f, f = Map(Loose, decs),
         NEW T, T = Range(WrittenOf(e, e, e)) \cup Range(f)
  PROVE  Sound(e, e, e, f, T, FirstId) /\ \A d : d \in OwnOf(T) <=> In(d, decs)
<1>1. PICK L \in Nat : L = Len(decs)
  BY LenProperties
<1>2. DOMAIN decs = 1 .. L
  BY <1>1, LenProperties
<1>3. f = [i \in 1 .. L |-> Loose(decs[i])]
  BY <1>2 DEF Map
<1>4. \A i \in 1 .. L : decs[i] \in [target : Targets, member : Members \cup {0}, kind : Kinds]
  BY <1>1, ElementOfSeq
<1>5. \A i \in 1 .. L : decs[i].target \in Targets /\ decs[i] \in Decoration
  <2>1. Targets \subseteq Nat
    BY DecorationsAssumption
  <2> TAKE i \in 1 .. L
  <2>2. PICK d \in [target : Targets, member : Members \cup {0}, kind : Kinds] : d = decs[i]
    BY <1>4
  <2>3. d.target \in Targets /\ d \in Decoration
    BY <2>1 DEF Decoration
  <2> QED BY <2>2, <2>3
<1>6. \A i \in 1 .. L : Loose(decs[i]) \in AllTokens
  BY <1>5 DEF Loose, AllTokens, DecorateTokens
<1>7. f \in Seq(AllTokens) /\ Len(f) = L
  BY <1>3, <1>6
<1>8. \A i \in 1 .. L : f[i] = Loose(decs[i])
  BY <1>3
<1>9. \A i \in 1 .. L : ~IsGroup(f[i]) /\ f[i].op = "Decorate" /\ f[i].dec = decs[i]
  <2> TAKE i \in 1 .. L
  <2>1. PICK d : d = decs[i]
    OBVIOUS
  <2>2. f[i] = Loose(d)
    BY <2>1, <1>8
  <2>3. ~IsGroup(Loose(d)) /\ Loose(d).op = "Decorate" /\ Loose(d).dec = d
    BY LooseGroup
  <2> QED BY <2>1, <2>2, <2>3
<1>10. Shaped(e, e, e, f, FirstId)
  BY <1>7, EmptyFacts, DecorationsAssumption DEF Shaped
<1>11. Holds(T, e, e, e, f)
  BY <1>10, EmptyFacts, TokensHeld DEF Shaped
<1>12. \A d : d \in OwnOf(T) <=> In(d, decs)
  <2> TAKE d
  <2>1. d \in OwnOf(T) <=> In(Loose(d), f)
    BY <1>11, EmptyFacts DEF Holds
  <2>2. In(Loose(d), f) <=> \E i \in 1 .. L : Loose(d) = Loose(decs[i])
    BY <1>7, <1>8 DEF In
  <2>3. In(d, decs) <=> \E i \in 1 .. L : d = decs[i]
    BY <1>1 DEF In
  <2>4. \A i \in 1 .. L : Loose(d) = Loose(decs[i]) <=> d = decs[i]
    BY LooseIsOne
  <2> QED BY <2>1, <2>2, <2>3, <2>4
<1>13. \A id : id \notin IdsOf(T)
  <2> TAKE id
  <2>1. ~In(GroupOf(id), f)
    <3>1. IsGroup(GroupOf(id))
      BY LooseGroup
    <3> QED BY <3>1, <1>7, <1>9 DEF In
  <2>2. id \in IdsOf(T) <=> (\E i \in 1 .. Len(e) : id = e[i].id) \/ In(GroupOf(id), f)
    BY <1>11 DEF Holds
  <2>3. Len(e) = 0
    BY EmptyFacts
  <2> QED BY <2>1, <2>2, <2>3
<1>14. \A g : g \notin GroupingsOf(T)
  <2> TAKE g
  <2>1. ~(In(g, f) /\ g.op = "GroupDecorate")
    BY <1>7, <1>9 DEF In
  <2>2. ~In(g, e)
    BY EmptyFacts
  <2> QED BY <2>1, <2>2, <1>11 DEF Holds
<1>15. \A d \in OwnOf(T) : d.target \in Targets
  BY <1>1, <1>5, <1>12 DEF In
<1>16. \A m : NoneAfter(f, m)
  BY <1>7, <1>9 DEF NoneAfter
<1>17. HasOnce(f) /\ TargetsLast(f)
  BY <1>7, <1>9, <1>16 DEF HasOnce, TargetsLast
<1>18. Placed(f, IdsOf(T)) /\ Waiting(e, f, IdsOf(T))
  BY <1>13, <1>16, EmptyFacts DEF Placed, Waiting, Belongs
<1>19. Bounds(T, FirstId)
  <2>1. \A t \in Targets : t < FirstId
    BY DecorationsAssumption
  <2> QED BY <2>1, <1>13, <1>14, <1>15 DEF Bounds
<1>20. Unique(T)
  BY <1>1, <1>2, <1>12 DEF Unique, In
<1>21. Strays(T)
  BY <1>15 DEF Strays
<1>22. Sound(e, e, e, f, T, FirstId)
  BY <1>10, <1>17, <1>18, <1>19, <1>20, <1>21, EmptyFacts DEF Sound
<1> QED BY <1>12, <1>22

\* Decorate: a decoration of a target is added to a module that is built.
ForTargets(ds) == \A x : In(x, ds) => x.target \in Targets

LEMMA AddDecoration ==
  ASSUME NEW ds, NEW e, e = << >>, NEW T, NEW n, Sound(ds, e, e, e, T, n),
         ForTargets(ds), NEW d \in Decoration, d.target \in Targets, d.member = 0,
         NEW ds2, ds2 = Insert(ds, d),
         NEW T2, T2 = Range(WrittenOf(ds2, e, e)) \cup Range(e)
  PROVE  Sound(ds2, e, e, e, T2, n) /\ Plus(ds, d, ds2)
<1>1. Shaped(ds, e, e, e, n) /\ Distinct(ds) /\ Unique(T)
  BY DEF Sound
<1>2. Holds(T, ds, e, e, e)
  BY SoundHolds
<1>3. \A x : x \in OwnOf(T) <=> In(x, ds)
  BY <1>2, EmptyFacts DEF Holds
<1>4. \A x \in OwnOf(T) : x \in Decoration
  <2>1. T \subseteq AllTokens
    BY <1>2 DEF Holds
  <2> QED BY <2>1, TokenKinds
<1>5. \A x : In(x, ds) /\ Equal(x, d) => x = d
  BY <1>3, <1>4, EqualIsSame
<1>6. ds2 \in Seq(Decoration) /\ Distinct(ds2) /\ \A x : In(x, ds2) <=> In(x, ds) \/ x = d
  <2>1. ds \in Seq(Decoration)
    BY <1>1 DEF Shaped
  <2> QED BY <2>1, <1>1, <1>5, Inserted
<1>7. Shaped(ds2, e, e, e, n)
  BY <1>1, <1>6 DEF Shaped
<1>8. Holds(T2, ds2, e, e, e)
  BY <1>7, EmptyFacts, TokensHeld DEF Shaped
<1>9. \A x : x \in OwnOf(T2) <=> In(x, ds2)
  BY <1>8, EmptyFacts DEF Holds
<1>10. \A g : g \notin GroupingsOf(T) /\ g \notin GroupingsOf(T2)
  BY <1>2, <1>8, EmptyFacts DEF Holds
<1>11. \A id : id \notin IdsOf(T2)
  <2> TAKE id
  <2>1. id \in IdsOf(T2) <=> (\E i \in 1 .. Len(e) : id = e[i].id) \/ In(GroupOf(id), e)
    BY <1>8 DEF Holds
  <2>2. Len(e) = 0 /\ ~In(GroupOf(id), e)
    BY EmptyFacts
  <2> QED BY <2>1, <2>2
<1>12. \A x \in OwnOf(T2) : x.target \in Targets
  BY <1>6, <1>9 DEF ForTargets
<1>13. Bounds(T2, n)
  <2>1. \A t \in Targets : t < n
    BY <1>1, DecorationsAssumption DEF Shaped
  <2> QED BY <2>1, <1>10, <1>11, <1>12 DEF Bounds
<1>14. Unique(T2)
  <2>1. \A x \in OwnOf(T2) : x \in OwnOf(T) \/ x = d
    BY <1>3, <1>6, <1>9
  <2>2. \A x \in OwnOf(T) : Equal(x, d) \/ Equal(d, x) => x = d
    BY <1>4, EqualIsSame
  <2> QED BY <2>1, <2>2, <1>1 DEF Unique
<1>15. Strays(T2)
  BY <1>12 DEF Strays
<1>16. Waiting(ds2, e, IdsOf(T2))
  BY <1>11, EmptyFacts DEF Waiting, Belongs
<1>17. Sound(ds2, e, e, e, T2, n)
  BY <1>6, <1>7, <1>13, <1>14, <1>15, <1>16, EmptyFacts DEF Sound
<1> QED BY <1>6, <1>17 DEF Plus


\* What optimizeDecorates() finds in an equal range of no member decorations.
InRange(c, ds, r, T, n) ==
  /\ r \in Seq(Decoration) /\ Distinct(r)
  /\ \A x : In(x, r) <=> In(x, ds) /\ Class(x) = c
  /\ \A x : In(x, r) => /\ x \in OwnOf(T) /\ x \in Decoration /\ x.target \notin IdsOf(T)
                        /\ x.target < n /\ x.member = 0 /\ x.kind = c[2]
  /\ IsFiniteSet(TogetherOf(c, T)) /\ Cardinality(TogetherOf(c, T)) = Len(r)

LEMMA RangeFacts ==
  ASSUME NEW ds, NEW gs, NEW gd, NEW e, e = << >>, NEW T, NEW n, Sound(ds, gs, gd, e, T, n),
         NEW c, ~c[1], NEW r, r = InClass(c, ds)
  PROVE  /\ InRange(c, ds, r, T, n)
         /\ \A x : In(x, ds) <=> x \in OwnOf(T) /\ x.target \notin IdsOf(T)
<1>1. ds \in Seq(Decoration) /\ Distinct(ds)
  BY DEF Sound, Shaped
<1>2. /\ r \in Seq(Decoration) /\ Distinct(r)
      /\ \A x : In(x, r) <=> In(x, ds) /\ Class(x) = c
  BY <1>1, InClassFacts
<1>3. \A x : In(x, ds) <=> x \in OwnOf(T) /\ x.target \notin IdsOf(T)
  <2>1. NoneAfter(e, 0)
    BY EmptyFacts
  <2>2. \A x : ~In(Loose(x), e)
    BY EmptyFacts
  <2> QED BY <2>1, <2>2, OwnSorted
<1>4. IsFiniteSet(TogetherOf(c, T)) /\ Cardinality(TogetherOf(c, T)) = Len(r)
  BY <1>1, <1>3, ClassSize
<1>5. \A x \in OwnOf(T) : x \in Decoration /\ x.target < n
  <2>1. Holds(T, ds, gs, gd, e)
    BY SoundHolds
  <2>2. T \subseteq AllTokens
    BY <2>1 DEF Holds
  <2>3. \A x \in OwnOf(T) : x \in Decoration
    BY <2>2, TokenKinds
  <2> QED BY <2>3 DEF Sound, Bounds
<1>6. ASSUME NEW x, In(x, r) PROVE x.member = 0 /\ x.kind = c[2]
  <2>1. c = <<x.member # 0, x.kind>>
    BY <1>2, <1>6 DEF Class
  <2>2. c[1] = (x.member # 0) /\ c[2] = x.kind
    BY <2>1
  <2> QED BY <2>2
<1>7. \A x : In(x, r) => x \in OwnOf(T) /\ x.target \notin IdsOf(T)
  BY <1>2, <1>3
<1> QED BY <1>2, <1>3, <1>4, <1>5, <1>6, <1>7 DEF InRange

\* What the module holds once the decorations Out of a class c went, and R came.
Turned(T, T2, Out, R, n) ==
  /\ \A x : x \in OwnOf(T2) <=> x = R \/ (x \in OwnOf(T) /\ x \notin Out)
  /\ R.target = n /\ R.member = 0
  /\ \A x \in Out : x \in OwnOf(T) /\ x.target \notin IdsOf(T)

AllOf(Out, c)     == \A x \in Out : Class(x) = c
TargetsNat(T)     == \A x \in OwnOf(T) : x.target \in Nat
OneMore(T, T2, n) == IdsOf(T) \subseteq IdsOf(T2) /\ \A id \in IdsOf(T2) : id \in IdsOf(T) \/ id = n

\* The decorations of another class, or of a group, stay as they are.
LEMMA OthersStay ==
  ASSUME NEW T, NEW T2, NEW Out, NEW R, NEW n \in Nat, Turned(T, T2, Out, R, n), Bounds(T, n),
         AllOf(Out, Class(R)), TargetsNat(T), OneMore(T, T2, n), NEW k, k # Class(R)
  PROVE  TogetherOf(k, T2) = TogetherOf(k, T)
<1>1. ASSUME NEW x, x \in OwnOf(T), x.target \notin IdsOf(T), Class(x) = k
      PROVE  x \in OwnOf(T2) /\ x.target \notin IdsOf(T2)
  <2>1. x.target < n /\ x.target \in Nat
    BY <1>1 DEF Bounds, TargetsNat
  <2>2. x.target # n
    BY <2>1
  <2>3. x \notin Out
    BY <1>1 DEF AllOf
  <2> QED BY <2>2, <2>3, <1>1 DEF Turned, OneMore
<1>2. ASSUME NEW x, x \in OwnOf(T2), x.target \notin IdsOf(T2), Class(x) = k
      PROVE  x \in OwnOf(T) /\ x.target \notin IdsOf(T)
  <2>1. x # R
    BY <1>2
  <2> QED BY <2>1, <1>2 DEF Turned, OneMore
<1> QED BY <1>1, <1>2 DEF TogetherOf

LEMMA TurnedUnique ==
  ASSUME NEW T, NEW T2, NEW Out, NEW R, NEW n \in Nat, Turned(T, T2, Out, R, n), Bounds(T, n),
         TargetsNat(T), Unique(T)
  PROVE  Unique(T2)
<1>1. ASSUME NEW x \in OwnOf(T) PROVE ~Equal(x, R) /\ ~Equal(R, x)
  <2>1. x.target < n /\ x.target \in Nat
    BY DEF Bounds, TargetsNat
  <2>2. x.target # R.target
    BY <2>1 DEF Turned
  <2> QED BY <2>2 DEF Equal
<1>2. \A x \in OwnOf(T2) : x \in OwnOf(T) \/ x = R
  BY DEF Turned
<1> QED BY <1>1, <1>2 DEF Unique


\* GroupClass: an equal range becomes a group.
GroupMade(ds, gs, gd, c, n, r, R, g, h, ds2, gs2, gd2) ==
  /\ r = InClass(c, ds) /\ R = Retarget(r[1], n)
  /\ g = [id |-> n, decs |-> <<R>>] /\ h = Grouped(n, TargetsOf(r))
  /\ gs2 = Append(gs, g) /\ gd2 = Append(gd, h) /\ ds2 = OutOf(c, ds)

GroupAdded(gs, g, r) ==
  /\ r \in Seq(Groups)
  /\ \A x : InGroup(x, r) <=> InGroup(x, gs) \/ In(x, g.decs)
  /\ \A id : (\E i \in 1 .. Len(r) : id = r[i].id)
             <=> (\E i \in 1 .. Len(gs) : id = gs[i].id) \/ id = g.id

LEMMA GroupAppended ==
  ASSUME NEW gs \in Seq(Groups), NEW g \in Groups, NEW r, r = Append(gs, g)
  PROVE  /\ GroupAdded(gs, g, r)
         /\ GroupsOwn(gs) /\ (\A x : In(x, g.decs) => x.target = g.id) => GroupsOwn(r)
         /\ DifferentIds(gs) /\ (\A i \in 1 .. Len(gs) : gs[i].id # g.id) => DifferentIds(r)
<1>1. PICK G \in Nat : G = Len(gs)
  BY LenProperties
<1>2. r \in Seq(Groups) /\ Len(r) = G + 1 /\ r[G + 1] = g /\ \A i \in 1 .. G : r[i] = gs[i]
  BY <1>1, AppendProperties
<1>3. \A i \in 1 .. G + 1 : i \in 1 .. G \/ i = G + 1
  OBVIOUS
<1>4. \A i \in 1 .. G : i \in 1 .. G + 1
  OBVIOUS
<1>5. G + 1 \in 1 .. G + 1
  OBVIOUS
<1>6. ASSUME NEW x PROVE InGroup(x, r) <=> InGroup(x, gs) \/ In(x, g.decs)
  <2>1. InGroup(x, r) <=> \E i \in 1 .. G + 1 : \E k \in 1 .. Len(r[i].decs) : x = r[i].decs[k]
    BY <1>2 DEF InGroup
  <2>2. InGroup(x, gs) <=> \E i \in 1 .. G : \E k \in 1 .. Len(gs[i].decs) : x = gs[i].decs[k]
    BY <1>1 DEF InGroup
  <2>3. In(x, g.decs) <=> \E k \in 1 .. Len(g.decs) : x = g.decs[k]
    BY DEF In
  <2> QED BY <2>1, <2>2, <2>3, <1>2, <1>3, <1>4, <1>5
<1>7. ASSUME NEW id
      PROVE  (\E i \in 1 .. Len(r) : id = r[i].id) <=> (\E i \in 1 .. Len(gs) : id = gs[i].id) \/ id = g.id
  BY <1>1, <1>2, <1>3, <1>4, <1>5
<1>8. ASSUME GroupsOwn(gs), \A x : In(x, g.decs) => x.target = g.id PROVE GroupsOwn(r)
  <2>1. ASSUME NEW i \in 1 .. G + 1, NEW k \in 1 .. Len(r[i].decs) PROVE r[i].decs[k].target = r[i].id
    <3>1. CASE i \in 1 .. G
      BY <3>1, <2>1, <1>1, <1>2, <1>8 DEF GroupsOwn
    <3>2. CASE i = G + 1
      <4>1. r[i] = g /\ k \in 1 .. Len(g.decs)
        BY <3>2, <2>1, <1>2
      <4>2. In(g.decs[k], g.decs)
        BY <4>1 DEF In
      <4> QED BY <4>1, <4>2, <1>8
    <3> QED BY <3>1, <3>2, <1>3
  <2> QED BY <2>1, <1>2 DEF GroupsOwn
<1>9. ASSUME DifferentIds(gs), \A i \in 1 .. Len(gs) : gs[i].id # g.id PROVE DifferentIds(r)
  <2>1. DOMAIN r = 1 .. G + 1 /\ DOMAIN gs = 1 .. G
    BY <1>1, <1>2, LenProperties
  <2>2. ASSUME NEW i \in 1 .. G + 1, NEW j \in 1 .. G + 1, r[i].id = r[j].id PROVE i = j
    <3>1. CASE i \in 1 .. G /\ j \in 1 .. G
      BY <3>1, <2>1, <2>2, <1>2, <1>9 DEF DifferentIds
    <3>2. CASE i \in 1 .. G /\ j = G + 1
      BY <3>2, <2>2, <1>1, <1>2, <1>9
    <3>3. CASE i = G + 1 /\ j \in 1 .. G
      BY <3>3, <2>2, <1>1, <1>2, <1>9
    <3> QED BY <3>1, <3>2, <3>3, <1>3
  <2> QED BY <2>1, <2>2 DEF DifferentIds
<1> QED BY <1>2, <1>6, <1>7, <1>8, <1>9 DEF GroupAdded

LEMMA MakeGroup ==
  ASSUME NEW ds, NEW gs, NEW gd, NEW e, e = << >>, NEW T, NEW n, Sound(ds, gs, gd, e, T, n),
         NEW c, ~c[1], NEW r, NEW R, NEW g, NEW h, NEW ds2, NEW gs2, NEW gd2,
         GroupMade(ds, gs, gd, c, n, r, R, g, h, ds2, gs2, gd2),
         NEW M \in Nat, M = Len(r), 2 <= M, M < MaxTargets,
         NEW T2, T2 = Range(WrittenOf(ds2, gs2, gd2)) \cup Range(e)
  PROVE  /\ Sound(ds2, gs2, gd2, e, T2, n + 1)
         /\ MeaningOf(T2) = MeaningOf(T)
<1>1. /\ Shaped(ds, gs, gd, e, n) /\ Distinct(ds) /\ Unique(T) /\ Bounds(T, n) /\ Strays(T)
      /\ DifferentIds(gs) /\ GroupsOwn(gs)
  BY DEF Sound
<1>2. /\ ds \in Seq(Decoration) /\ gs \in Seq(Groups) /\ gd \in Seq(TargetTokens)
      /\ n \in Nat /\ FirstId <= n
  BY <1>1 DEF Shaped
<1>3. Holds(T, ds, gs, gd, e)
  BY SoundHolds
<1>4. /\ InRange(c, ds, r, T, n)
      /\ \A x : In(x, ds) <=> x \in OwnOf(T) /\ x.target \notin IdsOf(T)
  <2>1. r = InClass(c, ds)
    BY DEF GroupMade
  <2> QED BY <2>1, RangeFacts
<1>5. /\ r \in Seq(Decoration) /\ Distinct(r)
      /\ \A x : In(x, r) <=> In(x, ds) /\ Class(x) = c
      /\ \A x : In(x, r) => /\ x \in OwnOf(T) /\ x \in Decoration /\ x.target \notin IdsOf(T)
                            /\ x.target < n /\ x.member = 0 /\ x.kind = c[2]
      /\ Cardinality(TogetherOf(c, T)) = M
  BY <1>4 DEF InRange
<1>6. 1 \in 1 .. M /\ \A i \in 1 .. M : In(r[i], r)
  BY DEF In
<1>7. ASSUME NEW x, In(x, r) PROVE x.target \in Targets
  <2> SUFFICES ASSUME x.target \notin Targets PROVE FALSE
    OBVIOUS
  <2>1. x \in OwnOf(T) /\ x.target \notin Targets \cup IdsOf(T) /\ Class(x) = c
    BY <1>5, <1>7
  <2>2. Cardinality(TogetherOf(c, T)) >= MaxTargets
    BY <2>1, <1>1 DEF Strays
  <2>3. MaxTargets \in Nat
    BY DecorationsAssumption
  <2> QED BY <2>2, <2>3, <1>5
<1>8. PICK x1 : x1 = r[1]
  OBVIOUS
<1>9. In(x1, r) /\ x1 \in Decoration /\ x1.member = 0 /\ x1.kind = c[2] /\ Class(x1) = c
  BY <1>5, <1>6, <1>8
<1>10. R \in Decoration /\ R.target = n /\ R.member = 0 /\ R.kind = c[2]
  <2>1. PICK y : y = Retarget(x1, n)
    OBVIOUS
  <2>2. y \in Decoration /\ y.target = n /\ y.member = x1.member /\ y.kind = x1.kind
    BY <2>1, <1>2, <1>9 DEF Retarget, Decoration
  <2>3. R = y
    BY <2>1, <1>8 DEF GroupMade
  <2> QED BY <2>2, <2>3, <1>9
<1>11. Class(R) = c
  <2>1. Class(R) = Class(x1)
    BY <1>9, <1>10 DEF Class
  <2> QED BY <2>1, <1>9
<1>12. g \in Groups /\ g.id = n /\ \A x : In(x, g.decs) <=> x = R
  <2>1. PICK q : q = <<R>>
    OBVIOUS
  <2>2. q \in Seq(Decoration) /\ Len(q) = 1 /\ q[1] = R
    BY <2>1, <1>10
  <2>3. g = [id |-> n, decs |-> q]
    BY <2>1 DEF GroupMade
  <2>4. g.id = n /\ g.decs = q
    BY <2>3
  <2>5. g \in Groups
    BY <2>2, <2>3, <1>2 DEF Groups
  <2>6. \A k \in 1 .. 1 : k = 1
    OBVIOUS
  <2>7. \A x : In(x, q) <=> x = R
    BY <2>2, <2>6 DEF In
  <2> QED BY <2>4, <2>5, <2>7
<1>13. PICK ts : ts = TargetsOf(r)
  OBVIOUS
<1>14. ts \in Seq(Targets) /\ DOMAIN ts = 1 .. M /\ \A i \in 1 .. M : ts[i] = r[i].target
  <2>1. ts = [i \in 1 .. M |-> r[i].target]
    BY <1>5, <1>13, LenProperties DEF TargetsOf
  <2>2. \A i \in 1 .. M : r[i].target \in Targets
    BY <1>6, <1>7
  <2> QED BY <2>1, <2>2
<1>15. h \in TargetTokens /\ h.group = n /\ h.targets = ts /\ h.op = "GroupDecorate"
  <2>1. h = Grouped(n, ts)
    BY <1>13 DEF GroupMade
  <2> QED BY <2>1, <1>2, <1>14 DEF Grouped, TargetTokens
<1>16. ds2 \in Seq(Decoration) /\ Distinct(ds2) /\ \A x : In(x, ds2) <=> In(x, ds) /\ Class(x) # c
  <2>1. ds2 = OutOf(c, ds)
    BY DEF GroupMade
  <2> QED BY <2>1, <1>1, <1>2, OutOfFacts
<1>17. gd2 \in Seq(TargetTokens) /\ \A x : In(x, gd2) <=> In(x, gd) \/ x = h
  <2>1. PICK y \in TargetTokens : y = h
    BY <1>15
  <2>2. gd2 = Append(gd, y)
    BY <2>1 DEF GroupMade
  <2>3. gd2 \in Seq(TargetTokens) /\ \A x : In(x, gd2) <=> In(x, gd) \/ x = y
    BY <2>2, <1>2, Appended
  <2> QED BY <2>1, <2>3
<1>18. gs2 = Append(gs, g)
  BY DEF GroupMade
<1>19. /\ gs2 \in Seq(Groups)
       /\ \A x : InGroup(x, gs2) <=> InGroup(x, gs) \/ In(x, g.decs)
       /\ \A id : (\E i \in 1 .. Len(gs2) : id = gs2[i].id)
                  <=> (\E i \in 1 .. Len(gs) : id = gs[i].id) \/ id = g.id
  <2>1. GroupAdded(gs, g, gs2)
    BY <1>2, <1>12, <1>18, GroupAppended
  <2> QED BY <2>1 DEF GroupAdded
<1>23. \A id \in IdsOf(T) : id \in Nat /\ id < n /\ id # n
  <2>1. T \subseteq AllTokens
    BY <1>3 DEF Holds
  <2>2. \A id \in IdsOf(T) : id \in Nat
    BY <2>1, TokenKinds
  <2>3. \A id \in IdsOf(T) : id < n
    BY <1>1 DEF Bounds
  <2> QED BY <2>2, <2>3, <1>2
<1>24. \A i \in 1 .. Len(gs) : gs[i].id \in IdsOf(T)
  BY <1>3 DEF Holds
<1>25. DifferentIds(gs2)
  <2>1. \A i \in 1 .. Len(gs) : gs[i].id # g.id
    BY <1>12, <1>23, <1>24
  <2> QED BY <2>1, <1>1, <1>2, <1>12, <1>18, GroupAppended
<1>26. n + 1 \in Nat /\ FirstId <= n + 1
  BY <1>2, DecorationsAssumption
<1>27. Shaped(ds2, gs2, gd2, e, n + 1)
  BY <1>16, <1>17, <1>19, <1>26, EmptyFacts DEF Shaped
<1>28. Holds(T2, ds2, gs2, gd2, e)
  BY <1>25, <1>27, TokensHeld DEF Shaped
<1>29. GroupsOwn(gs2)
  <2>1. \A x : In(x, g.decs) => x.target = g.id
    BY <1>10, <1>12
  <2> QED BY <2>1, <1>1, <1>2, <1>12, <1>18, GroupAppended
<1>30. \A x : InGroup(x, gs2) <=> InGroup(x, gs) \/ x = R
  BY <1>12, <1>19
<1>31. \A id : id \in IdsOf(T2) <=> id \in IdsOf(T) \/ id = n
  <2> TAKE id
  <2>1. id \in IdsOf(T2) <=> (\E i \in 1 .. Len(gs2) : id = gs2[i].id)
    <3>1. id \in IdsOf(T2) <=> (\E i \in 1 .. Len(gs2) : id = gs2[i].id) \/ In(GroupOf(id), e)
      BY <1>28 DEF Holds
    <3>2. ~In(GroupOf(id), e)
      BY EmptyFacts
    <3> QED BY <3>1, <3>2
  <2>2. id \in IdsOf(T) <=> (\E i \in 1 .. Len(gs) : id = gs[i].id)
    BY <1>3, EmptyFacts DEF Holds
  <2>3. (\E i \in 1 .. Len(gs2) : id = gs2[i].id) <=> (\E i \in 1 .. Len(gs) : id = gs[i].id) \/ id = g.id
    BY <1>19
  <2>4. g.id = n
    BY <1>12
  <2> QED BY <2>1, <2>2, <2>3, <2>4
<1>32. \A x : x \in GroupingsOf(T2) <=> x \in GroupingsOf(T) \/ x = h
  <2> TAKE x
  <2>1. x \in GroupingsOf(T2) <=> In(x, gd2)
    BY <1>28, EmptyFacts DEF Holds
  <2>2. x \in GroupingsOf(T) <=> In(x, gd)
    BY <1>3, EmptyFacts DEF Holds
  <2> QED BY <2>1, <2>2, <1>17
<1>33. PICK Out : Out = {x \in OwnOf(T) : In(x, r)}
  OBVIOUS
<1>34. \A x : x \in Out <=> In(x, r)
  BY <1>5, <1>33
<1>35. \A x : InGroup(x, gs) => x.target \in IdsOf(T)
  BY <1>1, <1>24 DEF InGroup, GroupsOwn
<1>36. \A x : x \in OwnOf(T2) <=> x = R \/ (x \in OwnOf(T) /\ x \notin Out)
  <2> TAKE x
  <2>1. x \in OwnOf(T2) <=> In(x, ds2) \/ InGroup(x, gs2)
    BY <1>28, EmptyFacts DEF Holds
  <2>2. x \in OwnOf(T) <=> In(x, ds) \/ InGroup(x, gs)
    BY <1>3, EmptyFacts DEF Holds
  <2>3. InGroup(x, gs) => ~In(x, r)
    BY <1>5, <1>35
  <2>4. In(x, ds) /\ ~In(x, r) <=> In(x, ds2)
    BY <1>5, <1>16
  <2>5. In(x, r) => In(x, ds)
    BY <1>5
  <2> QED BY <2>1, <2>2, <2>3, <2>4, <2>5, <1>30, <1>34
<1>37. Turned(T, T2, Out, R, n)
  BY <1>5, <1>10, <1>34, <1>36 DEF Turned
<1>38. \A x \in OwnOf(T) : x \in Decoration /\ x.target \in Nat /\ x.target < n /\ x.target # n
  <2>1. T \subseteq AllTokens
    BY <1>3 DEF Holds
  <2>2. \A x \in OwnOf(T) : x \in Decoration
    BY <2>1, TokenKinds
  <2>3. \A x \in OwnOf(T) : x.target \in Nat /\ x.target < n
    BY <2>2, <1>1 DEF Decoration, Bounds
  <2> QED BY <2>2, <2>3, <1>2
<1>39. Unique(T2)
  <2>1. TargetsNat(T)
    BY <1>38 DEF TargetsNat
  <2> QED BY <2>1, <1>1, <1>2, <1>37, TurnedUnique
<1>40. ASSUME NEW k, k # c PROVE TogetherOf(k, T2) = TogetherOf(k, T)
  <2>1. AllOf(Out, Class(R))
    BY <1>5, <1>11, <1>34 DEF AllOf
  <2>2. TargetsNat(T)
    BY <1>38 DEF TargetsNat
  <2>3. OneMore(T, T2, n)
    BY <1>31 DEF OneMore
  <2>4. k # Class(R)
    BY <1>11, <1>40
  <2> QED BY <2>1, <2>2, <2>3, <2>4, <1>1, <1>2, <1>37, OthersStay
<1>41. Strays(T2)
  <2> SUFFICES ASSUME NEW d \in OwnOf(T2), d.target \notin Targets \cup IdsOf(T2)
               PROVE  d.member = 0 /\ Cardinality(TogetherOf(Class(d), T2)) >= MaxTargets
    BY DEF Strays
  <2>1. d # R
    BY <1>10, <1>31
  <2>2. d \in OwnOf(T) /\ ~In(d, r) /\ d.target \notin Targets \cup IdsOf(T)
    BY <2>1, <1>31, <1>34, <1>36
  <2>3. d.member = 0 /\ Cardinality(TogetherOf(Class(d), T)) >= MaxTargets
    BY <2>2, <1>1 DEF Strays
  <2>4. Class(d) # c
    BY <2>2, <1>4, <1>5
  <2> QED BY <2>3, <2>4, <1>40
<1>42. Bounds(T2, n + 1)
  <2>1. \A d \in OwnOf(T2) : d.target < n + 1
    BY <1>2, <1>10, <1>36, <1>38
  <2>2. \A id \in IdsOf(T2) : FirstId <= id /\ id < n + 1
    <3> TAKE id \in IdsOf(T2)
    <3>1. CASE id = n
      BY <3>1, <1>2
    <3>2. CASE id \in IdsOf(T)
      BY <3>2, <1>1, <1>2, <1>23 DEF Bounds
    <3> QED BY <3>1, <3>2, <1>31
  <2>3. \A x \in GroupingsOf(T2) : x.group \in IdsOf(T2)
    BY <1>1, <1>15, <1>31, <1>32 DEF Bounds
  <2> QED BY <2>1, <2>2, <2>3 DEF Bounds
<1>43. Waiting(ds2, e, IdsOf(T2))
  <2>1. \A d : In(d, ds2) => d.target \notin IdsOf(T2)
    BY <1>4, <1>16, <1>31, <1>38
  <2> QED BY <2>1, EmptyFacts DEF Waiting, Belongs
<1>44. Sound(ds2, gs2, gd2, e, T2, n + 1)
  BY <1>16, <1>25, <1>27, <1>29, <1>39, <1>41, <1>42, <1>43, EmptyFacts DEF Sound
<1>45. \A t \in Targets : t # n
  BY <1>2, DecorationsAssumption
<1>46. ASSUME NEW p, MeansBy(p, OwnOf(T), GroupingsOf(T), OwnOf(T))
       PROVE  MeansBy(p, OwnOf(T2), GroupingsOf(T2), OwnOf(T2))
  <2>1. ASSUME NEW d \in OwnOf(T), d.target \in Targets, p = <<d.target, d.member, d.kind>>, ~In(d, r)
        PROVE  MeansBy(p, OwnOf(T2), GroupingsOf(T2), OwnOf(T2))
    <3>1. d \in OwnOf(T2)
      BY <2>1, <1>34, <1>36
    <3> QED BY <3>1, <2>1 DEF MeansBy
  <2>2. ASSUME NEW d, p = <<d.target, d.member, d.kind>>, In(d, r)
        PROVE  MeansBy(p, OwnOf(T2), GroupingsOf(T2), OwnOf(T2))
    <3>1. PICK k \in 1 .. M : d = r[k]
      BY <2>2 DEF In
    <3>2. h \in GroupingsOf(T2) /\ R \in OwnOf(T2)
      BY <1>32, <1>36
    <3>3. k \in DOMAIN h.targets /\ h.targets[k] = d.target
      BY <3>1, <1>14, <1>15
    <3>4. R.target = h.group /\ p = <<h.targets[k], R.member, R.kind>>
      BY <3>3, <2>2, <1>5, <1>10, <1>15
    <3> QED BY <3>2, <3>3, <3>4 DEF MeansBy
  <2>3. ASSUME NEW x \in GroupingsOf(T), NEW k \in DOMAIN x.targets, NEW d \in OwnOf(T),
               d.target = x.group, p = <<x.targets[k], d.member, d.kind>>
        PROVE  MeansBy(p, OwnOf(T2), GroupingsOf(T2), OwnOf(T2))
    <3>1. x.group \in IdsOf(T)
      BY <1>1 DEF Bounds
    <3>2. ~In(d, r)
      BY <3>1, <2>3, <1>5
    <3>3. d \in OwnOf(T2) /\ x \in GroupingsOf(T2)
      BY <3>2, <1>32, <1>34, <1>36
    <3> QED BY <3>3, <2>3 DEF MeansBy
  <2> QED BY <2>1, <2>2, <2>3, <1>46 DEF MeansBy
<1>47. ASSUME NEW p, MeansBy(p, OwnOf(T2), GroupingsOf(T2), OwnOf(T2))
       PROVE  MeansBy(p, OwnOf(T), GroupingsOf(T), OwnOf(T))
  <2>1. ASSUME NEW d \in OwnOf(T2), d.target \in Targets, p = <<d.target, d.member, d.kind>>
        PROVE  MeansBy(p, OwnOf(T), GroupingsOf(T), OwnOf(T))
    <3>1. d # R
      BY <2>1, <1>10, <1>45
    <3>2. d \in OwnOf(T)
      BY <3>1, <1>36
    <3> QED BY <3>2, <2>1 DEF MeansBy
  <2>2. ASSUME NEW k \in DOMAIN h.targets, NEW d \in OwnOf(T2),
               d.target = h.group, p = <<h.targets[k], d.member, d.kind>>
        PROVE  MeansBy(p, OwnOf(T), GroupingsOf(T), OwnOf(T))
    <3>1. d = R
      BY <2>2, <1>15, <1>36, <1>38
    <3>2. k \in 1 .. M /\ h.targets[k] = r[k].target
      BY <2>2, <1>14, <1>15
    <3>3. PICK x : x = r[k]
      OBVIOUS
    <3>4. In(x, r)
      BY <3>2, <3>3, <1>6
    <3>5. x \in OwnOf(T) /\ x.target \in Targets /\ x.member = R.member /\ x.kind = R.kind
      BY <3>4, <1>5, <1>7, <1>10
    <3>6. p = <<x.target, x.member, x.kind>>
      BY <3>1, <3>2, <3>3, <3>5, <2>2
    <3> QED BY <3>5, <3>6 DEF MeansBy
  <2>3. ASSUME NEW x \in GroupingsOf(T), NEW k \in DOMAIN x.targets, NEW d \in OwnOf(T2),
               d.target = x.group, p = <<x.targets[k], d.member, d.kind>>
        PROVE  MeansBy(p, OwnOf(T), GroupingsOf(T), OwnOf(T))
    <3>1. x.group \in IdsOf(T)
      BY <1>1 DEF Bounds
    <3>2. d # R
      BY <3>1, <2>3, <1>10, <1>23
    <3>3. d \in OwnOf(T)
      BY <3>2, <1>36
    <3> QED BY <3>3, <2>3 DEF MeansBy
  <2>4. \A x \in GroupingsOf(T2) : x \in GroupingsOf(T) \/ x = h
    BY <1>32
  <2>5. CASE \E d \in OwnOf(T2) : d.target \in Targets /\ p = <<d.target, d.member, d.kind>>
    BY <2>5, <2>1
  <2>6. ASSUME NEW x \in GroupingsOf(T2), NEW k \in DOMAIN x.targets, NEW d \in OwnOf(T2),
               d.target = x.group, p = <<x.targets[k], d.member, d.kind>>
        PROVE  MeansBy(p, OwnOf(T), GroupingsOf(T), OwnOf(T))
    BY <2>2, <2>3, <2>4, <2>6
  <2>7. \/ \E d \in OwnOf(T2) : d.target \in Targets /\ p = <<d.target, d.member, d.kind>>
        \/ \E x \in GroupingsOf(T2) : \E k \in DOMAIN x.targets : \E d \in OwnOf(T2) :
             d.target = x.group /\ p = <<x.targets[k], d.member, d.kind>>
    BY <1>47 DEF MeansBy
  <2> QED BY <2>5, <2>6, <2>7
<1>48. MeaningOf(T2) = MeaningOf(T)
  <2>1. AlikeMeans(OwnOf(T2), GroupingsOf(T2), OwnOf(T2), OwnOf(T), GroupingsOf(T), OwnOf(T))
    BY <1>46, <1>47 DEF AlikeMeans
  <2>2. MeaningBy(OwnOf(T2), GroupingsOf(T2), OwnOf(T2)) = MeaningBy(OwnOf(T), GroupingsOf(T), OwnOf(T))
    BY <2>1, SameMeaning
  <2> QED BY <2>2 DEF MeaningOf
<1> QED BY <1>44, <1>48


\* An element is replaced by one that was not there.
Exchanged(s, y, x, r) == \A z : In(z, r) <=> z = x \/ (In(z, s) /\ z # y)

LEMMA Replaced ==
  ASSUME NEW S, NEW s \in Seq(S), Distinct(s), NEW i \in 1 .. Len(s), NEW x \in S, ~In(x, s),
         NEW r, r = [s EXCEPT ![i] = x]
  PROVE  r \in Seq(S) /\ Distinct(r) /\ Exchanged(s, s[i], x, r)
<1>1. PICK L \in Nat : L = Len(s)
  BY LenProperties
<1>2. DOMAIN s = 1 .. L /\ i \in 1 .. L /\ \A k \in 1 .. L : s[k] \in S
  BY <1>1, LenProperties, ElementOfSeq
<1>3. r \in Seq(S) /\ Len(r) = L
  BY <1>1, ExceptSeq
<1>4. \A k \in 1 .. L : r[k] = IF k = i THEN x ELSE s[k]
  BY <1>2
<1>5. \A k \in 1 .. L : s[k] # x
  BY <1>1 DEF In
<1>6. \A j, k \in 1 .. L : s[j] = s[k] => j = k
  BY <1>1 DEF Distinct
<1>7. ASSUME NEW y PROVE In(y, r) <=> y = x \/ (In(y, s) /\ y # s[i])
  <2>1. In(y, r) <=> \E k \in 1 .. L : y = r[k]
    BY <1>3 DEF In
  <2>2. In(y, s) <=> \E k \in 1 .. L : y = s[k]
    BY <1>1 DEF In
  <2> QED BY <2>1, <2>2, <1>2, <1>4, <1>6
<1>8. Distinct(r)
  <2>1. ASSUME NEW j \in 1 .. L, NEW k \in 1 .. L, r[j] = r[k] PROVE j = k
    BY <2>1, <1>4, <1>5, <1>6
  <2> QED BY <2>1, <1>3 DEF Distinct
<1> QED BY <1>3, <1>7, <1>8 DEF Exchanged

\* TooManyTargets: the group is dropped, and with it a decoration.
GroupDropped(ds, c, n, r, R, first, ds2, gone) ==
  /\ r = InClass(c, ds) /\ R = Retarget(r[1], n)
  /\ first \in 1 .. Len(ds) /\ ds[first] = r[1]
  /\ ds2 = [ds EXCEPT ![first] = R]
  /\ gone = (Targets \cap {r[1].target}) \X {0} \X {r[1].kind}

MeansLess(T, T2, gone) ==
  /\ MeaningOf(T2) \subseteq MeaningOf(T) /\ MeaningOf(T) \subseteq MeaningOf(T2) \cup gone
  /\ gone \subseteq MeaningOf(T) /\ gone \subseteq Targets \X {0} \X Kinds
OthersKept(c, ds, ds2) == \A x : Class(x) # c => (In(x, ds) <=> In(x, ds2))

LEMMA DropGroup ==
  ASSUME NEW ds, NEW gs, NEW gd, NEW e, e = << >>, NEW T, NEW n, Sound(ds, gs, gd, e, T, n),
         NEW c, ~c[1], NEW r, NEW R, NEW first, NEW ds2, NEW gone,
         GroupDropped(ds, c, n, r, R, first, ds2, gone),
         NEW M \in Nat, M = Len(r), MaxTargets <= M,
         NEW T2, T2 = Range(WrittenOf(ds2, gs, gd)) \cup Range(e)
  PROVE  /\ Sound(ds2, gs, gd, e, T2, n + 1) /\ MeansLess(T, T2, gone)
         /\ Len(InClass(c, ds2)) = M /\ OthersKept(c, ds, ds2)
<1>1. /\ Shaped(ds, gs, gd, e, n) /\ Distinct(ds) /\ Unique(T) /\ Bounds(T, n) /\ Strays(T)
      /\ DifferentIds(gs) /\ GroupsOwn(gs)
  BY DEF Sound
<1>2. /\ ds \in Seq(Decoration) /\ gs \in Seq(Groups) /\ gd \in Seq(TargetTokens)
      /\ n \in Nat /\ FirstId <= n
  BY <1>1 DEF Shaped
<1>3. Holds(T, ds, gs, gd, e)
  BY SoundHolds
<1>4. /\ InRange(c, ds, r, T, n)
      /\ \A x : In(x, ds) <=> x \in OwnOf(T) /\ x.target \notin IdsOf(T)
  <2>1. r = InClass(c, ds)
    BY DEF GroupDropped
  <2> QED BY <2>1, RangeFacts
<1>5. /\ \A x : In(x, r) <=> In(x, ds) /\ Class(x) = c
      /\ \A x : In(x, r) => /\ x \in OwnOf(T) /\ x \in Decoration /\ x.target \notin IdsOf(T)
                            /\ x.target < n /\ x.member = 0 /\ x.kind = c[2]
      /\ IsFiniteSet(TogetherOf(c, T)) /\ Cardinality(TogetherOf(c, T)) = M
  BY <1>4 DEF InRange
<1>6. MaxTargets \in Nat /\ 1 <= MaxTargets
  BY DecorationsAssumption
<1>7. 1 \in 1 .. M
  BY <1>6
<1>8. PICK a : a = r[1]
  OBVIOUS
<1>9. /\ In(a, r) /\ a \in Decoration /\ a.member = 0 /\ a.kind = c[2] /\ Class(a) = c
      /\ a \in OwnOf(T) /\ a.target \notin IdsOf(T)
  <2>1. In(a, r)
    BY <1>7, <1>8 DEF In
  <2> QED BY <2>1, <1>5
<1>10. R \in Decoration /\ R.target = n /\ R.member = 0 /\ R.kind = c[2]
  <2>1. a \in Decoration /\ n \in Nat /\ R = Retarget(a, n)
    BY <1>2, <1>8, <1>9 DEF GroupDropped
  <2>2. R \in Decoration /\ R.target = n /\ R.member = a.member /\ R.kind = a.kind
    BY <2>1 DEF Retarget, Decoration
  <2> QED BY <2>2, <1>9
<1>11. Class(R) = c
  <2>1. Class(R) = Class(a)
    BY <1>9, <1>10 DEF Class
  <2> QED BY <2>1, <1>9
<1>12. \A x \in OwnOf(T) : x \in Decoration /\ x.target \in Nat /\ x.target < n /\ x.target # n
  <2>1. T \subseteq AllTokens
    BY <1>3 DEF Holds
  <2>2. \A x \in OwnOf(T) : x \in Decoration
    BY <2>1, TokenKinds
  <2>3. \A x \in OwnOf(T) : x.target \in Nat /\ x.target < n
    BY <2>2, <1>1 DEF Decoration, Bounds
  <2> QED BY <2>2, <2>3, <1>2
<1>13. \A id \in IdsOf(T) : id \in Nat /\ id < n /\ id # n
  <2>1. T \subseteq AllTokens
    BY <1>3 DEF Holds
  <2>2. \A id \in IdsOf(T) : id \in Nat
    BY <2>1, TokenKinds
  <2>3. \A id \in IdsOf(T) : id < n
    BY <1>1 DEF Bounds
  <2> QED BY <2>2, <2>3, <1>2
<1>14. R \notin OwnOf(T) /\ ~In(R, ds)
  BY <1>4, <1>10, <1>12
<1>15. /\ ds2 \in Seq(Decoration) /\ Distinct(ds2)
       /\ \A y : In(y, ds2) <=> y = R \/ (In(y, ds) /\ y # a)
  <2>1. first \in 1 .. Len(ds) /\ ds[first] = a /\ ds2 = [ds EXCEPT ![first] = R]
    BY <1>8 DEF GroupDropped
  <2>3. /\ ds \in Seq(Decoration) /\ Distinct(ds) /\ first \in 1 .. Len(ds) /\ R \in Decoration
        /\ ~In(R, ds) /\ ds2 = [ds EXCEPT ![first] = R]
    BY <2>1, <1>1, <1>2, <1>10, <1>14
  <2>4. ds2 \in Seq(Decoration) /\ Distinct(ds2) /\ Exchanged(ds, ds[first], R, ds2)
    BY <2>3, Replaced
  <2> QED BY <2>1, <2>4 DEF Exchanged
<1>16. n + 1 \in Nat /\ FirstId <= n + 1
  BY <1>2, DecorationsAssumption
<1>17. Shaped(ds2, gs, gd, e, n + 1)
  BY <1>2, <1>15, <1>16, EmptyFacts DEF Shaped
<1>18. Holds(T2, ds2, gs, gd, e)
  BY <1>1, <1>17, TokensHeld DEF Shaped
<1>19. \A x : InGroup(x, gs) => x.target \in IdsOf(T)
  <2>1. \A i \in 1 .. Len(gs) : gs[i].id \in IdsOf(T)
    BY <1>3 DEF Holds
  <2> QED BY <2>1, <1>1 DEF InGroup, GroupsOwn
<1>20. \A x : x \in OwnOf(T2) <=> x = R \/ (x \in OwnOf(T) /\ x # a)
  <2> TAKE x
  <2>1. x \in OwnOf(T2) <=> In(x, ds2) \/ InGroup(x, gs)
    BY <1>18, EmptyFacts DEF Holds
  <2>2. x \in OwnOf(T) <=> In(x, ds) \/ InGroup(x, gs)
    BY <1>3, EmptyFacts DEF Holds
  <2>3. InGroup(x, gs) => x # a
    BY <1>9, <1>19
  <2> QED BY <2>1, <2>2, <2>3, <1>15
<1>21. IdsOf(T2) = IdsOf(T)
  <2>1. \A id : id \in IdsOf(T2) <=> id \in IdsOf(T)
    <3> TAKE id
    <3>1. id \in IdsOf(T2) <=> (\E i \in 1 .. Len(gs) : id = gs[i].id) \/ In(GroupOf(id), e)
      BY <1>18 DEF Holds
    <3>2. id \in IdsOf(T) <=> (\E i \in 1 .. Len(gs) : id = gs[i].id) \/ In(GroupOf(id), e)
      BY <1>3 DEF Holds
    <3> QED BY <3>1, <3>2
  <2> QED BY <2>1
<1>22. GroupingsOf(T2) = GroupingsOf(T)
  <2>1. \A g : g \in GroupingsOf(T2) <=> g \in GroupingsOf(T)
    <3> TAKE g
    <3>1. g \in GroupingsOf(T2) <=> In(g, gd)
      BY <1>18, EmptyFacts DEF Holds
    <3>2. g \in GroupingsOf(T) <=> In(g, gd)
      BY <1>3, EmptyFacts DEF Holds
    <3> QED BY <3>1, <3>2
  <2> QED BY <2>1
<1>23. PICK Out : Out = {a}
  OBVIOUS
<1>24. Turned(T, T2, Out, R, n)
  BY <1>9, <1>10, <1>20, <1>23 DEF Turned
<1>25. TargetsNat(T)
  BY <1>12 DEF TargetsNat
<1>26. Unique(T2)
  BY <1>1, <1>2, <1>24, <1>25, TurnedUnique
<1>27. ASSUME NEW k, k # c PROVE TogetherOf(k, T2) = TogetherOf(k, T)
  <2>1. AllOf(Out, Class(R))
    BY <1>9, <1>11, <1>23 DEF AllOf
  <2>2. OneMore(T, T2, n)
    BY <1>21 DEF OneMore
  <2>3. k # Class(R)
    BY <1>11, <1>27
  <2> QED BY <2>1, <2>2, <2>3, <1>1, <1>2, <1>24, <1>25, OthersStay
<1>28. \A x : In(x, ds2) <=> x \in OwnOf(T2) /\ x.target \notin IdsOf(T2)
  <2> TAKE x
  <2>1. R.target \notin IdsOf(T2)
    BY <1>10, <1>13, <1>21
  <2> QED BY <2>1, <1>4, <1>15, <1>20, <1>21
<1>29. Cardinality(TogetherOf(c, T2)) = M
  <2>1. PICK A : A = TogetherOf(c, T)
    OBVIOUS
  <2>2. PICK B : B = A \ {a}
    OBVIOUS
  <2>3. a \in A /\ IsFiniteSet(A) /\ Cardinality(A) = M
    BY <2>1, <1>5, <1>9 DEF TogetherOf
  <2>4. IsFiniteSet(B) /\ Cardinality(B) = M - 1
    BY <2>2, <2>3, FS_RemoveElement
  <2>5. R \notin B
    BY <2>1, <2>2, <1>14 DEF TogetherOf
  <2>6. Cardinality(B \cup {R}) = M
    <3>1. Cardinality(B \cup {R}) = Cardinality(B) + 1
      BY <2>4, <2>5, FS_AddElement
    <3> QED BY <3>1, <2>4
  <2>7. TogetherOf(c, T2) = B \cup {R}
    <3>1. R.target \notin IdsOf(T2)
      BY <1>10, <1>13, <1>21
    <3> QED BY <3>1, <2>1, <2>2, <1>11, <1>20, <1>21 DEF TogetherOf
  <2> QED BY <2>6, <2>7
<1>30. Len(InClass(c, ds2)) = M
  BY <1>15, <1>28, <1>29, ClassSize
<1>31. Strays(T2)
  <2> SUFFICES ASSUME NEW d \in OwnOf(T2), d.target \notin Targets \cup IdsOf(T2)
               PROVE  d.member = 0 /\ Cardinality(TogetherOf(Class(d), T2)) >= MaxTargets
    BY DEF Strays
  <2>1. CASE d = R
    BY <2>1, <1>6, <1>10, <1>11, <1>29
  <2>2. CASE d # R
    <3>1. d \in OwnOf(T) /\ d.target \notin Targets \cup IdsOf(T)
      BY <2>2, <1>20, <1>21
    <3>2. d.member = 0 /\ Cardinality(TogetherOf(Class(d), T)) >= MaxTargets
      BY <3>1, <1>1 DEF Strays
    <3>3. CASE Class(d) = c
      BY <3>2, <3>3, <1>6, <1>29
    <3>4. CASE Class(d) # c
      BY <3>2, <3>4, <1>27
    <3> QED BY <3>3, <3>4
  <2> QED BY <2>1, <2>2
<1>32. Bounds(T2, n + 1)
  <2>1. \A d \in OwnOf(T2) : d.target < n + 1
    BY <1>2, <1>10, <1>12, <1>20
  <2>2. \A id \in IdsOf(T2) : FirstId <= id /\ id < n + 1
    BY <1>1, <1>2, <1>13, <1>21 DEF Bounds
  <2>3. \A x \in GroupingsOf(T2) : x.group \in IdsOf(T2)
    BY <1>1, <1>21, <1>22 DEF Bounds
  <2> QED BY <2>1, <2>2, <2>3 DEF Bounds
<1>33. Waiting(ds2, e, IdsOf(T2))
  BY <1>28, EmptyFacts DEF Waiting, Belongs
<1>34. Sound(ds2, gs, gd, e, T2, n + 1)
  BY <1>1, <1>15, <1>17, <1>26, <1>31, <1>32, <1>33, EmptyFacts DEF Sound
<1>35. \A t \in Targets : t # n
  BY <1>2, DecorationsAssumption
<1>36. \A p : p \in gone <=> a.target \in Targets /\ p = <<a.target, 0, a.kind>>
  BY <1>8 DEF GroupDropped
<1>37. gone \subseteq Targets \X {0} \X Kinds
  BY <1>9, <1>36 DEF Decoration
<1>38. \A p : p \in MeaningOf(T) <=> MeansBy(p, OwnOf(T), GroupingsOf(T), OwnOf(T))
  BY MeaningByHolds DEF MeaningOf
<1>39. \A p : p \in MeaningOf(T2) <=> MeansBy(p, OwnOf(T2), GroupingsOf(T), OwnOf(T2))
  <2>1. \A p : p \in MeaningOf(T2) <=> MeansBy(p, OwnOf(T2), GroupingsOf(T2), OwnOf(T2))
    BY MeaningByHolds DEF MeaningOf
  <2> QED BY <2>1, <1>22
<1>40. gone \subseteq MeaningOf(T)
  <2> SUFFICES ASSUME NEW p \in gone PROVE MeansBy(p, OwnOf(T), GroupingsOf(T), OwnOf(T))
    BY <1>38
  <2>1. a.target \in Targets /\ p = <<a.target, a.member, a.kind>>
    BY <1>9, <1>36
  <2> QED BY <2>1, <1>9 DEF MeansBy
<1>41. \A g \in GroupingsOf(T) : g.group \in IdsOf(T)
  BY <1>1 DEF Bounds
<1>42. MeaningOf(T2) \subseteq MeaningOf(T)
  <2> SUFFICES ASSUME NEW p, MeansBy(p, OwnOf(T2), GroupingsOf(T), OwnOf(T2))
               PROVE  MeansBy(p, OwnOf(T), GroupingsOf(T), OwnOf(T))
    BY <1>38, <1>39
  <2>1. ASSUME NEW d \in OwnOf(T2), d.target \in Targets \/ d.target \in IdsOf(T) PROVE d \in OwnOf(T)
    BY <2>1, <1>10, <1>13, <1>20, <1>35
  <2> QED BY <2>1, <1>41 DEF MeansBy
<1>43. MeaningOf(T) \subseteq MeaningOf(T2) \cup gone
  <2> SUFFICES ASSUME NEW p, MeansBy(p, OwnOf(T), GroupingsOf(T), OwnOf(T)), p \notin gone
               PROVE  MeansBy(p, OwnOf(T2), GroupingsOf(T), OwnOf(T2))
    BY <1>38, <1>39
  <2>1. ASSUME NEW d \in OwnOf(T), d.target \in IdsOf(T) PROVE d \in OwnOf(T2)
    BY <2>1, <1>9, <1>20
  <2>2. ASSUME NEW d \in OwnOf(T), d.target \in Targets, p = <<d.target, d.member, d.kind>>
        PROVE  d \in OwnOf(T2)
    BY <2>2, <1>9, <1>20, <1>36
  <2> QED BY <2>1, <2>2, <1>41 DEF MeansBy
<1>44. OthersKept(c, ds, ds2)
  <2> SUFFICES ASSUME NEW x, Class(x) # c PROVE In(x, ds) <=> In(x, ds2)
    BY DEF OthersKept
  <2>1. x # a /\ x # R
    BY <1>9, <1>11
  <2> QED BY <2>1, <1>15
<1> QED BY <1>30, <1>34, <1>37, <1>40, <1>42, <1>43, <1>44 DEF MeansLess

-----------------------------------------------------------------------------
(***************************************************************************)
(* What the entries have of what has been read: the decorations of         *)
(* DecorateSet, and of the groups those of the group decorates so far.     *)
(***************************************************************************)
Has(en, ds, gd, O) ==
  \A p : p \in en /\ p[1] \in Targets <=> MeansBy(p, Range(ds), Range(gd), O)

LEMMA RangeIsIn ==
  ASSUME NEW S, NEW s \in Seq(S), NEW x
  PROVE  x \in Range(s) <=> In(x, s)
<1>1. DOMAIN s = 1 .. Len(s)
  BY LenProperties
<1> QED BY <1>1 DEF Range, In

MeansLoose(p, ds)    == \E d : In(d, ds) /\ d.target \in Targets /\ p = <<d.target, d.member, d.kind>>
MeansGroup(p, g, O)  == \E k \in DOMAIN g.targets : \E d \in O :
                          d.target = g.group /\ p = <<g.targets[k], d.member, d.kind>>
MeansGroups(p, gd, O) == \E g : In(g, gd) /\ MeansGroup(p, g, O)

LEMMA MeansIsIn ==
  ASSUME NEW ds \in Seq(Decoration), NEW gd \in Seq(TargetTokens), NEW O, NEW p
  PROVE  MeansBy(p, Range(ds), Range(gd), O) <=> MeansLoose(p, ds) \/ MeansGroups(p, gd, O)
<1>1. \A x : x \in Range(ds) <=> In(x, ds)
  BY RangeIsIn
<1>2. \A x : x \in Range(gd) <=> In(x, gd)
  BY RangeIsIn
<1>3. PICK D : D = Range(ds)
  OBVIOUS
<1>4. PICK G : G = Range(gd)
  OBVIOUS
<1>5. MeansBy(p, D, G, O) <=> MeansLoose(p, ds) \/ MeansGroups(p, gd, O)
  BY <1>1, <1>2, <1>3, <1>4 DEF MeansBy, MeansLoose, MeansGroups, MeansGroup
<1> QED BY <1>3, <1>4, <1>5

\* At the start, and when a module starts to read, there is nothing.
LEMMA HasNothing ==
  ASSUME NEW e, e = << >>, NEW en, en = {}, NEW O
  PROVE  Has(en, e, e, O)
<1>1. Range(e) = {}
  BY EmptyFacts
<1>2. PICK D : D = Range(e)
  OBVIOUS
<1>3. \A p : ~MeansBy(p, D, D, O)
  BY <1>1, <1>2 DEF MeansBy
<1> QED BY <1>2, <1>3 DEF Has

\* A decoration is put on its target and into DecorateSet.
LEMMA HasMore ==
  ASSUME NEW en, NEW ds \in Seq(Decoration), NEW gd \in Seq(TargetTokens), NEW O, Has(en, ds, gd, O),
         NEW d, NEW ds2 \in Seq(Decoration), Plus(ds, d, ds2),
         NEW en2, en2 = en \cup {<<d.target, d.member, d.kind>>},
         NEW O2, O2 = O \/ \A x : ~In(x, gd)
  PROVE  Has(en2, ds2, gd, O2)
<1> SUFFICES ASSUME NEW p
             PROVE  p \in en2 /\ p[1] \in Targets <=> MeansBy(p, Range(ds2), Range(gd), O2)
  BY DEF Has
<1>1. p \in en /\ p[1] \in Targets <=> MeansLoose(p, ds) \/ MeansGroups(p, gd, O)
  BY MeansIsIn DEF Has
<1>2. MeansBy(p, Range(ds2), Range(gd), O2) <=> MeansLoose(p, ds2) \/ MeansGroups(p, gd, O2)
  BY MeansIsIn
<1>3. MeansGroups(p, gd, O2) <=> MeansGroups(p, gd, O)
  BY DEF MeansGroups
<1>4. MeansLoose(p, ds2) <=> MeansLoose(p, ds) \/ (d.target \in Targets /\ p = <<d.target, d.member, d.kind>>)
  BY DEF MeansLoose, Plus
<1>5. p \in en2 <=> p \in en \/ p = <<d.target, d.member, d.kind>>
  OBVIOUS
<1>6. p = <<d.target, d.member, d.kind>> => p[1] = d.target
  OBVIOUS
<1> QED BY <1>1, <1>2, <1>3, <1>4, <1>5, <1>6

\* The decorations of a group stand for no target by themselves.
LEMMA HasGroup ==
  ASSUME NEW en, NEW ds \in Seq(Decoration), NEW gd \in Seq(TargetTokens), NEW O, Has(en, ds, gd, O),
         NEW T, OfGroups(ds, T), \A id \in IdsOf(T) : id \notin Targets, NEW e, e = << >>
  PROVE  Has(en, e, gd, O)
<1> SUFFICES ASSUME NEW p
             PROVE  p \in en /\ p[1] \in Targets <=> MeansBy(p, Range(e), Range(gd), O)
  BY DEF Has
<1>1. p \in en /\ p[1] \in Targets <=> MeansLoose(p, ds) \/ MeansGroups(p, gd, O)
  BY MeansIsIn DEF Has
<1>2. e \in Seq(Decoration) /\ \A x : ~In(x, e)
  BY EmptyFacts
<1>3. MeansBy(p, Range(e), Range(gd), O) <=> MeansLoose(p, e) \/ MeansGroups(p, gd, O)
  BY <1>2, MeansIsIn
<1>4. ~MeansLoose(p, e) /\ ~MeansLoose(p, ds)
  BY <1>2 DEF MeansLoose, OfGroups
<1> QED BY <1>1, <1>3, <1>4

\* A group decorate gives its targets the decorations of the group.
Given(en, g, own, en2) ==
  en2 = en \cup {<<t, d.member, d.kind>> : t \in Range(g.targets), d \in Range(own)}

LEMMA HasTargets ==
  ASSUME NEW en, NEW ds \in Seq(Decoration), NEW gd \in Seq(TargetTokens), NEW O, Has(en, ds, gd, O),
         NEW g \in TargetTokens, NEW own \in Seq(Decoration), GroupHas(O, g, own),
         NEW gd2 \in Seq(TargetTokens), Plus(gd, g, gd2),
         NEW en2, Given(en, g, own, en2)
  PROVE  Has(en2, ds, gd2, O)
<1> SUFFICES ASSUME NEW p
             PROVE  p \in en2 /\ p[1] \in Targets <=> MeansBy(p, Range(ds), Range(gd2), O)
  BY DEF Has
<1>1. p \in en /\ p[1] \in Targets <=> MeansLoose(p, ds) \/ MeansGroups(p, gd, O)
  BY MeansIsIn DEF Has
<1>2. MeansBy(p, Range(ds), Range(gd2), O) <=> MeansLoose(p, ds) \/ MeansGroups(p, gd2, O)
  BY MeansIsIn
<1>3. MeansGroups(p, gd2, O) <=> MeansGroups(p, gd, O) \/ MeansGroup(p, g, O)
  BY DEF MeansGroups, Plus
<1>4. \A k \in DOMAIN g.targets : g.targets[k] \in Targets
  <2>1. g.targets \in Seq(Targets)
    BY DEF TargetTokens
  <2> QED BY <2>1, LenProperties, ElementOfSeq
<1>5. \A x : x \in Range(own) <=> In(x, own)
  BY RangeIsIn
<1>6. p \in en2 <=> p \in en \/ MeansGroup(p, g, O)
  <2>1. p \in en2 <=> p \in en \/ \E t \in Range(g.targets), d \in Range(own) : p = <<t, d.member, d.kind>>
    BY DEF Given
  <2>2. (\E t \in Range(g.targets), d \in Range(own) : p = <<t, d.member, d.kind>>)
        <=> \E k \in DOMAIN g.targets : \E d \in Range(own) : p = <<g.targets[k], d.member, d.kind>>
    BY DEF Range
  <2>3. (\E k \in DOMAIN g.targets : \E d \in Range(own) : p = <<g.targets[k], d.member, d.kind>>)
        <=> MeansGroup(p, g, O)
    BY <1>5 DEF MeansGroup, GroupHas
  <2> QED BY <2>1, <2>2, <2>3
<1>7. MeansGroup(p, g, O) => p[1] \in Targets
  BY <1>4 DEF MeansGroup
<1> QED BY <1>1, <1>2, <1>3, <1>6, <1>7

\* The ids of groups are not those of entries.
LEMMA IdsAreNew ==
  ASSUME NEW ds, NEW gs, NEW gd, NEW f, NEW T, NEW n, Sound(ds, gs, gd, f, T, n)
  PROVE  \A id \in IdsOf(T) : id \notin Targets
<1>1. Holds(T, ds, gs, gd, f) /\ Bounds(T, n)
  BY SoundHolds DEF Sound
<1>2. T \subseteq AllTokens
  BY <1>1 DEF Holds
<1>3. \A id \in IdsOf(T) : id \in Nat
  BY <1>2, TokenKinds
<1>4. \A id \in IdsOf(T) : FirstId <= id
  BY <1>1 DEF Bounds
<1>5. FirstId \in Nat /\ Targets \subseteq 0 .. FirstId - 1
  BY DecorationsAssumption
<1> QED BY <1>3, <1>4, <1>5

\* With nothing left to read, the entries have what the module means.
LEMMA HasAllOfIt ==
  ASSUME NEW ds, NEW gs, NEW gd, NEW e, e = << >>, NEW T, NEW n, Sound(ds, gs, gd, e, T, n),
         NEW en, Has(en, ds, gd, OwnOf(T))
  PROVE  \A p : p \in en /\ p[1] \in Targets <=> p \in MeaningOf(T)
<1> TAKE p
<1>1. PICK O : O = OwnOf(T)
  OBVIOUS
<1>2. PICK G : G = GroupingsOf(T)
  OBVIOUS
<1>3. p \in MeaningOf(T) <=> MeansBy(p, O, G, O)
  BY <1>1, <1>2, MeaningByHolds DEF MeaningOf
<1>4. /\ ds \in Seq(Decoration) /\ gd \in Seq(TargetTokens) /\ GroupsOwn(gs) /\ Bounds(T, n)
  BY DEF Sound, Shaped
<1>5. p \in en /\ p[1] \in Targets <=> MeansLoose(p, ds) \/ MeansGroups(p, gd, O)
  BY <1>1, <1>4, MeansIsIn DEF Has
<1>6. Holds(T, ds, gs, gd, e) /\ \A x : ~In(x, e)
  BY SoundHolds, EmptyFacts
<1>7. \A g : g \in G <=> In(g, gd)
  BY <1>2, <1>6 DEF Holds
<1>8. \A d : d \in O <=> In(d, ds) \/ InGroup(d, gs)
  BY <1>1, <1>6 DEF Holds
<1>9. \A i \in 1 .. Len(gs) : gs[i].id \in IdsOf(T)
  BY <1>6 DEF Holds
<1>10. \A id \in IdsOf(T) : id \notin Targets
  BY IdsAreNew
<1>11. \A d : InGroup(d, gs) => d.target \notin Targets
  BY <1>4, <1>9, <1>10 DEF InGroup, GroupsOwn
<1>12. MeansBy(p, O, G, O) <=> MeansLoose(p, ds) \/ MeansGroups(p, gd, O)
  BY <1>7, <1>8, <1>11 DEF MeansBy, MeansLoose, MeansGroups, MeansGroup
<1> QED BY <1>3, <1>5, <1>12

-----------------------------------------------------------------------------
(***************************************************************************)
(* The classes optimizeDecorates() has been through: those not in cs.      *)
(***************************************************************************)
Enough(c, ds) == Len(InClass(c, ds)) \notin 2 .. MaxTargets - 1
Done(ds, cs)  == \A x : In(x, ds) => x.member # 0 \/ Class(x) \in cs \/ Enough(Class(x), ds)

\* SkipClass.
LEMMA DoneSkipped ==
  ASSUME NEW ds \in Seq(Decoration), Distinct(ds), NEW cs, Done(ds, cs),
         NEW c, c[1] \/ Single(InClass(c, ds)), NEW cs2, cs2 = cs \ {c}
  PROVE  Done(ds, cs2)
<1> SUFFICES ASSUME NEW x, In(x, ds), x.member = 0, Class(x) \notin cs2
             PROVE  Enough(Class(x), ds)
  BY DEF Done
<1>1. CASE Class(x) = c
  <2>1. ~c[1]
    BY <1>1 DEF Class
  <2>2. PICK r : r = InClass(c, ds)
    OBVIOUS
  <2>3. r \in Seq(Decoration)
    BY <2>2, InClassFacts
  <2>4. PICK M \in Nat : M = Len(r)
    BY <2>3, LenProperties
  <2>5. M < 2
    BY <2>1, <2>2, <2>4 DEF Single
  <2> QED BY <2>2, <2>4, <2>5, <1>1 DEF Enough
<1>2. CASE Class(x) # c
  <2>1. Class(x) \notin cs
    BY <1>2
  <2> QED BY <2>1 DEF Done
<1> QED BY <1>1, <1>2

\* GroupClass.
LEMMA DoneGrouped ==
  ASSUME NEW ds \in Seq(Decoration), Distinct(ds), NEW cs, Done(ds, cs),
         NEW c, NEW cs2, cs2 = cs \ {c}, NEW ds2, ds2 = OutOf(c, ds)
  PROVE  Done(ds2, cs2)
<1>1. ds2 \in Seq(Decoration) /\ Distinct(ds2) /\ \A x : In(x, ds2) <=> In(x, ds) /\ Class(x) # c
  BY OutOfFacts
<1> SUFFICES ASSUME NEW x, In(x, ds2), x.member = 0, Class(x) \notin cs2
             PROVE  Enough(Class(x), ds2)
  BY DEF Done
<1>2. In(x, ds) /\ Class(x) # c
  BY <1>1
<1>3. Enough(Class(x), ds)
  BY <1>2 DEF Done
<1>4. PICK k : k = Class(x)
  OBVIOUS
<1>5. \A y : Class(y) = k => (In(y, ds) <=> In(y, ds2))
  BY <1>1, <1>2, <1>4
<1>6. Len(InClass(k, ds)) = Len(InClass(k, ds2))
  BY <1>1, <1>5, SameLength
<1> QED BY <1>3, <1>4, <1>6 DEF Enough

\* TooManyTargets.
LEMMA DoneDropped ==
  ASSUME NEW ds \in Seq(Decoration), Distinct(ds), NEW cs, Done(ds, cs),
         NEW c, NEW cs2, cs2 = cs \ {c}, NEW ds2 \in Seq(Decoration), Distinct(ds2),
         NEW M \in Nat, M = Len(InClass(c, ds2)), MaxTargets <= M,
         OthersKept(c, ds, ds2)
  PROVE  Done(ds2, cs2)
<1> SUFFICES ASSUME NEW x, In(x, ds2), x.member = 0, Class(x) \notin cs2
             PROVE  Enough(Class(x), ds2)
  BY DEF Done
<1>1. PICK k : k = Class(x)
  OBVIOUS
<1>2. CASE k = c
  <2>1. MaxTargets \in Nat
    BY DecorationsAssumption
  <2>2. M \notin 2 .. MaxTargets - 1
    BY <2>1
  <2> QED BY <2>2, <1>1, <1>2 DEF Enough
<1>3. CASE k # c
  <2>1. In(x, ds) /\ k \notin cs
    BY <1>1, <1>3 DEF OthersKept
  <2>2. Enough(k, ds)
    BY <2>1, <1>1 DEF Done
  <2>3. \A y : Class(y) = k => (In(y, ds) <=> In(y, ds2))
    BY <1>3 DEF OthersKept
  <2>4. Len(InClass(k, ds)) = Len(InClass(k, ds2))
    BY <2>3, SameLength
  <2> QED BY <2>2, <2>4, <1>1 DEF Enough
<1> QED BY <1>2, <1>3

-----------------------------------------------------------------------------
(***************************************************************************)
(* The inductive invariant: the tables and the file are in order (Sound);  *)
(* while a module is built or read, the entries have what has come so far  *)
(* (OnRead), which a group then adds to; the classes that are through      *)
(* share nothing (ClassesDone).                                            *)
(***************************************************************************)
IsSound == Sound(decorateSet, groups, groupDecs, file, Tokens, nextId)
Phases ==
  /\ phase \in {"building", "optimizing", "reading", "done"}
  /\ phase = "building" =>
       /\ groups = << >> /\ groupDecs = << >> /\ lost = {}
       /\ \A x : In(x, decorateSet) => x.target \in Targets
  /\ phase # "reading" => file = << >>
  /\ phase # "optimizing" => classes = {}
LostTyped   == lost \subseteq Targets \X {0} \X Kinds
OnRead      == phase \in {"building", "reading"} => Has(onEntry, decorateSet, groupDecs, Own)
ClassesDone == phase \in {"optimizing", "done"} => Done(decorateSet, classes)

IInv == Phases /\ LostTyped /\ IsSound /\ OnRead /\ EntriesAgree /\ ClassesDone

\* What is written and what is meant, as functions of the tables.
LEMMA Links ==
  /\ Written = WrittenOf(decorateSet, groups, groupDecs)
  /\ Tokens = Range(WrittenOf(decorateSet, groups, groupDecs)) \cup Range(file)
  /\ Own = OwnOf(Tokens) /\ Meaning = MeaningOf(Tokens)
<1>1. Written = WrittenOf(decorateSet, groups, groupDecs)
  BY DEF Written, WrittenOf, PieceOf, Map
<1>2. Tokens = Range(WrittenOf(decorateSet, groups, groupDecs)) \cup Range(file)
  BY <1>1 DEF Tokens
<1>3. Own = OwnOf(Tokens)
  BY DEF Own, OwnOf
<1>4. Meaning = MeaningOf(Tokens)
  BY <1>3 DEF Meaning, MeaningOf, MeaningBy, GroupingsOf
<1> QED BY <1>1, <1>2, <1>3, <1>4

LEMMA LinksNext ==
  /\ Tokens' = Range(WrittenOf(decorateSet', groups', groupDecs')) \cup Range(file')
  /\ Own' = OwnOf(Tokens') /\ Meaning' = MeaningOf(Tokens')
<1>1. Written' = WrittenOf(decorateSet', groups', groupDecs')
  BY DEF Written, WrittenOf, PieceOf, Map
<1>2. Tokens' = Range(WrittenOf(decorateSet', groups', groupDecs')) \cup Range(file')
  BY <1>1 DEF Tokens
<1>3. Own' = OwnOf(Tokens')
  BY DEF Own, OwnOf
<1>4. Meaning' = MeaningOf(Tokens')
  BY <1>3 DEF Meaning, MeaningOf, MeaningBy, GroupingsOf
<1> QED BY <1>1, <1>2, <1>3, <1>4

\* What is neither touched nor read stays.
LEMMA TablesStay ==
  ASSUME UNCHANGED <<nextId, decorateSet, groups, groupDecs, file>>
  PROVE  Tokens' = Tokens /\ (IsSound => IsSound') /\ Meaning' = Meaning /\ Own' = Own
<1>1. Tokens' = Tokens
  BY Links, LinksNext
<1> QED BY <1>1, Links, LinksNext DEF IsSound

-----------------------------------------------------------------------------
LEMMA InitIInv == Init => IInv
<1> SUFFICES ASSUME Init PROVE IInv
  OBVIOUS
<1>1. PICK e : e = << >>
  OBVIOUS
<1>2. decorateSet = e /\ groups = e /\ groupDecs = e /\ nextId = FirstId /\ onEntry = {} /\ lost = {}
      /\ classes = {}
  BY <1>1 DEF Init
<1>3. PICK T : T = Tokens
  OBVIOUS
<1>4. \E decs \in Seq([target : Targets, member : Members \cup {0}, kind : Kinds]) :
         /\ \A i, j \in DOMAIN decs : Equal(decs[i], decs[j]) => decs[i] = decs[j]
         /\ file = Map(Loose, decs)
  <2>1. CASE phase = "building" /\ file = << >>
    <3>1. << >> \in Seq([target : Targets, member : Members \cup {0}, kind : Kinds]) /\ DOMAIN << >> = {}
      BY EmptySeq
    <3>2. Map(Loose, << >>) = << >>
      BY DEF Map
    <3> QED BY <3>1, <3>2, <2>1
  <2>2. CASE phase = "reading" /\ \E decs \in Files : file = Map(Loose, decs)
    BY <2>2, DecorationsAssumption
  <2> QED BY <2>1, <2>2 DEF Init
<1>5. PICK decs \in Seq([target : Targets, member : Members \cup {0}, kind : Kinds]) :
         /\ \A i, j \in DOMAIN decs : Equal(decs[i], decs[j]) => decs[i] = decs[j]
         /\ file = Map(Loose, decs)
  BY <1>4
<1>6. PICK f : f = file
  OBVIOUS
<1>7. T = Range(WrittenOf(e, e, e)) \cup Range(f)
  BY <1>2, <1>3, <1>6, Links
<1>8. Sound(e, e, e, f, T, FirstId)
  <2>1. f = Map(Loose, decs)
    BY <1>5, <1>6
  <2> QED BY <2>1, <1>1, <1>5, <1>7, StartsSound
<1>9. IsSound
  BY <1>2, <1>3, <1>6, <1>8 DEF IsSound
<1>10. Has(onEntry, decorateSet, groupDecs, Own)
  BY <1>1, <1>2, HasNothing
<1>11. Phases
  <2>1. \A x : ~In(x, e)
    BY <1>1, EmptyFacts
  <2> QED BY <2>1, <1>1, <1>2 DEF Phases, Init
<1>12. EntriesAgree
  <2>1. CASE file = << >>
    <3>1. f = e
      BY <2>1, <1>1, <1>6
    <3>2. PICK en : en = onEntry
      OBVIOUS
    <3>3. Has(en, e, e, OwnOf(T))
      BY <1>2, <1>3, <1>10, <3>2, Links
    <3>4. \A p : p \in en /\ p[1] \in Targets <=> p \in MeaningOf(T)
      BY <3>1, <3>3, <1>1, <1>8, HasAllOfIt
    <3>5. OnTargets = Meaning
      BY <3>2, <3>4, <1>3, Links DEF OnTargets
    <3> QED BY <3>5 DEF EntriesAgree
  <2>2. CASE phase = "reading"
    BY <2>2 DEF EntriesAgree
  <2> QED BY <2>1, <2>2 DEF Init
<1>13. LostTyped
  BY <1>2 DEF LostTyped
<1>14. ClassesDone
  BY DEF Init, ClassesDone
<1> QED BY <1>9, <1>10, <1>11, <1>12, <1>13, <1>14 DEF IInv, OnRead


LEMMA DecorateIInv == IInv /\ Decorate => IInv'
<1> SUFFICES ASSUME IInv, Decorate PROVE IInv'
  OBVIOUS
<1>1. PICK e : e = << >>
  OBVIOUS
<1>2. /\ phase = "building" /\ groups = e /\ groupDecs = e /\ lost = {} /\ file = e
      /\ \A x : In(x, decorateSet) => x.target \in Targets
  BY <1>1 DEF IInv, Phases, Decorate
<1>3. PICK ds : ds = decorateSet
  OBVIOUS
<1>4. PICK ds2 : ds2 = decorateSet'
  OBVIOUS
<1>5. PICK T : T = Tokens
  OBVIOUS
<1>6. PICK T2 : T2 = Tokens'
  OBVIOUS
<1>7. PICK n : n = nextId
  OBVIOUS
<1>8. PICK d : /\ \E t \in Targets, k \in Kinds : d = [target |-> t, member |-> 0, kind |-> k]
               /\ ds2 = Insert(ds, d)
               /\ onEntry' = onEntry \cup {<<d.target, d.member, d.kind>>}
  BY <1>3, <1>4 DEF Decorate
<1>9. d \in Decoration /\ d.target \in Targets /\ d.member = 0
  <2>1. Targets \subseteq Nat
    BY DecorationsAssumption
  <2> QED BY <2>1, <1>8 DEF Decoration
<1>10. Sound(ds, e, e, e, T, n)
  BY <1>2, <1>3, <1>5, <1>7 DEF IInv, IsSound
<1>11. UNCHANGED <<phase, nextId, classes, groups, groupDecs, file, lost>>
  BY DEF Decorate
<1>12. T2 = Range(WrittenOf(ds2, e, e)) \cup Range(e)
  BY <1>2, <1>4, <1>6, <1>11, LinksNext
<1>13. Sound(ds2, e, e, e, T2, n) /\ Plus(ds, d, ds2)
  <2>1. ForTargets(ds)
    BY <1>2, <1>3 DEF ForTargets
  <2>2. /\ e = << >> /\ Sound(ds, e, e, e, T, n) /\ ForTargets(ds)
        /\ d \in Decoration /\ d.target \in Targets /\ d.member = 0
        /\ ds2 = Insert(ds, d) /\ T2 = Range(WrittenOf(ds2, e, e)) \cup Range(e)
    BY <2>1, <1>1, <1>8, <1>9, <1>10, <1>12
  <2> QED BY <2>2, AddDecoration
<1>14. IsSound'
  <2>1. Sound(decorateSet', groups', groupDecs', file', Tokens', nextId')
    BY <1>2, <1>4, <1>6, <1>7, <1>11, <1>13
  <2> QED BY <2>1 DEF IsSound
<1>15. Phases'
  <2>1. \A x : In(x, decorateSet') => x.target \in Targets
    BY <1>2, <1>3, <1>4, <1>9, <1>13 DEF Plus
  <2> QED BY <2>1, <1>2, <1>11, <1>1 DEF IInv, Phases
<1>16. PICK en : en = onEntry
  OBVIOUS
<1>17. PICK en2 : en2 = onEntry'
  OBVIOUS
<1>18. Has(en2, ds2, e, OwnOf(T2))
  <2>1. Has(en, ds, e, OwnOf(T))
    BY <1>2, <1>3, <1>5, <1>16, Links DEF IInv, OnRead
  <2>2. en2 = en \cup {<<d.target, d.member, d.kind>>}
    BY <1>8, <1>16, <1>17
  <2>3. ds \in Seq(Decoration) /\ ds2 \in Seq(Decoration) /\ e \in Seq(TargetTokens)
    BY <1>10, <1>13 DEF Sound, Shaped
  <2>4. \A x : ~In(x, e)
    BY <1>1, EmptyFacts
  <2> QED BY <2>1, <2>2, <2>3, <2>4, <1>13, HasMore
<1>19. OnRead'
  <2>1. Has(onEntry', decorateSet', groupDecs', Own')
    BY <1>2, <1>4, <1>6, <1>11, <1>17, <1>18, LinksNext
  <2> QED BY <2>1 DEF OnRead
<1>20. EntriesAgree'
  <2>1. \A p : p \in en2 /\ p[1] \in Targets <=> p \in MeaningOf(T2)
    BY <1>1, <1>13, <1>18, HasAllOfIt
  <2>2. OnTargets' = Meaning'
    BY <2>1, <1>6, <1>17, LinksNext DEF OnTargets
  <2> QED BY <2>2 DEF EntriesAgree
<1>21. LostTyped' /\ ClassesDone'
  BY <1>2, <1>11 DEF IInv, LostTyped, ClassesDone
<1> QED BY <1>14, <1>15, <1>19, <1>20, <1>21 DEF IInv

LEMMA StartOptimizeIInv == IInv /\ StartOptimize => IInv'
<1> SUFFICES ASSUME IInv, StartOptimize PROVE IInv'
  OBVIOUS
<1>1. PICK e : e = << >>
  OBVIOUS
<1>2. /\ phase \in {"building", "reading"} /\ file = e /\ phase' = "optimizing"
      /\ classes' = {Class(d) : d \in Range(decorateSet)}
      /\ UNCHANGED <<nextId, decorateSet, groups, groupDecs, onEntry, file, lost>>
  BY <1>1 DEF IInv, Phases, StartOptimize
<1>3. IsSound' /\ Meaning' = Meaning
  BY <1>2, TablesStay DEF IInv
<1>4. EntriesAgree'
  <2>1. PICK T : T = Tokens
    OBVIOUS
  <2>2. PICK en : en = onEntry
    OBVIOUS
  <2>3. Sound(decorateSet, groups, groupDecs, e, T, nextId)
    BY <1>2, <2>1 DEF IInv, IsSound
  <2>4. Has(en, decorateSet, groupDecs, OwnOf(T))
    BY <1>2, <2>1, <2>2, Links DEF IInv, OnRead
  <2>5. \A p : p \in en /\ p[1] \in Targets <=> p \in MeaningOf(T)
    BY <1>1, <2>3, <2>4, HasAllOfIt
  <2>6. OnTargets = Meaning
    BY <2>1, <2>2, <2>5, Links DEF OnTargets
  <2>7. OnTargets' = OnTargets
    BY <1>2 DEF OnTargets
  <2> QED BY <2>6, <2>7, <1>2, <1>3 DEF EntriesAgree
<1>5. Phases' /\ LostTyped' /\ OnRead'
  BY <1>1, <1>2 DEF IInv, Phases, LostTyped, OnRead
<1>6. ClassesDone'
  <2>1. decorateSet \in Seq(Decoration)
    BY DEF IInv, IsSound, Sound, Shaped
  <2>2. \A x : In(x, decorateSet) => Class(x) \in classes'
    BY <2>1, <1>2, RangeIsIn
  <2>3. Done(decorateSet', classes')
    BY <2>2, <1>2 DEF Done
  <2> QED BY <2>3 DEF ClassesDone
<1> QED BY <1>3, <1>4, <1>5, <1>6 DEF IInv

LEMMA SkipClassIInv == IInv /\ SkipClass => IInv'
<1> SUFFICES ASSUME IInv, SkipClass PROVE IInv'
  OBVIOUS
<1>1. /\ phase = "optimizing"
      /\ UNCHANGED <<phase, nextId, decorateSet, groups, groupDecs, onEntry, file, lost>>
  BY DEF SkipClass
<1>2. IsSound' /\ Meaning' = Meaning
  BY <1>1, TablesStay DEF IInv
<1>3. Phases' /\ LostTyped' /\ OnRead' /\ EntriesAgree'
  BY <1>1, <1>2 DEF IInv, Phases, LostTyped, OnRead, EntriesAgree, OnTargets
<1>4. PICK c : (c[1] \/ Single(InClass(c, decorateSet))) /\ classes' = classes \ {c}
  BY DEF SkipClass, ClassesLeft
<1>5. decorateSet \in Seq(Decoration) /\ Distinct(decorateSet)
  BY DEF IInv, IsSound, Sound, Shaped
<1>6. Done(decorateSet, classes)
  BY <1>1 DEF IInv, ClassesDone
<1>7. Done(decorateSet, classes')
  BY <1>4, <1>5, <1>6, DoneSkipped
<1>8. ClassesDone'
  BY <1>1, <1>7 DEF ClassesDone
<1> QED BY <1>2, <1>3, <1>8 DEF IInv

LEMMA FinishIInv == IInv /\ Finish => IInv'
<1> SUFFICES ASSUME IInv, Finish PROVE IInv'
  OBVIOUS
<1>1. /\ phase = "optimizing" /\ phase' = "done" /\ classes = {}
      /\ UNCHANGED <<nextId, decorateSet, groups, groupDecs, onEntry, file, lost, classes>>
  BY DEF Finish
<1>2. IsSound' /\ Meaning' = Meaning
  BY <1>1, TablesStay DEF IInv
<1>3. Phases' /\ LostTyped' /\ OnRead' /\ EntriesAgree' /\ ClassesDone'
  BY <1>1, <1>2 DEF IInv, Phases, LostTyped, OnRead, EntriesAgree, OnTargets, ClassesDone
<1> QED BY <1>2, <1>3 DEF IInv


LEMMA GroupClassIInv == IInv /\ GroupClass => IInv' /\ Meaning' = Meaning
<1> SUFFICES ASSUME IInv, GroupClass PROVE IInv' /\ Meaning' = Meaning
  OBVIOUS
<1>1. PICK e : e = << >>
  OBVIOUS
<1>2. phase = "optimizing" /\ file = e /\ UNCHANGED <<phase, onEntry, file, lost>> /\ nextId' = nextId + 1
  BY <1>1 DEF IInv, Phases, GroupClass, AfterGetId
<1>3. PICK ds : ds = decorateSet
  OBVIOUS
<1>4. PICK ds2 : ds2 = decorateSet'
  OBVIOUS
<1>5. PICK gs : gs = groups
  OBVIOUS
<1>6. PICK gs2 : gs2 = groups'
  OBVIOUS
<1>7. PICK gd : gd = groupDecs
  OBVIOUS
<1>8. PICK gd2 : gd2 = groupDecs'
  OBVIOUS
<1>9. PICK T : T = Tokens
  OBVIOUS
<1>10. PICK T2 : T2 = Tokens'
  OBVIOUS
<1>11. PICK n : n = nextId
  OBVIOUS
<1>12. Sound(ds, gs, gd, e, T, n)
  BY <1>2, <1>3, <1>5, <1>7, <1>9, <1>11 DEF IInv, IsSound
<1>13. ds \in Seq(Decoration) /\ Distinct(ds)
  BY <1>12 DEF Sound, Shaped
<1>14. T2 = Range(WrittenOf(ds2, gs2, gd2)) \cup Range(e)
  BY <1>2, <1>4, <1>6, <1>8, <1>10, LinksNext
<1>15. PICK c \in classes :
         /\ ~c[1] /\ ~Single(InClass(c, ds)) /\ Len(InClass(c, ds)) < MaxTargets
         /\ classes' = classes \ {c}
         /\ gs2 = Append(gs, [id |-> n, decs |-> <<Retarget(InClass(c, ds)[1], n)>>])
         /\ gd2 = Append(gd, Grouped(n, TargetsOf(InClass(c, ds))))
         /\ ds2 = OutOf(c, ds)
  BY <1>3, <1>4, <1>5, <1>6, <1>7, <1>8, <1>11 DEF GroupClass, ClassesLeft, GroupTargets
<1>16. PICK r : r = InClass(c, ds)
  OBVIOUS
<1>17. PICK R : R = Retarget(r[1], n)
  OBVIOUS
<1>18. PICK g : g = [id |-> n, decs |-> <<R>>]
  OBVIOUS
<1>19. PICK h : h = Grouped(n, TargetsOf(r))
  OBVIOUS
<1>20. GroupMade(ds, gs, gd, c, n, r, R, g, h, ds2, gs2, gd2)
  BY <1>15, <1>16, <1>17, <1>18, <1>19 DEF GroupMade
<1>21. r \in Seq(Decoration)
  BY <1>13, <1>16, InClassFacts
<1>22. PICK M \in Nat : M = Len(r)
  BY <1>21, LenProperties
<1>23. ~c[1] /\ 2 <= M /\ M < MaxTargets
  BY <1>15, <1>16, <1>22 DEF Single
<1>24. Sound(ds2, gs2, gd2, e, T2, n + 1) /\ MeaningOf(T2) = MeaningOf(T)
  BY <1>1, <1>12, <1>14, <1>20, <1>22, <1>23, MakeGroup
<1>25. IsSound'
  BY <1>2, <1>4, <1>6, <1>8, <1>10, <1>11, <1>24 DEF IsSound
<1>26. Meaning' = Meaning
  BY <1>9, <1>10, <1>24, Links, LinksNext
<1>27. Phases' /\ LostTyped' /\ OnRead' /\ EntriesAgree'
  BY <1>2, <1>26 DEF IInv, Phases, LostTyped, OnRead, EntriesAgree, OnTargets
<1>28. ClassesDone'
  <2>1. Done(ds, classes)
    BY <1>2, <1>3 DEF IInv, ClassesDone
  <2>2. Done(ds2, classes')
    BY <2>1, <1>13, <1>15, DoneGrouped
  <2> QED BY <2>2, <1>4 DEF ClassesDone
<1> QED BY <1>25, <1>26, <1>27, <1>28 DEF IInv

LEMMA TooManyTargetsIInv ==
  IInv /\ TooManyTargets => IInv' /\ Meaning' \cup lost' = Meaning \cup lost
<1> SUFFICES ASSUME IInv, TooManyTargets PROVE IInv' /\ Meaning' \cup lost' = Meaning \cup lost
  OBVIOUS
<1>1. PICK e : e = << >>
  OBVIOUS
<1>2. /\ phase = "optimizing" /\ file = e /\ UNCHANGED <<phase, groups, groupDecs, onEntry, file>>
      /\ nextId' = nextId + 1
  BY <1>1 DEF IInv, Phases, TooManyTargets, AfterGetId
<1>3. PICK ds : ds = decorateSet
  OBVIOUS
<1>4. PICK ds2 : ds2 = decorateSet'
  OBVIOUS
<1>5. PICK gs : gs = groups
  OBVIOUS
<1>6. PICK gd : gd = groupDecs
  OBVIOUS
<1>7. PICK T : T = Tokens
  OBVIOUS
<1>8. PICK T2 : T2 = Tokens'
  OBVIOUS
<1>9. PICK n : n = nextId
  OBVIOUS
<1>10. Sound(ds, gs, gd, e, T, n)
  BY <1>2, <1>3, <1>5, <1>6, <1>7, <1>9 DEF IInv, IsSound
<1>11. ds \in Seq(Decoration) /\ Distinct(ds) /\ n \in Nat
  BY <1>10 DEF Sound, Shaped
<1>12. T2 = Range(WrittenOf(ds2, gs, gd)) \cup Range(e)
  BY <1>2, <1>4, <1>5, <1>6, <1>8, LinksNext
<1>13. PICK c \in classes :
         LET range == InClass(c, decorateSet)
             first == CHOOSE i \in DOMAIN decorateSet : decorateSet[i] = range[1]
         IN
         /\ ~c[1] /\ ~Single(InClass(c, ds)) /\ Len(InClass(c, ds)) >= MaxTargets
         /\ classes' = classes \ {c}
         /\ decorateSet' = [decorateSet EXCEPT ![first] = Retarget(@, nextId)]
         /\ lost' = lost \cup (Targets \cap {range[1].target}) \X {0} \X {range[1].kind}
  BY <1>3 DEF TooManyTargets, ClassesLeft
<1>14. PICK r : r = InClass(c, ds)
  OBVIOUS
<1>15. PICK first : first = CHOOSE i \in DOMAIN ds : ds[i] = r[1]
  OBVIOUS
<1>16. PICK gone : gone = (Targets \cap {r[1].target}) \X {0} \X {r[1].kind}
  OBVIOUS
<1>17. PICK R : R = Retarget(r[1], n)
  OBVIOUS
<1>18. /\ ds2 = [ds EXCEPT ![first] = Retarget(ds[first], n)]
       /\ lost' = lost \cup gone /\ classes' = classes \ {c} /\ ~c[1]
  BY <1>3, <1>4, <1>9, <1>13, <1>14, <1>15, <1>16
<1>19. r \in Seq(Decoration) /\ \A x : In(x, r) <=> In(x, ds) /\ Class(x) = c
  BY <1>11, <1>14, InClassFacts
<1>20. PICK M \in Nat : M = Len(r)
  BY <1>19, LenProperties
<1>21. MaxTargets <= M /\ 1 \in 1 .. M
  <2>1. MaxTargets \in Nat /\ 1 <= MaxTargets
    BY DecorationsAssumption
  <2>2. M >= MaxTargets
    BY <1>13, <1>14, <1>20
  <2> QED BY <2>1, <2>2
<1>22. first \in 1 .. Len(ds) /\ ds[first] = r[1]
  <2>1. PICK a : a = r[1]
    OBVIOUS
  <2>2. In(a, r)
    BY <2>1, <1>20, <1>21 DEF In
  <2>3. In(a, ds)
    BY <2>2, <1>19
  <2>4. DOMAIN ds = 1 .. Len(ds)
    BY <1>11, LenProperties
  <2>5. \E i \in DOMAIN ds : ds[i] = r[1]
    BY <2>1, <2>3, <2>4 DEF In
  <2> QED BY <2>4, <2>5, <1>15
<1>23. GroupDropped(ds, c, n, r, R, first, ds2, gone)
  BY <1>14, <1>16, <1>17, <1>18, <1>22 DEF GroupDropped
<1>24. /\ Sound(ds2, gs, gd, e, T2, n + 1) /\ MeansLess(T, T2, gone)
       /\ Len(InClass(c, ds2)) = M /\ OthersKept(c, ds, ds2)
  <2>1. /\ e = << >> /\ Sound(ds, gs, gd, e, T, n) /\ ~c[1]
        /\ GroupDropped(ds, c, n, r, R, first, ds2, gone)
        /\ M \in Nat /\ M = Len(r) /\ MaxTargets <= M
        /\ T2 = Range(WrittenOf(ds2, gs, gd)) \cup Range(e)
    BY <1>1, <1>10, <1>12, <1>18, <1>20, <1>21, <1>23
  <2> QED BY <2>1, DropGroup
<1>25. IsSound'
  BY <1>2, <1>4, <1>5, <1>6, <1>8, <1>9, <1>24 DEF IsSound
<1>26. Meaning = MeaningOf(T) /\ Meaning' = MeaningOf(T2)
  BY <1>7, <1>8, Links, LinksNext
<1>27. Meaning' \cup lost' = Meaning \cup lost
  BY <1>18, <1>24, <1>26 DEF MeansLess
<1>28. EntriesAgree'
  <2>1. OnTargets' = OnTargets /\ OnTargets \cup lost = Meaning \cup lost
    BY <1>2 DEF IInv, EntriesAgree, OnTargets
  <2>2. OnTargets' \cup lost' = Meaning' \cup lost'
    BY <2>1, <1>18, <1>24, <1>26 DEF MeansLess
  <2> QED BY <2>2 DEF EntriesAgree
<1>29. LostTyped'
  BY <1>18, <1>24 DEF IInv, LostTyped, MeansLess
<1>30. Phases' /\ OnRead'
  BY <1>2 DEF IInv, Phases, OnRead
<1>31. ClassesDone'
  <2>1. Done(ds, classes)
    BY <1>2, <1>3 DEF IInv, ClassesDone
  <2>2. ds2 \in Seq(Decoration) /\ Distinct(ds2)
    BY <1>24 DEF Sound, Shaped
  <2>3. Done(ds2, classes')
    BY <2>1, <2>2, <1>11, <1>18, <1>20, <1>21, <1>24, DoneDropped
  <2> QED BY <2>3, <1>4 DEF ClassesDone
<1> QED BY <1>25, <1>27, <1>28, <1>29, <1>30, <1>31 DEF IInv


\* What has the same things means the same.
LEMMA SameThingsMean ==
  ASSUME NEW T, NEW T2, SameThings(T, T2)
  PROVE  MeaningOf(T2) = MeaningOf(T)
BY DEF SameThings, MeaningOf

LEMMA WriteIInv == IInv /\ Write => IInv' /\ Meaning' = Meaning
<1> SUFFICES ASSUME IInv, Write PROVE IInv' /\ Meaning' = Meaning
  OBVIOUS
<1>1. PICK e : e = << >>
  OBVIOUS
<1>2. /\ phase = "optimizing" /\ phase' = "reading" /\ file = e /\ classes = {}
      /\ decorateSet' = e /\ groups' = e /\ groupDecs' = e /\ onEntry' = {} /\ file' = Written
      /\ UNCHANGED <<nextId, classes, lost>>
  BY <1>1 DEF IInv, Phases, Write
<1>3. PICK T : T = Tokens
  OBVIOUS
<1>4. PICK T2 : T2 = Tokens'
  OBVIOUS
<1>5. PICK w : w = WrittenOf(decorateSet, groups, groupDecs)
  OBVIOUS
<1>6. w = file'
  BY <1>2, <1>5, Links
<1>7. Sound(decorateSet, groups, groupDecs, e, T, nextId)
  BY <1>2, <1>3 DEF IInv, IsSound
<1>8. T2 = Range(WrittenOf(e, e, e)) \cup Range(w)
  BY <1>2, <1>4, <1>6, LinksNext
<1>9. Sound(e, e, e, w, T2, nextId) /\ SameThings(T, T2)
  BY <1>1, <1>5, <1>7, <1>8, WriteAll
<1>10. IsSound'
  <2>1. Sound(decorateSet', groups', groupDecs', file', Tokens', nextId')
    BY <1>2, <1>4, <1>6, <1>9
  <2> QED BY <2>1 DEF IsSound
<1>11. Meaning' = Meaning
  BY <1>3, <1>4, <1>9, Links, LinksNext, SameThingsMean
<1>12. OnRead'
  <2>1. PICK en : en = onEntry'
    OBVIOUS
  <2>2. PICK O : O = Own'
    OBVIOUS
  <2>3. Has(en, e, e, O)
    BY <2>1, <1>1, <1>2, HasNothing
  <2>4. Has(onEntry', decorateSet', groupDecs', Own')
    BY <2>1, <2>2, <2>3, <1>2
  <2> QED BY <2>4 DEF OnRead
<1>13. Phases' /\ LostTyped' /\ EntriesAgree' /\ ClassesDone'
  BY <1>2 DEF IInv, Phases, LostTyped, EntriesAgree, ClassesDone
<1> QED BY <1>10, <1>11, <1>12, <1>13 DEF IInv

\* What stays while the module is read.
LEMMA StillReading ==
  ASSUME IInv, phase = "reading", UNCHANGED <<phase, nextId, classes, lost>>
  PROVE  Phases' /\ LostTyped' /\ EntriesAgree' /\ ClassesDone'
BY DEF IInv, Phases, LostTyped, EntriesAgree, ClassesDone

LEMMA HeadOfFile ==
  ASSUME NEW f \in Seq(AllTokens), f # << >>
  PROVE  Head(f) = f[1]
BY HeadTailProperties

LEMMA DecodeDecorateIInv == IInv /\ DecodeDecorate => IInv' /\ Meaning' = Meaning
<1> SUFFICES ASSUME IInv, DecodeDecorate PROVE IInv' /\ Meaning' = Meaning
  OBVIOUS
<1>1. phase = "reading" /\ UNCHANGED <<phase, nextId, classes, groups, groupDecs, lost>>
  BY DEF DecodeDecorate
<1>2. PICK ds : ds = decorateSet
  OBVIOUS
<1>3. PICK ds2 : ds2 = decorateSet'
  OBVIOUS
<1>4. PICK f : f = file
  OBVIOUS
<1>5. PICK f2 : f2 = file'
  OBVIOUS
<1>6. PICK T : T = Tokens
  OBVIOUS
<1>7. PICK T2 : T2 = Tokens'
  OBVIOUS
<1>8. Sound(ds, groups, groupDecs, f, T, nextId)
  BY <1>2, <1>4, <1>6 DEF IInv, IsSound
<1>9. f \in Seq(AllTokens) /\ f # << >> /\ f2 = Tail(f)
  BY <1>4, <1>5, <1>8 DEF DecodeDecorate, Sound, Shaped
<1>10. Head(f) = f[1]
  BY <1>9, HeadOfFile
<1>11. PICK d : d = f[1].dec
  OBVIOUS
<1>12. /\ f[1].op = "Decorate" /\ ds2 = Insert(ds, d)
       /\ onEntry' = onEntry \cup {<<d.target, d.member, d.kind>>}
  BY <1>2, <1>3, <1>4, <1>10, <1>11 DEF DecodeDecorate
<1>13. T2 = Range(WrittenOf(ds2, groups, groupDecs)) \cup Range(f2)
  BY <1>1, <1>3, <1>5, <1>7, LinksNext
<1>14. Sound(ds2, groups, groupDecs, f2, T2, nextId) /\ SameThings(T, T2) /\ Plus(ds, d, ds2)
  <2>1. DecorationRead(ds, f, d, ds2, f2)
    BY <1>9, <1>11, <1>12 DEF DecorationRead
  <2> QED BY <2>1, <1>8, <1>13, ReadDecoration
<1>15. IsSound'
  BY <1>1, <1>3, <1>5, <1>7, <1>14 DEF IsSound
<1>16. Meaning' = Meaning
  BY <1>6, <1>7, <1>14, Links, LinksNext, SameThingsMean
<1>17. OnRead'
  <2>1. PICK O : O = OwnOf(T)
    OBVIOUS
  <2>2. Own = O /\ Own' = O
    BY <2>1, <1>6, <1>7, <1>14, Links, LinksNext DEF SameThings
  <2>3. Has(onEntry, ds, groupDecs, O)
    BY <2>2, <1>1, <1>2 DEF IInv, OnRead
  <2>4. ds \in Seq(Decoration) /\ ds2 \in Seq(Decoration) /\ groupDecs \in Seq(TargetTokens)
    BY <1>8, <1>14 DEF Sound, Shaped
  <2>5. PICK en2 : en2 = onEntry'
    OBVIOUS
  <2>6. Has(en2, ds2, groupDecs, O)
    BY <2>3, <2>4, <2>5, <1>12, <1>14, HasMore
  <2> QED BY <2>2, <2>5, <2>6, <1>1, <1>3 DEF OnRead
<1> QED BY <1>1, <1>15, <1>16, <1>17, StillReading DEF IInv

LEMMA DecodeGroupIInv == IInv /\ DecodeGroup => IInv' /\ Meaning' = Meaning
<1> SUFFICES ASSUME IInv, DecodeGroup PROVE IInv' /\ Meaning' = Meaning
  OBVIOUS
<1>1. PICK e : e = << >>
  OBVIOUS
<1>2. /\ phase = "reading" /\ decorateSet' = e
      /\ UNCHANGED <<phase, nextId, classes, groupDecs, onEntry, lost>>
  BY <1>1 DEF DecodeGroup
<1>3. PICK ds : ds = decorateSet
  OBVIOUS
<1>4. PICK gs2 : gs2 = groups'
  OBVIOUS
<1>5. PICK f : f = file
  OBVIOUS
<1>6. PICK f2 : f2 = file'
  OBVIOUS
<1>7. PICK T : T = Tokens
  OBVIOUS
<1>8. PICK T2 : T2 = Tokens'
  OBVIOUS
<1>9. Sound(ds, groups, groupDecs, f, T, nextId)
  BY <1>3, <1>5, <1>7 DEF IInv, IsSound
<1>10. f \in Seq(AllTokens) /\ f # << >> /\ f2 = Tail(f)
  BY <1>5, <1>6, <1>9 DEF DecodeGroup, Sound, Shaped
<1>11. Head(f) = f[1]
  BY <1>10, HeadOfFile
<1>12. PICK g : g = [id |-> f[1].id, decs |-> ds]
  OBVIOUS
<1>13. f[1].op = "DecorationGroup" /\ gs2 = Append(groups, g)
  BY <1>3, <1>4, <1>5, <1>11, <1>12 DEF DecodeGroup
<1>14. T2 = Range(WrittenOf(e, gs2, groupDecs)) \cup Range(f2)
  BY <1>2, <1>4, <1>6, <1>8, LinksNext
<1>15. Sound(e, gs2, groupDecs, f2, T2, nextId) /\ SameThings(T, T2) /\ OfGroups(ds, T)
  <2>1. GroupRead(ds, groups, f, g, gs2, f2)
    BY <1>10, <1>12, <1>13 DEF GroupRead
  <2> QED BY <2>1, <1>1, <1>9, <1>14, ReadGroup
<1>16. IsSound'
  BY <1>2, <1>4, <1>6, <1>8, <1>15 DEF IsSound
<1>17. Meaning' = Meaning
  BY <1>7, <1>8, <1>15, Links, LinksNext, SameThingsMean
<1>18. OnRead'
  <2>1. PICK O : O = OwnOf(T)
    OBVIOUS
  <2>2. Own = O /\ Own' = O
    BY <2>1, <1>7, <1>8, <1>15, Links, LinksNext DEF SameThings
  <2>3. Has(onEntry, ds, groupDecs, O)
    BY <2>2, <1>2, <1>3 DEF IInv, OnRead
  <2>4. ds \in Seq(Decoration) /\ groupDecs \in Seq(TargetTokens)
    BY <1>9 DEF Sound, Shaped
  <2>5. \A id \in IdsOf(T) : id \notin Targets
    BY <1>9, IdsAreNew
  <2>6. Has(onEntry, e, groupDecs, O)
    BY <2>3, <2>4, <2>5, <1>1, <1>15, HasGroup
  <2> QED BY <2>2, <2>6, <1>2 DEF OnRead
<1> QED BY <1>2, <1>16, <1>17, <1>18, StillReading DEF IInv

LEMMA DecodeGroupDecorateIInv == IInv /\ DecodeGroupDecorate => IInv' /\ Meaning' = Meaning
<1> SUFFICES ASSUME IInv, DecodeGroupDecorate PROVE IInv' /\ Meaning' = Meaning
  OBVIOUS
<1>1. phase = "reading" /\ UNCHANGED <<phase, nextId, classes, decorateSet, groups, lost>>
  BY DEF DecodeGroupDecorate
<1>2. PICK gd : gd = groupDecs
  OBVIOUS
<1>3. PICK gd2 : gd2 = groupDecs'
  OBVIOUS
<1>4. PICK f : f = file
  OBVIOUS
<1>5. PICK f2 : f2 = file'
  OBVIOUS
<1>6. PICK T : T = Tokens
  OBVIOUS
<1>7. PICK T2 : T2 = Tokens'
  OBVIOUS
<1>8. Sound(decorateSet, groups, gd, f, T, nextId)
  BY <1>2, <1>4, <1>6 DEF IInv, IsSound
<1>9. f \in Seq(AllTokens) /\ f # << >> /\ f2 = Tail(f)
  BY <1>4, <1>5, <1>8 DEF DecodeGroupDecorate, Sound, Shaped
<1>10. PICK g : g = f[1]
  OBVIOUS
<1>11. Head(f) = g
  BY <1>9, <1>10, HeadOfFile
<1>12. g.op = "GroupDecorate" /\ gd2 = Append(gd, g)
  BY <1>2, <1>3, <1>4, <1>11 DEF DecodeGroupDecorate
<1>13. groups \in Seq(Groups) /\ DOMAIN groups = 1 .. Len(groups)
  BY <1>8, LenProperties DEF Sound, Shaped
<1>14. PICK i \in 1 .. Len(groups) :
         /\ groups[i].id = g.group
         /\ onEntry' = onEntry \cup
              {<<t, d.member, d.kind>> : t \in Range(g.targets), d \in Range(groups[i].decs)}
  <2>1. Head(file) = g
    BY <1>4, <1>11
  <2>2. PICK j \in DOMAIN groups :
          /\ groups[j].id = Head(file).group
          /\ onEntry' = onEntry \cup
               {<<t, d.member, d.kind>> : t \in Range(Head(file).targets), d \in Range(groups[j].decs)}
    BY DEF DecodeGroupDecorate
  <2>3. /\ j \in 1 .. Len(groups) /\ groups[j].id = g.group
        /\ onEntry' = onEntry \cup
             {<<t, d.member, d.kind>> : t \in Range(g.targets), d \in Range(groups[j].decs)}
    BY <2>1, <2>2, <1>13
  <2> QED BY <2>3
<1>15. T2 = Range(WrittenOf(decorateSet, groups, gd2)) \cup Range(f2)
  BY <1>1, <1>3, <1>5, <1>7, LinksNext
<1>16. /\ Sound(decorateSet, groups, gd2, f2, T2, nextId) /\ SameThings(T, T2) /\ g \in TargetTokens
       /\ Plus(gd, g, gd2) /\ GroupHas(OwnOf(T), g, groups[i].decs)
  <2>1. TargetsRead(groups, gd, f, g, i, gd2, f2)
    BY <1>9, <1>10, <1>12, <1>14 DEF TargetsRead
  <2> QED BY <2>1, <1>8, <1>15, ReadTargets
<1>17. IsSound'
  BY <1>1, <1>3, <1>5, <1>7, <1>16 DEF IsSound
<1>18. Meaning' = Meaning
  BY <1>6, <1>7, <1>16, Links, LinksNext, SameThingsMean
<1>19. OnRead'
  <2>1. PICK O : O = OwnOf(T)
    OBVIOUS
  <2>2. Own = O /\ Own' = O
    BY <2>1, <1>6, <1>7, <1>16, Links, LinksNext DEF SameThings
  <2>3. Has(onEntry, decorateSet, gd, O)
    BY <2>2, <1>1, <1>2 DEF IInv, OnRead
  <2>4. decorateSet \in Seq(Decoration) /\ gd \in Seq(TargetTokens) /\ gd2 \in Seq(TargetTokens)
    BY <1>8, <1>16 DEF Sound, Shaped
  <2>5. PICK own : own = groups[i].decs
    OBVIOUS
  <2>6. own \in Seq(Decoration) /\ GroupHas(O, g, own)
    <3>1. groups[i] \in Groups
      BY <1>13, <1>14, ElementOfSeq
    <3>2. own \in Seq(Decoration)
      BY <3>1, <2>5 DEF Groups
    <3> QED BY <3>2, <2>1, <2>5, <1>16
  <2>7. PICK en2 : en2 = onEntry'
    OBVIOUS
  <2>8. Given(onEntry, g, own, en2)
    BY <2>5, <2>7, <1>14 DEF Given
  <2>9. Has(en2, decorateSet, gd2, O)
    BY <2>3, <2>4, <2>6, <2>8, <1>16, HasTargets
  <2> QED BY <2>2, <2>7, <2>9, <1>1, <1>3 DEF OnRead
<1> QED BY <1>1, <1>17, <1>18, <1>19, StillReading DEF IInv


LEMMA NextIInv == IInv /\ [Next]_vars => IInv'
<1> SUFFICES ASSUME IInv, [Next]_vars PROVE IInv'
  OBVIOUS
<1>1. CASE UNCHANGED vars
  <2>1. UNCHANGED <<phase, nextId, decorateSet, classes, groups, groupDecs, onEntry, file, lost>>
    BY <1>1 DEF vars
  <2>2. IsSound' /\ Meaning' = Meaning /\ Own' = Own
    BY <2>1, TablesStay DEF IInv
  <2> QED BY <2>1, <2>2 DEF IInv, Phases, LostTyped, OnRead, EntriesAgree, OnTargets, ClassesDone
<1> QED
  BY <1>1, DecorateIInv, StartOptimizeIInv, SkipClassIInv, GroupClassIInv, TooManyTargetsIInv, WriteIInv,
     FinishIInv, DecodeDecorateIInv, DecodeGroupIInv, DecodeGroupDecorateIInv DEF Next

\* Every state that can be reached has the invariant: grouping, writing and each of the
\* decoders keep it.
THEOREM IInvHolds == Spec => []IInv
BY InitIInv, NextIInv, PTL DEF Spec

-----------------------------------------------------------------------------
Counted == rounds \in 0 .. MaxRounds /\ classes \subseteq BOOLEAN \X Kinds

LEMMA InitCounted == Init => Counted
BY DecorationsAssumption DEF Init, Counted

LEMMA NextCounted == IInv /\ Counted /\ [Next]_vars => Counted'
<1> SUFFICES ASSUME IInv, Counted, [Next]_vars PROVE Counted'
  OBVIOUS
<1>1. CASE StartOptimize
  <2>1. decorateSet \in Seq(Decoration)
    BY DEF IInv, IsSound, Sound, Shaped
  <2>2. \A d \in Range(decorateSet) : d \in Decoration
    BY <2>1, LenProperties, ElementOfSeq DEF Range
  <2>3. \A d \in Decoration : Class(d) \in BOOLEAN \X Kinds
    BY DEF Class, Decoration
  <2> QED BY <2>2, <2>3, <1>1 DEF StartOptimize, Counted
<1>2. CASE SkipClass \/ GroupClass \/ TooManyTargets
  BY <1>2 DEF SkipClass, GroupClass, TooManyTargets, ClassesLeft, Counted
<1>3. CASE Write
  BY <1>3, DecorationsAssumption DEF Write, Counted
<1>4. CASE Decorate \/ Finish \/ DecodeDecorate \/ DecodeGroup \/ DecodeGroupDecorate
  BY <1>4 DEF Decorate, Finish, DecodeDecorate, DecodeGroup, DecodeGroupDecorate, Counted
<1>5. CASE UNCHANGED vars
  BY <1>5 DEF vars, Counted
<1> QED BY <1>1, <1>2, <1>3, <1>4, <1>5 DEF Next

\* The tables have the types the code gives them; the ids of groups are different, and
\* below the next that getId() will give.
THEOREM TypeOKHolds == Spec => []TypeOK
<1>1. ASSUME IInv, Counted PROVE TypeOK
  <2>1. Sound(decorateSet, groups, groupDecs, file, Tokens, nextId)
    BY <1>1 DEF IInv, IsSound
  <2>2. /\ decorateSet \in Seq(Decoration) /\ groups \in Seq(Groups) /\ nextId \in Nat
        /\ DifferentIds(groups) /\ Bounds(Tokens, nextId)
    BY <2>1 DEF Sound, Shaped
  <2>3. DOMAIN groups = 1 .. Len(groups)
    BY <2>2, LenProperties
  <2>4. \A i \in DOMAIN groups : groups[i].decs \in Seq(Decoration)
    <3>1. \A i \in DOMAIN groups : groups[i] \in Groups
      BY <2>2, <2>3, ElementOfSeq
    <3> QED BY <3>1 DEF Groups
  <2>5. \A i \in DOMAIN groups : groups[i].id < nextId
    <3>1. Holds(Tokens, decorateSet, groups, groupDecs, file)
      BY <2>1, SoundHolds
    <3>2. \A i \in DOMAIN groups : groups[i].id \in IdsOf(Tokens)
      BY <3>1, <2>3 DEF Holds
    <3> QED BY <3>2, <2>2 DEF Bounds
  <2>6. IsInjective([i \in DOMAIN groups |-> groups[i].id])
    BY <2>2 DEF IsInjective, DifferentIds
  <2> QED BY <1>1, <2>2, <2>4, <2>5, <2>6 DEF TypeOK, IInv, Phases, Counted
<1>2. Spec => []Counted
  BY InitCounted, NextCounted, IInvHolds, PTL DEF Spec
<1> QED BY <1>1, <1>2, IInvHolds, PTL

-----------------------------------------------------------------------------
\* The entries have the decorations that the module means, whatever was grouped by
\* optimizeDecorates(), written by operator<< and read back by decode() in the
\* meantime: but for what went with a group of too many targets.
THEOREM EntriesAgreeHolds == Spec => []EntriesAgree
<1>1. IInv => EntriesAgree
  BY DEF IInv
<1> QED BY <1>1, IInvHolds, PTL

\* When optimizeDecorates() is through, no two targets share a decoration outside a
\* group, unless they are too many for one.
THEOREM SharedAreGroupedHolds == Spec => []SharedAreGrouped
<1>1. ASSUME IInv PROVE SharedAreGrouped
  <2> SUFFICES ASSUME phase \in {"optimizing", "done"}, classes = {}, NEW i \in DOMAIN decorateSet,
                      decorateSet[i].member = 0
               PROVE  Len(InClass(Class(decorateSet[i]), decorateSet)) \notin 2 .. MaxTargets - 1
    BY DEF SharedAreGrouped
  <2>1. decorateSet \in Seq(Decoration)
    BY <1>1 DEF IInv, IsSound, Sound, Shaped
  <2>2. PICK d : d = decorateSet[i]
    OBVIOUS
  <2>3. In(d, decorateSet)
    BY <2>1, <2>2, LenProperties DEF In
  <2>4. Done(decorateSet, {})
    BY <1>1 DEF IInv, ClassesDone
  <2>5. Enough(Class(d), decorateSet)
    BY <2>2, <2>3, <2>4 DEF Done
  <2> QED BY <2>2, <2>5 DEF Enough
<1> QED BY <1>1, IInvHolds, PTL

-----------------------------------------------------------------------------
(***************************************************************************)
(* The module implements the store: Decorate decorates, the first          *)
(* StartOptimize closes it, and every other step leaves what it means as   *)
(* it is.                                                                  *)
(***************************************************************************)
StoreVars == <<Meaning \cup lost, phase = "building">>

LEMMA MeaningTyped == IInv => Meaning \subseteq Targets \X (Members \cup {0}) \X Kinds
<1> SUFFICES ASSUME IInv, NEW p \in Meaning PROVE p \in Targets \X (Members \cup {0}) \X Kinds
  OBVIOUS
<1>1. PICK T : T = Tokens
  OBVIOUS
<1>2. MeansBy(p, OwnOf(T), GroupingsOf(T), OwnOf(T))
  BY <1>1, Links, MeaningByHolds DEF MeaningOf
<1>3. Holds(T, decorateSet, groups, groupDecs, file)
  BY <1>1, SoundHolds DEF IInv, IsSound
<1>4. T \subseteq AllTokens
  BY <1>3 DEF Holds
<1>5. /\ \A d \in OwnOf(T) : d \in Decoration
      /\ \A g \in GroupingsOf(T) : g \in TargetTokens
  BY <1>4, TokenKinds
<1>6. \A d \in OwnOf(T) : d.member \in Members \cup {0} /\ d.kind \in Kinds
  BY <1>5 DEF Decoration
<1>7. \A g \in GroupingsOf(T) : \A k \in DOMAIN g.targets : g.targets[k] \in Targets
  <2> TAKE g \in GroupingsOf(T)
  <2>1. g.targets \in Seq(Targets)
    BY <1>5 DEF TargetTokens
  <2> QED BY <2>1, LenProperties, ElementOfSeq
<1> QED BY <1>2, <1>6, <1>7 DEF MeansBy

LEMMA StoreInit == Init => Store!Init
<1> SUFFICES ASSUME Init PROVE Store!Init
  OBVIOUS
<1>1. Meaning \subseteq Targets \X (Members \cup {0}) \X Kinds
  BY InitIInv, MeaningTyped
<1>2. lost = {}
  BY DEF Init
<1> QED BY <1>1, <1>2 DEF Store!Init

LEMMA DecorateStores == IInv /\ Decorate => Store!Decorate
<1> SUFFICES ASSUME IInv, Decorate PROVE Store!Decorate
  OBVIOUS
<1>1. phase = "building" /\ phase' = phase /\ lost = {} /\ lost' = {}
  BY DEF IInv, Phases, Decorate
<1>2. PICK t \in Targets, k \in Kinds : onEntry' = onEntry \cup {<<t, 0, k>>}
  BY DEF Decorate
<1>3. IInv'
  BY DecorateIInv
<1>4. OnTargets = Meaning /\ OnTargets' = Meaning'
  BY <1>1, <1>3 DEF IInv, EntriesAgree
<1>5. OnTargets' = OnTargets \cup {<<t, 0, k>>}
  BY <1>2 DEF OnTargets
<1>6. Meaning' \cup lost' = (Meaning \cup lost) \cup {<<t, 0, k>>}
  BY <1>1, <1>4, <1>5
<1>7. <<t, 0, k>> \in Targets \X (Members \cup {0}) \X Kinds
  OBVIOUS
<1> QED BY <1>1, <1>6, <1>7 DEF Store!Decorate

LEMMA StartOptimizeStores ==
  IInv /\ StartOptimize => Store!Close \/ UNCHANGED StoreVars
<1> SUFFICES ASSUME IInv, StartOptimize PROVE Store!Close \/ UNCHANGED StoreVars
  OBVIOUS
<1>1. /\ phase \in {"building", "reading"} /\ phase' = "optimizing"
      /\ UNCHANGED <<nextId, decorateSet, groups, groupDecs, file, lost>>
  BY DEF StartOptimize
<1>2. Meaning' \cup lost' = Meaning \cup lost
  BY <1>1, TablesStay
<1>3. CASE phase = "building"
  BY <1>1, <1>2, <1>3 DEF Store!Close
<1>4. CASE phase = "reading"
  BY <1>1, <1>2, <1>4 DEF StoreVars
<1> QED BY <1>1, <1>3, <1>4

LEMMA OthersStutter ==
  ASSUME IInv,
         SkipClass \/ GroupClass \/ TooManyTargets \/ Write \/ Finish
           \/ DecodeDecorate \/ DecodeGroup \/ DecodeGroupDecorate
  PROVE  UNCHANGED StoreVars
<1>1. phase # "building" /\ phase' # "building"
  BY DEF SkipClass, GroupClass, TooManyTargets, Write, Finish, DecodeDecorate, DecodeGroup,
         DecodeGroupDecorate
<1>2. Meaning' \cup lost' = Meaning \cup lost
  <2>1. CASE SkipClass \/ Finish
    <3>1. UNCHANGED <<nextId, decorateSet, groups, groupDecs, file, lost>>
      BY <2>1 DEF SkipClass, Finish
    <3> QED BY <3>1, TablesStay
  <2>2. CASE TooManyTargets
    BY <2>2, TooManyTargetsIInv
  <2>3. CASE GroupClass \/ Write \/ DecodeDecorate \/ DecodeGroup \/ DecodeGroupDecorate
    <3>1. lost' = lost
      BY <2>3 DEF GroupClass, Write, DecodeDecorate, DecodeGroup, DecodeGroupDecorate
    <3> QED BY <3>1, <2>3, GroupClassIInv, WriteIInv, DecodeDecorateIInv, DecodeGroupIInv,
               DecodeGroupDecorateIInv
  <2> QED BY <2>1, <2>2, <2>3
<1> QED BY <1>1, <1>2 DEF StoreVars

LEMMA NextStores ==
  IInv /\ [Next]_vars => [Store!Decorate \/ Store!Close]_StoreVars
<1> SUFFICES ASSUME IInv, [Next]_vars PROVE [Store!Decorate \/ Store!Close]_StoreVars
  OBVIOUS
<1>1. CASE UNCHANGED vars
  <2>1. UNCHANGED <<nextId, decorateSet, groups, groupDecs, file, lost>> /\ phase' = phase
    BY <1>1 DEF vars
  <2> QED BY <2>1, TablesStay DEF StoreVars
<1> QED BY <1>1, DecorateStores, StartOptimizeStores, OthersStutter DEF Next

\* No decoration is lost, added or moved by grouping, writing and reading, but at the
\* limit of a group decorate: the module implements DecorationStore.
THEOREM MeaningKeptHolds == Spec => MeaningKept
<1>1. IInv /\ [Next]_vars => [Store!Decorate \/ Store!Close]_<<Meaning \cup lost, phase = "building">>
  BY NextStores DEF StoreVars
<1> QED BY <1>1, StoreInit, IInvHolds, PTL DEF Spec, MeaningKept, Store!Spec
=============================================================================
