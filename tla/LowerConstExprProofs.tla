------------------------ MODULE LowerConstExprProofs ------------------------
(***************************************************************************)
(* Proofs about LowerConstExpr, for any expressions and any modules.       *)
(***************************************************************************)
EXTENDS LowerConstExpr, TLAPS, SequenceTheorems

(***************************************************************************)
(* What is still to be lowered is in the work list, or in the instruction  *)
(* at hand at or behind the operand to look at, or in a later function;    *)
(* and later functions are as they were.                                   *)
(***************************************************************************)
Pending ==
  \A f \in Functions : \A n \in DOMAIN inst[f] : \A i \in DOMAIN Ops(f, n) :
    Ops(f, n)[i] \in Exprs =>
      \/ f > func
      \/ f = func /\ \E k \in DOMAIN work : work[k] = n
      \/ f = func /\ next # 0 /\ n = cur /\ i >= next

Untouched == \A f \in Functions : f > func => DOMAIN inst[f] = DOMAIN module.bodies[f]

IInv == TypeOK /\ DefinedBeforeUse /\ MeaningKept /\ Pending /\ Untouched

(***************************************************************************)
(* Lemmas.                                                                 *)
(***************************************************************************)
\* What a module is made of.
LEMMA ModuleTypes ==
  ASSUME IsModule(module)
  PROVE  /\ module.args \in [Exprs -> Seq(Exprs \cup {Leaf})]
         /\ module.bodies \in Seq(Seq(Seq(Exprs \cup {Leaf})))
         /\ Functions = 1 .. Len(module.bodies)
         /\ \A f \in Functions : module.bodies[f] \in Seq(Seq(Exprs \cup {Leaf}))
  BY DEF IsModule, Functions

\* The instructions of a function are numbered from low to the end.
LEMMA PlaceTypes ==
  ASSUME TypeOK, NEW f \in Functions
  PROVE  /\ \E low \in Int : low <= 1 /\ DOMAIN inst[f] = low .. Len(module.bodies[f])
         /\ DOMAIN inst[f] \subseteq Int
         /\ Len(module.bodies[f]) \in Nat
         /\ \A n \in DOMAIN inst[f] :
              /\ inst[f][n] \in [from : IF n > 0 THEN {Leaf} ELSE Exprs,
                                 ops : Seq(Exprs \cup {Leaf} \cup DOMAIN inst[f])]
              /\ Ops(f, n) \in Seq(Exprs \cup {Leaf} \cup DOMAIN inst[f])
  <1>1. module.bodies[f] \in Seq(Seq(Exprs \cup {Leaf}))
    BY ModuleTypes DEF TypeOK
  <1>2. Len(module.bodies[f]) \in Nat
    BY <1>1
  <1>3. PICK low \in {1} \cup DOMAIN inst[f] :
          low <= 1 /\ DOMAIN inst[f] = low .. Len(module.bodies[f])
    BY DEF TypeOK, Placed
  <1>4. low \in Int
    BY <1>3
  <1>5. \A n \in DOMAIN inst[f] :
          inst[f][n] \in [from : IF n > 0 THEN {Leaf} ELSE Exprs,
                          ops : Seq(Exprs \cup {Leaf} \cup DOMAIN inst[f])]
    BY DEF TypeOK, Placed
  <1>6. QED
    BY <1>2, <1>3, <1>4, <1>5 DEF Ops

\* The place in front of a function: below all its places, never that of an
\* instruction of the source.
LEMMA FirstPlaceIsFree ==
  ASSUME TypeOK, func \in Functions, NEW n \in DOMAIN inst[func]
  PROVE  /\ FirstPlace \in Int /\ FirstPlace <= 0
         /\ \A k \in DOMAIN inst[func] : FirstPlace < k
         /\ DOMAIN inst[func] \cup {FirstPlace} = FirstPlace .. Len(module.bodies[func])
  <1>1. PICK low \in Int : low <= 1 /\ DOMAIN inst[func] = low .. Len(module.bodies[func])
    BY PlaceTypes
  <1>2. Len(module.bodies[func]) \in Nat
    BY PlaceTypes
  <1>3. low \in DOMAIN inst[func] /\ \A k \in DOMAIN inst[func] : low <= k
    BY <1>1, <1>2
  <1>4. ASSUME NEW m \in DOMAIN inst[func], \A k \in DOMAIN inst[func] : m <= k
        PROVE  m = low
    BY <1>1, <1>3, <1>4
  <1>5. (CHOOSE m \in DOMAIN inst[func] : \A k \in DOMAIN inst[func] : m <= k) = low
    BY <1>3, <1>4
  <1>6. FirstPlace = low - 1
    BY <1>5 DEF FirstPlace
  <1>7. QED
    BY <1>1, <1>2, <1>6

\* What replacing an expression does: other functions are left alone, the new
\* instruction has the operands of the expression, users have it for the expression.
LEMMA LowerEffect ==
  ASSUME TypeOK, LowerOperand, NEW c, c = Ops(func, cur)[next]
  PROVE  /\ \A f \in Functions : f # func =>
              DOMAIN inst'[f] = DOMAIN inst[f] /\ \A n \in DOMAIN inst[f] : inst'[f][n] = inst[f][n]
         /\ DOMAIN inst'[func] = DOMAIN inst[func] \cup {FirstPlace}
         /\ inst'[func][FirstPlace] = [from |-> c, ops |-> module.args[c]]
         /\ \A n \in DOMAIN inst[func] :
              /\ inst'[func][n].from = inst[func][n].from
              /\ inst'[func][n].ops \in Seq(Exprs \cup {Leaf} \cup DOMAIN inst'[func])
              /\ inst'[func][n] = [from |-> inst'[func][n].from, ops |-> inst'[func][n].ops]
              /\ DOMAIN inst'[func][n].ops = DOMAIN inst[func][n].ops
              /\ \A i \in DOMAIN inst[func][n].ops :
                   inst'[func][n].ops[i] =
                     IF inst[func][n].ops[i] = c THEN FirstPlace ELSE inst[func][n].ops[i]
  <1>1. func \in Functions /\ cur \in DOMAIN inst[func]
    BY DEF LowerOperand, TypeOK
  <1>2. inst' = [g \in Functions |->
           [n \in DOMAIN inst[g] \cup (IF g = func THEN {FirstPlace} ELSE {}) |->
              IF n \in DOMAIN inst[g]
              THEN [k \in DOMAIN inst[g] |->
                      IF IsUser(g)
                      THEN [inst[g][k] EXCEPT !.ops = Replaced(@, c, FirstPlace)]
                      ELSE inst[g][k]][n]
              ELSE [from |-> c, ops |-> module.args[c]]]]
    BY DEF LowerOperand
  <1>3. ASSUME NEW f \in Functions, f # func
        PROVE  DOMAIN inst'[f] = DOMAIN inst[f] /\ \A n \in DOMAIN inst[f] : inst'[f][n] = inst[f][n]
    BY <1>2, <1>3 DEF IsUser
  <1>4. inst'[func] = [n \in DOMAIN inst[func] \cup {FirstPlace} |->
              IF n \in DOMAIN inst[func]
              THEN [inst[func][n] EXCEPT !.ops = Replaced(@, c, FirstPlace)]
              ELSE [from |-> c, ops |-> module.args[c]]]
    BY <1>1, <1>2 DEF IsUser
  <1>5. DOMAIN inst'[func] = DOMAIN inst[func] \cup {FirstPlace}
    BY <1>4
  <1>6. inst'[func][FirstPlace] = [from |-> c, ops |-> module.args[c]]
    BY <1>1, <1>4, FirstPlaceIsFree, PlaceTypes
  <1>7. ASSUME NEW n \in DOMAIN inst[func]
        PROVE  /\ inst'[func][n].from = inst[func][n].from
               /\ inst'[func][n].ops \in Seq(Exprs \cup {Leaf} \cup DOMAIN inst'[func])
               /\ inst'[func][n] = [from |-> inst'[func][n].from, ops |-> inst'[func][n].ops]
               /\ DOMAIN inst'[func][n].ops = DOMAIN inst[func][n].ops
               /\ \A i \in DOMAIN inst[func][n].ops :
                    inst'[func][n].ops[i] =
                      IF inst[func][n].ops[i] = c THEN FirstPlace ELSE inst[func][n].ops[i]
    <2> DEFINE old == inst[func][n]
               T   == Exprs \cup {Leaf} \cup DOMAIN inst'[func]
               new == [i \in 1 .. Len(old.ops) |->
                         IF old.ops[i] = c THEN FirstPlace ELSE old.ops[i]]
    <2>1. old \in [from : IF n > 0 THEN {Leaf} ELSE Exprs,
                   ops : Seq(Exprs \cup {Leaf} \cup DOMAIN inst[func])]
      BY <1>1, PlaceTypes
    <2>2. /\ old.ops \in Seq(Exprs \cup {Leaf} \cup DOMAIN inst[func])
          /\ Len(old.ops) \in Nat /\ DOMAIN old.ops = 1 .. Len(old.ops)
          /\ old = [from |-> old.from, ops |-> old.ops]
      BY <2>1
    <2>3. inst'[func][n] = [old EXCEPT !.ops = Replaced(@, c, FirstPlace)]
      BY <1>4
    <2>4. inst'[func][n] = [old EXCEPT !.ops = new]
      BY <2>2, <2>3 DEF Replaced
    <2>5. \A i \in 1 .. Len(old.ops) : (IF old.ops[i] = c THEN FirstPlace ELSE old.ops[i]) \in T
      BY <1>5, <2>2
    <2>6. new \in Seq(T)
      <3> HIDE DEF T, old
      <3>1. QED
        BY <2>2, <2>5
    <2>7. inst'[func][n] = [from |-> old.from, ops |-> new]
      <3> HIDE DEF new, old
      <3>1. QED
        BY <2>2, <2>4
    <2>8. QED
      BY <2>2, <2>6, <2>7
  <1>8. QED
    BY <1>3, <1>5, <1>6, <1>7

(***************************************************************************)
(* Replacing an expression keeps the invariant.                            *)
(***************************************************************************)
LEMMA LowerKeeps ==
  ASSUME IInv, LowerOperand
  PROVE  IInv'
  <1> USE DEF IInv
  <1>0. PICK c : c = Ops(func, cur)[next]
    OBVIOUS
  <1>1. /\ func \in Functions /\ cur \in DOMAIN inst[func] /\ c \in Exprs
        /\ next # 0 /\ next <= Len(Ops(func, cur)) /\ next \in Nat
        /\ module' = module /\ func' = func /\ cur' = cur /\ next' = next + 1
        /\ work' = <<FirstPlace>> \o work /\ work \in Seq(DOMAIN inst[func])
        /\ Functions' = Functions
    BY <1>0 DEF LowerOperand, TypeOK, Added, Functions
  <1>2. \A f \in Functions : f # func =>
          DOMAIN inst'[f] = DOMAIN inst[f] /\ \A n \in DOMAIN inst[f] : inst'[f][n] = inst[f][n]
    BY <1>0, LowerEffect
  <1>3. /\ DOMAIN inst'[func] = DOMAIN inst[func] \cup {FirstPlace}
        /\ inst'[func][FirstPlace] = [from |-> c, ops |-> module.args[c]]
        /\ \A n \in DOMAIN inst[func] :
             /\ inst'[func][n].from = inst[func][n].from
             /\ inst'[func][n].ops \in Seq(Exprs \cup {Leaf} \cup DOMAIN inst'[func])
             /\ inst'[func][n] = [from |-> inst'[func][n].from, ops |-> inst'[func][n].ops]
             /\ DOMAIN inst'[func][n].ops = DOMAIN inst[func][n].ops
             /\ \A i \in DOMAIN inst[func][n].ops :
                  inst'[func][n].ops[i] =
                    IF inst[func][n].ops[i] = c THEN FirstPlace ELSE inst[func][n].ops[i]
    BY <1>0, LowerEffect
  <1>4. /\ FirstPlace \in Int /\ FirstPlace <= 0 /\ FirstPlace \notin DOMAIN inst[func]
        /\ \A k \in DOMAIN inst[func] : FirstPlace < k
        /\ DOMAIN inst'[func] = FirstPlace .. Len(module.bodies[func])
        /\ DOMAIN inst[func] \subseteq Int
    BY <1>1, <1>3, FirstPlaceIsFree, PlaceTypes
  <1>5. module.args[c] \in Seq(Exprs \cup {Leaf})
    BY <1>1, ModuleTypes DEF TypeOK
  <1>6. TypeOK'
    <2>1. IsModule(module)' /\ (func \in 1 .. Len(module.bodies) + 1)'
      BY <1>1 DEF TypeOK
    <2>2. ASSUME NEW f \in Functions
          PROVE  /\ \E low \in {1} \cup DOMAIN inst'[f] :
                      low <= 1 /\ DOMAIN inst'[f] = low .. Len(module.bodies[f])
                 /\ \A n \in DOMAIN inst'[f] :
                      inst'[f][n] \in [from : IF n > 0 THEN {Leaf} ELSE Exprs,
                                       ops : Seq(Exprs \cup {Leaf} \cup DOMAIN inst'[f])]
      <3>1. CASE f # func
        BY <1>2, <3>1 DEF TypeOK, Placed
      <3>2. CASE f = func
        <4>1. FirstPlace \in DOMAIN inst'[f] /\ FirstPlace <= 1
          BY <1>3, <1>4, <3>2
        <4>2. Seq(Exprs \cup {Leaf}) \subseteq Seq(Exprs \cup {Leaf} \cup DOMAIN inst'[f])
          OBVIOUS
        <4>3. inst'[f][FirstPlace] \in [from : IF FirstPlace > 0 THEN {Leaf} ELSE Exprs,
                                        ops : Seq(Exprs \cup {Leaf} \cup DOMAIN inst'[f])]
          BY <1>1, <1>3, <1>4, <1>5, <3>2, <4>2
        <4>4. ASSUME NEW n \in DOMAIN inst'[f]
              PROVE  inst'[f][n] \in [from : IF n > 0 THEN {Leaf} ELSE Exprs,
                                      ops : Seq(Exprs \cup {Leaf} \cup DOMAIN inst'[f])]
          <5>1. CASE n = FirstPlace
            BY <4>3, <5>1
          <5>2. CASE n \in DOMAIN inst[func]
            <6>1. inst[func][n].from \in (IF n > 0 THEN {Leaf} ELSE Exprs)
              BY <1>1, <5>2, PlaceTypes
            <6>2. inst'[func][n].from \in (IF n > 0 THEN {Leaf} ELSE Exprs)
              BY <1>3, <5>2, <6>1
            <6>3. QED
              <7> DEFINE x == inst'[func][n]
                         A == IF n > 0 THEN {Leaf} ELSE Exprs
                         B == Seq(Exprs \cup {Leaf} \cup DOMAIN inst'[func])
              <7>1. x.ops \in B /\ x = [from |-> x.from, ops |-> x.ops]
                BY <1>3, <5>2
              <7>2. x.from \in A
                BY <6>2
              <7>3. x \in [from : A, ops : B]
                <8> HIDE DEF x, A, B
                <8>1. QED
                  BY <7>1, <7>2
              <7>4. QED
                BY <3>2, <7>3
          <5>3. QED
            BY <1>3, <3>2, <5>1, <5>2
        <4>5. QED
          BY <1>4, <3>2, <4>1, <4>4
      <3>3. QED
        BY <3>1, <3>2
    <2>3. (work \in Seq(IF func \in Functions THEN DOMAIN inst[func] ELSE {}))'
      <3>1. work \in Seq(DOMAIN inst'[func]) /\ <<FirstPlace>> \in Seq(DOMAIN inst'[func])
        BY <1>1, <1>3
      <3>2. work' \in Seq(DOMAIN inst'[func])
        BY <1>1, <3>1
      <3>3. QED
        BY <1>1, <3>2
    <2>4. (next \in Nat /\ (next # 0 => func \in Functions /\ cur \in DOMAIN inst[func]))'
      BY <1>1, <1>3
    <2>5. Placed'
      BY <1>1, <2>2 DEF Placed
    <2>6. QED
      BY <2>1, <2>3, <2>4, <2>5 DEF TypeOK
  <1>7. DefinedBeforeUse'
    <2>1. SUFFICES ASSUME NEW f \in Functions, NEW n \in DOMAIN inst'[f],
                          NEW i \in DOMAIN inst'[f][n].ops, inst'[f][n].ops[i] \in Int
                   PROVE  inst'[f][n].ops[i] \in DOMAIN inst'[f] /\ inst'[f][n].ops[i] < n
      BY <1>1 DEF DefinedBeforeUse, Ops
    <2>2. CASE f # func
      BY <1>2, <2>1, <2>2 DEF DefinedBeforeUse, Ops
    <2>3. CASE f = func /\ n = FirstPlace
      <3>1. inst'[f][n].ops = module.args[c]
        BY <1>3, <2>3
      <3>2. inst'[f][n].ops[i] \in Exprs \cup {Leaf}
        BY <1>5, <3>1
      <3>3. QED
        BY <2>1, <3>2, OperandsAssumption
    <2>4. CASE f = func /\ n \in DOMAIN inst[func]
      <3>1. i \in DOMAIN inst[func][n].ops
        BY <1>3, <2>4
      <3>2. CASE inst[func][n].ops[i] = c
        BY <1>3, <1>4, <2>4, <3>1, <3>2
      <3>3. CASE inst[func][n].ops[i] # c
        <4>1. inst'[f][n].ops[i] = inst[func][n].ops[i]
          BY <1>3, <2>4, <3>1, <3>3
        <4>2. inst[func][n].ops[i] \in DOMAIN inst[func] /\ inst[func][n].ops[i] < n
          BY <1>1, <2>1, <2>4, <3>1, <4>1 DEF DefinedBeforeUse, Ops
        <4>3. QED
          BY <1>3, <2>4, <4>1, <4>2
      <3>4. QED
        BY <3>2, <3>3
    <2>5. QED
      BY <1>3, <2>2, <2>3, <2>4
  <1>8. MeaningKept'
    <2>0. \A f \in Functions : \A n \in DOMAIN inst[f] :
            Before(f, n)' = Before(f, n) /\ inst'[f][n].from = inst[f][n].from
      BY <1>1, <1>2, <1>3 DEF Before
    <2>1. SUFFICES ASSUME NEW f \in Functions, NEW n \in DOMAIN inst'[f]
                   PROVE  /\ DOMAIN inst'[f][n].ops = DOMAIN Before(f, n)'
                          /\ \A i \in DOMAIN inst'[f][n].ops :
                               LET o == inst'[f][n].ops[i]
                               IN IF o \in Int THEN inst'[f][o].from = Before(f, n)'[i]
                                               ELSE o = Before(f, n)'[i]
      BY <1>1 DEF MeaningKept, Ops
    <2>2. CASE f # func
      <3>1. n \in DOMAIN inst[f] /\ inst'[f][n] = inst[f][n]
        BY <1>2, <2>1, <2>2
      <3>2. \A i \in DOMAIN inst[f][n].ops : inst[f][n].ops[i] \in Int =>
              inst'[f][inst[f][n].ops[i]].from = inst[f][inst[f][n].ops[i]].from
        BY <1>2, <2>2, <3>1 DEF DefinedBeforeUse, Ops
      <3>3. QED
        BY <2>0, <3>1, <3>2 DEF MeaningKept, Ops
    <2>3. CASE f = func /\ n = FirstPlace
      <3>1. inst'[f][n].ops = module.args[c] /\ inst'[f][n].from = c /\ ~(n > 0)
        BY <1>3, <1>4, <2>3
      <3>2. Before(f, n)' = module.args[c]
        BY <1>1, <3>1 DEF Before
      <3>3. \A i \in DOMAIN module.args[c] : module.args[c][i] \notin Int
        BY <1>5, OperandsAssumption
      <3>4. QED
        BY <3>1, <3>2, <3>3
    <2>4. CASE f = func /\ n \in DOMAIN inst[func]
      <3>1. /\ Before(f, n)' = Before(f, n)
            /\ DOMAIN inst'[f][n].ops = DOMAIN inst[f][n].ops
            /\ DOMAIN inst[f][n].ops = DOMAIN Before(f, n)
        BY <1>3, <2>0, <2>4 DEF MeaningKept, Ops
      <3>2. ASSUME NEW i \in DOMAIN inst'[f][n].ops
            PROVE  LET o == inst'[f][n].ops[i]
                   IN IF o \in Int THEN inst'[f][o].from = Before(f, n)'[i]
                                   ELSE o = Before(f, n)'[i]
        <4> DEFINE o == inst[f][n].ops[i]
        <4>1. i \in DOMAIN inst[f][n].ops /\ (IF o \in Int THEN inst[f][o].from = Before(f, n)[i]
                                                         ELSE o = Before(f, n)[i])
          BY <2>4, <3>1 DEF MeaningKept, Ops
        <4>2. CASE o = c
          <5>1. inst'[f][n].ops[i] = FirstPlace /\ inst'[f][FirstPlace].from = c
            <6>1. inst'[func][FirstPlace].from = c
              BY <1>3
            <6>2. inst'[func][n].ops[i] = FirstPlace
              BY <1>3, <2>4, <4>1, <4>2
            <6>3. QED
              BY <2>4, <6>1, <6>2
          <5>2. c \notin Int
            BY <1>1, OperandsAssumption
          <5>3. QED
            BY <1>4, <3>1, <4>1, <4>2, <5>1, <5>2
        <4>3. CASE o # c
          <5>1. inst'[f][n].ops[i] = o
            BY <1>3, <2>4, <4>1, <4>3
          <5>2. o \in Int => o \in DOMAIN inst[f]
            BY <2>4, <4>1 DEF DefinedBeforeUse, Ops
          <5>3. o \in Int => inst'[f][o].from = inst[f][o].from
            BY <2>0, <5>2
          <5>4. QED
            BY <3>1, <4>1, <5>1, <5>3
        <4>4. QED
          BY <4>2, <4>3
      <3>3. QED
        BY <3>1, <3>2
    <2>5. QED
      BY <1>3, <2>2, <2>3, <2>4
  <1>9. Pending'
    <2>1. SUFFICES ASSUME NEW f \in Functions, NEW n \in DOMAIN inst'[f],
                          NEW i \in DOMAIN inst'[f][n].ops, inst'[f][n].ops[i] \in Exprs
                   PROVE  \/ f > func
                          \/ f = func /\ \E k \in DOMAIN work' : work'[k] = n
                          \/ f = func /\ n = cur /\ i >= next + 1
      BY <1>1 DEF Pending, Ops
    <2>2. /\ work' \in Seq(Int) /\ work' = <<FirstPlace>> \o work
          /\ 1 \in DOMAIN work' /\ work'[1] = FirstPlace
          /\ \A k \in DOMAIN work : k + 1 \in DOMAIN work' /\ work'[k + 1] = work[k]
      BY <1>1, <1>4
    <2>3. CASE f # func
      BY <1>2, <2>1, <2>3 DEF Pending, Ops
    <2>4. CASE f = func /\ n = FirstPlace
      BY <2>2, <2>4
    <2>5. CASE f = func /\ n \in DOMAIN inst[func]
      <3>1. i \in DOMAIN inst[func][n].ops
        BY <1>3, <2>5
      <3>2. inst[func][n].ops[i] # c /\ inst[func][n].ops[i] \in Exprs
        BY <1>3, <1>4, <2>1, <2>5, <3>1, OperandsAssumption
      <3>3. \/ \E k \in DOMAIN work : work[k] = n
            \/ n = cur /\ i >= next
        <4>1. ~(f > func)
          BY <1>1, <2>5, ModuleTypes DEF TypeOK
        <4>2. QED
          BY <2>5, <3>1, <3>2, <4>1 DEF Pending, Ops
      <3>4. CASE \E k \in DOMAIN work : work[k] = n
        BY <2>2, <2>5, <3>4
      <3>5. CASE n = cur /\ i >= next
        <4>1. i # next
          BY <1>0, <3>2, <3>5 DEF Ops
        <4>2. i \in Nat
          <5>1. inst[f][n].ops \in Seq(Exprs \cup {Leaf} \cup DOMAIN inst[f])
            BY <2>5, PlaceTypes DEF Ops
          <5>2. QED
            BY <2>5, <3>1, <5>1
        <4>3. QED
          BY <1>1, <2>5, <3>5, <4>1, <4>2
      <3>6. QED
        BY <3>3, <3>4, <3>5
    <2>6. QED
      BY <1>3, <2>3, <2>4, <2>5
  <1>10. Untouched'
    <2>1. Functions \subseteq Int /\ func \in Int
      BY <1>1, ModuleTypes DEF TypeOK
    <2>2. ASSUME NEW f \in Functions, f > func
          PROVE  DOMAIN inst'[f] = DOMAIN module.bodies[f]
      BY <1>2, <2>1, <2>2 DEF Untouched
    <2>3. QED
      BY <1>1, <2>2 DEF Untouched
  <1>11. QED
    BY <1>6, <1>7, <1>8, <1>9, <1>10

(***************************************************************************)
(* The invariant.                                                          *)
(***************************************************************************)
LEMMA InitIInv ==
  ASSUME Init
  PROVE  IInv
  <1>1. IsModule(module) /\ func = 1 /\ next = 0 /\ work = Numbers(1)
    BY ModulesAssumption DEF Init
  <1>2. /\ Functions = 1 .. Len(module.bodies) /\ Len(module.bodies) \in Nat
        /\ \A f \in Functions : module.bodies[f] \in Seq(Seq(Exprs \cup {Leaf}))
    BY <1>1, ModuleTypes
  <1>3. ASSUME NEW f \in Functions
        PROVE  /\ DOMAIN inst[f] = 1 .. Len(module.bodies[f])
               /\ DOMAIN inst[f] = DOMAIN module.bodies[f]
               /\ \A n \in DOMAIN inst[f] :
                    /\ n \in Nat /\ n > 0
                    /\ inst[f][n] = [from |-> Leaf, ops |-> module.bodies[f][n]]
                    /\ Ops(f, n) = module.bodies[f][n]
                    /\ Ops(f, n) \in Seq(Exprs \cup {Leaf})
    <2>1. inst[f] = [n \in DOMAIN module.bodies[f] |-> [from |-> Leaf, ops |-> module.bodies[f][n]]]
      BY DEF Init
    <2>2. module.bodies[f] \in Seq(Seq(Exprs \cup {Leaf}))
      BY <1>2
    <2>3. QED
      BY <2>1, <2>2 DEF Ops
  <1>4. TypeOK
    <2>1. ASSUME NEW f \in Functions
          PROVE  \E low \in {1} \cup DOMAIN inst[f] :
                   low <= 1 /\ DOMAIN inst[f] = low .. Len(module.bodies[f])
      BY <1>3
    <2>2. ASSUME NEW f \in Functions, NEW n \in DOMAIN inst[f]
          PROVE  inst[f][n] \in [from : IF n > 0 THEN {Leaf} ELSE Exprs,
                                 ops : Seq(Exprs \cup {Leaf} \cup DOMAIN inst[f])]
      <3>1. Seq(Exprs \cup {Leaf}) \subseteq Seq(Exprs \cup {Leaf} \cup DOMAIN inst[f])
        OBVIOUS
      <3>2. /\ inst[f][n] = [from |-> Leaf, ops |-> module.bodies[f][n]] /\ n > 0
            /\ module.bodies[f][n] \in Seq(Exprs \cup {Leaf} \cup DOMAIN inst[f])
        BY <1>3, <3>1
      <3>3. QED
        BY <3>2
    <2>3. work \in Seq(IF func \in Functions THEN DOMAIN inst[func] ELSE {})
      <3>1. CASE 1 \in Functions
        BY <1>1, <1>2, <1>3, <3>1 DEF Numbers
      <3>2. CASE 1 \notin Functions
        BY <1>1, <3>2 DEF Numbers
      <3>3. QED
        BY <3>1, <3>2
    <2>4. Placed
      BY <2>1, <2>2 DEF Placed
    <2>5. func \in 1 .. Len(module.bodies) + 1 /\ next \in Nat /\ next = 0
      BY <1>1, <1>2
    <2>6. QED
      BY <1>1, <2>3, <2>4, <2>5 DEF TypeOK
  <1>5. ASSUME NEW f \in Functions, NEW n \in DOMAIN inst[f], NEW i \in DOMAIN Ops(f, n)
        PROVE  Ops(f, n)[i] \notin Int
    <2>1. Ops(f, n) \in Seq(Exprs \cup {Leaf})
      BY <1>3
    <2>2. QED
      BY <2>1, OperandsAssumption
  <1>6. DefinedBeforeUse
    BY <1>5 DEF DefinedBeforeUse
  <1>7. MeaningKept
    <2>1. ASSUME NEW f \in Functions, NEW n \in DOMAIN inst[f]
          PROVE  Before(f, n) = Ops(f, n)
      BY <1>3 DEF Before
    <2>2. QED
      BY <1>5, <2>1 DEF MeaningKept
  <1>8. Pending
    <2>1. SUFFICES ASSUME NEW f \in Functions, NEW n \in DOMAIN inst[f], f <= 1
                   PROVE  f = func /\ \E k \in DOMAIN work : work[k] = n
      BY <1>1, <1>2 DEF Pending
    <2>2. f = 1 /\ work = [k \in DOMAIN module.bodies[1] |-> k]
      BY <1>1, <1>2, <2>1 DEF Numbers
    <2>3. QED
      BY <1>1, <1>3, <2>2
  <1>9. Untouched
    BY <1>3 DEF Untouched
  <1>10. QED
    BY <1>4, <1>6, <1>7, <1>8, <1>9 DEF IInv

\* Going on to the next function: the one that is left has nothing to lower, the
\* next one is in the work list as a whole.
LEMMA NextFunctionKeeps ==
  ASSUME IInv, NextFunction
  PROVE  IInv'
  <1>1. /\ next = 0 /\ work = << >> /\ func \in Functions /\ next' = next
        /\ func' = func + 1 /\ work' = Numbers(func + 1)
        /\ module' = module /\ inst' = inst /\ cur' = cur
    BY DEF NextFunction
  <1>2. /\ Functions = 1 .. Len(module.bodies) /\ Len(module.bodies) \in Nat /\ Functions' = Functions
        /\ \A f \in Functions : module.bodies[f] \in Seq(Seq(Exprs \cup {Leaf}))
    BY <1>1, ModuleTypes DEF IInv, TypeOK, Functions
  <1>3. func + 1 \in Functions =>
          DOMAIN inst[func + 1] = DOMAIN module.bodies[func + 1]
    BY <1>1, <1>2 DEF IInv, Untouched
  <1>4. (work \in Seq(IF func \in Functions THEN DOMAIN inst[func] ELSE {}))'
    <2>1. CASE func + 1 \in Functions
      <3>1. module.bodies[func + 1] \in Seq(Seq(Exprs \cup {Leaf}))
        BY <1>2, <2>1
      <3>2. work' = [n \in DOMAIN module.bodies[func + 1] |-> n]
        BY <1>1, <2>1 DEF Numbers
      <3>3. work' \in Seq(DOMAIN inst[func + 1])
        BY <1>3, <2>1, <3>1, <3>2
      <3>4. QED
        BY <1>1, <1>2, <2>1, <3>3
    <2>2. CASE func + 1 \notin Functions
      <3>1. work' = << >> /\ func' \notin Functions'
        BY <1>1, <1>2, <2>2 DEF Numbers
      <3>2. QED
        BY <3>1
    <2>3. QED
      BY <2>1, <2>2
  <1>5. TypeOK'
    <2>1. IsModule(module)' /\ Placed'
      BY <1>1, <1>2 DEF IInv, TypeOK, Placed
    <2>2. (func \in 1 .. Len(module.bodies) + 1)' /\ next' = 0
      BY <1>1, <1>2
    <2>3. QED
      BY <1>4, <2>1, <2>2 DEF TypeOK
  <1>6. DefinedBeforeUse' /\ MeaningKept'
    BY <1>1, <1>2 DEF IInv, DefinedBeforeUse, MeaningKept, Ops, Before
  <1>7. Pending'
    <2>1. SUFFICES ASSUME NEW f \in Functions, NEW n \in DOMAIN inst[f], NEW i \in DOMAIN Ops(f, n),
                          Ops(f, n)[i] \in Exprs, ~(f > func + 1)
                   PROVE  f = func + 1 /\ \E k \in DOMAIN work' : work'[k] = n
      BY <1>1, <1>2 DEF Pending, Ops
    <2>2. f > func
      BY <1>1, <2>1 DEF IInv, Pending
    <2>3. f = func + 1
      BY <1>1, <1>2, <2>1, <2>2
    <2>4. work' = [k \in DOMAIN module.bodies[f] |-> k]
      BY <1>1, <2>1, <2>3 DEF Numbers
    <2>5. QED
      BY <1>3, <2>1, <2>3, <2>4
  <1>8. Untouched'
    <2>1. ASSUME NEW f \in Functions, f > func + 1
          PROVE  DOMAIN inst[f] = DOMAIN module.bodies[f]
      BY <1>1, <1>2, <2>1 DEF IInv, Untouched
    <2>2. QED
      BY <1>1, <1>2, <2>1 DEF Untouched
  <1>9. QED
    BY <1>5, <1>6, <1>7, <1>8 DEF IInv

\* Walking the operands of the instruction at hand.
LEMMA WalkKeeps ==
  ASSUME IInv, TakeInstruction \/ PassOperand \/ EndInstruction
  PROVE  IInv'
  <1>1. /\ module' = module /\ inst' = inst /\ func' = func /\ Functions' = Functions
        /\ IsModule(module)' /\ Placed' /\ (func \in 1 .. Len(module.bodies) + 1)'
    <2>1. module' = module /\ inst' = inst /\ func' = func /\ Functions' = Functions
      BY DEF TakeInstruction, PassOperand, EndInstruction, Functions
    <2>2. QED
      BY <2>1 DEF IInv, TypeOK, Placed
  <1>2. DefinedBeforeUse' /\ MeaningKept' /\ Untouched'
    BY <1>1 DEF IInv, DefinedBeforeUse, MeaningKept, Untouched, Ops, Before
  <1>3. /\ Functions = 1 .. Len(module.bodies) /\ Len(module.bodies) \in Nat
        /\ func \in Nat /\ next \in Nat
    BY ModuleTypes DEF IInv, TypeOK
  <1>4. CASE TakeInstruction
    <2>1. /\ next = 0 /\ next' = 1 /\ work # << >> /\ cur' = Head(work) /\ work' = Tail(work)
      BY <1>4 DEF TakeInstruction
    <2>2. func \in Functions /\ work \in Seq(DOMAIN inst[func])
      <3>1. work \in Seq(IF func \in Functions THEN DOMAIN inst[func] ELSE {})
        BY DEF IInv, TypeOK
      <3>2. func \in Functions
        BY <2>1, <3>1
      <3>3. QED
        BY <3>1, <3>2
    <2>3. /\ work' \in Seq(DOMAIN inst[func]) /\ cur' \in DOMAIN inst[func] /\ cur' = work[1]
          /\ \A k \in DOMAIN work : k # 1 => k - 1 \in DOMAIN work' /\ work'[k - 1] = work[k]
      BY <2>1, <2>2
    <2>4. TypeOK'
      BY <1>1, <2>1, <2>2, <2>3 DEF TypeOK
    <2>5. Pending'
      <3>1. SUFFICES ASSUME NEW f \in Functions, NEW n \in DOMAIN inst[f], NEW i \in DOMAIN Ops(f, n),
                            Ops(f, n)[i] \in Exprs, ~(f > func)
                     PROVE  f = func /\ (\/ \E k \in DOMAIN work' : work'[k] = n
                                         \/ n = cur' /\ i >= 1)
        BY <1>1, <2>1 DEF Pending, Ops
      <3>2. f = func /\ \E k \in DOMAIN work : work[k] = n
        BY <2>1, <3>1 DEF IInv, Pending
      <3>3. Ops(f, n) \in Seq(Exprs \cup {Leaf} \cup DOMAIN inst[f])
        BY PlaceTypes DEF IInv
      <3>4. i >= 1
        BY <3>3
      <3>5. QED
        BY <2>3, <3>2, <3>4
    <2>6. QED
      BY <1>2, <2>4, <2>5 DEF IInv
  <1>5. CASE PassOperand \/ EndInstruction
    <2>1. /\ next # 0 /\ work' = work /\ cur' = cur
          /\ \/ next' = next + 1 /\ next <= Len(Ops(func, cur)) /\ Ops(func, cur)[next] \notin Exprs
             \/ next' = 0 /\ next > Len(Ops(func, cur))
      BY <1>5 DEF PassOperand, EndInstruction
    <2>2. TypeOK'
      <3>1. (work \in Seq(IF func \in Functions THEN DOMAIN inst[func] ELSE {}))'
        BY <1>1, <2>1 DEF IInv, TypeOK
      <3>2. (next \in Nat /\ (next # 0 => func \in Functions /\ cur \in DOMAIN inst[func]))'
        BY <1>1, <1>3, <2>1 DEF IInv, TypeOK
      <3>3. QED
        BY <1>1, <3>1, <3>2 DEF TypeOK
    <2>3. Pending'
      <3>1. SUFFICES ASSUME NEW f \in Functions, NEW n \in DOMAIN inst[f], NEW i \in DOMAIN Ops(f, n),
                            Ops(f, n)[i] \in Exprs
                     PROVE  \/ f > func
                            \/ f = func /\ \E k \in DOMAIN work : work[k] = n
                            \/ f = func /\ next' # 0 /\ n = cur /\ i >= next'
        <4>1. work' = work /\ cur' = cur
          BY <2>1
        <4>2. QED
          BY <1>1, <4>1, Zenon DEF Pending, Ops
      <3>2. SUFFICES ASSUME f = func, n = cur, i >= next
                     PROVE  next' # 0 /\ i >= next'
        BY <3>1 DEF IInv, Pending
      <3>3. Ops(f, n) \in Seq(Exprs \cup {Leaf} \cup DOMAIN inst[f])
        BY PlaceTypes DEF IInv
      <3>4. i \in Nat /\ i <= Len(Ops(func, cur)) /\ Len(Ops(func, cur)) \in Nat
        BY <3>2, <3>3
      <3>5. next <= Len(Ops(func, cur))
        BY <1>3, <3>2, <3>4
      <3>6. next' = next + 1 /\ Ops(func, cur)[next] \notin Exprs
        BY <1>3, <2>1, <3>4, <3>5
      <3>7. i # next
        BY <3>1, <3>2, <3>6
      <3>8. QED
        BY <1>3, <3>2, <3>4, <3>6, <3>7
    <2>4. QED
      BY <1>2, <2>2, <2>3 DEF IInv
  <1>6. QED
    BY <1>4, <1>5

\* The invariant holds in every state of every module.
THEOREM Invariance == Spec => []IInv
  <1>1. Init => IInv
    BY InitIInv
  <1>2. IInv /\ [Next]_vars => IInv'
    <2>1. SUFFICES ASSUME IInv, [Next]_vars PROVE IInv'
      OBVIOUS
    <2>2. CASE TakeInstruction \/ PassOperand \/ EndInstruction
      BY <2>1, <2>2, WalkKeeps
    <2>3. CASE LowerOperand
      BY <2>1, <2>3, LowerKeeps
    <2>4. CASE NextFunction
      BY <2>1, <2>4, NextFunctionKeeps
    <2>5. CASE UNCHANGED vars
      <3>1. module' = module /\ inst' = inst /\ func' = func /\ work' = work /\ cur' = cur /\ next' = next
        BY <2>5 DEF vars
      <3>2. TypeOK'
        BY <2>1, <3>1 DEF IInv, TypeOK, Placed, Functions
      <3>3. DefinedBeforeUse' /\ MeaningKept'
        BY <2>1, <3>1 DEF IInv, DefinedBeforeUse, MeaningKept, Functions, Ops, Before
      <3>4. Pending' /\ Untouched'
        BY <2>1, <3>1 DEF IInv, Pending, Untouched, Functions, Ops
      <3>5. QED
        BY <3>2, <3>3, <3>4 DEF IInv
    <2>6. QED
      BY <2>1, <2>2, <2>3, <2>4, <2>5 DEF Next
  <1>3. QED
    BY <1>1, <1>2, PTL DEF Spec

(***************************************************************************)
(* The results.                                                            *)
(***************************************************************************)
\* What the pass puts in a function stands in front of all its users, whatever the
\* nesting of the expressions and the order of the work list.
THEOREM DefinedBeforeUseHolds == Spec => []DefinedBeforeUse
  <1>1. IInv => DefinedBeforeUse
    BY DEF IInv
  <1>2. QED
    BY <1>1, Invariance, PTL

\* No use is redirected to the value of another expression.
THEOREM MeaningKeptHolds == Spec => []MeaningKept
  <1>1. IInv => MeaningKept
    BY DEF IInv
  <1>2. QED
    BY <1>1, Invariance, PTL

\* No constant expression is left in a function that the pass is done with.
THEOREM AllLoweredHolds == Spec => []AllLowered
  <1>1. ASSUME IInv PROVE AllLowered
    <2>1. Functions \subseteq Nat /\ func \in Nat
      BY <1>1, ModuleTypes DEF IInv, TypeOK
    <2>2. SUFFICES ASSUME NEW f \in Functions, f < func,
                          NEW n \in DOMAIN inst[f], NEW i \in DOMAIN Ops(f, n)
                   PROVE  Ops(f, n)[i] \notin Exprs
      BY DEF AllLowered
    <2>3. ~(f > func) /\ f # func
      BY <2>1, <2>2
    <2>4. Pending
      BY <1>1 DEF IInv
    <2>5. QED
      BY <2>2, <2>3, <2>4 DEF Pending
  <1>2. QED
    BY <1>1, Invariance, PTL
=============================================================================
