----------------------- MODULE TopologicalSortProofs -----------------------
(***************************************************************************)
(* What the depth-first search of TopologicalSort guarantees for every     *)
(* module it can be given.                                                 *)
(***************************************************************************)
EXTENDS TopologicalSort, TLAPS

(***************************************************************************)
(* A sequence is closed over a set D when everything its elements need is  *)
(* in D or earlier in the sequence.  need maps an entry to what it needs.  *)
(***************************************************************************)
Closed(s, D, need) ==
  \A i \in DOMAIN s : \A op \in need[s[i]] :
    op \in D \/ \E j \in 1..(i - 1) : s[j] = op

Elems(s) == {s[i] : i \in DOMAIN s}

\* Appending an entry whose needs are met keeps a vector closed.
LEMMA ClosedAppend ==
  ASSUME NEW E, NEW s \in Seq(E), NEW e \in E, NEW D, NEW need,
         Closed(s, D, need),
         \A op \in need[e] : op \in D \/ op \in Elems(s)
  PROVE  Closed(Append(s, e), D, need)
<1> DEFINE t == Append(s, e)
<1>1. /\ Len(t) = Len(s) + 1 /\ DOMAIN t = 1..Len(t)
      /\ DOMAIN s = 1..Len(s) /\ Len(s) \in Nat
      /\ \A i \in 1..Len(s) : t[i] = s[i]
      /\ t[Len(s) + 1] = e
  OBVIOUS
<1>2. SUFFICES ASSUME NEW i \in DOMAIN t, NEW op \in need[t[i]], op \notin D
               PROVE  \E j \in 1..(i - 1) : t[j] = op
  BY DEF Closed
<1>3. CASE i \in 1..Len(s)
  <2>1. PICK j \in 1..(i - 1) : s[j] = op
    BY <1>1, <1>2, <1>3 DEF Closed
  <2> QED BY <2>1, <1>1, <1>3
<1>4. CASE i = Len(s) + 1
  <2>1. PICK j \in DOMAIN s : s[j] = op
    BY <1>1, <1>2, <1>4 DEF Elems
  <2> QED BY <2>1, <1>1, <1>4
<1> QED BY <1>1, <1>3, <1>4

\* Writing one closed vector after another: what the second needs may also be
\* in the first.
LEMMA ClosedConcat ==
  ASSUME NEW E, NEW s \in Seq(E), NEW t \in Seq(E), NEW D, NEW need,
         Closed(s, D, need), Closed(t, D \cup Elems(s), need)
  PROVE  /\ s \o t \in Seq(E)
         /\ Elems(s \o t) = Elems(s) \cup Elems(t)
         /\ Closed(s \o t, D, need)
<1> DEFINE u == s \o t
<1>1. /\ u \in Seq(E) /\ Len(u) = Len(s) + Len(t) /\ DOMAIN u = 1..Len(u)
      /\ DOMAIN s = 1..Len(s) /\ Len(s) \in Nat
      /\ DOMAIN t = 1..Len(t) /\ Len(t) \in Nat
  OBVIOUS
<1>2. /\ \A i \in 1..Len(s) : u[i] = s[i]
      /\ \A i \in (Len(s) + 1)..Len(u) : u[i] = t[i - Len(s)]
  OBVIOUS
<1>3. \A i \in 1..Len(t) : u[i + Len(s)] = t[i]
  BY <1>1, <1>2
<1>4. Elems(u) = Elems(s) \cup Elems(t)
  <2>1. ASSUME NEW x \in Elems(u) PROVE x \in Elems(s) \cup Elems(t)
    <3>1. PICK i \in 1..Len(u) : u[i] = x
      BY <1>1 DEF Elems
    <3>2. CASE i \in 1..Len(s)
      BY <1>1, <1>2, <3>1, <3>2 DEF Elems
    <3>3. CASE i \in (Len(s) + 1)..Len(u)
      <4>1. i - Len(s) \in 1..Len(t) /\ t[i - Len(s)] = x
        BY <1>1, <1>2, <3>1, <3>3
      <4> QED BY <4>1, <1>1 DEF Elems
    <3> QED BY <1>1, <3>2, <3>3
  <2>2. ASSUME NEW x \in Elems(s) PROVE x \in Elems(u)
    <3>1. PICK i \in 1..Len(s) : s[i] = x
      BY <1>1 DEF Elems
    <3>2. i \in 1..Len(u) /\ u[i] = x
      BY <1>1, <1>2, <3>1
    <3> QED BY <3>2, <1>1 DEF Elems
  <2>3. ASSUME NEW x \in Elems(t) PROVE x \in Elems(u)
    <3>1. PICK i \in 1..Len(t) : t[i] = x
      BY <1>1 DEF Elems
    <3>2. i + Len(s) \in 1..Len(u) /\ u[i + Len(s)] = x
      BY <1>1, <1>3, <3>1
    <3> QED BY <3>2, <1>1 DEF Elems
  <2> QED BY <2>1, <2>2, <2>3
<1>5. Closed(u, D, need)
  <2>1. SUFFICES ASSUME NEW i \in 1..Len(u), NEW op \in need[u[i]], op \notin D
                 PROVE  \E j \in 1..(i - 1) : u[j] = op
    BY <1>1 DEF Closed
  <2>2. CASE i \in 1..Len(s)
    <3>1. PICK j \in 1..(i - 1) : s[j] = op
      BY <1>1, <1>2, <2>1, <2>2 DEF Closed
    <3> QED BY <3>1, <1>1, <1>2, <2>2
  <2>3. CASE i \in (Len(s) + 1)..Len(u)
    <3> DEFINE k == i - Len(s)
    <3>1. k \in 1..Len(t) /\ u[i] = t[k]
      BY <1>1, <1>2, <2>3
    <3>2. op \in Elems(s) \/ \E j \in 1..(k - 1) : t[j] = op
      BY <1>1, <2>1, <3>1 DEF Closed
    <3>3. CASE op \in Elems(s)
      <4>1. PICK j \in 1..Len(s) : s[j] = op
        BY <3>3, <1>1 DEF Elems
      <4>2. j \in 1..(i - 1) /\ u[j] = op
        BY <4>1, <1>1, <1>2, <2>3
      <4> QED BY <4>2
    <3>4. CASE \E j \in 1..(k - 1) : t[j] = op
      <4>1. PICK j \in 1..(k - 1) : t[j] = op
        BY <3>4
      <4>2. j + Len(s) \in 1..(i - 1) /\ u[j + Len(s)] = op
        BY <4>1, <3>1, <1>1, <1>3, <2>3
      <4> QED BY <4>2
    <3> QED BY <3>2, <3>3, <3>4
  <2> QED BY <1>1, <2>2, <2>3
<1> QED BY <1>1, <1>4, <1>5
-----------------------------------------------------------------------------
(***************************************************************************)
(* The inductive invariant.                                                *)
(***************************************************************************)
Need == [e \in Entries |-> Needed(e)]

\* What the file holds before the vector of layer l.
Before(l) == UNION {Elems(vec[m]) : m \in {m \in Layers : m < l}}

\* A visited entry is in its vector, and a vector holds nothing else.
VecsHoldVisited ==
  /\ \A e \in Collected : dfs[e] = "Visited" => e \in Elems(vec[Layer(e)])
  /\ \A l \in Layers : \A i \in DOMAIN vec[l] :
       /\ vec[l][i] \in Collected
       /\ Layer(vec[l][i]) = l
       /\ dfs[vec[l][i]] = "Visited"

\* No vector holds an entry twice.
VecsInjective ==
  \A l \in Layers : \A i, j \in DOMAIN vec[l] : vec[l][i] = vec[l][j] => i = j

\* The operands a frame has passed are skipped or visited.
FramesDone ==
  \A k \in DOMAIN stack : \A i \in DOMAIN Operands(stack[k].entry) :
    i < stack[k].next =>
      \/ Skipped(Operands(stack[k].entry)[i])
      \/ dfs[Operands(stack[k].entry)[i]] = "Visited"

\* The stack is a path of operands, and holds the discovered entries, each once.
StackIsPath ==
  /\ \A k \in DOMAIN stack : dfs[stack[k].entry] = "Discovered"
  /\ \A k, m \in DOMAIN stack : stack[k].entry = stack[m].entry => k = m
  /\ \A e \in Entries : dfs[e] = "Discovered" => \E k \in DOMAIN stack : stack[k].entry = e
  /\ \A k \in DOMAIN stack : k < Len(stack) =>
       /\ stack[k].next \in DOMAIN Operands(stack[k].entry)
       /\ stack[k + 1].entry = Operands(stack[k].entry)[stack[k].next]
       /\ ~Skipped(stack[k + 1].entry)

VecsClosed == IsLayered => \A l \in Layers : Closed(vec[l], Before(l), Need)

IInv ==
  /\ TypeOK
  /\ VecsHoldVisited
  /\ VecsInjective
  /\ FramesDone
  /\ StackIsPath
  /\ VecsClosed

LEMMA InitIInv == Init => IInv
<1> SUFFICES ASSUME Init PROVE IInv
  OBVIOUS
<1>1. IsGraph(graph)
  BY GraphsAssumption DEF Init
<1>2. TypeOK
  BY <1>1 DEF Init, TypeOK, DFSStates, Layers, Frame
<1>3. \A l \in Layers : DOMAIN vec[l] = {}
  BY DEF Init
<1>4. DOMAIN stack = {}
  BY DEF Init
<1>5. VecsHoldVisited /\ VecsInjective /\ FramesDone /\ StackIsPath
  BY <1>3, <1>4 DEF Init, VecsHoldVisited, VecsInjective, FramesDone, StackIsPath, Collected
<1>6. VecsClosed
  BY <1>3 DEF VecsClosed, Closed
<1> QED BY <1>2, <1>5, <1>6 DEF IInv

\* The shapes of what a frame looks at.
LEMMA FrameTypes ==
  ASSUME TypeOK
  PROVE  /\ \A e \in Entries :
              /\ Operands(e) \in Seq(Entries)
              /\ DOMAIN Operands(e) = 1..Len(Operands(e))
              /\ Len(Operands(e)) \in Nat
              /\ \A i \in DOMAIN Operands(e) : Operands(e)[i] \in Entries
              /\ Layer(e) \in 1..6
              /\ e \in Collected => Layer(e) \in Layers
              /\ Layer(e) \in Layers => e \in Collected
         /\ Len(stack) \in Nat /\ DOMAIN stack = 1..Len(stack)
         /\ \A k \in DOMAIN stack :
              /\ stack[k].entry \in Entries
              /\ stack[k].next \in Nat \ {0}
         /\ stack # << >> =>
              /\ Len(stack) \in DOMAIN stack
              /\ Top.entry \in Entries
              /\ Top.next \in Nat \ {0}
         /\ HasOp => Top.next \in DOMAIN Operands(Top.entry) /\ TopOp \in Entries
<1>1. \A e \in Entries : Operands(e) \in Seq(Entries) /\ graph.opcode[e] \in OpCodes
  BY DEF TypeOK, IsGraph, Entries, Operands
<1>2. \A e \in Entries :
        /\ DOMAIN Operands(e) = 1..Len(Operands(e))
        /\ Len(Operands(e)) \in Nat
        /\ \A i \in DOMAIN Operands(e) : Operands(e)[i] \in Entries
  BY <1>1
<1>3. \A e \in Entries :
        /\ Layer(e) \in 1..6
        /\ e \in Collected => Layer(e) \in Layers
        /\ Layer(e) \in Layers => e \in Collected
  BY <1>1 DEF OpCodes, Layer, LayerOf, Layers, Collected
<1>4. /\ Len(stack) \in Nat /\ DOMAIN stack = 1..Len(stack)
      /\ \A k \in DOMAIN stack :
           /\ stack[k].entry \in Entries
           /\ stack[k].next \in Nat \ {0}
  <2>1. stack \in Seq(Frame)
    BY DEF TypeOK
  <2>2. /\ Len(stack) \in Nat /\ DOMAIN stack = 1..Len(stack)
        /\ \A k \in DOMAIN stack : stack[k] \in Frame
    BY <2>1
  <2> QED BY <2>2 DEF Frame
<1>5. stack # << >> => Len(stack) \in DOMAIN stack
  <2>1. stack \in Seq(Frame)
    BY DEF TypeOK
  <2> QED BY <2>1
<1>6. stack # << >> => Top.entry \in Entries /\ Top.next \in Nat \ {0}
  BY <1>4, <1>5 DEF Top
<1>7. HasOp => Top.next \in DOMAIN Operands(Top.entry) /\ TopOp \in Entries
  BY <1>2, <1>6 DEF HasOp, TopOp
<1> QED BY <1>1, <1>2, <1>3, <1>4, <1>5, <1>6, <1>7

\* Steps that leave the vectors alone and keep visited entries visited.
LEMMA VecsUnchanged ==
  ASSUME IInv, UNCHANGED <<graph, vec>>,
         \A e \in Entries : dfs'[e] = "Visited" <=> dfs[e] = "Visited"
  PROVE  VecsHoldVisited' /\ VecsInjective' /\ VecsClosed'
<1> USE DEF IInv
<1>0. /\ Entries' = Entries /\ Collected' = Collected /\ Need' = Need
      /\ IsLayered' = IsLayered
      /\ \A e : Layer(e)' = Layer(e)
  BY DEF Entries, Collected, Need, Needed, IsLayered, Operands, Layer
<1>1. VecsHoldVisited'
  BY <1>0 DEF VecsHoldVisited, Collected
<1>2. VecsInjective'
  BY DEF VecsInjective
<1>3. VecsClosed'
  <2>1. \A l \in Layers : Before(l)' = Before(l)
    BY DEF Before
  <2> QED BY <1>0, <2>1 DEF VecsClosed
<1> QED BY <1>1, <1>2, <1>3

LEMMA StartVisitIInv == IInv /\ StartVisit => IInv'
<1> SUFFICES ASSUME IInv, StartVisit PROVE IInv'
  OBVIOUS
<1> USE DEF IInv
<1>1. PICK e \in Collected :
        /\ dfs[e] = "Unvisited"
        /\ dfs' = [dfs EXCEPT ![e] = "Discovered"]
        /\ stack' = << [entry |-> e, next |-> 1] >>
  BY DEF StartVisit
<1>2. stack = << >> /\ UNCHANGED <<graph, vec, status>> /\ e \in Entries
  BY DEF StartVisit, Collected
<1>3. Len(stack') = 1 /\ DOMAIN stack' = {1} /\ stack'[1].entry = e /\ stack'[1].next = 1
  BY <1>1
<1>4. TypeOK'
  BY <1>1, <1>2 DEF TypeOK, DFSStates, Entries, Frame
<1>5. \A f \in Entries : dfs'[f] = IF f = e THEN "Discovered" ELSE dfs[f]
  BY <1>1 DEF TypeOK
<1>6. VecsHoldVisited' /\ VecsInjective' /\ VecsClosed'
  BY <1>1, <1>2, <1>5, VecsUnchanged
<1>7. FramesDone'
  BY <1>2, <1>3, FrameTypes DEF FramesDone, Operands
<1>8. \A f \in Entries : dfs[f] # "Discovered"
  BY <1>2 DEF StackIsPath
<1>9. StackIsPath'
  BY <1>2, <1>3, <1>5, <1>8 DEF StackIsPath, Entries
<1> QED BY <1>4, <1>6, <1>7, <1>9

LEMMA PassOperandIInv == IInv /\ PassOperand => IInv'
<1> SUFFICES ASSUME IInv, PassOperand PROVE IInv'
  OBVIOUS
<1>0. TypeOK /\ FramesDone /\ StackIsPath
  BY DEF IInv
<1> DEFINE n == Len(stack)
<1>1. /\ HasOp /\ stack # << >> /\ UNCHANGED <<graph, dfs, vec, status>>
      /\ Skipped(TopOp) \/ dfs[TopOp] = "Visited"
  BY DEF PassOperand, HasOp
<1>2. /\ n \in DOMAIN stack /\ n \in Nat
      /\ stack' = [stack EXCEPT ![n].next = stack[n].next + 1]
  BY <1>0, <1>1, FrameTypes DEF PassOperand, Advance
<1>3. /\ stack' \in Seq(Frame)
      /\ DOMAIN stack' = DOMAIN stack /\ Len(stack') = n
      /\ \A k \in DOMAIN stack :
           /\ stack'[k].entry = stack[k].entry
           /\ k # n => stack'[k].next = stack[k].next
      /\ stack'[n].next = stack[n].next + 1
  <2> DEFINE fr == [stack[n] EXCEPT !.next = stack[n].next + 1]
  <2>1. stack \in Seq(Frame)
    BY <1>0 DEF TypeOK
  <2>2. stack[n] \in Frame
    BY <1>2, <2>1
  <2>3. fr \in Frame /\ fr.entry = stack[n].entry /\ fr.next = stack[n].next + 1
    BY <2>2 DEF Frame
  <2>4. stack' = [stack EXCEPT ![n] = fr]
    BY <1>2
  <2> HIDE DEF fr
  <2>5. /\ stack' \in Seq(Frame) /\ DOMAIN stack' = DOMAIN stack /\ Len(stack') = n
        /\ stack'[n] = fr
        /\ \A k \in DOMAIN stack : k # n => stack'[k] = stack[k]
    BY <2>1, <2>3, <2>4, <1>2
  <2> QED BY <2>3, <2>5
<1>4. TypeOK'
  BY <1>0, <1>1, <1>3 DEF TypeOK, Entries, Frame
<1>5. VecsHoldVisited' /\ VecsInjective' /\ VecsClosed'
  BY <1>1, VecsUnchanged
<1>6. graph' = graph /\ dfs' = dfs
  BY <1>1
<1>7. FramesDone'
  <2>1. SUFFICES ASSUME NEW k \in DOMAIN stack, NEW i \in DOMAIN Operands(stack[k].entry),
                        i < stack'[k].next
                 PROVE  \/ Skipped(Operands(stack[k].entry)[i])
                        \/ dfs[Operands(stack[k].entry)[i]] = "Visited"
    BY <1>6, <1>3 DEF FramesDone, Operands, Skipped
  <2>2. CASE i < stack[k].next
    BY <2>2, <1>0 DEF FramesDone
  <2>3. CASE ~(i < stack[k].next)
    <3>1. k = n /\ i = stack[n].next
      BY <2>1, <2>3, <1>0, <1>2, <1>3, FrameTypes
    <3> QED BY <3>1, <1>1 DEF TopOp, Top
  <2> QED BY <2>2, <2>3
<1>8. StackIsPath'
  <2>1. \A k \in DOMAIN stack' : k < Len(stack') => k \in DOMAIN stack /\ k # n /\ k + 1 \in DOMAIN stack
    BY <1>0, <1>3, FrameTypes
  <2>2. \A k \in DOMAIN stack' : k < Len(stack') =>
          /\ stack'[k].next \in DOMAIN Operands(stack'[k].entry)
          /\ stack'[k + 1].entry = Operands(stack'[k].entry)[stack'[k].next]
          /\ ~Skipped(stack'[k + 1].entry)
    BY <2>1, <1>0, <1>3 DEF StackIsPath
  <2>3. /\ \A k \in DOMAIN stack' : dfs[stack'[k].entry] = "Discovered"
        /\ \A k, m \in DOMAIN stack' : stack'[k].entry = stack'[m].entry => k = m
        /\ \A e \in Entries : dfs[e] = "Discovered" => \E k \in DOMAIN stack' : stack'[k].entry = e
    BY <1>0, <1>3 DEF StackIsPath
  <2> QED BY <2>2, <2>3, <1>6 DEF StackIsPath, Entries, Operands, Skipped
<1> QED BY <1>4, <1>5, <1>7, <1>8 DEF IInv

LEMMA VisitOperandIInv == IInv /\ VisitOperand => IInv'
<1> SUFFICES ASSUME IInv, VisitOperand PROVE IInv'
  OBVIOUS
<1> DEFINE n == Len(stack)
<1> DEFINE op == TopOp
<1>1. /\ HasOp /\ stack # << >> /\ UNCHANGED <<graph, vec, status>>
      /\ ~Skipped(op) /\ dfs[op] = "Unvisited"
      /\ dfs' = [dfs EXCEPT ![op] = "Discovered"]
      /\ stack' = Append(stack, [entry |-> op, next |-> 1])
  BY DEF VisitOperand, HasOp
<1>2. /\ op \in Entries /\ n \in Nat /\ n \in DOMAIN stack /\ DOMAIN stack = 1..n
      /\ op = Operands(stack[n].entry)[stack[n].next]
      /\ stack[n].next \in DOMAIN Operands(stack[n].entry)
  BY <1>1, FrameTypes DEF IInv, TopOp, Top
<1>3. stack' \in Seq(Frame)
  BY <1>1, <1>2 DEF IInv, TypeOK, Frame
<1>4. /\ DOMAIN stack' = 1..(n + 1) /\ Len(stack') = n + 1
      /\ \A k \in 1..n : stack'[k] = stack[k]
      /\ stack'[n + 1].entry = op /\ stack'[n + 1].next = 1
  BY <1>1, <1>2 DEF IInv, TypeOK
<1>5. \A f \in Entries : dfs'[f] = IF f = op THEN "Discovered" ELSE dfs[f]
  BY <1>1 DEF IInv, TypeOK
<1>6. TypeOK'
  BY <1>1, <1>2, <1>3 DEF IInv, TypeOK, DFSStates, Entries, Frame
<1>7. VecsHoldVisited' /\ VecsInjective' /\ VecsClosed'
  BY <1>1, <1>5, VecsUnchanged
<1>8. graph' = graph
  BY <1>1
<1>9. TypeOK /\ FramesDone /\ StackIsPath
  BY DEF IInv
<1> HIDE DEF n, op
<1>10. FramesDone'
  <2>1. SUFFICES ASSUME NEW k \in 1..(n + 1), NEW i \in DOMAIN Operands(stack'[k].entry),
                        i < stack'[k].next
                 PROVE  \/ Skipped(Operands(stack'[k].entry)[i])
                        \/ dfs'[Operands(stack'[k].entry)[i]] = "Visited"
    BY <1>8, <1>4 DEF FramesDone, Operands, Skipped
  <2>2. CASE k \in 1..n
    <3>1. k \in DOMAIN stack /\ stack'[k] = stack[k]
      BY <1>2, <1>4, <2>2
    <3>2. stack[k].entry \in Entries /\ Operands(stack[k].entry)[i] \in Entries
      BY <3>1, <2>1, <1>9, FrameTypes
    <3>3. \/ Skipped(Operands(stack[k].entry)[i])
          \/ dfs[Operands(stack[k].entry)[i]] = "Visited"
      BY <3>1, <2>1, <1>9 DEF FramesDone
    <3> QED BY <3>1, <3>2, <3>3, <1>1, <1>5
  <2>3. CASE k = n + 1
    BY <2>1, <2>3, <1>2, <1>4, <1>9, FrameTypes
  <2> QED BY <2>2, <2>3, <1>2
<1>11. \A k \in 1..n : stack[k].entry \in Entries /\ stack[k].entry # op
  BY <1>1, <1>2, <1>9, FrameTypes DEF StackIsPath
<1>12. StackIsPath'
  <2>1. \A k \in DOMAIN stack' : dfs'[stack'[k].entry] = "Discovered"
    BY <1>2, <1>4, <1>5, <1>9, <1>11 DEF StackIsPath
  <2>2. \A k, m \in DOMAIN stack' : stack'[k].entry = stack'[m].entry => k = m
    BY <1>2, <1>4, <1>9, <1>11 DEF StackIsPath
  <2>3. \A e \in Entries : dfs'[e] = "Discovered" => \E k \in DOMAIN stack' : stack'[k].entry = e
    BY <1>2, <1>4, <1>5, <1>9 DEF StackIsPath
  <2>4. ASSUME NEW k \in 1..n
        PROVE  /\ stack[k].next \in DOMAIN Operands(stack[k].entry)
               /\ stack'[k + 1].entry = Operands(stack[k].entry)[stack[k].next]
               /\ ~Skipped(stack'[k + 1].entry)
    <3>1. CASE k < n
      <4>1. k \in DOMAIN stack /\ k < Len(stack) /\ stack'[k + 1] = stack[k + 1]
        BY <3>1, <1>2, <1>4 DEF n
      <4> QED BY <4>1, <1>9 DEF StackIsPath
    <3>2. CASE k = n
      BY <3>2, <1>1, <1>2, <1>4 DEF op
    <3> QED BY <3>1, <3>2, <1>2
  <2>5. ASSUME NEW k \in DOMAIN stack', k < Len(stack')
        PROVE  /\ stack'[k].next \in DOMAIN Operands(stack'[k].entry)
               /\ stack'[k + 1].entry = Operands(stack'[k].entry)[stack'[k].next]
               /\ ~Skipped(stack'[k + 1].entry)
    <3>1. k \in 1..n /\ stack'[k] = stack[k]
      BY <2>5, <1>2, <1>4
    <3> QED BY <3>1, <2>4
  <2> QED BY <2>1, <2>2, <2>3, <2>5, <1>8 DEF StackIsPath, Entries, Operands, Skipped
<1> QED BY <1>6, <1>7, <1>10, <1>12 DEF IInv

LEMMA ClosedMonotone ==
  ASSUME NEW s, NEW D, NEW F, NEW need, Closed(s, D, need), D \subseteq F
  PROVE  Closed(s, F, need)
BY DEF Closed

LEMMA FinishVisitIInv == IInv /\ FinishVisit => IInv'
<1> SUFFICES ASSUME IInv, FinishVisit PROVE IInv'
  OBVIOUS
<1>0. TypeOK /\ VecsHoldVisited /\ VecsInjective /\ FramesDone /\ StackIsPath /\ VecsClosed
  BY DEF IInv
<1> DEFINE n == Len(stack)
<1> DEFINE e == Top.entry
<1> DEFINE l == Layer(e)
<1>1. /\ stack # << >> /\ graph' = graph /\ status' = status
      /\ Top.next > Len(Operands(e))
      /\ dfs' = [dfs EXCEPT ![e] = "Visited"]
      /\ vec' = IF l \in Layers THEN [vec EXCEPT ![l] = Append(vec[l], e)] ELSE vec
      /\ stack' = SubSeq(stack, 1, n - 1)
  BY DEF FinishVisit, Pop
<1>2. /\ n \in DOMAIN stack /\ n \in Nat /\ DOMAIN stack = 1..n /\ e \in Entries
      /\ e = stack[n].entry /\ Top = stack[n]
  BY <1>0, <1>1, FrameTypes DEF Top
<1> HIDE DEF n, e, l
<1>3. /\ stack' \in Seq(Frame)
      /\ DOMAIN stack' = 1..(n - 1) /\ Len(stack') = n - 1
      /\ \A k \in 1..(n - 1) : stack'[k] = stack[k]
  <2>1. stack \in Seq(Frame)
    BY <1>0 DEF TypeOK
  <2> QED BY <2>1, <1>1, <1>2 DEF n
<1>4. \A f \in Entries : dfs'[f] = IF f = e THEN "Visited" ELSE dfs[f]
  BY <1>0, <1>1 DEF TypeOK
<1>5. dfs[e] = "Discovered"
  BY <1>0, <1>2 DEF StackIsPath
<1>6. \A m \in Layers : vec[m] \in Seq(Entries)
  BY <1>0 DEF TypeOK
<1>7. /\ \A m \in Layers : vec'[m] = IF m = l THEN Append(vec[m], e) ELSE vec[m]
      /\ vec' \in [Layers -> Seq(Entries)]
  <2>1. CASE l \in Layers
    <3>1. Append(vec[l], e) \in Seq(Entries)
      BY <2>1, <1>2, <1>6
    <3> QED BY <3>1, <2>1, <1>0, <1>1 DEF TypeOK
  <2>2. CASE l \notin Layers
    BY <2>2, <1>0, <1>1 DEF TypeOK
  <2> QED BY <2>1, <2>2
<1>8. l \in Layers <=> e \in Collected
  BY <1>0, <1>2, FrameTypes DEF l
<1>9. TypeOK'
  BY <1>0, <1>1, <1>3, <1>4, <1>7 DEF TypeOK, DFSStates, Entries, Frame
<1>10. /\ Entries' = Entries /\ Collected' = Collected /\ Need' = Need
       /\ IsLayered' = IsLayered
       /\ \A f : Layer(f)' = Layer(f)
  BY <1>1 DEF Entries, Collected, Need, Needed, IsLayered, Operands, Layer
\* What the vectors hold grows by e.
<1>11. \A m \in Layers :
         /\ DOMAIN vec[m] = 1..Len(vec[m]) /\ Len(vec[m]) \in Nat
         /\ m # l => vec'[m] = vec[m]
         /\ m = l => /\ DOMAIN vec'[m] = 1..(Len(vec[m]) + 1)
                     /\ vec'[m][Len(vec[m]) + 1] = e
                     /\ \A i \in 1..Len(vec[m]) : vec'[m][i] = vec[m][i]
  BY <1>2, <1>6, <1>7
<1>12. \A m \in Layers : Elems(vec[m]) \subseteq Elems(vec'[m])
  BY <1>11 DEF Elems
<1>13. e \in Collected => e \in Elems(vec'[l])
  BY <1>8, <1>11 DEF Elems
<1>14. VecsHoldVisited'
  <2>1. ASSUME NEW f \in Collected, dfs'[f] = "Visited" PROVE f \in Elems(vec'[Layer(f)])
    <3>1. f \in Entries /\ Layer(f) \in Layers
      BY <1>0, FrameTypes DEF Collected
    <3>2. CASE f = e
      BY <3>2, <2>1, <1>13 DEF l
    <3>3. CASE f # e
      BY <3>1, <3>3, <2>1, <1>0, <1>4, <1>12 DEF VecsHoldVisited
    <3> QED BY <3>2, <3>3
  <2>2. ASSUME NEW m \in Layers, NEW i \in DOMAIN vec'[m]
        PROVE  /\ vec'[m][i] \in Collected /\ Layer(vec'[m][i]) = m
               /\ dfs'[vec'[m][i]] = "Visited"
    <3>1. CASE i \in DOMAIN vec[m] /\ vec'[m][i] = vec[m][i]
      <4>1. vec[m][i] \in Collected /\ Layer(vec[m][i]) = m /\ dfs[vec[m][i]] = "Visited"
        BY <3>1, <1>0 DEF VecsHoldVisited
      <4> QED BY <4>1, <3>1, <1>4 DEF Collected
    <3>2. CASE m = l /\ vec'[m][i] = e
      BY <3>2, <1>2, <1>4, <1>8 DEF l
    <3> QED BY <3>1, <3>2, <2>2, <1>11
  <2> QED BY <2>1, <2>2, <1>10 DEF VecsHoldVisited
<1>15. \A m \in Layers : \A i \in DOMAIN vec[m] : vec[m][i] # e
  BY <1>0, <1>5 DEF VecsHoldVisited
<1>16. VecsInjective'
  <2> SUFFICES ASSUME NEW m \in Layers, NEW i \in DOMAIN vec'[m], NEW j \in DOMAIN vec'[m],
                      vec'[m][i] = vec'[m][j]
               PROVE  i = j
    BY DEF VecsInjective
  <2>1. CASE m # l
    BY <2>1, <1>0, <1>11 DEF VecsInjective
  <2>2. CASE m = l
    <3> DEFINE c == Len(vec[m])
    <3>1. /\ DOMAIN vec[m] = 1..c /\ c \in Nat /\ DOMAIN vec'[m] = 1..(c + 1)
          /\ vec'[m][c + 1] = e
          /\ \A k \in 1..c : vec'[m][k] = vec[m][k] /\ vec[m][k] # e
      BY <2>2, <1>11, <1>15
    <3>2. \A k, q \in 1..c : vec[m][k] = vec[m][q] => k = q
      BY <3>1, <1>0 DEF VecsInjective
    <3> HIDE DEF c
    <3> QED BY <3>1, <3>2
  <2> QED BY <2>1, <2>2
<1>17. FramesDone'
  <2>0. graph' = graph /\ DOMAIN stack' = 1..(n - 1) /\ \A k \in 1..(n - 1) : stack'[k] = stack[k]
    BY <1>1, <1>3
  <2>1. SUFFICES ASSUME NEW k \in 1..(n - 1), NEW i \in DOMAIN Operands(stack[k].entry),
                        i < stack[k].next
                 PROVE  \/ Skipped(Operands(stack[k].entry)[i])
                        \/ dfs'[Operands(stack[k].entry)[i]] = "Visited"
    BY <2>0 DEF FramesDone, Operands, Skipped
  <2>2. k \in DOMAIN stack /\ Operands(stack[k].entry)[i] \in Entries
    BY <2>1, <1>0, <1>2, FrameTypes
  <2> QED BY <2>1, <2>2, <1>0, <1>4 DEF FramesDone
<1>18. StackIsPath'
  <2>1. \A k \in 1..(n - 1) : k \in DOMAIN stack /\ stack[k].entry \in Entries /\ stack[k].entry # e
    BY <1>0, <1>2, FrameTypes DEF StackIsPath
  <2>2. \A k \in DOMAIN stack' : dfs'[stack'[k].entry] = "Discovered"
    BY <2>1, <1>0, <1>3, <1>4 DEF StackIsPath
  <2>3. \A k, m \in DOMAIN stack' : stack'[k].entry = stack'[m].entry => k = m
    BY <2>1, <1>0, <1>3 DEF StackIsPath
  <2>4. ASSUME NEW f \in Entries, dfs'[f] = "Discovered"
        PROVE  \E k \in DOMAIN stack' : stack'[k].entry = f
    <3>1. f # e /\ dfs[f] = "Discovered"
      BY <2>4, <1>4
    <3>2. PICK k \in DOMAIN stack : stack[k].entry = f
      BY <3>1, <1>0 DEF StackIsPath
    <3>3. k \in 1..(n - 1)
      BY <3>1, <3>2, <1>2
    <3> QED BY <3>2, <3>3, <1>3
  <2>5. ASSUME NEW k \in DOMAIN stack', k < Len(stack')
        PROVE  /\ stack'[k].next \in DOMAIN Operands(stack'[k].entry)
               /\ stack'[k + 1].entry = Operands(stack'[k].entry)[stack'[k].next]
               /\ ~Skipped(stack'[k + 1].entry)
    <3>1. k \in DOMAIN stack /\ k < Len(stack) /\ stack'[k] = stack[k] /\ stack'[k + 1] = stack[k + 1]
      BY <2>5, <1>2, <1>3 DEF n
    <3> QED BY <3>1, <1>0 DEF StackIsPath
  <2> QED BY <2>2, <2>3, <2>4, <2>5, <1>1 DEF StackIsPath, Entries, Operands, Skipped
<1>19. VecsClosed'
  <2> SUFFICES ASSUME IsLayered, NEW m \in Layers
               PROVE  Closed(vec'[m], Before(m)', Need)
    BY <1>10 DEF VecsClosed
  <2>1. Before(m) \subseteq Before(m)'
    BY <1>12 DEF Before
  <2>2. Closed(vec[m], Before(m)', Need)
    BY <2>1, <1>0, ClosedMonotone DEF VecsClosed
  <2>3. CASE m # l
    BY <2>2, <2>3, <1>11
  <2>4. CASE m = l
    <3>1. ASSUME NEW op \in Need[e] PROVE op \in Before(m)' \/ op \in Elems(vec[m])
      <4>1. e \in Collected /\ op \in Needed(e)
        BY <2>4, <3>1, <1>2, <1>8 DEF Need
      <4>2. PICK i \in DOMAIN Operands(e) : op = Operands(e)[i]
        BY <4>1 DEF Needed
      <4>3. op \in Collected /\ op \notin graph.forward
        BY <4>1 DEF Needed
      <4>4. i < stack[n].next
        BY <4>2, <1>0, <1>1, <1>2, FrameTypes
      <4>5. dfs[op] = "Visited"
        BY <4>2, <4>3, <4>4, <1>0, <1>2 DEF FramesDone, Skipped
      <4>6. op \in Elems(vec[Layer(op)]) /\ Layer(op) \in Layers /\ Layer(op) <= Layer(e)
        BY <4>1, <4>3, <4>5, <1>0, FrameTypes DEF VecsHoldVisited, IsLayered, Collected
      <4>7. CASE Layer(op) = m
        BY <4>6, <4>7
      <4>8. CASE Layer(op) < m
        <5>1. op \in Elems(vec'[Layer(op)])
          BY <4>6, <1>12
        <5> QED BY <5>1, <4>6, <4>8 DEF Before
      <4> QED BY <4>6, <4>7, <4>8, <2>4 DEF l, Layers
    <3>2. Closed(Append(vec[m], e), Before(m)', Need)
      BY <3>1, <2>2, <1>2, <1>6, ClosedAppend
    <3> QED BY <3>2, <2>4, <1>7
  <2> QED BY <2>3, <2>4
<1> QED BY <1>9, <1>14, <1>16, <1>17, <1>18, <1>19 DEF IInv

\* The steps that only change status, and stuttering.
LEMMA StatusStepIInv == IInv /\ UNCHANGED <<graph, dfs, stack, vec>>
                        /\ status' \in {"sorting", "sorted", "cyclic"} => IInv'
<1> SUFFICES ASSUME IInv, UNCHANGED <<graph, dfs, stack, vec>>,
                    status' \in {"sorting", "sorted", "cyclic"}
             PROVE  IInv'
  OBVIOUS
<1>1. TypeOK'
  BY DEF IInv, TypeOK, Entries, Frame
<1>2. VecsHoldVisited' /\ VecsInjective' /\ VecsClosed'
  BY VecsUnchanged
<1>3. FramesDone'
  BY DEF IInv, FramesDone, Operands, Skipped
<1>4. StackIsPath'
  BY DEF IInv, StackIsPath, Entries, Operands, Skipped
<1> QED BY <1>1, <1>2, <1>3, <1>4 DEF IInv

LEMMA NextIInv == IInv /\ [Next]_vars => IInv'
<1> SUFFICES ASSUME IInv, [Next]_vars PROVE IInv'
  OBVIOUS
<1>1. CASE StartVisit
  BY <1>1, StartVisitIInv
<1>2. CASE PassOperand
  BY <1>2, PassOperandIInv
<1>3. CASE VisitOperand
  BY <1>3, VisitOperandIInv
<1>4. CASE CyclicDependency
  BY <1>4, StatusStepIInv DEF CyclicDependency
<1>5. CASE FinishVisit
  BY <1>5, FinishVisitIInv
<1>6. CASE Finish
  BY <1>6, StatusStepIInv DEF Finish
<1>7. CASE UNCHANGED vars
  BY <1>7, StatusStepIInv DEF vars, IInv, TypeOK
<1> QED BY <1>1, <1>2, <1>3, <1>4, <1>5, <1>6, <1>7 DEF Next

LEMMA Invariance == Spec => []IInv
<1>1. Init => IInv
  BY InitIInv
<1>2. IInv /\ [Next]_vars => IInv'
  BY NextIInv
<1> QED BY <1>1, <1>2, PTL DEF Spec
-----------------------------------------------------------------------------
(***************************************************************************)
(* The theorems.                                                           *)
(***************************************************************************)
\* The search never leaves the module it was given.
THEOREM TypeCorrect == Spec => []TypeOK
<1>1. IInv => TypeOK
  BY DEF IInv
<1> QED BY <1>1, Invariance, PTL

\* The five vectors written one after the other: every vector only needs what
\* is written before it.
LEMMA EmittedClosed ==
  ASSUME IInv
  PROVE  /\ Emitted \in Seq(Entries)
         /\ Elems(Emitted) = UNION {Elems(vec[l]) : l \in Layers}
         /\ IsLayered => Closed(Emitted, {}, Need)
<1> DEFINE a4 == vec[4] \o vec[5]
           a3 == vec[3] \o a4
           a2 == vec[2] \o a3
<1>1. \A l \in Layers : vec[l] \in Seq(Entries)
  BY DEF IInv, TypeOK
<1>2. 1 \in Layers /\ 2 \in Layers /\ 3 \in Layers /\ 4 \in Layers /\ 5 \in Layers
  BY DEF Layers
<1>3. /\ Before(1) = {}
      /\ Before(2) \subseteq Before(1) \cup Elems(vec[1])
      /\ Before(3) \subseteq Before(2) \cup Elems(vec[2])
      /\ Before(4) \subseteq Before(3) \cup Elems(vec[3])
      /\ Before(5) \subseteq Before(4) \cup Elems(vec[4])
  BY DEF Before, Layers
<1>4. UNION {Elems(vec[l]) : l \in Layers}
        = Elems(vec[1]) \cup (Elems(vec[2]) \cup (Elems(vec[3]) \cup (Elems(vec[4]) \cup Elems(vec[5]))))
  BY DEF Layers
<1>5. ASSUME NEW s \in Seq(Entries), NEW t \in Seq(Entries)
      PROVE  s \o t \in Seq(Entries) /\ Elems(s \o t) = Elems(s) \cup Elems(t)
  <2>1. Closed(s, {}, [x \in Entries |-> {}]) /\ Closed(t, {} \cup Elems(s), [x \in Entries |-> {}])
    <3>1. \A i \in DOMAIN s : s[i] \in Entries
      OBVIOUS
    <3>2. \A i \in DOMAIN t : t[i] \in Entries
      OBVIOUS
    <3> QED BY <3>1, <3>2 DEF Closed
  <2> QED BY <2>1, ClosedConcat
<1>6. /\ a4 \in Seq(Entries) /\ Elems(a4) = Elems(vec[4]) \cup Elems(vec[5])
  BY <1>1, <1>2, <1>5
<1>7. /\ a3 \in Seq(Entries) /\ Elems(a3) = Elems(vec[3]) \cup Elems(a4)
  BY <1>1, <1>2, <1>5, <1>6
<1>8. /\ a2 \in Seq(Entries) /\ Elems(a2) = Elems(vec[2]) \cup Elems(a3)
  BY <1>1, <1>2, <1>5, <1>7
<1>9. /\ Emitted \in Seq(Entries) /\ Elems(Emitted) = Elems(vec[1]) \cup Elems(a2)
  BY <1>1, <1>2, <1>5, <1>8 DEF Emitted
<1>10. ASSUME IsLayered PROVE Closed(Emitted, {}, Need)
  <2>1. \A l \in Layers : Closed(vec[l], Before(l), Need)
    BY <1>10 DEF IInv, VecsClosed
  <2>2. Closed(vec[5], Before(4) \cup Elems(vec[4]), Need)
    BY <2>1, <1>2, <1>3, ClosedMonotone
  <2>3. Closed(a4, Before(4), Need)
    BY <2>1, <2>2, <1>1, <1>2, ClosedConcat
  <2> HIDE DEF a4
  <2>4. Closed(a4, Before(3) \cup Elems(vec[3]), Need)
    BY <2>3, <1>3, ClosedMonotone
  <2>5. Closed(a3, Before(3), Need)
    BY <2>1, <2>4, <1>1, <1>2, <1>6, ClosedConcat
  <2> HIDE DEF a3
  <2>6. Closed(a3, Before(2) \cup Elems(vec[2]), Need)
    BY <2>5, <1>3, ClosedMonotone
  <2>7. Closed(a2, Before(2), Need)
    BY <2>1, <2>6, <1>1, <1>2, <1>7, ClosedConcat
  <2>8. Closed(a2, Before(1) \cup Elems(vec[1]), Need)
    <3> HIDE DEF a2
    <3> QED BY <2>7, <1>3, ClosedMonotone
  <2>9. vec[1] \o a2 = Emitted
    BY DEF Emitted, a3, a4
  <2> HIDE DEF a2
  <2>10. Closed(Emitted, Before(1), Need)
    BY <2>1, <2>8, <2>9, <1>1, <1>2, <1>8, ClosedConcat
  <2> QED BY <2>10, <1>3
<1> HIDE DEF a4, a3, a2
<1> QED BY <1>4, <1>6, <1>7, <1>8, <1>9, <1>10

\* The comment of TopologicalSort, for every module: as far as the order of the
\* five vectors allows, the file declares every operand before its use.
THEOREM DeclaredBeforeUseHolds == Spec => []DeclaredBeforeUse
<1>1. IInv => DeclaredBeforeUse
  <2> SUFFICES ASSUME IInv, IsLayered, NEW i \in DOMAIN Emitted, NEW op \in Needed(Emitted[i])
               PROVE  \E j \in 1..(i - 1) : Emitted[j] = op
    BY DEF DeclaredBeforeUse, AllOperandsDeclared
  <2>1. Emitted \in Seq(Entries) /\ Closed(Emitted, {}, Need)
    BY EmittedClosed
  <2>2. Emitted[i] \in Entries
    BY <2>1
  <2>3. op \in Need[Emitted[i]]
    BY <2>2 DEF Need
  <2> QED BY <2>1, <2>3 DEF Closed
<1> QED BY <1>1, Invariance, PTL

Injective(s) == \A i, j \in DOMAIN s : s[i] = s[j] => i = j

LEMMA InjectiveConcat ==
  ASSUME NEW E, NEW s \in Seq(E), NEW t \in Seq(E),
         Injective(s), Injective(t), Elems(s) \cap Elems(t) = {}
  PROVE  /\ s \o t \in Seq(E)
         /\ Elems(s \o t) = Elems(s) \cup Elems(t)
         /\ Injective(s \o t)
<1>0. /\ s \o t \in Seq(E)
      /\ Elems(s \o t) = Elems(s) \cup Elems(t)
  <2>1. /\ \A i \in DOMAIN s : s[i] \in E
        /\ \A i \in DOMAIN t : t[i] \in E
    OBVIOUS
  <2>2. Closed(s, {}, [x \in E |-> {}]) /\ Closed(t, {} \cup Elems(s), [x \in E |-> {}])
    BY <2>1 DEF Closed
  <2> QED BY <2>2, ClosedConcat
<1> DEFINE u == s \o t
<1> DEFINE c == Len(s)
<1> DEFINE d == Len(t)
<1>1. /\ DOMAIN u = 1..(c + d) /\ c \in Nat /\ d \in Nat
      /\ DOMAIN s = 1..c /\ DOMAIN t = 1..d
  OBVIOUS
<1>2. /\ \A i \in 1..c : u[i] = s[i]
      /\ \A i \in (c + 1)..(c + d) : u[i] = t[i - c]
  OBVIOUS
<1>3. \A i \in 1..c, j \in 1..d : s[i] # t[j]
  BY <1>1 DEF Elems
<1> HIDE DEF u, c, d
<1>4. ASSUME NEW i \in 1..(c + d), NEW j \in 1..(c + d), u[i] = u[j], i <= j
      PROVE  i = j
  <2>1. CASE j <= c
    <3>1. i \in 1..c /\ j \in 1..c /\ s[i] = s[j]
      BY <1>1, <1>2, <1>4, <2>1
    <3> QED BY <3>1, <1>1 DEF Injective
  <2>2. CASE i <= c /\ j > c
    <3>1. i \in 1..c /\ u[i] = s[i] /\ j - c \in 1..d /\ u[j] = t[j - c]
      BY <1>1, <1>2, <1>4, <2>2
    <3> QED BY <3>1, <1>3, <1>4
  <2>3. CASE i > c
    <3>1. i - c \in 1..d /\ u[i] = t[i - c] /\ j - c \in 1..d /\ u[j] = t[j - c]
      BY <1>1, <1>2, <1>4, <2>3
    <3>2. i - c = j - c
      BY <3>1, <1>1, <1>4 DEF Injective
    <3> QED BY <3>2, <1>1
  <2> QED BY <1>1, <2>1, <2>2, <2>3
<1>5. \A i, j \in 1..(c + d) : u[i] = u[j] => i = j
  BY <1>1, <1>4
<1>6. Injective(u)
  BY <1>1, <1>5 DEF Injective
<1> QED BY <1>0, <1>6 DEF u

\* When the constructor has returned, its loop has seen every entry.
SortedIsComplete == status = "sorted" => \A e \in Collected : dfs[e] = "Visited"

LEMMA SortedIsCompleteHolds == Spec => []SortedIsComplete
<1>1. Init => SortedIsComplete
  BY DEF Init, SortedIsComplete
<1>2. SortedIsComplete /\ [Next]_vars => SortedIsComplete'
  BY DEF SortedIsComplete, Next, vars, StartVisit, PassOperand, VisitOperand,
         CyclicDependency, FinishVisit, Finish, Collected, Entries
<1> QED BY <1>1, <1>2, PTL DEF Spec

\* Nothing is lost and nothing is written twice, whatever the operands share.
THEOREM EmittedOnceHolds == Spec => []EmittedOnce
<1>1. IInv /\ SortedIsComplete => EmittedOnce
  <2> SUFFICES ASSUME IInv, SortedIsComplete PROVE EmittedOnce
    OBVIOUS
  <2>0. TypeOK /\ VecsHoldVisited /\ VecsInjective
    BY DEF IInv
  <2>1. \A l \in Layers : vec[l] \in Seq(Entries)
    BY <2>0 DEF TypeOK
  <2>2. \A l \in Layers : Injective(vec[l])
    BY <2>0 DEF VecsInjective, Injective
  <2>3. \A l, m \in Layers : l # m => Elems(vec[l]) \cap Elems(vec[m]) = {}
    BY <2>0 DEF VecsHoldVisited, Elems
  <2>4. 1 \in Layers /\ 2 \in Layers /\ 3 \in Layers /\ 4 \in Layers /\ 5 \in Layers
    BY DEF Layers
  <2> DEFINE Apart(l, m) == Elems(vec[l]) \cap Elems(vec[m]) = {}
  <2>3a. /\ Apart(4, 5) /\ Apart(3, 4) /\ Apart(3, 5) /\ Apart(2, 3) /\ Apart(2, 4)
         /\ Apart(2, 5) /\ Apart(1, 2) /\ Apart(1, 3) /\ Apart(1, 4) /\ Apart(1, 5)
    BY <2>3, <2>4
  <2> DEFINE a4 == vec[4] \o vec[5]
             a3 == vec[3] \o a4
             a2 == vec[2] \o a3
             a1 == vec[1] \o a2
  <2>5. /\ a4 \in Seq(Entries) /\ Injective(a4)
       /\ Elems(a4) = Elems(vec[4]) \cup Elems(vec[5])
    <3>1. Elems(vec[4]) \cap Elems(vec[5]) = {}
      BY <2>3a
    <3>2. vec[4] \in Seq(Entries) /\ Injective(vec[4]) /\ vec[5] \in Seq(Entries) /\ Injective(vec[5])
      BY <2>1, <2>2, <2>4
    <3> QED BY <3>1, <3>2, InjectiveConcat
  <2> HIDE DEF a4
  <2>6. /\ a3 \in Seq(Entries) /\ Injective(a3)
       /\ Elems(a3) = Elems(vec[3]) \cup Elems(a4)
    <3>1. Elems(vec[3]) \cap Elems(a4) = {}
      BY <2>3a, <2>5
    <3>2. vec[3] \in Seq(Entries) /\ Injective(vec[3]) /\ a4 \in Seq(Entries) /\ Injective(a4)
      BY <2>1, <2>2, <2>4, <2>5
    <3> QED BY <3>1, <3>2, InjectiveConcat
  <2> HIDE DEF a3
  <2>7. /\ a2 \in Seq(Entries) /\ Injective(a2)
       /\ Elems(a2) = Elems(vec[2]) \cup Elems(a3)
    <3>1. Elems(vec[2]) \cap Elems(a3) = {}
      BY <2>3a, <2>5, <2>6
    <3>2. vec[2] \in Seq(Entries) /\ Injective(vec[2]) /\ a3 \in Seq(Entries) /\ Injective(a3)
      BY <2>1, <2>2, <2>4, <2>5, <2>6
    <3> QED BY <3>1, <3>2, InjectiveConcat
  <2> HIDE DEF a2
  <2>8. /\ a1 \in Seq(Entries) /\ Injective(a1)
       /\ Elems(a1) = Elems(vec[1]) \cup Elems(a2)
    <3>1. Elems(vec[1]) \cap Elems(a2) = {}
      BY <2>3a, <2>5, <2>6, <2>7
    <3>2. vec[1] \in Seq(Entries) /\ Injective(vec[1]) /\ a2 \in Seq(Entries) /\ Injective(a2)
      BY <2>1, <2>2, <2>4, <2>5, <2>6, <2>7
    <3> QED BY <3>1, <3>2, InjectiveConcat
  <2>9. a1 = Emitted
    BY DEF Emitted, a2, a3, a4
  <2>10. ASSUME status = "sorted" PROVE Elems(Emitted) = Collected
    <3>1. Elems(Emitted) = UNION {Elems(vec[l]) : l \in Layers}
      BY EmittedClosed
    <3>2. \A l \in Layers : Elems(vec[l]) \subseteq Collected
      BY <2>0 DEF VecsHoldVisited, Elems
    <3>3. \A e \in Collected : e \in Elems(vec[Layer(e)]) /\ Layer(e) \in Layers
      BY <2>0, <2>10, FrameTypes DEF VecsHoldVisited, SortedIsComplete, Collected
    <3> QED BY <3>1, <3>2, <3>3
  <2> QED BY <2>8, <2>9, <2>10 DEF EmittedOnce, Elems, Injective
<1> QED BY <1>1, Invariance, SortedIsCompleteHolds, PTL

\* Where the assertion has fired, the search still stands before the operand.
CyclicHere ==
  status = "cyclic" => HasOp /\ ~Skipped(TopOp) /\ dfs[TopOp] = "Discovered"

LEMMA CyclicHereHolds == Spec => []CyclicHere
<1>1. Init => CyclicHere
  BY DEF Init, CyclicHere
<1>2. CyclicHere /\ [Next]_vars => CyclicHere'
  <2> SUFFICES ASSUME CyclicHere, [Next]_vars PROVE CyclicHere'
    OBVIOUS
  <2>1. CASE StartVisit
    BY <2>1 DEF StartVisit, CyclicHere
  <2>2. CASE PassOperand
    BY <2>2 DEF PassOperand, CyclicHere
  <2>3. CASE VisitOperand
    BY <2>3 DEF VisitOperand, CyclicHere
  <2>4. CASE CyclicDependency
    BY <2>4 DEF CyclicDependency, CyclicHere, HasOp, Skipped, Top, TopOp, Operands
  <2>5. CASE FinishVisit
    BY <2>5 DEF FinishVisit, CyclicHere
  <2>6. CASE Finish
    BY <2>6 DEF Finish, CyclicHere
  <2>7. CASE UNCHANGED vars
    BY <2>7 DEF vars, CyclicHere, HasOp, Skipped, Top, TopOp, Operands
  <2> QED BY <2>1, <2>2, <2>3, <2>4, <2>5, <2>6, <2>7 DEF Next
<1> QED BY <1>1, <1>2, PTL DEF Spec

\* assert(State != Discovered && "Cyclic dependency detected") fires on cyclic
\* modules only: the activations from the operand on are a cycle no
\* OpTypeForwardPointer breaks.
THEOREM CycleIsRealHolds == Spec => []CycleIsReal
<1>1. IInv /\ CyclicHere => CycleIsReal
  <2> SUFFICES ASSUME IInv, CyclicHere, status = "cyclic"
               PROVE  \E k \in DOMAIN stack :
                        /\ stack[k].entry = TopOp
                        /\ TopOp \in Needed(Top.entry)
                        /\ \A m \in k..(Len(stack) - 1) :
                             stack[m + 1].entry \in Needed(stack[m].entry)
    BY DEF CycleIsReal
  <2>1. TypeOK /\ StackIsPath
    BY DEF IInv
  <2>2. HasOp /\ ~Skipped(TopOp) /\ dfs[TopOp] = "Discovered"
    BY DEF CyclicHere
  <2>3. ASSUME NEW e \in Entries, NEW i \in DOMAIN Operands(e),
               Operands(e)[i] \in Entries, ~Skipped(Operands(e)[i]),
               dfs[Operands(e)[i]] = "Discovered",
               Operands(e)[i] \in Collected
        PROVE  Operands(e)[i] \in Needed(e)
    <3>1. Operands(e)[i] \notin graph.forward
      BY <2>1, <2>3 DEF TypeOK, IsGraph, Entries, Skipped
    <3> QED BY <2>3, <3>1 DEF Needed
  <2>4. /\ Len(stack) \in Nat /\ DOMAIN stack = 1..Len(stack) /\ Len(stack) \in DOMAIN stack
        /\ Top.next \in DOMAIN Operands(Top.entry) /\ Top.entry \in Entries
        /\ TopOp \in Entries
    BY <2>1, <2>2, FrameTypes DEF HasOp
  <2>5. \A e \in Entries : DOMAIN Operands(e) # {} => e \in Collected
    BY <2>1 DEF TypeOK, IsGraph, Entries, Operands, Collected
  <2>6. \A k \in DOMAIN stack : stack[k].entry \in Entries
    BY <2>1, FrameTypes
  <2>7. ASSUME NEW k \in DOMAIN stack
        PROVE  stack[k].entry \in Collected
    <3>1. CASE k = Len(stack)
      BY <3>1, <2>4, <2>5 DEF Top
    <3>2. CASE k < Len(stack)
      <4>1. stack[k].next \in DOMAIN Operands(stack[k].entry)
        BY <3>2, <2>1 DEF StackIsPath
      <4> QED BY <4>1, <2>5, <2>6
    <3> QED BY <3>1, <3>2, <2>4
  <2>8. PICK k \in DOMAIN stack : stack[k].entry = TopOp
    BY <2>1, <2>2, <2>4 DEF StackIsPath
  <2>9. TopOp \in Needed(Top.entry)
    <3>1. TopOp \in Collected
      BY <2>7, <2>8
    <3> QED BY <3>1, <2>2, <2>3, <2>4 DEF TopOp
  <2>10. ASSUME NEW m \in k..(Len(stack) - 1)
         PROVE  stack[m + 1].entry \in Needed(stack[m].entry)
    <3>1. m \in DOMAIN stack /\ m + 1 \in DOMAIN stack /\ m < Len(stack)
      BY <2>4, <2>8
    <3>2. /\ stack[m].next \in DOMAIN Operands(stack[m].entry)
          /\ stack[m + 1].entry = Operands(stack[m].entry)[stack[m].next]
          /\ ~Skipped(stack[m + 1].entry)
          /\ dfs[stack[m + 1].entry] = "Discovered"
      BY <3>1, <2>1 DEF StackIsPath
    <3>3. stack[m].entry \in Entries /\ stack[m + 1].entry \in Collected /\ stack[m + 1].entry \in Entries
      BY <3>1, <2>6, <2>7
    <3> QED BY <3>2, <3>3, <2>3
  <2> QED BY <2>8, <2>9, <2>10
<1> QED BY <1>1, Invariance, CyclicHereHolds, PTL
=============================================================================
