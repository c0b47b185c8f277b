---------------------- MODULE ValueTranslationProofs ----------------------
(***************************************************************************)
(* The ids that LLVMToSPIRV hands out stay right for every program: what   *)
(* an instruction holds for an operand is the id of the operand, and the   *)
(* id table leads from it to the operand's SPIRVValue.                     *)
(***************************************************************************)
EXTENDS ValueTranslation, TLAPS

Ids         == Seq(Nat)
Objects     == [value : Values, forward : BOOLEAN, id : Nat, ids : Ids]
Activations == [value : Values, ids : Ids]

(***************************************************************************)
(* The inductive invariant.  IdTableAgrees alone does not survive Complete:*)
(* that the id of a forward can be given to the real instruction without   *)
(* touching another value takes that ValueMap keeps values apart           *)
(* (MapAgrees) and that an id is never ahead of the counter (IdsBelow).    *)
(***************************************************************************)
Shapes ==
  /\ IsBody(body)
  /\ turn \in Nat
  /\ obj \in Seq(Objects)
  /\ calls \in Seq(Activations)
  /\ \A k \in DOMAIN calls : DOMAIN calls[k].ids = DOMAIN Operands(calls[k].value)
MapAgrees ==
  /\ Mapped \subseteq Values
  /\ \A v \in Mapped : valueMap[v] \in DOMAIN obj /\ obj[valueMap[v]].value = v
IdsBelow == \A k \in DOMAIN obj : obj[k].id \in 1 .. Len(obj)
IInv == Shapes /\ MapAgrees /\ IdsBelow /\ IdTableAgrees /\ OperandIdsAgree

\* What IsBody says of the operands and the turns.
LEMMA BodyShape ==
  ASSUME IsBody(body)
  PROVE  /\ \A v \in Values : Operands(v) \in Seq(Values)
         /\ body.turns \in Seq(Values)
BY DEF IsBody, Values, Operands

\* A new activation has asked for nothing.
LEMMA FrameShape ==
  ASSUME IsBody(body), NEW v \in Values
  PROVE  /\ Frame(v) \in Activations
         /\ DOMAIN Frame(v).ids = DOMAIN Operands(v)
         /\ \A i \in DOMAIN Frame(v).ids : Frame(v).ids[i] = 0
<1>1. Operands(v) \in Seq(Values)
  BY BodyShape
<1>2. [i \in DOMAIN Operands(v) |-> 0] \in Seq(Nat)
  BY <1>1
<1> QED BY <1>2 DEF Frame, Activations, Ids

\* A value that is made gets a position and an id that none has, and leaves the
\* others alone.
LEMMA NewObject ==
  ASSUME obj \in Seq(Objects), NEW o \in Objects, obj' = Append(obj, o),
         Values' = Values
  PROVE  /\ obj' \in Seq(Objects)'
         /\ NextId = Len(obj) + 1 /\ Len(obj) \in Nat
         /\ Len(obj') = NextId
         /\ DOMAIN obj = 1 .. Len(obj) /\ DOMAIN obj' = 1 .. NextId
         /\ \A k \in DOMAIN obj : obj'[k] = obj[k]
         /\ obj'[NextId] = o
<1>1. Seq(Objects)' = Seq(Objects)
  BY DEF Objects
<1>2. /\ obj' \in Seq(Objects)
      /\ Len(obj) \in Nat /\ Len(obj') = Len(obj) + 1
      /\ DOMAIN obj = 1 .. Len(obj) /\ DOMAIN obj' = 1 .. Len(obj')
  OBVIOUS
<1>3. \A k \in 1 .. Len(obj) : obj'[k] = obj[k]
  OBVIOUS
<1>4. obj'[Len(obj) + 1] = o
  OBVIOUS
<1> QED BY <1>1, <1>2, <1>3, <1>4 DEF NextId

(***************************************************************************)
(* OperandIdsAgree goes on to hold when no value loses its id, and what a  *)
(* new object or an activation holds is what it held before or right.      *)
(***************************************************************************)
LEMMA IdsStay ==
  ASSUME OperandIdsAgree, body' = body,
         \A v \in Mapped : v \in DOMAIN valueMap' /\ obj'[valueMap'[v]].id = IdOf(v),
         \A k \in DOMAIN obj' :
           \/ k \in DOMAIN obj /\ obj'[k] = obj[k]
           \/ \A j \in DOMAIN obj'[k].ids :
                LET v == body.operands[obj'[k].value][j]
                IN v \in DOMAIN valueMap' /\ obj'[k].ids[j] = obj'[valueMap'[v]].id,
         \A k \in DOMAIN calls' :
           /\ k \in DOMAIN calls /\ calls'[k].value = calls[k].value
           /\ DOMAIN calls'[k].ids = DOMAIN calls[k].ids
           /\ \A j \in DOMAIN calls'[k].ids :
                \/ calls'[k].ids[j] = calls[k].ids[j]
                \/ LET v == body.operands[calls[k].value][j]
                   IN v \in DOMAIN valueMap' /\ calls'[k].ids[j] = obj'[valueMap'[v]].id
  PROVE  OperandIdsAgree'
<1>1. ASSUME NEW k \in DOMAIN obj', NEW j \in DOMAIN obj'[k].ids
      PROVE  LET v == body.operands[obj'[k].value][j]
             IN v \in DOMAIN valueMap' /\ obj'[k].ids[j] = obj'[valueMap'[v]].id
  <2>1. CASE k \in DOMAIN obj /\ obj'[k] = obj[k]
    <3>1. body.operands[obj[k].value][j] \in Mapped
          /\ obj[k].ids[j] = IdOf(body.operands[obj[k].value][j])
      BY <1>1, <2>1 DEF OperandIdsAgree, Operands
    <3> QED BY <2>1, <3>1
  <2> QED BY <1>1, <2>1
<1>2. ASSUME NEW k \in DOMAIN calls', NEW j \in DOMAIN calls'[k].ids, calls'[k].ids[j] # 0
      PROVE  LET v == body.operands[calls'[k].value][j]
             IN v \in DOMAIN valueMap' /\ calls'[k].ids[j] = obj'[valueMap'[v]].id
  <2>1. CASE calls'[k].ids[j] = calls[k].ids[j]
    <3>1. body.operands[calls[k].value][j] \in Mapped
          /\ calls[k].ids[j] = IdOf(body.operands[calls[k].value][j])
      BY <1>2, <2>1 DEF OperandIdsAgree, Operands
    <3> QED BY <1>2, <2>1, <3>1
  <2> QED BY <1>2, <2>1
<1> QED BY <1>1, <1>2 DEF OperandIdsAgree, Mapped, IdOf, Operands

LEMMA InitInv == Init => IInv
<1> SUFFICES ASSUME Init PROVE IInv
  OBVIOUS
<1>1. IsBody(body)
  BY BodiesAssumption DEF Init
<1>2. Len(<< >>) = 0 /\ DOMAIN << >> = {} /\ << >> \in Seq(Objects) /\ << >> \in Seq(Activations)
  OBVIOUS
<1> QED BY <1>1, <1>2 DEF Init, IInv, Shapes, MapAgrees, IdsBelow, IdTableAgrees,
           OperandIdsAgree, Mapped

\* The calling activation goes on, or a new one starts: nothing is translated.
LEMMA CallsOnly ==
  ASSUME IInv, UNCHANGED <<body, obj, valueMap, idMap>>, turn' \in Nat,
         calls' \in Seq(Activations),
         \A k \in DOMAIN calls' : DOMAIN calls'[k].ids = DOMAIN Operands(calls'[k].value),
         \A k \in DOMAIN calls' : \A i \in DOMAIN calls'[k].ids :
           calls'[k].ids[i] # 0 =>
             /\ Operands(calls'[k].value)[i] \in Mapped
             /\ calls'[k].ids[i] = IdOf(Operands(calls'[k].value)[i])
  PROVE  IInv'
<1>1. Shapes'
  BY DEF IInv, Shapes, Objects, Activations, Values, Operands
<1>2. MapAgrees' /\ IdsBelow' /\ IdTableAgrees'
  BY DEF IInv, MapAgrees, IdsBelow, IdTableAgrees, Mapped, Values, IdOf
<1>3. OperandIdsAgree'
  BY DEF IInv, OperandIdsAgree, Mapped, Operands, IdOf
<1> QED BY <1>1, <1>2, <1>3 DEF IInv

\* A new activation on top of the others.
LEMMA PushFrame ==
  ASSUME IInv, NEW v \in Values, UNCHANGED <<body, turn, obj, valueMap, idMap>>,
         calls' = Append(calls, Frame(v))
  PROVE  IInv'
<1>1. /\ Frame(v) \in Activations
      /\ DOMAIN Frame(v).ids = DOMAIN Operands(v)
      /\ \A i \in DOMAIN Frame(v).ids : Frame(v).ids[i] = 0
      /\ Frame(v).value = v
  BY FrameShape DEF IInv, Shapes, Frame
<1>2. calls \in Seq(Activations)
  BY DEF IInv, Shapes
<1>3. /\ calls' \in Seq(Activations)
      /\ DOMAIN calls' = 1 .. (Len(calls) + 1) /\ DOMAIN calls = 1 .. Len(calls)
      /\ Len(calls) \in Nat
      /\ \A k \in 1 .. Len(calls) : calls'[k] = calls[k]
      /\ calls'[Len(calls) + 1] = Frame(v)
  BY <1>1, <1>2
<1>4. \A k \in DOMAIN calls' : k \in DOMAIN calls \/ calls'[k] = Frame(v)
  BY <1>3
<1>5. \A k \in DOMAIN calls' : DOMAIN calls'[k].ids = DOMAIN Operands(calls'[k].value)
  BY <1>1, <1>3, <1>4 DEF IInv, Shapes
<1>6. ASSUME NEW k \in DOMAIN calls', NEW i \in DOMAIN calls'[k].ids, calls'[k].ids[i] # 0
      PROVE  /\ Operands(calls'[k].value)[i] \in Mapped
             /\ calls'[k].ids[i] = IdOf(Operands(calls'[k].value)[i])
  <2>1. k \in DOMAIN calls /\ calls'[k] = calls[k]
    BY <1>1, <1>3, <1>4, <1>6
  <2> QED BY <2>1, <1>6 DEF IInv, OperandIdsAgree
<1>7. turn' \in Nat
  BY DEF IInv, Shapes
<1> QED BY <1>3, <1>5, <1>6, <1>7, CallsOnly

LEMMA TakeTurnInv == IInv /\ TakeTurn => IInv'
<1> SUFFICES ASSUME IInv, TakeTurn PROVE IInv'
  OBVIOUS
<1> DEFINE v == body.turns[turn + 1]
<1>1. CASE UNCHANGED turn /\ calls' = << Frame(v) >>
  <2>1. v \in Values
    BY BodyShape DEF TakeTurn, IInv, Shapes
  <2>2. calls' = Append(calls, Frame(v))
    BY <1>1 DEF TakeTurn
  <2> QED BY <1>1, <2>1, <2>2, PushFrame DEF TakeTurn
<1>2. CASE UNCHANGED calls
  <2>1. turn' \in Nat
    BY <1>2 DEF TakeTurn, IInv, Shapes
  <2> QED BY <1>2, <2>1, CallsOnly DEF TakeTurn, IInv, Shapes, OperandIdsAgree
<1> QED BY <1>1, <1>2 DEF TakeTurn

\* The activation that runs, and its frame with the id of one more operand.
LEMMA TopShape ==
  ASSUME IInv, Running
  PROVE  /\ Len(calls) \in DOMAIN calls /\ Len(calls) \in Nat \ {0}
         /\ DOMAIN calls = 1 .. Len(calls)
         /\ calls \in Seq(Activations)
         /\ Top \in Activations
         /\ Top.value \in Values /\ Top.ids \in Seq(Nat)
         /\ DOMAIN Top.ids = DOMAIN Operands(Top.value)
         /\ \A i \in DOMAIN Top.ids : Operand(i) \in Values
<1>1. calls \in Seq(Activations) /\ calls # << >>
  BY DEF IInv, Shapes, Running
<1>2. Len(calls) \in DOMAIN calls /\ Len(calls) \in Nat \ {0} /\ DOMAIN calls = 1 .. Len(calls)
  BY <1>1
<1>3. Top \in Activations
  BY <1>1, <1>2 DEF Top
<1>4. Top.value \in Values /\ Top.ids \in Seq(Nat)
  BY <1>3 DEF Activations, Ids
<1>5. DOMAIN Top.ids = DOMAIN Operands(Top.value)
  BY <1>2 DEF IInv, Shapes, Top
<1>6. Operands(Top.value) \in Seq(Values)
  BY <1>4, BodyShape DEF IInv, Shapes
<1> QED BY <1>1, <1>2, <1>3, <1>4, <1>5, <1>6 DEF Operand

\* Replacing an element of a sequence.
LEMMA ExceptSeq ==
  ASSUME NEW S, NEW s \in Seq(S), NEW i \in DOMAIN s, NEW e \in S
  PROVE  /\ [s EXCEPT ![i] = e] \in Seq(S)
         /\ DOMAIN [s EXCEPT ![i] = e] = DOMAIN s
  OBVIOUS

\* The running activation is given the id of an operand.
LEMMA FillShape ==
  ASSUME IInv, Running, NEW i \in DOMAIN Top.ids, NEW id \in Nat,
         calls' = [calls EXCEPT ![Len(calls)].ids[i] = id]
  PROVE  /\ calls' \in Seq(Activations)
         /\ DOMAIN calls' = DOMAIN calls
         /\ \A k \in DOMAIN calls :
              /\ calls'[k].value = calls[k].value
              /\ DOMAIN calls'[k].ids = DOMAIN calls[k].ids
              /\ \A j \in DOMAIN calls[k].ids :
                   calls'[k].ids[j] = calls[k].ids[j] \/
                   (k = Len(calls) /\ j = i /\ calls'[k].ids[j] = id)
<1> DEFINE n == Len(calls)
           frame == [Top EXCEPT !.ids = [Top.ids EXCEPT ![i] = id]]
<1>1. calls' = [calls EXCEPT ![n] = frame]
  BY DEF Top
<1>2. [Top.ids EXCEPT ![i] = id] \in Seq(Nat)
  BY TopShape
<1>3. frame \in Activations /\ frame.value = Top.value /\ frame.ids = [Top.ids EXCEPT ![i] = id]
  BY <1>2, TopShape DEF Activations, Ids
<1> HIDE DEF frame
<1>4. calls' \in Seq(Activations) /\ DOMAIN calls' = DOMAIN calls
  <2>1. calls \in Seq(Activations) /\ n \in DOMAIN calls
    BY TopShape
  <2> HIDE DEF n
  <2>2. [calls EXCEPT ![n] = frame] \in Seq(Activations)
    BY <1>3, <2>1, ExceptSeq
  <2>3. DOMAIN [calls EXCEPT ![n] = frame] = DOMAIN calls
    OBVIOUS
  <2> QED BY <1>1, <2>2, <2>3
<1>5. \A k \in DOMAIN calls : calls'[k] = IF k = n THEN frame ELSE calls[k]
  BY <1>1, TopShape
<1>6. ASSUME NEW k \in DOMAIN calls
      PROVE  /\ calls'[k].value = calls[k].value
             /\ DOMAIN calls'[k].ids = DOMAIN calls[k].ids
             /\ \A j \in DOMAIN calls[k].ids :
                  calls'[k].ids[j] = calls[k].ids[j] \/
                  (k = Len(calls) /\ j = i /\ calls'[k].ids[j] = id)
  <2>1. CASE k = n
    <3>1. calls'[k] = frame /\ calls[k] = Top
      BY <1>5, <2>1 DEF Top
    <3>2. DOMAIN [Top.ids EXCEPT ![i] = id] = DOMAIN Top.ids
      OBVIOUS
    <3>3. \A j \in DOMAIN Top.ids : [Top.ids EXCEPT ![i] = id][j] = IF j = i THEN id ELSE Top.ids[j]
      OBVIOUS
    <3> QED BY <1>3, <2>1, <3>1, <3>2, <3>3
  <2>2. CASE k # n
    BY <1>5, <2>2
  <2> QED BY <2>1, <2>2
<1> QED BY <1>4, <1>6

LEMMA UseMappedInv == IInv /\ UseMapped => IInv'
<1> SUFFICES ASSUME IInv, Running,
                    NEW i \in DOMAIN Top.ids, Operand(i) \in Mapped,
                    calls' = [calls EXCEPT ![Len(calls)].ids[i] = IdOf(Operand(i))],
                    UNCHANGED <<body, turn, obj, valueMap, idMap>>
             PROVE  IInv'
  BY DEF UseMapped
<1> DEFINE id == IdOf(Operand(i))
<1>1. id \in Nat /\ calls' = [calls EXCEPT ![Len(calls)].ids[i] = id]
  BY DEF IInv, IdsBelow, MapAgrees, IdOf, Shapes
<1> HIDE DEF id
<1>2. /\ calls' \in Seq(Activations)
      /\ DOMAIN calls' = DOMAIN calls
      /\ \A k \in DOMAIN calls :
           /\ calls'[k].value = calls[k].value
           /\ DOMAIN calls'[k].ids = DOMAIN calls[k].ids
           /\ \A j \in DOMAIN calls[k].ids :
                calls'[k].ids[j] = calls[k].ids[j] \/
                (k = Len(calls) /\ j = i /\ calls'[k].ids[j] = id)
  BY <1>1, FillShape
<1>3. \A k \in DOMAIN calls' : DOMAIN calls'[k].ids = DOMAIN Operands(calls'[k].value)
  BY <1>2 DEF IInv, Shapes
<1>4. ASSUME NEW k \in DOMAIN calls', NEW j \in DOMAIN calls'[k].ids, calls'[k].ids[j] # 0
      PROVE  /\ Operands(calls'[k].value)[j] \in Mapped
             /\ calls'[k].ids[j] = IdOf(Operands(calls'[k].value)[j])
  <2>1. CASE calls'[k].ids[j] = calls[k].ids[j]
    BY <1>2, <1>4, <2>1 DEF IInv, OperandIdsAgree
  <2>2. CASE k = Len(calls) /\ j = i /\ calls'[k].ids[j] = id
    BY <1>2, <2>2 DEF Operand, Top, id
  <2> QED BY <1>2, <1>4, <2>1, <2>2
<1>5. turn' \in Nat
  BY DEF IInv, Shapes
<1> QED BY <1>2, <1>3, <1>4, <1>5, CallsOnly

LEMMA DescendInv == IInv /\ Descend => IInv'
<1> SUFFICES ASSUME IInv, Running,
                    NEW i \in DOMAIN Top.ids,
                    calls' = Append(calls, Frame(Operand(i))),
                    UNCHANGED <<body, turn, obj, valueMap, idMap>>
             PROVE  IInv'
  BY DEF Descend
<1> QED BY TopShape, PushFrame

(***************************************************************************)
(* A SPIRVValue is made for v: under a fresh id, or under the id of its    *)
(* forward.  Every other value keeps its place in the tables, and v its id *)
(* if it had one.                                                          *)
(***************************************************************************)
LEMMA Placed ==
  ASSUME IInv, body' = body,
         NEW v \in Values, NEW o \in Objects, o.value = v,
         o.id = IF v \in Mapped THEN IdOf(v) ELSE NextId,
         obj' = Append(obj, o),
         valueMap' = Put(valueMap, v, NextId),
         {o.id} \subseteq DOMAIN idMap', DOMAIN idMap \subseteq DOMAIN idMap',
         idMap'[o.id] = NextId,
         \A n \in DOMAIN idMap \ {o.id, NextId} : idMap'[n] = idMap[n]
  PROVE  /\ obj' \in Seq(Objects)' /\ NextId \in DOMAIN obj'
         /\ \A k \in DOMAIN obj' : (k \in DOMAIN obj /\ obj'[k] = obj[k]) \/ obj'[k] = o
         /\ MapAgrees' /\ IdsBelow' /\ IdTableAgrees'
         /\ \A w \in Mapped : w \in DOMAIN valueMap' /\ obj'[valueMap'[w]].id = IdOf(w)
         /\ v \in DOMAIN valueMap' /\ obj'[valueMap'[v]].id = o.id
<1>1. /\ obj' \in Seq(Objects)'
      /\ NextId = Len(obj) + 1 /\ Len(obj) \in Nat
      /\ Len(obj') = NextId
      /\ DOMAIN obj = 1 .. Len(obj) /\ DOMAIN obj' = 1 .. NextId
      /\ \A k \in DOMAIN obj : obj'[k] = obj[k]
      /\ obj'[NextId] = o
  BY NewObject DEF IInv, Shapes, Values
<1>2. /\ DOMAIN valueMap' = Mapped \cup {v} /\ valueMap'[v] = NextId
      /\ \A w \in Mapped : w # v => valueMap'[w] = valueMap[w]
  BY DEF Put, Mapped
<1>3. \A k \in DOMAIN obj' : (k \in DOMAIN obj /\ obj'[k] = obj[k]) \/ obj'[k] = o
  BY <1>1
<1>4. \A w \in Mapped : valueMap[w] \in DOMAIN obj /\ obj[valueMap[w]].value = w
                        /\ IdOf(w) \in 1 .. Len(obj)
                        /\ IdOf(w) \in DOMAIN idMap /\ idMap[IdOf(w)] = valueMap[w]
  BY DEF IInv, MapAgrees, IdsBelow, IdTableAgrees, IdOf
<1>5. o.id \in 1 .. NextId
  BY <1>1, <1>4
<1>6. \A w \in Mapped : w # v =>
        /\ obj'[valueMap'[w]] = obj[valueMap[w]]
        /\ IdOf(w) # NextId /\ IdOf(w) # o.id
        /\ idMap'[IdOf(w)] = valueMap[w]
  <2> SUFFICES ASSUME NEW w \in Mapped, w # v
               PROVE  /\ obj'[valueMap'[w]] = obj[valueMap[w]]
                      /\ IdOf(w) # NextId /\ IdOf(w) # o.id
                      /\ idMap'[IdOf(w)] = valueMap[w]
    OBVIOUS
  <2>1. obj'[valueMap'[w]] = obj[valueMap[w]]
    BY <1>1, <1>2, <1>4
  <2>2. IdOf(w) # NextId
    BY <1>1, <1>4
  <2>3. IdOf(w) # o.id
    <3>1. CASE v \in Mapped
      <4>1. valueMap[w] # valueMap[v]
        BY <1>4, <3>1
      <4> QED BY <1>4, <3>1, <4>1
    <3>2. CASE v \notin Mapped
      BY <2>2, <3>2
    <3> QED BY <3>1, <3>2
  <2> QED BY <1>4, <2>1, <2>2, <2>3
<1>7. \A w \in Mapped : w \in DOMAIN valueMap' /\ obj'[valueMap'[w]].id = IdOf(w)
  <2>1. \A w \in Mapped : w # v => obj'[valueMap'[w]].id = IdOf(w)
    BY <1>6 DEF IdOf
  <2>2. v \in Mapped => obj'[valueMap'[v]].id = IdOf(v)
    BY <1>1, <1>2
  <2> QED BY <1>2, <2>1, <2>2
<1>8. MapAgrees'
  <2>1. Mapped' = Mapped \cup {v} /\ Values' = Values
    BY <1>2 DEF Mapped, Values
  <2>2. \A w \in Mapped' : valueMap'[w] \in DOMAIN obj' /\ obj'[valueMap'[w]].value = w
    BY <1>1, <1>2, <1>4, <1>6, <2>1
  <2> QED BY <2>1, <2>2 DEF MapAgrees, IInv
<1>9. IdsBelow'
  BY <1>1, <1>3, <1>5 DEF IInv, IdsBelow
<1>10. IdTableAgrees'
  <2> SUFFICES ASSUME NEW w \in Mapped'
               PROVE  /\ obj'[valueMap'[w]].id \in DOMAIN idMap'
                      /\ idMap'[obj'[valueMap'[w]].id] = valueMap'[w]
    BY DEF IdTableAgrees, IdOf
  <2>1. w \in Mapped \/ w = v
    BY <1>2 DEF Mapped
  <2>2. CASE w = v
    BY <1>1, <1>2, <2>2
  <2>3. CASE w # v
    <3>1. w \in Mapped
      BY <2>1, <2>3
    <3>2. obj'[valueMap'[w]].id = IdOf(w)
      BY <1>7, <3>1
    <3> QED BY <1>2, <1>4, <1>6, <2>3, <3>1, <3>2
  <2> QED BY <2>2, <2>3
<1>11. NextId \in DOMAIN obj' /\ v \in DOMAIN valueMap' /\ obj'[valueMap'[v]].id = o.id
  BY <1>1, <1>2
<1> QED BY <1>1, <1>3, <1>7, <1>8, <1>9, <1>10, <1>11

LEMMA CreateForwardInv == IInv /\ CreateForward => IInv'
<1> SUFFICES ASSUME IInv, Running, NEW i \in DOMAIN Top.ids, Operand(i) \notin Mapped,
                    obj' = Append(obj, [value |-> Operand(i), forward |-> TRUE,
                                        id |-> NextId, ids |-> << >>]),
                    idMap' = Put(idMap, NextId, NextId),
                    valueMap' = Put(valueMap, Operand(i), NextId),
                    calls' = [calls EXCEPT ![Len(calls)].ids[i] = NextId],
                    UNCHANGED <<body, turn>>
             PROVE  IInv'
  BY DEF CreateForward
<1> DEFINE v  == Operand(i)
           o  == [value |-> v, forward |-> TRUE, id |-> NextId, ids |-> << >>]
           id == NextId
<1>1. v \in Values /\ Values' = Values
  BY TopShape DEF Values
<1>2. id \in Nat /\ calls' = [calls EXCEPT ![Len(calls)].ids[i] = id]
  BY DEF NextId, IInv, Shapes
<1>3. o \in Objects /\ o.value = v /\ o.id = NextId /\ o.ids = << >>
  BY <1>1, <1>2 DEF Objects, Ids
<1>4. /\ DOMAIN idMap' = DOMAIN idMap \cup {NextId} /\ idMap'[NextId] = NextId
      /\ \A n \in DOMAIN idMap \ {NextId} : idMap'[n] = idMap[n]
  BY DEF Put
<1>5. obj' = Append(obj, o) /\ valueMap' = Put(valueMap, v, NextId)
  OBVIOUS
<1>6. v \notin Mapped
  OBVIOUS
<1> HIDE DEF o, v
<1>7. /\ obj' \in Seq(Objects)' /\ NextId \in DOMAIN obj'
      /\ \A k \in DOMAIN obj' : (k \in DOMAIN obj /\ obj'[k] = obj[k]) \/ obj'[k] = o
      /\ MapAgrees' /\ IdsBelow' /\ IdTableAgrees'
      /\ \A w \in Mapped : w \in DOMAIN valueMap' /\ obj'[valueMap'[w]].id = IdOf(w)
      /\ v \in DOMAIN valueMap' /\ obj'[valueMap'[v]].id = o.id
  BY <1>1, <1>3, <1>4, <1>5, <1>6, Placed
<1> HIDE DEF id
<1>8. /\ calls' \in Seq(Activations)
      /\ DOMAIN calls' = DOMAIN calls
      /\ \A k \in DOMAIN calls :
           /\ calls'[k].value = calls[k].value
           /\ DOMAIN calls'[k].ids = DOMAIN calls[k].ids
           /\ \A j \in DOMAIN calls[k].ids :
                calls'[k].ids[j] = calls[k].ids[j] \/
                (k = Len(calls) /\ j = i /\ calls'[k].ids[j] = id)
  BY <1>2, FillShape
<1>9. Shapes'
  <2>1. \A k \in DOMAIN calls' : DOMAIN calls'[k].ids = DOMAIN Operands(calls'[k].value)
    BY <1>8 DEF IInv, Shapes
  <2> QED BY <1>7, <1>8, <2>1 DEF IInv, Shapes, Activations, Values, Operands
<1>10. OperandIdsAgree'
  <2>1. DOMAIN o.ids = {}
    BY <1>3
  <2>2. body.operands[Top.value][i] = v /\ Top = calls[Len(calls)]
    BY DEF v, Operand, Top, Operands
  <2>3. v \in DOMAIN valueMap' /\ obj'[valueMap'[v]].id = id
    BY <1>3, <1>7 DEF id
  <2>4. ASSUME NEW k \in DOMAIN calls'
        PROVE  /\ k \in DOMAIN calls /\ calls'[k].value = calls[k].value
               /\ DOMAIN calls'[k].ids = DOMAIN calls[k].ids
               /\ \A j \in DOMAIN calls'[k].ids :
                    \/ calls'[k].ids[j] = calls[k].ids[j]
                    \/ LET w == body.operands[calls[k].value][j]
                       IN w \in DOMAIN valueMap' /\ calls'[k].ids[j] = obj'[valueMap'[w]].id
    <3>1. /\ k \in DOMAIN calls /\ calls'[k].value = calls[k].value
          /\ DOMAIN calls'[k].ids = DOMAIN calls[k].ids
      BY <1>8
    <3>2. ASSUME NEW j \in DOMAIN calls'[k].ids, calls'[k].ids[j] # calls[k].ids[j]
          PROVE  LET w == body.operands[calls[k].value][j]
                 IN w \in DOMAIN valueMap' /\ calls'[k].ids[j] = obj'[valueMap'[w]].id
      <4>1. k = Len(calls) /\ j = i /\ calls'[k].ids[j] = id
        BY <1>8, <3>1, <3>2
      <4>2. body.operands[calls[k].value][j] = v
        BY <2>2, <4>1
      <4> QED BY <2>3, <4>1, <4>2
    <3> QED BY <3>1, <3>2
  <2>5. \A k \in DOMAIN obj' :
          \/ k \in DOMAIN obj /\ obj'[k] = obj[k]
          \/ \A j \in DOMAIN obj'[k].ids :
               LET w == body.operands[obj'[k].value][j]
               IN w \in DOMAIN valueMap' /\ obj'[k].ids[j] = obj'[valueMap'[w]].id
    BY <1>7, <2>1
  <2> QED BY <1>7, <2>4, <2>5, IdsStay DEF IInv
<1> QED BY <1>7, <1>9, <1>10 DEF IInv

LEMMA CompleteInv == IInv /\ Complete => IInv'
<1> SUFFICES ASSUME IInv, Running, \A i \in DOMAIN Top.ids : Top.ids[i] # 0,
                    obj' = Append(obj, [value |-> Top.value, forward |-> FALSE,
                                        id |-> FinalId(Top.value), ids |-> Top.ids]),
                    idMap' = IdMapWith(Top.value),
                    valueMap' = Put(valueMap, Top.value, NextId),
                    calls' = Front(calls),
                    UNCHANGED <<body, turn>>
             PROVE  IInv'
  BY DEF Complete
<1> DEFINE v == Top.value
           o == [value |-> v, forward |-> FALSE, id |-> FinalId(v), ids |-> Top.ids]
<1>1. v \in Values /\ Values' = Values
  BY TopShape DEF Values
<1>2. FinalId(v) \in Nat
  BY DEF FinalId, NextId, IdOf, IInv, Shapes, MapAgrees, IdsBelow
<1>3. o \in Objects /\ o.value = v /\ o.ids = Top.ids
      /\ o.id = IF v \in Mapped THEN IdOf(v) ELSE NextId
  BY <1>1, <1>2, TopShape DEF Objects, Ids, FinalId
<1>4. /\ DOMAIN idMap' = DOMAIN idMap \cup {o.id, NextId} /\ idMap'[o.id] = NextId
      /\ \A n \in DOMAIN idMap \ {o.id, NextId} : idMap'[n] = idMap[n]
  BY DEF IdMapWith, Put
<1>5. obj' = Append(obj, o) /\ valueMap' = Put(valueMap, v, NextId)
  OBVIOUS
<1> HIDE DEF o, v
<1>6. /\ obj' \in Seq(Objects)' /\ NextId \in DOMAIN obj'
      /\ \A k \in DOMAIN obj' : (k \in DOMAIN obj /\ obj'[k] = obj[k]) \/ obj'[k] = o
      /\ MapAgrees' /\ IdsBelow' /\ IdTableAgrees'
      /\ \A w \in Mapped : w \in DOMAIN valueMap' /\ obj'[valueMap'[w]].id = IdOf(w)
  BY <1>1, <1>3, <1>4, <1>5, Placed
<1>7. /\ calls' \in Seq(Activations) /\ DOMAIN calls' \subseteq DOMAIN calls
      /\ \A k \in DOMAIN calls' : calls'[k] = calls[k]
  <2>1. calls \in Seq(Activations) /\ Len(calls) \in Nat \ {0}
    BY TopShape
  <2> QED BY <2>1 DEF Front
<1>8. Shapes'
  <2>1. \A k \in DOMAIN calls' : DOMAIN calls'[k].ids = DOMAIN Operands(calls'[k].value)
    BY <1>7 DEF IInv, Shapes
  <2> QED BY <1>6, <1>7, <2>1 DEF IInv, Shapes, Activations, Values, Operands
<1>9. OperandIdsAgree'
  <2>1. Len(calls) \in DOMAIN calls /\ Top = calls[Len(calls)]
    BY TopShape DEF Top
  <2>2. \A j \in DOMAIN o.ids :
          LET w == body.operands[o.value][j]
          IN w \in Mapped /\ o.ids[j] = IdOf(w)
    BY <1>3, <2>1 DEF IInv, OperandIdsAgree, Operands, v
  <2>3. \A j \in DOMAIN o.ids :
          LET w == body.operands[o.value][j]
          IN w \in DOMAIN valueMap' /\ o.ids[j] = obj'[valueMap'[w]].id
    BY <1>6, <2>2
  <2> QED BY <1>6, <1>7, <2>3, IdsStay DEF IInv
<1> QED BY <1>6, <1>8, <1>9 DEF IInv

LEMMA NextInv == IInv /\ [Next]_vars => IInv'
<1> SUFFICES ASSUME IInv, [Next]_vars PROVE IInv'
  OBVIOUS
<1>1. CASE UNCHANGED <<body, turn, calls, obj, valueMap, idMap>>
  BY <1>1, CallsOnly DEF IInv, Shapes, OperandIdsAgree
<1>2. CASE Next
  <2>1. Recurse \/ Finish => UNCHANGED <<body, turn, calls, obj, valueMap, idMap>>
    BY DEF Recurse, Finish
  <2> QED BY <1>1, <1>2, <2>1, TakeTurnInv, UseMappedInv, CreateForwardInv, DescendInv,
             CompleteInv DEF Next
<1> QED BY <1>1, <1>2 DEF vars

\* mapValue() and replaceForward() keep the tables in step, in every state.
THEOREM Invariance == Spec => []IInv
BY InitInv, NextInv, PTL DEF Spec

(***************************************************************************)
(* For every program: the id table leads from the id of every value that   *)
(* has been translated, or has a forward, to the SPIRVValue that ValueMap  *)
(* has for it.  This is what mapValue() and replaceForward() keep up.      *)
(***************************************************************************)
THEOREM IdTableAgreesHolds == Spec => []IdTableAgrees
<1>1. IInv => IdTableAgrees
  BY DEF IInv
<1> QED BY <1>1, Invariance, PTL

(***************************************************************************)
(* For every program: no instruction is ever left with the id of a forward *)
(* that has been replaced under another id, whichever of two instructions  *)
(* that use each other is translated first.                                *)
(***************************************************************************)
THEOREM OperandIdsAgreeHolds == Spec => []OperandIdsAgree
<1>1. IInv => OperandIdsAgree
  BY DEF IInv
<1> QED BY <1>1, Invariance, PTL

(***************************************************************************)
(* What is made of a value, and when.  One SPIRVValue per value: an object *)
(* that is no forward is the one ValueMap has; an activation only works on *)
(* a value that has nothing but a forward; no two activations work on the  *)
(* same value.  No forward is left: forwards are made for instructions     *)
(* only, every instruction has a turn, and a turn is over when its value   *)
(* is translated.                                                          *)
(***************************************************************************)
Real(v) == v \in Mapped /\ ~obj[valueMap[v]].forward

ObjectsMapped   == \A k \in DOMAIN obj : obj[k].value \in Mapped
RealMapped      == \A k \in DOMAIN obj : ~obj[k].forward => valueMap[obj[k].value] = k
ForwardsOnce    == \A j, k \in DOMAIN obj :
                     obj[j].forward /\ obj[k].forward /\ obj[j].value = obj[k].value => j = k
ForwardsOfInsts == \A k \in DOMAIN obj : obj[k].forward => IsInst(obj[k].value)
StackPending    == \A k \in DOMAIN calls : ~Real(calls[k].value)
StackDistinct   == \A j, k \in DOMAIN calls : calls[j].value = calls[k].value => j = k
TurnsTaken      ==
  /\ turn \in 0 .. Len(body.turns)
  /\ \A t \in 1 .. turn : Real(body.turns[t])
  /\ Translated => turn = Len(body.turns)
MadeOnce ==
  ObjectsMapped /\ RealMapped /\ ForwardsOnce /\ ForwardsOfInsts /\ StackPending /\ StackDistinct

(***************************************************************************)
(* Where names and decorations go, at any time of the translation.         *)
(***************************************************************************)
NamesLand == named = {IdOf(v) : v \in Mapped \cap body.named}
LateLand  == \A v \in Mapped : "late" \in body.deco[v] => <<IdOf(v), "late">> \in decorate
EarlyLand == \A v \in Mapped :
               "early" \in body.deco[v] /\ ~Forwarded(v) => <<IdOf(v), "early">> \in decorate
OnlyThose == \A p \in decorate :
               \/ p \in Wanted
               \/ p[2] = "early" /\ p[1] \in DOMAIN obj /\ obj[p[1]].id # p[1]
Annotated == NamesLand /\ LateLand /\ EarlyLand /\ OnlyThose

\* The object o is made, the SPIRVValue of v from now on.
Adds(v, o) ==
  /\ NextId \notin DOMAIN obj /\ DOMAIN obj' = DOMAIN obj \cup {NextId}
  /\ \A k \in DOMAIN obj : obj'[k] = obj[k]
  /\ obj'[NextId] = o /\ o.value = v
  /\ DOMAIN valueMap' = Mapped \cup {v} /\ valueMap'[v] = NextId
  /\ \A w \in Mapped \ {v} : valueMap'[w] = valueMap[w]
  /\ \A w \in Mapped : valueMap[w] \in DOMAIN obj /\ obj[valueMap[w]].value = w
  /\ body' = body

LEMMA Adding ==
  ASSUME IInv, body' = body, NEW v \in Values, NEW o \in Objects, o.value = v,
         obj' = Append(obj, o), valueMap' = Put(valueMap, v, NextId)
  PROVE  Adds(v, o)
<1>1. /\ NextId = Len(obj) + 1 /\ Len(obj) \in Nat
      /\ DOMAIN obj = 1 .. Len(obj) /\ DOMAIN obj' = 1 .. NextId
      /\ \A k \in DOMAIN obj : obj'[k] = obj[k]
      /\ obj'[NextId] = o
  BY NewObject DEF IInv, Shapes, Values
<1>2. /\ DOMAIN valueMap' = Mapped \cup {v} /\ valueMap'[v] = NextId
      /\ \A w \in Mapped \ {v} : valueMap'[w] = valueMap[w]
  BY DEF Put, Mapped
<1>3. \A w \in Mapped : valueMap[w] \in DOMAIN obj /\ obj[valueMap[w]].value = w
  BY DEF IInv, MapAgrees
<1>4. NextId \notin DOMAIN obj /\ DOMAIN obj' = DOMAIN obj \cup {NextId}
  BY <1>1
<1> QED BY <1>1, <1>2, <1>3, <1>4 DEF Adds

\* The two actions that make an object, reduced to what they add.
LEMMA CreateForwardAdds ==
  ASSUME IInv, CreateForward
  PROVE  \E v \in Values \ Mapped : \E o :
           /\ Adds(v, o) /\ o.forward = TRUE /\ o.id = NextId /\ IsInst(v)
           /\ named' = IF v \in body.named THEN named \cup {NextId} ELSE named
           /\ decorate' = decorate \cup ({NextId} \X (body.deco[v] \cap {"late"}))
           /\ DOMAIN calls' = DOMAIN calls
           /\ \A k \in DOMAIN calls : calls'[k].value = calls[k].value
           /\ UNCHANGED <<body, turn, status>>
<1>1. PICK i \in DOMAIN Top.ids :
        /\ Running
        /\ Operand(i) \notin Mapped
        /\ IsInst(Operand(i))
        /\ obj' = Append(obj, [value |-> Operand(i), forward |-> TRUE, id |-> NextId, ids |-> << >>])
        /\ valueMap' = Put(valueMap, Operand(i), NextId)
        /\ named' = IF Operand(i) \in body.named THEN named \cup {NextId} ELSE named
        /\ decorate' = decorate \cup ({NextId} \X (body.deco[Operand(i)] \cap {"late"}))
        /\ calls' = [calls EXCEPT ![Len(calls)].ids[i] = NextId]
        /\ UNCHANGED <<body, turn, status>>
  BY DEF CreateForward
<1>2. PICK v : v = Operand(i)
  OBVIOUS
<1>3. PICK o : o = [value |-> v, forward |-> TRUE, id |-> NextId, ids |-> << >>]
  OBVIOUS
<1>4. v \in Values
  BY <1>1, <1>2, TopShape
<1>5. NextId \in Nat
  BY DEF NextId, IInv, Shapes
<1>6. o \in Objects /\ o.value = v /\ o.forward = TRUE /\ o.id = NextId
  BY <1>3, <1>4, <1>5 DEF Objects, Ids
<1>7. Adds(v, o)
  BY <1>1, <1>2, <1>3, <1>4, <1>6, Adding
<1>8. DOMAIN calls' = DOMAIN calls /\ \A k \in DOMAIN calls : calls'[k].value = calls[k].value
  BY <1>1, <1>5, FillShape
<1> QED BY <1>1, <1>2, <1>4, <1>6, <1>7, <1>8

LEMMA CompleteAdds ==
  ASSUME IInv, Complete
  PROVE  \E n \in DOMAIN calls : \E v \in Values : \E o :
           /\ v = calls[n].value
           /\ Adds(v, o) /\ o.forward = FALSE /\ o.id = FinalId(v)
           /\ named' = IF v \in body.named THEN named \cup {AnnotatedId(v)} ELSE named
           /\ decorate' = decorate \cup ({NextId} \X (body.deco[v] \cap {"early"}))
                                   \cup ({AnnotatedId(v)} \X (body.deco[v] \cap {"late"}))
           /\ DOMAIN calls' = DOMAIN calls \ {n}
           /\ \A k \in DOMAIN calls' : calls'[k] = calls[k]
           /\ UNCHANGED <<body, turn, status>>
<1>1. PICK v : v = Top.value
  OBVIOUS
<1>2. PICK o : o = [value |-> v, forward |-> FALSE, id |-> FinalId(v), ids |-> Top.ids]
  OBVIOUS
<1>3. PICK n : n = Len(calls)
  OBVIOUS
<1>4. /\ Running
      /\ obj' = Append(obj, o)
      /\ valueMap' = Put(valueMap, v, NextId)
      /\ named' = IF v \in body.named THEN named \cup {AnnotatedId(v)} ELSE named
      /\ decorate' = decorate \cup ({NextId} \X (body.deco[v] \cap {"early"}))
                              \cup ({AnnotatedId(v)} \X (body.deco[v] \cap {"late"}))
      /\ calls' = Front(calls)
      /\ UNCHANGED <<body, turn, status>>
  BY <1>1, <1>2 DEF Complete
<1>5. /\ n \in DOMAIN calls /\ v = calls[n].value /\ v \in Values
      /\ calls \in Seq(Activations) /\ Len(calls) \in Nat \ {0} /\ DOMAIN calls = 1 .. Len(calls)
      /\ Top.ids \in Seq(Nat)
  BY <1>1, <1>3, <1>4, TopShape DEF Top
<1>6. FinalId(v) \in Nat
  BY DEF FinalId, NextId, IdOf, IInv, Shapes, MapAgrees, IdsBelow
<1>7. o \in Objects /\ o.value = v /\ o.forward = FALSE /\ o.id = FinalId(v)
  BY <1>2, <1>5, <1>6 DEF Objects, Ids
<1>8. Adds(v, o)
  BY <1>4, <1>5, <1>7, Adding
<1>9. DOMAIN calls' = DOMAIN calls \ {n} /\ \A k \in DOMAIN calls' : calls'[k] = calls[k]
  BY <1>3, <1>4, <1>5 DEF Front
<1> QED BY <1>4, <1>5, <1>7, <1>8, <1>9

\* What a new object of v leaves of the facts about the others.
LEMMA AddsKeeps ==
  ASSUME NEW v, NEW o, Adds(v, o), ObjectsMapped, RealMapped, ForwardsOfInsts,
         o.forward \in BOOLEAN, o.forward => IsInst(v), ~Real(v)
  PROVE  /\ ObjectsMapped' /\ RealMapped' /\ ForwardsOfInsts'
         /\ \A w : Real(w) => Real(w)'
         /\ \A w : w # v /\ ~Real(w) => ~Real(w)'
<1>1. ObjectsMapped'
  BY DEF Adds, ObjectsMapped, Mapped
<1>2. ASSUME NEW k \in DOMAIN obj', ~obj'[k].forward
      PROVE  valueMap'[obj'[k].value] = k
  <2>1. CASE k = NextId
    BY <2>1 DEF Adds
  <2>2. CASE k # NextId
    <3>1. k \in DOMAIN obj /\ obj'[k] = obj[k]
      BY <2>2 DEF Adds
    <3>2. valueMap[obj[k].value] = k /\ obj[k].value \in Mapped
      BY <1>2, <3>1 DEF RealMapped, ObjectsMapped
    <3>3. obj[k].value # v
      BY <1>2, <3>1, <3>2 DEF Real
    <3> QED BY <3>1, <3>2, <3>3 DEF Adds
  <2> QED BY <2>1, <2>2
<1>3. ForwardsOfInsts'
  BY DEF Adds, ForwardsOfInsts, IsInst
<1>4. \A w : Real(w) => Real(w)'
  BY DEF Adds, Real, Mapped
<1>5. \A w : w # v /\ ~Real(w) => ~Real(w)'
  BY DEF Adds, Real, Mapped
<1> QED BY <1>1, <1>2, <1>3, <1>4, <1>5 DEF RealMapped

LEMMA CreateForwardOnce == IInv /\ MadeOnce /\ TurnsTaken /\ CreateForward => (MadeOnce /\ TurnsTaken)'
<1> SUFFICES ASSUME IInv, MadeOnce, TurnsTaken, CreateForward
             PROVE  (MadeOnce /\ TurnsTaken)'
  OBVIOUS
<1>1. PICK v \in Values \ Mapped : \E o :
        /\ Adds(v, o) /\ o.forward = TRUE /\ IsInst(v)
        /\ DOMAIN calls' = DOMAIN calls
        /\ \A k \in DOMAIN calls : calls'[k].value = calls[k].value
        /\ UNCHANGED <<body, turn, status>>
  BY CreateForwardAdds
<1>2. PICK o : Adds(v, o) /\ o.forward = TRUE /\ IsInst(v)
  BY <1>1
<1>3. ~Real(v)
  BY DEF Real
<1>4. /\ ObjectsMapped' /\ RealMapped' /\ ForwardsOfInsts'
      /\ \A w : Real(w) => Real(w)'
      /\ \A w : w # v /\ ~Real(w) => ~Real(w)'
  BY <1>2, <1>3, AddsKeeps DEF MadeOnce
<1>5. ForwardsOnce'
  <2>1. \A k \in DOMAIN obj : obj[k].value # v
    BY DEF MadeOnce, ObjectsMapped
  <2> QED BY <1>2, <2>1 DEF Adds, MadeOnce, ForwardsOnce
<1>6. ~Real(v)'
  BY <1>2 DEF Adds, Real
<1>7. StackPending' /\ StackDistinct'
  BY <1>1, <1>4, <1>6 DEF MadeOnce, StackPending, StackDistinct
<1>8. TurnsTaken'
  BY <1>1, <1>4 DEF TurnsTaken, Translated
<1> QED BY <1>4, <1>5, <1>7, <1>8 DEF MadeOnce

LEMMA CompleteOnce == IInv /\ MadeOnce /\ TurnsTaken /\ Complete => (MadeOnce /\ TurnsTaken)'
<1> SUFFICES ASSUME IInv, MadeOnce, TurnsTaken, Complete
             PROVE  (MadeOnce /\ TurnsTaken)'
  OBVIOUS
<1>1. PICK n \in DOMAIN calls : \E v \in Values : \E o :
        /\ v = calls[n].value
        /\ Adds(v, o) /\ o.forward = FALSE
        /\ DOMAIN calls' = DOMAIN calls \ {n}
        /\ \A k \in DOMAIN calls' : calls'[k] = calls[k]
        /\ UNCHANGED <<body, turn, status>>
  BY CompleteAdds
<1>2. PICK v \in Values : v = calls[n].value /\ \E o : Adds(v, o) /\ o.forward = FALSE
  BY <1>1
<1>3. PICK o : Adds(v, o) /\ o.forward = FALSE
  BY <1>2
<1>4. ~Real(v)
  BY <1>2 DEF MadeOnce, StackPending
<1>5. /\ ObjectsMapped' /\ RealMapped' /\ ForwardsOfInsts'
      /\ \A w : Real(w) => Real(w)'
      /\ \A w : w # v /\ ~Real(w) => ~Real(w)'
  BY <1>3, <1>4, AddsKeeps DEF MadeOnce
<1>6. ForwardsOnce'
  BY <1>3 DEF Adds, MadeOnce, ForwardsOnce
<1>7. StackPending' /\ StackDistinct'
  <2>1. \A k \in DOMAIN calls' : k \in DOMAIN calls /\ calls'[k] = calls[k] /\ calls[k].value # v
    BY <1>1, <1>2 DEF MadeOnce, StackDistinct
  <2> QED BY <1>5, <2>1 DEF MadeOnce, StackPending, StackDistinct
<1>8. TurnsTaken'
  BY <1>1, <1>5 DEF TurnsTaken, Translated
<1> QED BY <1>5, <1>6, <1>7, <1>8 DEF MadeOnce

\* An activation that starts works on a value of its own, which is not translated.
LEMMA PushOnce ==
  ASSUME IInv, MadeOnce, NEW v, v \notin OnStack, ~Real(v),
         UNCHANGED <<body, obj, valueMap>>, calls' = Append(calls, Frame(v))
  PROVE  MadeOnce'
<1>1. calls \in Seq(Activations)
  BY DEF IInv, Shapes
<1>2. /\ Len(calls) \in Nat /\ DOMAIN calls = 1 .. Len(calls) /\ DOMAIN calls' = 1 .. (Len(calls) + 1)
      /\ \A k \in DOMAIN calls : calls'[k] = calls[k]
      /\ calls'[Len(calls) + 1] = Frame(v)
  BY <1>1
<1>3. Frame(v).value = v
  BY DEF Frame
<1>4. \A k \in DOMAIN calls' :
        \/ k \in DOMAIN calls /\ calls'[k].value = calls[k].value /\ calls[k].value # v
        \/ k = Len(calls) + 1 /\ calls'[k].value = v
  BY <1>2, <1>3 DEF OnStack
<1>5. StackDistinct'
  BY <1>4 DEF MadeOnce, StackDistinct
<1>6. \A w : Real(w)' = Real(w)
  BY DEF Real, Mapped
<1>7. StackPending'
  BY <1>4, <1>6 DEF MadeOnce, StackPending
<1>8. ObjectsMapped' /\ RealMapped' /\ ForwardsOnce' /\ ForwardsOfInsts'
  BY DEF MadeOnce, ObjectsMapped, RealMapped, ForwardsOnce, ForwardsOfInsts, Mapped, IsInst
<1> QED BY <1>5, <1>7, <1>8 DEF MadeOnce

\* The activations go on with the same values, nothing is made.
LEMMA SameOnce ==
  ASSUME MadeOnce, UNCHANGED <<body, obj, valueMap>>, DOMAIN calls' = DOMAIN calls,
         \A k \in DOMAIN calls : calls'[k].value = calls[k].value
  PROVE  MadeOnce'
<1>1. \A w : Real(w)' = Real(w)
  BY DEF Real, Mapped
<1>2. StackPending' /\ StackDistinct'
  BY <1>1 DEF MadeOnce, StackPending, StackDistinct
<1>3. ObjectsMapped' /\ RealMapped' /\ ForwardsOnce' /\ ForwardsOfInsts'
  BY DEF MadeOnce, ObjectsMapped, RealMapped, ForwardsOnce, ForwardsOfInsts, Mapped, IsInst
<1> QED BY <1>2, <1>3 DEF MadeOnce

LEMMA InitOnce == Init => MadeOnce /\ TurnsTaken
<1> SUFFICES ASSUME Init PROVE MadeOnce /\ TurnsTaken
  OBVIOUS
<1>1. DOMAIN obj = {} /\ DOMAIN calls = {}
  BY DEF Init
<1>2. Len(body.turns) \in Nat
  BY InitInv DEF IInv, Shapes, IsBody
<1> QED BY <1>1, <1>2 DEF Init, MadeOnce, ObjectsMapped, RealMapped, ForwardsOnce,
           ForwardsOfInsts, StackPending, StackDistinct, TurnsTaken, Translated

LEMMA NextOnce == IInv /\ MadeOnce /\ TurnsTaken /\ [Next]_vars => (MadeOnce /\ TurnsTaken)'
<1> SUFFICES ASSUME IInv, MadeOnce, TurnsTaken, [Next]_vars
             PROVE  (MadeOnce /\ TurnsTaken)'
  OBVIOUS
<1>1. CASE TakeTurn
  <2>1. PICK v : v = body.turns[turn + 1]
    OBVIOUS
  <2>2. /\ turn < Len(body.turns) /\ calls = << >> /\ UNCHANGED <<body, obj, valueMap, status>>
        /\ IF Real(v) THEN turn' = turn + 1 /\ UNCHANGED calls
                      ELSE calls' = << Frame(v) >> /\ UNCHANGED turn
        /\ status = "translating"
    BY <1>1, <2>1 DEF TakeTurn, Real
  <2>3. \A w : Real(w)' = Real(w)
    BY <2>2 DEF Real, Mapped
  <2>4. Len(body.turns) \in Nat
    BY DEF IInv, Shapes, IsBody
  <2>5. CASE Real(v)
    <3>1. MadeOnce'
      BY <2>2, <2>5, SameOnce
    <3>2. TurnsTaken'
      BY <2>1, <2>2, <2>3, <2>4, <2>5 DEF TurnsTaken, Translated
    <3> QED BY <3>1, <3>2
  <2>6. CASE ~Real(v)
    <3>1. v \notin OnStack /\ calls' = Append(calls, Frame(v))
      BY <2>2, <2>6 DEF OnStack
    <3>2. MadeOnce'
      BY <2>2, <2>6, <3>1, PushOnce
    <3>3. TurnsTaken'
      BY <2>2, <2>3, <2>6 DEF TurnsTaken, Translated
    <3> QED BY <3>2, <3>3
  <2> QED BY <2>5, <2>6
<1>2. CASE UseMapped
  <2>1. PICK i \in DOMAIN Top.ids :
          /\ Running /\ Operand(i) \in Mapped
          /\ calls' = [calls EXCEPT ![Len(calls)].ids[i] = IdOf(Operand(i))]
    BY <1>2 DEF UseMapped
  <2>2. UNCHANGED <<body, turn, obj, valueMap, status>>
    BY <1>2 DEF UseMapped
  <2>3. IdOf(Operand(i)) \in Nat
    BY <2>1 DEF IInv, IdsBelow, MapAgrees, IdOf, Shapes
  <2>4. DOMAIN calls' = DOMAIN calls /\ \A k \in DOMAIN calls : calls'[k].value = calls[k].value
    BY <2>1, <2>3, FillShape
  <2>5. MadeOnce'
    BY <2>2, <2>4, SameOnce
  <2>6. TurnsTaken'
    BY <2>2 DEF TurnsTaken, Translated, Real, Mapped
  <2> QED BY <2>5, <2>6
<1>3. CASE CreateForward
  BY <1>3, CreateForwardOnce
<1>4. CASE Descend
  <2>1. PICK i \in DOMAIN Top.ids :
          /\ Operand(i) \notin Mapped /\ Operand(i) \notin OnStack
          /\ calls' = Append(calls, Frame(Operand(i)))
    BY <1>4 DEF Descend
  <2>2. UNCHANGED <<body, turn, obj, valueMap, status>>
    BY <1>4 DEF Descend
  <2>3. MadeOnce'
    BY <2>1, <2>2, PushOnce DEF Real
  <2>4. TurnsTaken'
    BY <2>2 DEF TurnsTaken, Translated, Real, Mapped
  <2> QED BY <2>3, <2>4
<1>5. CASE Complete
  BY <1>5, CompleteOnce
<1>6. CASE Recurse \/ Finish \/ UNCHANGED vars
  <2>1. UNCHANGED <<body, turn, calls, obj, valueMap>>
        /\ (status' = status \/ status' = "endless" \/ turn = Len(body.turns))
    BY <1>6 DEF Recurse, Finish, vars
  <2>2. MadeOnce'
    BY <2>1, SameOnce
  <2>3. TurnsTaken'
    BY <2>1 DEF TurnsTaken, Translated, Real, Mapped
  <2> QED BY <2>2, <2>3
<1> QED BY <1>1, <1>2, <1>3, <1>4, <1>5, <1>6 DEF Next

\* transValue() makes each value once, and the loop over the program forgets none.
THEOREM OnceInvariance == Spec => [](IInv /\ MadeOnce /\ TurnsTaken)
BY InitInv, InitOnce, NextInv, NextOnce, PTL DEF Spec

(***************************************************************************)
(* For every program: transValue() makes one SPIRVValue of a value, and at *)
(* most one forward before it, however many users ask for it.              *)
(***************************************************************************)
THEOREM TranslatedOnceHolds == Spec => []TranslatedOnce
<1>1. IInv /\ MadeOnce => TranslatedOnce
  <2> SUFFICES ASSUME IInv, MadeOnce, NEW j \in DOMAIN obj, NEW k \in DOMAIN obj,
                      obj[j].value = obj[k].value, obj[j].forward = obj[k].forward
               PROVE  j = k
    BY DEF TranslatedOnce
  <2>1. obj[j].forward \in BOOLEAN
    <3>1. obj \in Seq(Objects)
      BY DEF IInv, Shapes
    <3>2. obj[j] \in Objects
      BY <3>1
    <3> QED BY <3>2 DEF Objects
  <2>2. CASE obj[j].forward
    BY <2>2 DEF MadeOnce, ForwardsOnce
  <2>3. CASE ~obj[j].forward
    BY <2>3 DEF MadeOnce, RealMapped
  <2> QED BY <2>1, <2>2, <2>3
<1> QED BY <1>1, OnceInvariance, PTL

(***************************************************************************)
(* For every program: when the translation is over, every id an operand    *)
(* holds is the id of a value that has been translated; no user refers to  *)
(* a forward whose instruction never came.                                 *)
(***************************************************************************)
THEOREM NoForwardLeftHolds == Spec => []NoForwardLeft
<1>1. IInv /\ MadeOnce /\ TurnsTaken => NoForwardLeft
  <2> SUFFICES ASSUME IInv, MadeOnce, TurnsTaken, Translated,
                      NEW k \in DOMAIN obj, NEW i \in DOMAIN obj[k].ids
               PROVE  ~obj[idMap[obj[k].ids[i]]].forward
    BY DEF NoForwardLeft
  <2>1. PICK w : w = Operands(obj[k].value)[i]
    OBVIOUS
  <2>2. w \in Mapped /\ obj[k].ids[i] = IdOf(w)
    BY <2>1 DEF IInv, OperandIdsAgree
  <2>3. idMap[obj[k].ids[i]] = valueMap[w] /\ w \in Values
    BY <2>2 DEF IInv, IdTableAgrees, MapAgrees
  <2>4. valueMap[w] \in DOMAIN obj /\ obj[valueMap[w]].value = w
    BY <2>2 DEF IInv, MapAgrees
  <2>5. CASE ~IsInst(w)
    BY <2>3, <2>4, <2>5 DEF MadeOnce, ForwardsOfInsts
  <2>6. CASE IsInst(w)
    <3>1. w \in Range(body.turns)
      BY <2>3, <2>6 DEF IInv, Shapes, IsBody, IsInst, Values
    <3>2. PICK t \in 1 .. Len(body.turns) : w = body.turns[t]
      BY <3>1 DEF Range, IInv, Shapes, IsBody
    <3>3. Real(w)
      BY <3>2 DEF TurnsTaken
    <3> QED BY <2>3, <3>3 DEF Real
  <2> QED BY <2>5, <2>6
<1> QED BY <1>1, OnceInvariance, PTL

(***************************************************************************)
(* Names and decorations.  A decoration of v is on the id of v from the    *)
(* moment v has one, whether v is a forward then or not.                   *)
(***************************************************************************)
\* The ids of the values of before an object is made, and its own.
LEMMA AddsIds ==
  ASSUME NEW v, NEW o, Adds(v, o)
  PROVE  /\ Mapped' = Mapped \cup {v}
         /\ \A w \in Mapped \ {v} : IdOf(w)' = IdOf(w)
         /\ IdOf(v)' = o.id
         /\ \A w : Forwarded(w) => Forwarded(w)'
BY DEF Adds, Mapped, IdOf, Forwarded

\* An object of v is made under the id of v, if there is one: every fact about
\* names and decorations holds on when what v asks for is added.
LEMMA AddsAnnotates ==
  ASSUME NEW v, NEW o, Adds(v, o), Annotated, v \in Mapped => o.id = IdOf(v),
         named' = IF v \in body.named THEN named \cup {o.id} ELSE named,
         decorate \subseteq decorate',
         "late" \in body.deco[v] => <<o.id, "late">> \in decorate',
         "early" \in body.deco[v] /\ ~Forwarded(v)' => <<o.id, "early">> \in decorate',
         \A p \in decorate' \ decorate :
           \/ p[1] = o.id /\ p[2] \in body.deco[v] /\ p = <<p[1], p[2]>>
           \/ p[2] = "early" /\ p[1] = NextId /\ o.id # NextId
  PROVE  Annotated'
<1>1. /\ Mapped' = Mapped \cup {v}
      /\ \A w \in Mapped : IdOf(w)' = IdOf(w)
      /\ IdOf(v)' = o.id
      /\ \A w : Forwarded(w) => Forwarded(w)'
      /\ body' = body
  BY AddsIds DEF Adds
<1>2. NamesLand'
  <2>1. named = {IdOf(w) : w \in Mapped \cap body.named}
    BY DEF Annotated, NamesLand
  <2>2. named' = {IdOf(w)' : w \in (Mapped \cup {v}) \cap body.named}
    BY <1>1, <2>1
  <2> QED BY <1>1, <2>2 DEF NamesLand
<1>3. LateLand'
  BY <1>1 DEF Annotated, LateLand
<1>4. EarlyLand'
  BY <1>1 DEF Annotated, EarlyLand
<1>5. ASSUME NEW p \in decorate'
      PROVE  \/ p \in Wanted'
             \/ p[2] = "early" /\ p[1] \in DOMAIN obj' /\ obj'[p[1]].id # p[1]
  <2>1. \A w \in Mapped' : \A d \in body.deco[w] : <<IdOf(w)', d>> \in Wanted'
    BY <1>1 DEF Wanted
  <2>2. CASE p \in decorate /\ p \in Wanted
    <3>1. PICK w \in Mapped : p \in {IdOf(w)} \X body.deco[w]
      BY <2>2 DEF Wanted
    <3> QED BY <1>1, <2>1, <3>1
  <2>3. CASE p \in decorate /\ p \notin Wanted
    BY <2>3 DEF Annotated, OnlyThose, Adds
  <2>4. CASE p \notin decorate
    BY <1>1, <2>1, <2>4 DEF Adds
  <2> QED BY <2>2, <2>3, <2>4
<1> QED BY <1>2, <1>3, <1>4, <1>5 DEF Annotated, OnlyThose

LEMMA CreateForwardAnnotates == IInv /\ MadeOnce /\ Annotated /\ CreateForward => Annotated'
<1> SUFFICES ASSUME IInv, MadeOnce, Annotated, CreateForward
             PROVE  Annotated'
  OBVIOUS
<1>1. PICK v \in Values \ Mapped : \E o :
        /\ Adds(v, o) /\ o.forward = TRUE /\ o.id = NextId
        /\ named' = IF v \in body.named THEN named \cup {NextId} ELSE named
        /\ decorate' = decorate \cup ({NextId} \X (body.deco[v] \cap {"late"}))
  BY CreateForwardAdds
<1>2. PICK o : Adds(v, o) /\ o.forward = TRUE /\ o.id = NextId
  BY <1>1
<1>3. Forwarded(v)'
  BY <1>2 DEF Adds, Forwarded
<1>4. /\ v \in Mapped => o.id = IdOf(v)
      /\ named' = IF v \in body.named THEN named \cup {o.id} ELSE named
      /\ "late" \in body.deco[v] => <<o.id, "late">> \in decorate'
  BY <1>1, <1>2
<1>5. /\ decorate \subseteq decorate'
      /\ \A p \in decorate' \ decorate : p[1] = o.id /\ p[2] \in body.deco[v] /\ p = <<p[1], p[2]>>
  BY <1>1, <1>2
<1> QED BY <1>2, <1>3, <1>4, <1>5, AddsAnnotates

LEMMA CompleteAnnotates == IInv /\ MadeOnce /\ Annotated /\ Complete => Annotated'
<1> SUFFICES ASSUME IInv, MadeOnce, Annotated, Complete
             PROVE  Annotated'
  OBVIOUS
<1>1. PICK n \in DOMAIN calls : \E v \in Values : \E o :
        /\ v = calls[n].value
        /\ Adds(v, o) /\ o.forward = FALSE /\ o.id = FinalId(v)
        /\ named' = IF v \in body.named THEN named \cup {AnnotatedId(v)} ELSE named
        /\ decorate' = decorate \cup ({NextId} \X (body.deco[v] \cap {"early"}))
                                \cup ({AnnotatedId(v)} \X (body.deco[v] \cap {"late"}))
  BY CompleteAdds
<1>2. PICK v \in Values : \E o :
        /\ v = calls[n].value
        /\ Adds(v, o) /\ o.forward = FALSE /\ o.id = FinalId(v)
        /\ named' = IF v \in body.named THEN named \cup {AnnotatedId(v)} ELSE named
        /\ decorate' = decorate \cup ({NextId} \X (body.deco[v] \cap {"early"}))
                                \cup ({AnnotatedId(v)} \X (body.deco[v] \cap {"late"}))
  BY <1>1
<1>3. PICK o : Adds(v, o) /\ o.forward = FALSE /\ o.id = FinalId(v)
  BY <1>2
<1>4. AnnotatedId(v) = o.id /\ (v \in Mapped => o.id = IdOf(v))
      /\ (v \notin Mapped => o.id = NextId)
  BY <1>3 DEF AnnotatedId, FinalId
<1>5. v \in Mapped => Forwarded(v)'
  <2> SUFFICES ASSUME v \in Mapped PROVE Forwarded(v)'
    OBVIOUS
  <2>1. valueMap[v] \in DOMAIN obj /\ obj[valueMap[v]].value = v /\ obj[valueMap[v]].forward
    BY <1>2, <1>3 DEF MadeOnce, StackPending, Real, Adds
  <2> QED BY <1>3, <2>1 DEF Adds, Forwarded
<1>6. \A p \in decorate' \ decorate :
        \/ p[1] = o.id /\ p[2] \in body.deco[v] /\ p = <<p[1], p[2]>>
        \/ p[2] = "early" /\ p[1] = NextId /\ o.id # NextId
  BY <1>2, <1>4
<1> QED BY <1>2, <1>3, <1>4, <1>5, <1>6, AddsAnnotates

LEMMA InitAnnotates == Init => Annotated
BY DEF Init, Annotated, NamesLand, LateLand, EarlyLand, OnlyThose, Mapped

LEMMA NextAnnotates == IInv /\ MadeOnce /\ Annotated /\ [Next]_vars => Annotated'
<1> SUFFICES ASSUME IInv, MadeOnce, Annotated, [Next]_vars
             PROVE  Annotated'
  OBVIOUS
<1>1. CASE UNCHANGED <<body, obj, valueMap, decorate, named>>
  BY <1>1 DEF Annotated, NamesLand, LateLand, EarlyLand, OnlyThose, Wanted, Mapped, IdOf, Forwarded
<1> QED BY <1>1, CreateForwardAnnotates, CompleteAnnotates
        DEF Next, vars, TakeTurn, UseMapped, Descend, Recurse, Finish

(***************************************************************************)
(* For every program: every name and every decoration ends up on the id    *)
(* its value has in the file, and on no other, except that what is made    *)
(* together with an instruction that had a forward is lost with the id the *)
(* instruction gives up.                                                   *)
(***************************************************************************)
THEOREM AnnotationsLandHolds == Spec => []AnnotationsLand
<1>1. Spec => [](IInv /\ MadeOnce /\ Annotated)
  BY InitInv, InitOnce, InitAnnotates, NextInv, NextOnce, NextAnnotates, OnceInvariance, PTL DEF Spec
<1>2. IInv /\ Annotated => AnnotationsLand
  <2> SUFFICES ASSUME IInv, Annotated PROVE AnnotationsLand
    OBVIOUS
  <2> DEFINE lost == UNION {{IdOf(v)} \X {"early"} : v \in {w \in Mapped : Forwarded(w)}}
  <2>1. ASSUME NEW p \in Wanted \ lost PROVE p \in decorate
    <3>1. PICK v \in Mapped : p \in {IdOf(v)} \X body.deco[v]
      BY DEF Wanted
    <3>2. p = <<IdOf(v), p[2]>> /\ p[2] \in body.deco[v]
      BY <3>1
    <3>3. p[2] = "early" \/ p[2] = "late"
      <4>1. v \in Values
        BY DEF IInv, MapAgrees
      <4>2. body.deco \in [Values -> SUBSET Decorations]
        BY DEF IInv, Shapes, IsBody, Values
      <4> QED BY <3>2, <4>1, <4>2 DEF Decorations
    <3>4. CASE p[2] = "late"
      BY <3>2, <3>4 DEF Annotated, LateLand
    <3>5. CASE p[2] = "early"
      <4>1. ~Forwarded(v)
        BY <3>2, <3>5
      <4> QED BY <3>2, <3>5, <4>1 DEF Annotated, EarlyLand
    <3> QED BY <3>3, <3>4, <3>5
  <2>2. \A p \in decorate : p \in Wanted \/ (p[2] = "early" /\ obj[p[1]].id # p[1])
    BY DEF Annotated, OnlyThose
  <2>3. named = {IdOf(v) : v \in Mapped \cap body.named}
    BY DEF Annotated, NamesLand
  <2> QED BY <2>1, <2>2, <2>3 DEF AnnotationsLand
<1> QED BY <1>1, <1>2, PTL

(***************************************************************************)
(* For every program: the id of a value never changes, from its forward to *)
(* the end.  The operands that were written down while the value was only  *)
(* a forward need no fixing, and the code has no place that would fix them.*)
(***************************************************************************)
IdsKept == \A v \in Mapped : v \in Mapped' /\ IdOf(v)' = IdOf(v)

\* No step of transValue(), mapValue() or replaceForward() changes the id of a value.
THEOREM IdsKeptHolds == Spec => [][IdsKept]_vars
<1>1. IInv /\ [Next]_vars => [IdsKept]_vars
  <2> SUFFICES ASSUME IInv, Next PROVE IdsKept
    OBVIOUS
  <2>1. CASE CreateForward
    <3>1. PICK v \in Values \ Mapped : \E o : Adds(v, o)
      BY <2>1, CreateForwardAdds
    <3> QED BY <3>1, AddsIds DEF IdsKept
  <2>2. CASE Complete
    <3>1. PICK v \in Values : \E o : Adds(v, o) /\ o.id = FinalId(v)
      BY <2>2, CompleteAdds
    <3>2. PICK o : Adds(v, o) /\ o.id = FinalId(v)
      BY <3>1
    <3>3. v \in Mapped => o.id = IdOf(v)
      BY <3>2 DEF FinalId
    <3> QED BY <3>2, <3>3, AddsIds DEF IdsKept
  <2>3. CASE UNCHANGED <<obj, valueMap>>
    BY <2>3 DEF IdsKept, Mapped, IdOf
  <2> QED BY <2>1, <2>2, <2>3 DEF Next, TakeTurn, UseMapped, Descend, Recurse, Finish
<1> QED BY <1>1, Invariance, PTL DEF Spec
=============================================================================
