------------------------- MODULE ValueTranslation -------------------------
(***************************************************************************)
(* LLVMToSPIRV::transValue and mapValue of lib/SPIRV/SPIRVWriter.cpp, and  *)
(* what they do to the id table, the names and the decorations of the      *)
(* SPIR-V module: the translation of the global variables and of the body  *)
(* of a function.                                                          *)
(*                                                                         *)
(* An instruction may use one that has not been translated yet (a phi, or  *)
(* a use in a block that comes first).  The operand is then a SPIRVForward *)
(* whose id the real instruction takes over when its turn comes.           *)
(***************************************************************************)
EXTENDS Naturals, Sequences, FiniteSets, SequencesExt

CONSTANT Bodies       \* the programs to translate, see IsBody

(***************************************************************************)
(* The values of a program: instructions, constants and global variables;  *)
(* the operands of a constant are its elements, that of a variable is its  *)
(* initializer.  turns is the order in which transGlobalVariables() and    *)
(* transFunction() ask for them.  deco[v] tells which decorations v gets:  *)
(* "early" ones from the function that makes it (addDecorations() on a     *)
(* builtin's postfixes, the linkage of a variable), "late" ones from       *)
(* transDecoration() (alignment, volatile).                                *)
(***************************************************************************)
Decorations == {"early", "late"}

IsBody(b) ==
  LET values == DOMAIN b.kind IN
  /\ b.kind \in [values -> {"inst", "const", "global"}]
  /\ b.operands \in [values -> Seq(values)]
  /\ b.turns \in Seq(values)
  /\ IsInjective(b.turns)
  /\ Range(b.turns) = {v \in values : b.kind[v] # "const"}
  /\ \A j, k \in DOMAIN b.turns :
       j < k /\ b.kind[b.turns[k]] = "global" => b.kind[b.turns[j]] = "global"
  /\ b.deco \in [values -> SUBSET Decorations]
  /\ b.named \subseteq values
  /\ \A v \in values : b.kind[v] # "inst" =>
       \A i \in DOMAIN b.operands[v] : b.kind[b.operands[v][i]] # "inst"

ASSUME BodiesAssumption == \A b \in Bodies : IsBody(b)

VARIABLES
  body,      \* the program
  turn,      \* how many of the turns have been taken
  calls,     \* the activations of transValue, innermost last
  obj,       \* the SPIRVValues, in the order they were made
  valueMap,  \* ValueMap: the value's SPIRVValue (an index of obj)
  idMap,     \* IdEntryMap: the entry with an id
  decorate,  \* DecorateSet: pairs of a target id and a decoration
  named,     \* NamedId
  status     \* "translating", "translated" or "endless"

vars == <<body, turn, calls, obj, valueMap, idMap, decorate, named, status>>

Values      == DOMAIN body.kind
Operands(v) == body.operands[v]
IsInst(v)   == body.kind[v] = "inst"
Mapped      == DOMAIN valueMap
IdOf(v)     == obj[valueMap[v]].id
OnStack     == {calls[k].value : k \in DOMAIN calls}

\* getId(): every SPIRVValue takes a new id.
NextId == Len(obj) + 1

Init ==
  /\ body \in Bodies
  /\ turn = 0
  /\ calls = << >>
  /\ obj = << >>
  /\ valueMap = << >>
  /\ idMap = << >>
  /\ decorate = {}
  /\ named = {}
  /\ status = "translating"

Top     == calls[Len(calls)]
Frame(v) == [value |-> v, ids |-> [i \in DOMAIN Operands(v) |-> 0]]
Running == status = "translating" /\ calls # << >>
Put(f, x, y) == [z \in DOMAIN f \cup {x} |-> IF z = x THEN y ELSE f[z]]

\* A bug in transValue(): the instruction is taken for translated when it has a forward.
TakeTurnSkipsForward ==
  /\ status = "translating"
  /\ calls = << >>
  /\ turn < Len(body.turns)
  /\ LET v == body.turns[turn + 1] IN
       IF v \in Mapped
       THEN turn' = turn + 1 /\ UNCHANGED calls
       ELSE calls' = << Frame(v) >> /\ UNCHANGED turn
  /\ UNCHANGED <<body, obj, valueMap, idMap, decorate, named, status>>

\* transValue(V, BB, false) for the next global or instruction.  A global that
\* an initializer has asked for before is done.
TakeTurn ==
  /\ status = "translating"
  /\ calls = << >>
  /\ turn < Len(body.turns)
  /\ LET v == body.turns[turn + 1] IN
       IF v \in Mapped /\ ~obj[valueMap[v]].forward
       THEN turn' = turn + 1 /\ UNCHANGED calls
       ELSE calls' = << Frame(v) >> /\ UNCHANGED turn
  /\ UNCHANGED <<body, obj, valueMap, idMap, decorate, named, status>>

\* An operand is asked for; the order in which C++ evaluates the arguments of a
\* call is not specified.
Asked(i) == i \in DOMAIN Top.ids /\ Top.ids[i] = 0
Operand(i) == Operands(Top.value)[i]

\* The operand is in ValueMap, as itself or as a forward.
UseMapped ==
  /\ Running
  /\ \E i \in DOMAIN Top.ids :
       /\ Asked(i)
       /\ Operand(i) \in Mapped
       /\ calls' = [calls EXCEPT ![Len(calls)].ids[i] = IdOf(Operand(i))]
  /\ UNCHANGED <<body, turn, obj, valueMap, idMap, decorate, named, status>>

\* A forward for an instruction that comes later: it is named and decorated like
\* any translated value.
CreateForward ==
  /\ Running
  /\ \E i \in DOMAIN Top.ids :
       LET v == Operand(i) IN
       /\ Asked(i)
       /\ v \notin Mapped
       /\ IsInst(v)
       /\ obj' = Append(obj, [value |-> v, forward |-> TRUE, id |-> NextId, ids |-> << >>])
       /\ idMap' = Put(idMap, NextId, NextId)
       /\ valueMap' = Put(valueMap, v, NextId)
       /\ named' = IF v \in body.named THEN named \cup {NextId} ELSE named
       /\ decorate' = decorate \cup ({NextId} \X (body.deco[v] \cap {"late"}))
       /\ calls' = [calls EXCEPT ![Len(calls)].ids[i] = NextId]
  /\ UNCHANGED <<body, turn, status>>

\* A bug in transValue(): ValueMap is not consulted.
DescendMapped ==
  /\ Running
  /\ \E i \in DOMAIN Top.ids :
       LET v == Operand(i) IN
       /\ Asked(i)
       /\ ~IsInst(v)
       /\ v \notin OnStack
       /\ calls' = Append(calls, Frame(v))
  /\ UNCHANGED <<body, turn, obj, valueMap, idMap, decorate, named, status>>

\* A constant or a global is translated by a nested call.
Descend ==
  /\ Running
  /\ \E i \in DOMAIN Top.ids :
       LET v == Operand(i) IN
       /\ Asked(i)
       /\ v \notin Mapped
       /\ ~IsInst(v)
       /\ v \notin OnStack
       /\ calls' = Append(calls, Frame(v))
  /\ UNCHANGED <<body, turn, obj, valueMap, idMap, decorate, named, status>>

\* A bug in transValue(): an instruction that uses itself is translated again.
RecurseIntoInst ==
  /\ Running
  /\ \E i \in DOMAIN Top.ids :
       /\ Asked(i)
       /\ Operand(i) \notin Mapped
       /\ Operand(i) \in OnStack
  /\ status' = "endless"
  /\ UNCHANGED <<body, turn, calls, obj, valueMap, idMap, decorate, named>>

\* A global is mapped after its initializer: asked for inside its own initializer
\* it is translated again, and again.
Recurse ==
  /\ Running
  /\ \E i \in DOMAIN Top.ids :
       /\ Asked(i)
       /\ Operand(i) \notin Mapped
       /\ Operand(i) \in OnStack
       /\ ~IsInst(Operand(i))
  /\ status' = "endless"
  /\ UNCHANGED <<body, turn, calls, obj, valueMap, idMap, decorate, named>>

\* A bug in mapValue(): the instruction keeps its own id.
OwnId(v) == NextId

\* The id of a finished value: mapValue() gives it the one of its forward.
FinalId(v) == IF v \in Mapped THEN IdOf(v) ELSE NextId

\* A bug in replaceForward(): the forward stays in IdEntryMap.
IdMapWithForward(v) == Put(idMap, NextId, NextId)

\* add() enters the value under its first id, replaceForward() under its forward's.
IdMapWith(v) == Put(Put(idMap, NextId, NextId), FinalId(v), NextId)

\* A bug in transValue(): names and decorations go to the id from before mapValue().
FirstId(v) == NextId

\* The id that setName() and transDecoration() find on the value.
AnnotatedId(v) == FinalId(v)

(***************************************************************************)
(* All operands are there.  The new value is made with a fresh id and its  *)
(* early decorations; mapValue() gives it the id of its forward, if there  *)
(* is one, and replaceForward() the forward's place in the id table, its   *)
(* name and its decorations; transValue() names it and adds the late       *)
(* decorations.                                                            *)
(***************************************************************************)
Complete ==
  /\ Running
  /\ \A i \in DOMAIN Top.ids : Top.ids[i] # 0
  /\ LET v == Top.value IN
       /\ obj' = Append(obj, [value |-> v, forward |-> FALSE, id |-> FinalId(v), ids |-> Top.ids])
       /\ idMap' = IdMapWith(v)
       /\ valueMap' = Put(valueMap, v, NextId)
       /\ named' = IF v \in body.named THEN named \cup {AnnotatedId(v)} ELSE named
       /\ decorate' = decorate \cup ({NextId} \X (body.deco[v] \cap {"early"}))
                               \cup ({AnnotatedId(v)} \X (body.deco[v] \cap {"late"}))
  /\ calls' = Front(calls)
  /\ UNCHANGED <<body, turn, status>>

Finish ==
  /\ status = "translating"
  /\ calls = << >>
  /\ turn = Len(body.turns)
  /\ status' = "translated"
  /\ UNCHANGED <<body, turn, calls, obj, valueMap, idMap, decorate, named>>

Next ==
  \/ TakeTurn
  \/ UseMapped
  \/ CreateForward
  \/ Descend
  \/ Recurse
  \/ Complete
  \/ Finish

Spec     == Init /\ [][Next]_vars
FairSpec == Spec /\ WF_vars(Next)     \* transValue runs to its end
-----------------------------------------------------------------------------
Translated   == status = "translated"
Forwarded(v) == \E k \in DOMAIN obj : obj[k].forward /\ obj[k].value = v
Wanted       == UNION {{IdOf(v)} \X body.deco[v] : v \in Mapped}

\* The tables have the types the code gives them.
TypeOK ==
  /\ turn \in 0 .. Len(body.turns)
  /\ \A k \in DOMAIN calls :
       /\ calls[k].value \in Values
       /\ calls[k].ids \in [DOMAIN Operands(calls[k].value) -> 0 .. Len(obj)]
  /\ \A k \in DOMAIN obj :
       /\ obj[k].value \in Values
       /\ obj[k].forward \in BOOLEAN
       /\ obj[k].id \in 1 .. Len(obj)
  /\ Mapped \subseteq Values
  /\ \A v \in Mapped : valueMap[v] \in DOMAIN obj
  /\ \A n \in DOMAIN idMap : idMap[n] \in DOMAIN obj
  /\ named \subseteq DOMAIN idMap
  /\ decorate \subseteq (DOMAIN idMap) \X Decorations
  /\ status \in {"translating", "translated", "endless"}

\* mapValue() and replaceForward(): the id table leads from the id of a translated
\* value to the SPIRVValue that ValueMap has for it, so no two values share an id.
IdTableAgrees ==
  \A v \in Mapped :
    /\ IdOf(v) \in DOMAIN idMap
    /\ idMap[IdOf(v)] = valueMap[v]

\* An id that an instruction, a constant or an unfinished activation of transValue
\* holds for an operand is the id its SPIRVValue has now: replacing a forward by
\* the real instruction leaves no user behind with a dead id.
OperandIdsAgree ==
  /\ \A k \in DOMAIN obj : \A i \in DOMAIN obj[k].ids :
       LET v == Operands(obj[k].value)[i]
       IN v \in Mapped /\ obj[k].ids[i] = IdOf(v)
  /\ \A k \in DOMAIN calls : \A i \in DOMAIN calls[k].ids :
       LET v == Operands(calls[k].value)[i]
       IN calls[k].ids[i] # 0 => v \in Mapped /\ calls[k].ids[i] = IdOf(v)

\* Once all is translated no forward is left in the id table: every operand of
\* every instruction that is written has its definition in the module.
NoForwardLeft ==
  Translated => \A k \in DOMAIN obj : \A i \in DOMAIN obj[k].ids :
    ~obj[idMap[obj[k].ids[i]]].forward

\* transValue() makes one SPIRVValue of a value, however many users ask for it.
TranslatedOnce ==
  \A j, k \in DOMAIN obj :
    obj[j].value = obj[k].value /\ obj[j].forward = obj[k].forward => j = k

\* Every decoration a value asks for ends up on the id the value has in the file,
\* and nothing else is decorated, except that the decorations made together with
\* an instruction which has a forward are lost; the names are those of the values
\* that have one, and no OpName is written for an id nothing defines.
AnnotationsLand ==
  LET lost == UNION {{IdOf(v)} \X {"early"} : v \in {w \in Mapped : Forwarded(w)}}
  IN Translated =>
       /\ Wanted \ lost \subseteq decorate
       /\ \A p \in decorate : p \in Wanted \/ (p[2] = "early" /\ obj[p[1]].id # p[1])
       /\ named = {IdOf(v) : v \in Mapped \cap body.named}

\* The decorations without the exception: what the comments on replaceForward() and
\* transValueWithoutDecoration() say of forwards.
EveryDecorationLands == Translated => decorate = Wanted

\* Globals whose initializers refer, through constants and other globals, to
\* themselves.
InitializerCycle ==
  \E v \in Values : \E n \in 1 .. Cardinality(Values) :
    \E path \in [0 .. n -> {w \in Values : ~IsInst(w)}] :
      /\ path[0] = v /\ path[n] = v
      /\ \A k \in 1 .. n : path[k] \in Range(Operands(path[k - 1]))

\* The translation of every program ends; only on an initializer that refers back
\* to its global transValue() recurses until the stack is full ("endless").
TranslationEnds == <>(Translated \/ (status = "endless" /\ InitializerCycle))
=============================================================================
