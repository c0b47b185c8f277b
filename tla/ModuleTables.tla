---------------------------- MODULE ModuleTables ----------------------------
(***************************************************************************)
(* The tables of SPIRVModuleImpl (lib/SPIRV/libSPIRV/SPIRVModule.cpp) on   *)
(* their way into a file and back: LLVMToSPIRV fills them (addFunction,    *)
(* addForward, setName, addLine, addEntryPoint, ...), operator<< writes    *)
(* them, operator>> fills the tables of a new module from the file, and    *)
(* ConvertSPIRV writes that one again.                                     *)
(*                                                                         *)
(* In the file the annotations stand in front of what they annotate.  The  *)
(* decoder keeps them on a forward, and addEntry() hands them over when    *)
(* the entry with the forward's id is read.                                *)
(***************************************************************************)
EXTENDS Naturals, Sequences, FiniteSets, SequencesExt

CONSTANTS
  Names,        \* names of values, without the empty one
  FileNames,    \* names of source files
  MaxId,        \* bound on the ids of the module that is translated
  MaxModes,     \* bound on the calls of addExecutionMode
  Files,        \* files that another tool has written
  Conversions   \* how often the file is read and written again

ASSUME BoundsAssumption ==
  /\ MaxId \in Nat /\ MaxModes \in Nat /\ Conversions \in Nat
  /\ "" \notin Names

\* The bound in the header of a file is above all its ids.
ASSUME FilesAssumption ==
  \A f \in Files :
    /\ f.bound \in Nat /\ f.instructions \in Seq(Range(f.instructions))
    /\ \A j \in DOMAIN f.instructions : f.instructions[j].id \in 1 .. f.bound - 1

VARIABLES
  m,          \* the SPIRVModuleImpl at hand
  body,       \* the function whose body is translated, an index of m.objs, or 0
  source,     \* the module the file was written from
  file,       \* the file: the bound and the instructions
  left,       \* the instructions that are still to be read
  converted,  \* how often the file has been read
  phase       \* "building", "reading", "read", "written" or "failed"

vars == <<m, body, source, file, left, converted, phase>>

(***************************************************************************)
(* An entry with an id.  line is the last line that was set, an index of   *)
(* m.lines, or 0.  items are the ids of the parameters and instructions of *)
(* a function.                                                             *)
(***************************************************************************)
Entry(op, id) ==
  [op |-> op, id |-> id, name |-> "", line |-> 0, modes |-> << >>, str |-> "", items |-> << >>]

\* objs: the entries that were made.  idMap: IdEntryMap, leading to them.
Empty ==
  [objs |-> << >>, idMap |-> << >>, nextId |-> 1, named |-> {}, strings |-> << >>,
   strMap |-> << >>, lines |-> << >>, entryPoints |-> << >>, entryPointSet |-> {},
   groups |-> << >>, globals |-> << >>, functions |-> << >>]

Put(f, x, y) == [z \in DOMAIN f \cup {x} |-> IF z = x THEN y ELSE f[z]]

NoEntry == 0
\* exist()
Mapped(t, id) == IF id \in DOMAIN t.idMap THEN t.idMap[id] ELSE NoEntry
IsForward(t, e) == e # NoEntry /\ t.objs[e].op = "forward"
Newest(t) == Len(t.objs)

\* A bug in addFunction: the ids of the parameters are not taken.
TakeOneId(t, n) == [t EXCEPT !.nextId = @ + 1]
\* getId(SPIRVID_INVALID, n): n ids from t.nextId on.
TakeIds(t, n) == [t EXCEPT !.nextId = @ + n]

SetName(t, e, name) ==
  LET id == t.objs[e].id
  IN [t EXCEPT !.objs[e].name = name,
               !.named = IF name = "" THEN @ \ {id} ELSE @ \cup {id}]

\* takeLine: the entry has its id by now.
TakeLine(t, f, e) ==
  LET n == t.objs[f].line
  IN IF n = 0 THEN t
     ELSE [t EXCEPT !.objs[e].line = n, !.objs[f].line = 0,
                    !.lines[n].target = t.objs[e].id]

\* takeAnnotations: only a function has execution modes.
TakeAnnotations(t, f, e) ==
  LET named == SetName(t, e, t.objs[f].name)
      moded == [named EXCEPT !.objs[e].modes =
                  IF t.objs[e].op = "function" THEN t.objs[f].modes ELSE @]
  IN TakeLine(moded, f, e)

\* replaceForward with an entry that has the id of the forward.
ReplaceForward(t, f, e) ==
  TakeAnnotations([t EXCEPT !.idMap = Put(@, t.objs[f].id, e)], f, e)

\* addEntry: assert(Mapped == Entry && "Id used twice") otherwise.
Addable(t, id) == Mapped(t, id) = NoEntry \/ IsForward(t, Mapped(t, id))
AddEntry(t, o) ==
  LET made == [t EXCEPT !.objs = Append(@, o)]
      f    == Mapped(t, o.id)
  IN IF f = NoEntry
     THEN [made EXCEPT !.idMap = Put(@, o.id, Newest(made))]
     ELSE ReplaceForward(made, f, Newest(made))

\* addFunction pushes the function on FuncVec, layoutEntry a string, a variable or a
\* constant on its vector.
Layout(t, e) ==
  CASE t.objs[e].op = "function" -> [t EXCEPT !.functions = Append(@, e)]
    [] t.objs[e].op = "string"   -> [t EXCEPT !.strings = Append(@, e)]
    [] t.objs[e].op = "global"   -> [t EXCEPT !.globals = Append(@, e)]
    [] t.objs[e].op = "group"    -> [t EXCEPT !.groups = Append(@, t.objs[e].id)]
    [] OTHER -> t
Add(t, o) == LET added == AddEntry(t, o) IN Layout(added, Newest(added))

\* A new entry with the next id.
Make(t, op) == Add(TakeIds(t, 1), Entry(op, t.nextId))

\* addLine: a line is no entry with an id.
AddLine(t, e, string, no) ==
  [t EXCEPT !.lines = Append(@, [target |-> t.objs[e].id, string |-> string, no |-> no]),
            !.objs[e].line = Len(t.lines) + 1]

\* getString: one OpString for each file name.
GetString(t, str) ==
  IF str \in DOMAIN t.strMap THEN t
  ELSE [Add(TakeIds(t, 1), [Entry("string", t.nextId) EXCEPT !.str = str])
          EXCEPT !.strMap = Put(@, str, t.nextId)]

NoDebugInfo == [file |-> "", no |-> 0]
DebugInfo   == {NoDebugInfo} \cup [file : FileNames, no : {1}]
\* transDbgInfo
TransDbgInfo(t, e, d) ==
  IF d = NoDebugInfo THEN t
  ELSE LET u == GetString(t, d.file) IN AddLine(u, e, u.strMap[d.file], d.no)

\* transValue: a name and a line for what has just been made.
Annotated(t, e, name, d) ==
  TransDbgInfo(IF name = "" THEN t ELSE SetName(t, e, name), e, d)

\* A bug in addEntryPoint: EntryPointVec is forgotten.
AddToSetOnly(t, id) == [t EXCEPT !.entryPointSet = @ \cup {id}]
AddEntryPoint(t, id) ==
  [t EXCEPT !.entryPointSet = @ \cup {id}, !.entryPoints = Append(@, id)]

\* addExecutionMode: ExecModes is a map from the kind.
AddExecutionMode(t, e, kind, literals) ==
  [t EXCEPT !.objs[e].modes = Put(@, kind, literals)]

-----------------------------------------------------------------------------
(***************************************************************************)
(* The translation: what LLVMToSPIRV calls, in the order of translate().   *)
(***************************************************************************)
Init ==
  /\ m = Empty /\ source = Empty /\ body = 0
  /\ left = << >> /\ converted = 0
  /\ \/ file = [bound |-> 0, instructions |-> << >>] /\ phase = "building"
     \/ file \in Files /\ phase = "written"

Building  == phase = "building"
Bounded   == m'.nextId <= MaxId + 1
Forwards  == {e \in DOMAIN m.objs : m.objs[e].op = "forward" /\ m.idMap[m.objs[e].id] = e}
AfterInit == UNCHANGED <<source, file, left, converted, phase>>

\* transGlobalVariables comes before the functions.
AddGlobal ==
  /\ Building /\ m.functions = << >>
  /\ \E name \in Names \cup {""} :
       LET t == Make(m, "global") IN m' = Annotated(t, Newest(t), name, NoDebugInfo)
  /\ Bounded /\ UNCHANGED body /\ AfterInit

\* transFunctionDecl: the function takes the next id, its parameter the one behind; the
\* parameters are entered first.
AddFunction ==
  /\ Building
  /\ \E params \in {0, 1}, name \in Names, param \in Names \cup {""},
        kernel \in BOOLEAN, d \in DebugInfo :
       /\ params = 0 => param = ""
       /\ LET id      == m.nextId
              taken   == TakeIds(m, params + 1)
              withPar == IF params = 0 THEN taken ELSE Add(taken, Entry("parameter", id + 1))
              made    == Add(withPar, [Entry("function", id) EXCEPT
                           !.items = IF params = 0 THEN << >> ELSE <<id + 1>>])
              f       == Newest(made)
              called  == SetName(made, f, name)
              entered == IF kernel THEN AddEntryPoint(called, id) ELSE called
              parName == IF param = "" THEN entered ELSE SetName(entered, f - 1, param)
          IN m' = TransDbgInfo(parName, f, d)
  /\ Bounded /\ UNCHANGED body /\ AfterInit

HasBody(f) == \E k \in DOMAIN m.objs[f].items :
                m.objs[m.idMap[m.objs[f].items[k]]].op = "instruction"

\* transFunction for the next function with a body; no forward outlives its function.
StartBody ==
  /\ Building /\ Forwards = {}
  /\ \E f \in Range(m.functions) : f # body /\ ~HasBody(f) /\ body' = f
  /\ UNCHANGED m /\ AfterInit

\* transValue(V, BB, CreateForward): the operand is an instruction that comes later.
AddForward ==
  /\ Building /\ body # 0
  /\ \E name \in Names \cup {""}, d \in DebugInfo :
       LET t == Make(m, "forward") IN m' = Annotated(t, Newest(t), name, d)
  /\ Bounded /\ UNCHANGED body /\ AfterInit

InBody(t, id) == [t EXCEPT !.objs[body].items = Append(@, id)]

AddInstruction ==
  /\ Building /\ body # 0
  /\ \E name \in Names \cup {""}, d \in DebugInfo :
       LET t == Make(m, "instruction")
       IN m' = Annotated(InBody(t, m.nextId), Newest(t), name, d)
  /\ Bounded /\ UNCHANGED body /\ AfterInit

\* The turn of an instruction with a forward: mapValue gives it the forward's id and
\* calls replaceForward; its first id stays in IdEntryMap.  It is named, and gets a
\* line, a second time.
AddForwarded ==
  /\ Building /\ body # 0
  /\ \E f \in Forwards :
       LET forward == m.objs[f]
           made    == Make(m, "instruction")
           e       == Newest(made)
           renamed == [made EXCEPT !.objs[e].id = forward.id]
           t       == ReplaceForward(renamed, f, e)
           d       == IF forward.line = 0 THEN NoDebugInfo
                      ELSE LET l == m.lines[forward.line]
                           IN [file |-> m.objs[m.idMap[l.string]].str, no |-> l.no]
       IN m' = Annotated(InBody(t, forward.id), e, forward.name, d)
  /\ Bounded /\ UNCHANGED body /\ AfterInit

(***************************************************************************)
(* transExecutionMode: with three literals or none, or with one that tells *)
(* the size of subgroups.                                                  *)
(***************************************************************************)
ModeKinds == {"LocalSizeHint", "ContractionOff", "SubgroupSize"}
Literals(kind) == IF kind = "ContractionOff" THEN {<< >>} ELSE {<<1>>, <<2>>}
ModeCount == FoldSeq(LAMBDA f, n : n + Cardinality(DOMAIN m.objs[f].modes), 0, m.functions)

AddMode ==
  /\ Building /\ Forwards = {} /\ ModeCount < MaxModes
  /\ \E id \in m.entryPointSet, kind \in ModeKinds : \E literals \in Literals(kind) :
       m' = AddExecutionMode(m, m.idMap[id], kind, literals)
  /\ UNCHANGED body /\ AfterInit
-----------------------------------------------------------------------------
(***************************************************************************)
(* operator<<                                                              *)
(***************************************************************************)
\* NamedId is a set, which is walked through in the order of the ids.
Ascending(ids) ==
  CHOOSE s \in [1 .. Cardinality(ids) -> ids] : \A i, j \in DOMAIN s : i < j => s[i] < s[j]

\* A name is written for an entry that is no entry point.
NamesWritten(t) ==
  LET ids == Ascending(t.named \ t.entryPointSet)
  IN [k \in DOMAIN ids |-> [op |-> "name", id |-> ids[k], name |-> t.objs[t.idMap[ids[k]]].name]]

Function(t, id) == t.objs[t.idMap[id]]

EntryPointsWritten(t) ==
  [k \in DOMAIN t.entryPoints |->
     [op |-> "entry point", id |-> t.entryPoints[k], name |-> Function(t, t.entryPoints[k]).name]]

\* encodeExecutionModes, once for each entry point.
ModesWritten(t) ==
  FlattenSeq([k \in DOMAIN t.entryPoints |->
    LET modes == Function(t, t.entryPoints[k]).modes
        kinds == SetToSeq(DOMAIN modes)
    IN [i \in DOMAIN kinds |->
          [op |-> "mode", id |-> t.entryPoints[k], kind |-> kinds[i], literals |-> modes[kinds[i]]]]])

\* The id of an entry, not the one it was entered under.
EntriesWritten(t, es) ==
  [k \in DOMAIN es |-> [op |-> t.objs[es[k]].op, id |-> t.objs[es[k]].id, str |-> t.objs[es[k]].str]]

LinesWritten(t) ==
  [k \in DOMAIN t.lines |->
     [op |-> "line", id |-> t.lines[k].target, string |-> t.lines[k].string, no |-> t.lines[k].no]]

FunctionsWritten(t) ==
  FlattenSeq([k \in DOMAIN t.functions |->
    LET f == t.functions[k]
        items == t.objs[f].items
    IN EntriesWritten(t, <<f>> \o [i \in DOMAIN items |-> t.idMap[items[i]]])])

\* A bug in operator<<: the names come behind the functions.
NamesLast(t) ==
  EntryPointsWritten(t) \o ModesWritten(t) \o EntriesWritten(t, t.strings)
    \o LinesWritten(t)
    \o [k \in DOMAIN t.groups |-> [op |-> "group", id |-> t.groups[k], str |-> ""]]
    \o EntriesWritten(t, t.globals) \o FunctionsWritten(t) \o NamesWritten(t)

Instructions(t) ==
  EntryPointsWritten(t) \o ModesWritten(t) \o EntriesWritten(t, t.strings)
    \o NamesWritten(t) \o LinesWritten(t)
    \o [k \in DOMAIN t.groups |-> [op |-> "group", id |-> t.groups[k], str |-> ""]]
    \o EntriesWritten(t, t.globals) \o FunctionsWritten(t)

\* optimizeDecorates makes a group, if there are decorations to share; its id is taken
\* but not entered in IdEntryMap.
Optimized(t) ==
  {t} \cup {[TakeIds(t, 1) EXCEPT !.groups = Append(@, t.nextId)]}

\* The end of translate(), and of operator>>, is optimizeDecorates.
Write ==
  /\ \/ Building /\ Forwards = {} /\ source' \in Optimized(m)
     \/ phase = "read" /\ source' = m
  /\ file' = [bound |-> source'.nextId, instructions |-> Instructions(source')]
  /\ phase' = "written"
  /\ UNCHANGED <<m, body, left, converted>>
-----------------------------------------------------------------------------
(***************************************************************************)
(* operator>>                                                              *)
(***************************************************************************)
StartReading ==
  /\ phase = "written" /\ converted < Conversions
  /\ m' = [Empty EXCEPT !.nextId = file.bound]
  /\ left' = file.instructions
  /\ converted' = converted + 1
  /\ phase' = "reading"
  /\ UNCHANGED <<body, source, file>>

\* getOrCreateTarget: addForward(Id, nullptr) does not take an id.
Targeted(t, id) == IF id \in DOMAIN t.idMap THEN t ELSE Add(t, Entry("forward", id))

Named(t, id, name) == LET u == Targeted(t, id) IN SetName(u, u.idMap[id], name)

\* The literals decode() takes from the stream.  That of SubgroupSize stays there; its
\* word is then read as an instruction of no words, which getEntry() passes over.
LiteralsRead(ins) == IF ins.kind = "SubgroupSize" THEN << >> ELSE ins.literals

\* SPIRVLine::decode adds a line, and getEntry() adds the one that was decoded.
DecodeLine(t, ins) ==
  LET u    == Targeted(t, ins.id)
      line == AddLine(u, u.idMap[ins.id], ins.string, ins.no)
  IN [line EXCEPT !.lines = Append(@, [target |-> ins.id, string |-> ins.string, no |-> ins.no])]

\* decode() of a function puts the parameters and instructions that follow into it.
DecodeItem(t, ins) ==
  LET u == Add(t, Entry(ins.op, ins.id))
  IN [u EXCEPT !.objs[Last(u.functions)].items = Append(@, ins.id)]

Decode(t, ins) ==
  CASE ins.op = "entry point" -> AddEntryPoint(Named(t, ins.id, ins.name), ins.id)
    [] ins.op = "name" -> Named(t, ins.id, ins.name)
    [] ins.op = "mode" ->
         LET u == Targeted(t, ins.id)
         IN AddExecutionMode(u, u.idMap[ins.id], ins.kind, LiteralsRead(ins))
    [] ins.op = "line" -> DecodeLine(t, ins)
    [] ins.op \in {"parameter", "instruction"} -> DecodeItem(t, ins)
    [] OTHER -> Add(t, [Entry(ins.op, ins.id) EXCEPT !.str = ins.str])

IsAnnotation(ins) == ins.op \in {"entry point", "name", "mode", "line"}

\* "Annotations only allowed on forward", "Id used twice", "Id is not in map".
Decodable(t, ins) ==
  /\ Addable(t, ins.id)
  /\ ins.op = "line" => ins.string \in DOMAIN t.idMap

ReadInstruction ==
  /\ phase = "reading" /\ left # << >> /\ Decodable(m, Head(left))
  /\ m' = Decode(m, Head(left))
  /\ left' = Tail(left)
  /\ UNCHANGED <<body, source, file, converted, phase>>

AssertionFails ==
  /\ phase = "reading" /\ left # << >> /\ ~Decodable(m, Head(left))
  /\ phase' = "failed"
  /\ UNCHANGED <<m, body, source, file, left, converted>>

FinishReading ==
  /\ phase = "reading" /\ left = << >>
  /\ m' \in Optimized(m)
  /\ phase' = "read"
  /\ UNCHANGED <<body, source, file, left, converted>>

Next ==
  \/ AddGlobal \/ AddFunction \/ StartBody \/ AddForward \/ AddInstruction \/ AddForwarded
  \/ AddMode \/ Write
  \/ StartReading \/ ReadInstruction \/ AssertionFails \/ FinishReading

Spec == Init /\ [][Next]_vars
-----------------------------------------------------------------------------
(***************************************************************************)
(* Properties.                                                             *)
(***************************************************************************)
\* The tables that hold the same thing twice agree: NamedId with the names, the set of
\* entry points with their vector, a line with the entry it is on, and whatever is
\* entered under an id, the entry of a replaced forward too, has an id that leads to
\* it.
TablesAgree ==
  /\ \A id \in DOMAIN m.idMap : m.idMap[m.objs[m.idMap[id]].id] = m.idMap[id]
  /\ m.named = {m.objs[m.idMap[id]].id : id \in {i \in DOMAIN m.idMap :
                   m.objs[m.idMap[i]].name # ""}}
  /\ m.entryPointSet = Range(m.entryPoints)
  /\ \A id \in DOMAIN m.idMap :
       LET e == m.objs[m.idMap[id]] IN e.line # 0 => m.lines[e.line].target = e.id
  /\ \A k \in DOMAIN m.lines :
       /\ m.lines[k].target \in DOMAIN m.idMap
       /\ m.lines[k].string \in DOMAIN m.idMap

\* An id that getId() hands out is not in use, whatever the forwards of the decoder
\* and the groups have taken: the bound in the header is above all ids of the file.
FreshIds ==
  /\ \A id \in DOMAIN m.idMap \cup Range(m.groups) : id < m.nextId
  /\ \A i, j \in DOMAIN m.groups : i # j => m.groups[i] # m.groups[j]

\* SPIR-V has an annotation in front of what it annotates, an id made once, and a string
\* in front of the lines that name it.
InLayout(instructions) ==
  \A j \in DOMAIN instructions :
    /\ \A i \in 1..(j - 1) :
         instructions[i].id = instructions[j].id => IsAnnotation(instructions[i])
    /\ instructions[j].op = "line" =>
         \E i \in 1..(j - 1) : instructions[i].id = instructions[j].string

Items       == {"parameter", "instruction"}
Definitions == {"string", "group", "global", "function"} \cup Items

\* What SPIR-V asks of the ids of a file in whatever order: each is made by an
\* instruction, strings are not annotated, a line names a string, and parameters and
\* instructions are in a function.
IdsMade(instructions) ==
  \A j \in DOMAIN instructions :
    /\ IsAnnotation(instructions[j]) \/ instructions[j].op \in Definitions
    /\ \E i \in DOMAIN instructions :
         instructions[i].id = instructions[j].id /\ ~IsAnnotation(instructions[i])
    /\ instructions[j].op = "string" =>
         \A i \in DOMAIN instructions :
           instructions[i].id = instructions[j].id => ~IsAnnotation(instructions[i])
    /\ instructions[j].op = "line" =>
         \E i \in DOMAIN instructions :
           instructions[i].op = "string" /\ instructions[i].id = instructions[j].string
    /\ instructions[j].op \in Items =>
         \E i \in 1 .. (j - 1) : instructions[i].op = "function"

ASSUME IdsAssumption == \A f \in Files : IdsMade(f.instructions)

\* The assertions "Annotations only allowed on forward" and "Id used twice", and the one
\* of getEntry(), fail on the files that do not keep to the layout of SPIR-V and on no
\* other; whatever the translator or a second operator<< writes keeps to it, and no
\* forward is left when it has been read.
LayoutSuffices ==
  /\ phase = "failed" => ~InLayout(file.instructions) /\ source = Empty
  /\ phase = "read" =>
       /\ InLayout(file.instructions)
       /\ \A id \in DOMAIN m.idMap : m.objs[m.idMap[id]].op # "forward"

\* What a module says of the entry with an id: its name, the line that was set last, its
\* modes (the literal of SubgroupSize, which is not read, apart).
LineOf(t, e) ==
  IF e.line = 0 THEN << >>
  ELSE LET l == t.lines[e.line] IN <<t.objs[t.idMap[l.string]].str, l.no>>
Said(t, id) ==
  LET e == t.objs[t.idMap[id]]
  IN [op |-> e.op, name |-> e.name, items |-> e.items, str |-> e.str, line |-> LineOf(t, e),
      modes |-> [k \in DOMAIN e.modes |-> IF k = "SubgroupSize" THEN << >> ELSE e.modes[k]]]
IdsOf(t, es) == [k \in DOMAIN es |-> t.objs[es[k]].id]

=============================================================================
