--------------------------- MODULE TypeRoundTrip ---------------------------
(***************************************************************************)
(* The types of a module on their way into a file and back: transType      *)
(* (TypeTranslation) builds them, operator<< sorts them (TopologicalSort), *)
(* operator>> reads them, creates the forward pointers again, and          *)
(* ConvertSPIRV writes what was read a second time.                        *)
(***************************************************************************)
EXTENDS TypeTranslation

CONSTANT Writes        \* how often the module is written
ASSUME WritesAssumption == Writes \in Nat \ {0}

VARIABLES
  graph, dfs, stack, vec, status,   \* the sort, see TopologicalSort
  file,      \* the type declarations in the file, as ids
  declared,  \* how many of them have been read
  written    \* how many times the module has been written

sortVars == <<graph, dfs, stack, vec, status>>
fileVars == <<file, declared, written>>
vars     == <<transVars, sortVars, fileVars>>

Sort == INSTANCE TopologicalSort WITH Graphs <- {}

OpcodeOf == [scalar |-> "TypeOther", pointer |-> "TypePointer", vector |-> "TypeOther",
             array |-> "TypeOther", struct |-> "TypeOther", function |-> "TypeOther"]

RInit ==
  /\ Init
  /\ graph = << >> /\ dfs = << >> /\ stack = << >>
  /\ vec = [l \in Sort!Layers |-> << >>] /\ status = "idle"
  /\ file = << >> /\ declared = 0 /\ written = 0

RTranslate == Translate /\ UNCHANGED <<sortVars, fileVars>>

\* The constructor TopologicalSort(TypeVec, ..., ForwardPointerVec).
StartSort ==
  /\ phase = "translated"
  /\ status = "idle"
  /\ written < Writes
  /\ graph' = [opcode   |-> [id \in DOMAIN entry |-> OpcodeOf[Code(id)]],
               operands |-> [id \in DOMAIN entry |-> entry[id].operands],
               forward  |-> forward]
  /\ dfs' = [id \in DOMAIN entry |-> "Unvisited"]
  /\ stack' = << >>
  /\ vec' = [l \in Sort!Layers |-> << >>]
  /\ status' = "sorting"
  /\ UNCHANGED <<transVars, fileVars>>

RSort == Sort!Next /\ UNCHANGED <<transVars, fileVars>>

Write ==
  /\ status = "sorted"
  /\ file' = Sort!Emitted
  /\ declared' = 0
  /\ written' = written + 1
  /\ status' = "reading"
  /\ UNCHANGED <<transVars, graph, dfs, stack, vec>>

\* Mutant: the members of a struct are resolved as well.
LookedUpAll(id) == Members(id)

\* What decode() and addEntry() look up while an entry is read.  The ids of the
\* members of a struct are kept, every other operand is resolved at once: by the
\* decoder of vectors, arrays and functions, by getRequiredCapability() for the
\* element of a pointer (ConvertSPIRV leaves AutoAddCapability on; ReadSPIRV turns
\* it off and does without the last).
LookedUp(id) == IF Code(id) = "struct" THEN {} ELSE Members(id)

Known == {file[i] : i \in 1..declared}

ReadType ==
  /\ status = "reading"
  /\ declared < Len(file)
  /\ LookedUp(file[declared + 1]) \subseteq Known
  /\ declared' = declared + 1
  /\ UNCHANGED <<transVars, sortVars, file, written>>

\* assert(Loc != IdEntryMap.end() && "Id is not in map")
ReadTypeUnknownId ==
  /\ status = "reading"
  /\ declared < Len(file)
  /\ ~(LookedUp(file[declared + 1]) \subseteq Known)
  /\ status' = "unknown id"
  /\ UNCHANGED <<transVars, graph, dfs, stack, vec, fileVars>>

\* Mutant: the forward pointers of the file are all there is.
ReadEndWithoutForward ==
  /\ status = "reading"
  /\ declared = Len(file)
  /\ typeVec' = file
  /\ forward' = {}
  /\ status' = "idle"
  /\ UNCHANGED <<prog, asked, calls, typeMap, entry, phase, graph, dfs, stack, vec, fileVars>>

\* The end of operator>>: the types are in TypeVec in the order of the file.
ReadEnd ==
  /\ status = "reading"
  /\ declared = Len(file)
  /\ typeVec' = file
  /\ forward' = ForwardPointers(file)
  /\ status' = "idle"
  /\ UNCHANGED <<prog, asked, calls, typeMap, entry, phase, graph, dfs, stack, vec, fileVars>>

RNext ==
  \/ RTranslate
  \/ StartSort
  \/ RSort
  \/ Write
  \/ ReadType
  \/ ReadTypeUnknownId
  \/ ReadEnd

RSpec     == RInit /\ [][RNext]_vars
RFairSpec == RSpec /\ WF_vars(RNext)     \* the translator runs to its end
-----------------------------------------------------------------------------
(***************************************************************************)
(* Properties.                                                             *)
(***************************************************************************)
\* Recursive types as clang makes them for lists and trees: the pointer that
\* closes the circle is itself a member of a struct.
DirectlyLinked ==
  \A t \in Types :
    Kind(t) \in {"pointer", "array", "vector"} => Kind(Elems(t)[1]) \in {"struct", "scalar"}

\* No type holds itself by value (it would have no size): every circle of types goes
\* through a pointer.
ValuesEnd ==
  \A t \in Types : \A u \in Range(Elems(t)) :
    Kind(t) # "pointer" => t \notin Found(u, Kinds \ {"pointer"})

\* "Cyclic dependency detected": one forward declaration per pointer that stands
\* behind a struct it is a member of breaks every circle of types.
CyclesBroken == status = "cyclic" => ~(DirectlyLinked /\ ValuesEnd)

\* "Id is not in map": what the sort puts in front is all the reader looks up.
OperandsRead == DirectlyLinked => status # "unknown id"

\* The second file is as good as the first: the module that is read creates the
\* forward pointers that were written, so the sort sees the same circles broken.
SameForward ==
  status = "idle" /\ written > 0 /\ DirectlyLinked =>
    ToSet(typeVec) = DOMAIN entry /\ forward = graph.forward

\* The recursion over the types, the sort and the two ways through the file come
\* to an end on recursive types too, if with a failed assertion.
RoundTripEnds ==
  <>(\/ phase = "unknown id"
     \/ status \in {"cyclic", "unknown id"}
     \/ status = "idle" /\ written = Writes)
=============================================================================
