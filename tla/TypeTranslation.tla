-------------------------- MODULE TypeTranslation --------------------------
(***************************************************************************)
(* LLVMToSPIRV::transType of lib/SPIRV/SPIRVWriter.cpp with recursiveType, *)
(* the type factories of lib/SPIRV/libSPIRV/SPIRVModule.cpp it calls and   *)
(* createForwardPointers: the translation of a graph of LLVM types, with   *)
(* structs that refer to themselves through pointers, to SPIR-V types.     *)
(*                                                                         *)
(* transType is recursive and remembers its results in TypeMap.  The       *)
(* variable calls holds its activation records, so that the state of the   *)
(* map and of the module between a call and its return is visible.         *)
(***************************************************************************)
EXTENDS Naturals, Sequences, FiniteSets, SequencesExt

CONSTANT Programs     \* LLVM modules, see IsProgram

(***************************************************************************)
(* The LLVM types of a module.  Scalar stands for every type that is       *)
(* translated without looking at another one: integers, floats, void,      *)
(* opaque structs, the OpenCL types.  The length of an array, a constant   *)
(* of the integer type size_t, is left out: it is sorted into layers of    *)
(* its own before all of these types (see TopologicalSort).                *)
(***************************************************************************)
Kinds == {"scalar", "pointer", "vector", "array", "struct", "function"}

\* kind and elems describe the type graph, roots are the types in the order
\* the translation of globals and functions asks for them.
IsProgram(p) ==
  LET types == DOMAIN p.kind IN
  /\ IsFiniteSet(types)
  /\ p.kind \in [types -> Kinds]
  /\ p.elems \in [types -> Seq(types)]
  /\ p.roots \in Seq(types)
  /\ \A t \in types :
       /\ p.kind[t] = "scalar" => p.elems[t] = << >>
       /\ p.kind[t] \in {"pointer", "vector", "array"} => Len(p.elems[t]) = 1
       /\ \A i \in DOMAIN p.elems[t] : p.kind[p.elems[t][i]] # "function"
       /\ p.kind[t] = "vector" => p.kind[p.elems[t][1]] \in {"scalar", "pointer"}

ASSUME ProgramsAssumption == \A p \in Programs : IsProgram(p)

VARIABLES
  prog,      \* the LLVM module
  asked,     \* how many of the roots have been translated
  calls,     \* the activations of transType, innermost last
  typeMap,   \* TypeMap: the SPIR-V id of the LLVM types translated so far
  entry,     \* the SPIR-V types made: LLVM type they stand for, operand ids
  typeVec,   \* TypeVec, the ids in the order the types were added
  forward,   \* ForwardPointerVec as a set
  phase      \* "types", "translated" or "unknown id"

transVars == <<prog, asked, calls, typeMap, entry, typeVec, forward, phase>>

Types      == DOMAIN prog.kind
Kind(t)    == prog.kind[t]
Elems(t)   == prog.elems[t]
NextId     == Cardinality(DOMAIN entry) + 1
Added      == Range(typeVec)
Code(id)   == Kind(entry[id].llvm)          \* the opcode of a SPIR-V type
Members(id) == Range(entry[id].operands)

\* The types found from t by looking into those of the given kinds.
Found(t, kinds) ==
  LET Step(ts) == ts \cup UNION {Range(Elems(u)) : u \in {v \in ts : Kind(v) \in kinds}}
      within[n \in Nat] == IF n = 0 THEN {t} ELSE Step(within[n - 1])
  IN within[Cardinality(Types)]

\* The types recursiveType() visits from t: it looks into structs, pointers
\* and arrays.
Visited(t) == Found(t, {"struct", "pointer", "array"})

\* Mutant: only the pointers among the members are looked at.
RecursiveThroughOnePointer(st, t) ==
  Kind(t) = "pointer" /\ Elems(t)[1] = st

\* recursiveType(ST, Ty): the struct is part of the member's type.
Recursive(st, t) == Kind(t) \in {"struct", "pointer", "array"} /\ st \in Visited(t)

\* Members that can be translated before the struct is complete, the others.
Early(t) == {i \in DOMAIN Elems(t) : ~Recursive(t, Elems(t)[i])}
Late(t)  == {i \in DOMAIN Elems(t) : Recursive(t, Elems(t)[i])}

Init ==
  /\ prog \in Programs
  /\ asked = 0
  /\ calls = << >>
  /\ typeMap = << >>
  /\ entry = << >>
  /\ typeVec = << >>
  /\ forward = {}
  /\ phase = "types"

Top     == calls[Len(calls)]
Place   == Min(Top.todo)                 \* the elements are asked for in their order
Element == Elems(Top.type)[Place]        \* the next type Top asks for
Running == phase = "types" /\ calls # << >>
Mapped  == DOMAIN typeMap

\* Mutant: the struct is not mapped when it is opened.
CallUnmapped(t) ==
  /\ t \notin Mapped
  /\ IF Kind(t) = "struct"
     THEN /\ calls' = Append(calls, [type |-> t, todo |-> Early(t), args |-> << >>,
                                     id |-> NextId, open |-> TRUE])
          /\ entry' = Append(entry, [llvm |-> t, operands |-> [i \in DOMAIN Elems(t) |-> 0]])
          /\ UNCHANGED typeMap
     ELSE /\ calls' = Append(calls, [type |-> t, todo |-> DOMAIN Elems(t), args |-> << >>,
                                     id |-> 0, open |-> FALSE])
          /\ UNCHANGED <<entry, typeMap>>

(***************************************************************************)
(* The beginning of transType(T) when T is not in TypeMap.  A struct is    *)
(* opened and mapped before its members are looked at; every other type is *)
(* made after its elements.                                                *)
(***************************************************************************)
Call(t) ==
  /\ t \notin Mapped
  /\ IF Kind(t) = "struct"
     THEN /\ calls' = Append(calls, [type |-> t, todo |-> Early(t), args |-> << >>,
                                     id |-> NextId, open |-> TRUE])
          /\ entry' = Append(entry, [llvm |-> t, operands |-> [i \in DOMAIN Elems(t) |-> 0]])
          /\ typeMap' = [u \in Mapped \cup {t} |-> IF u = t THEN NextId ELSE typeMap[u]]
     ELSE /\ calls' = Append(calls, [type |-> t, todo |-> DOMAIN Elems(t), args |-> << >>,
                                     id |-> 0, open |-> FALSE])
          /\ UNCHANGED <<entry, typeMap>>

\* A global or a function asks for its type.
Root ==
  /\ phase = "types"
  /\ calls = << >>
  /\ asked < Len(prog.roots)
  /\ LET t == prog.roots[asked + 1]
     IN IF t \in Mapped
        THEN asked' = asked + 1 /\ UNCHANGED <<calls, entry, typeMap>>
        ELSE Call(t) /\ UNCHANGED asked
  /\ UNCHANGED <<prog, typeVec, forward, phase>>

\* An element that is not in TypeMap is translated by a nested call.
Descend ==
  /\ Running
  /\ Top.todo # {}
  /\ Call(Element)
  /\ UNCHANGED <<prog, asked, typeVec, forward, phase>>

\* Mutant: the loop over the members does not go on.
TakeInPlace ==
  /\ Running
  /\ Top.todo # {}
  /\ Element \in Mapped
  /\ IF Kind(Top.type) = "struct"
     THEN entry' = [entry EXCEPT ![Top.id].operands[Place] = typeMap[Element]]
     ELSE UNCHANGED entry
  /\ UNCHANGED <<prog, asked, calls, typeMap, typeVec, forward, phase>>

\* The element is in TypeMap, or the nested call has returned: a struct gets
\* its member type, any other type keeps the id until it is made.
Take ==
  /\ Running
  /\ Top.todo # {}
  /\ Element \in Mapped
  /\ LET id == typeMap[Element]
         rest == [calls EXCEPT ![Len(calls)].todo = @ \ {Place}]
     IN IF Kind(Top.type) = "struct"
        THEN /\ entry' = [entry EXCEPT ![Top.id].operands[Place] = id]
             /\ calls' = rest
        ELSE /\ calls' = [rest EXCEPT ![Len(calls)].args = Append(@, id)]
             /\ UNCHANGED entry
  /\ UNCHANGED <<prog, asked, typeMap, typeVec, forward, phase>>

\* mapType(T, BT): a later type of the same T replaces an earlier one.
MapType(t, id) ==
  typeMap' = [u \in Mapped \cup {t} |-> IF u = t THEN id ELSE typeMap[u]]

\* A pointer asks its element for the capabilities when it is added; the id of
\* a struct that is still open is in no map.
Resolves(t, args) == Kind(t) = "pointer" => args[1] \in Added

\* All elements are there: the type is made, added and mapped.
AddType ==
  /\ Running
  /\ Kind(Top.type) # "struct"
  /\ Top.todo = {}
  /\ Resolves(Top.type, Top.args)
  /\ entry' = Append(entry, [llvm |-> Top.type, operands |-> Top.args])
  /\ typeVec' = Append(typeVec, NextId)
  /\ MapType(Top.type, NextId)
  /\ calls' = Front(calls)
  /\ UNCHANGED <<prog, asked, forward, phase>>

\* assert(Loc != IdEntryMap.end() && "Id is not in map")
AddTypeUnknownId ==
  /\ Running
  /\ Kind(Top.type) # "struct"
  /\ Top.todo = {}
  /\ ~Resolves(Top.type, Top.args)
  /\ phase' = "unknown id"
  /\ UNCHANGED <<prog, asked, calls, typeMap, entry, typeVec, forward>>

\* Mutant: the late members are forgotten.
CloseStructOnly ==
  /\ Running
  /\ Top.open
  /\ Top.todo = {}
  /\ typeVec' = Append(typeVec, Top.id)
  /\ calls' = [calls EXCEPT ![Len(calls)].open = FALSE]
  /\ UNCHANGED <<prog, asked, typeMap, entry, forward, phase>>

\* closeStructType, before the members that refer back to the struct.
CloseStruct ==
  /\ Running
  /\ Top.open
  /\ Top.todo = {}
  /\ typeVec' = Append(typeVec, Top.id)
  /\ calls' = [calls EXCEPT ![Len(calls)].open = FALSE, ![Len(calls)].todo = Late(Top.type)]
  /\ UNCHANGED <<prog, asked, typeMap, entry, forward, phase>>

ReturnStruct ==
  /\ Running
  /\ Kind(Top.type) = "struct"
  /\ ~Top.open
  /\ Top.todo = {}
  /\ calls' = Front(calls)
  /\ UNCHANGED <<prog, asked, typeMap, entry, typeVec, forward, phase>>

\* Mutant: Seen is filled before the members are looked at.
ForwardPointersSeenAll(vec) ==
  {p \in DOMAIN entry :
     /\ Code(p) = "pointer"
     /\ \E i \in DOMAIN vec :
          /\ Code(vec[i]) = "struct"
          /\ p \in Members(vec[i])
          /\ \A j \in DOMAIN vec : vec[j] # p}

\* createForwardPointers on types in a given order: the pointers that are a
\* member of a struct and stand behind it.
ForwardPointers(vec) ==
  {p \in DOMAIN entry :
     /\ Code(p) = "pointer"
     /\ \E i \in DOMAIN vec :
          /\ Code(vec[i]) = "struct"
          /\ p \in Members(vec[i])
          /\ \A j \in 1..i : vec[j] # p}

CreateForwardPointers ==
  /\ phase = "types"
  /\ calls = << >>
  /\ asked = Len(prog.roots)
  /\ forward' = ForwardPointers(typeVec)
  /\ phase' = "translated"
  /\ UNCHANGED <<prog, asked, calls, typeMap, entry, typeVec>>

Translate ==
  \/ Root
  \/ Descend
  \/ Take
  \/ AddType
  \/ AddTypeUnknownId
  \/ CloseStruct
  \/ ReturnStruct
  \/ CreateForwardPointers

Spec == Init /\ [][Translate]_transVars
-----------------------------------------------------------------------------
(***************************************************************************)
(* Properties.                                                             *)
(***************************************************************************)
\* Type invariant: TypeMap, the SPIR-V types and TypeVec refer to each other's
\* ids, and an open struct is mapped but in no vector.
TypeOK ==
  /\ IsProgram(prog)
  /\ asked \in 0..Len(prog.roots)
  /\ Mapped \subseteq Types
  /\ \A t \in Mapped : typeMap[t] \in DOMAIN entry
  /\ \A id \in DOMAIN entry :
       entry[id].llvm \in Types /\ Members(id) \subseteq DOMAIN entry \cup {0}
  /\ Added \cup {calls[k].id : k \in {k \in DOMAIN calls : calls[k].open}} = DOMAIN entry
  /\ forward \subseteq DOMAIN entry
  /\ phase \in {"types", "translated", "unknown id"}

\* recursiveType() finds every member that leads back to the struct, vectors of
\* pointers excepted, which it does not look into: no pointer to a struct is added
\* while the struct is open, and the assertion "Id is not in map" of getEntry()
\* does not fire.
PointersInVectors == \E t \in Types : Kind(t) = "vector" /\ Kind(Elems(t)[1]) = "pointer"
EveryIdKnown == phase = "unknown id" => PointersInVectors

\* The type graph reaches t from one of its own elements.
OnCycle(t) == \E u \in Range(Elems(t)) : t \in Found(u, Kinds)

\* TypeMap is entered before the members of a struct are translated and after the
\* elements of any other type: a struct that is reached again inside itself is not
\* made a second time, and another type only if it is part of itself.
TwiceOnlyOnCycle ==
  \A a, b \in DOMAIN entry :
    entry[a].llvm = entry[b].llvm /\ a # b =>
      Code(a) # "struct" /\ OnCycle(entry[a].llvm)

\* When the translation is over, every type has for its elements translations of
\* the elements of its LLVM type: no member of a struct has been left open.
SameStructure ==
  phase = "translated" =>
    \A id \in DOMAIN entry :
      LET t == entry[id].llvm
      IN /\ Len(entry[id].operands) = Len(Elems(t))
         /\ \A i \in DOMAIN Elems(t) :
              /\ entry[id].operands[i] \in DOMAIN entry
              /\ entry[entry[id].operands[i]].llvm = Elems(t)[i]
=============================================================================
