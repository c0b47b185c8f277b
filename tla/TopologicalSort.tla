-------------------------- MODULE TopologicalSort --------------------------
(***************************************************************************)
(* The class TopologicalSort of lib/SPIRV/libSPIRV/SPIRVModule.cpp: the    *)
(* depth-first search that decides in which order the encoder writes the   *)
(* types, constants and module-scope variables of a SPIR-V module.         *)
(*                                                                         *)
(* The C++ visit() is recursive.  Here its activation records are the      *)
(* variable stack (a frame is the entry being visited and the index of the *)
(* operand it looks at next), so that one step of the model is one turn of *)
(* the loop over getNonLiteralOperands() or one return.                    *)
(***************************************************************************)
EXTENDS Naturals, Sequences, FiniteSets

CONSTANT Graphs      \* the modules given to the encoder, see IsGraph

(***************************************************************************)
(* What the sort looks at.  Entries are named by their SPIR-V ids, the key *)
(* EntryStateMap is ordered by.  ConstInt is a constant of integer type,   *)
(* ConstOther any other constant, TypeOther any type that is neither an    *)
(* integer nor a pointer; a Function can be an operand of a constant but   *)
(* is collected in none of the vectors.                                    *)
(***************************************************************************)
OpCodes == {"TypeInt", "ConstInt", "TypePointer", "TypeOther", "ConstOther",
            "Variable", "Function"}

IsGraph(g) ==
  /\ DOMAIN g.opcode \subseteq Nat
  /\ g.opcode \in [DOMAIN g.opcode -> OpCodes]
  /\ g.operands \in [DOMAIN g.opcode -> Seq(DOMAIN g.opcode)]
  /\ \A e \in DOMAIN g.opcode : g.opcode[e] = "Function" => g.operands[e] = << >>
  /\ g.forward \subseteq {e \in DOMAIN g.opcode : g.opcode[e] = "TypePointer"}

ASSUME GraphsAssumption == \A g \in Graphs : IsGraph(g)

VARIABLES
  graph,     \* the module: opcode, operands and ForwardPointerVec as a set
  dfs,       \* EntryStateMap: the DFSState of every entry
  stack,     \* the activations of visit(), innermost last
  vec,       \* the five result vectors, by the layer they are written in
  status     \* "sorting", "sorted", or "cyclic" when the assertion fires

vars == <<graph, dfs, stack, vec, status>>

Entries     == DOMAIN graph.opcode
Frame       == [entry : Entries, next : Nat \ {0}]    \* an activation of visit()
Operands(e) == graph.operands[e]
DFSStates   == {"Unvisited", "Discovered", "Visited"}

(***************************************************************************)
(* The vector visit() appends an entry to, numbered in the order           *)
(* operator<< writes them: TypeIntVec, ConstIntVec, TypeVec, ConstVec,     *)
(* VariableVec.  Layer 6 stands for no vector.                             *)
(***************************************************************************)
Layers == 1..5
LayerOf == [TypeInt |-> 1, ConstInt |-> 2, TypePointer |-> 3, TypeOther |-> 3,
            ConstOther |-> 4, Variable |-> 5, Function |-> 6]
Layer(e) == LayerOf[graph.opcode[e]]

Collected == {e \in Entries : graph.opcode[e] # "Function"}

\* Mutant: every pointer is skipped, forward declared or not.
SkippedAnyPointer(op) == graph.opcode[op] = "TypePointer"

\* "Skip forward referenced pointers": whoever refers to them.
Skipped(op) == graph.opcode[op] = "TypePointer" /\ op \in graph.forward

\* operator<<(O, TopologicalSort): the order of the entries in the file.
Emitted == vec[1] \o (vec[2] \o (vec[3] \o (vec[4] \o vec[5])))

Init ==
  /\ graph \in Graphs
  /\ dfs = [e \in Entries |-> "Unvisited"]
  /\ stack = << >>
  /\ vec = [l \in Layers |-> << >>]
  /\ status = "sorting"

Top       == stack[Len(stack)]
TopOp     == Operands(Top.entry)[Top.next]
HasOp     == stack # << >> /\ Top.next <= Len(Operands(Top.entry))
AdvanceStuck == stack
Advance   == [stack EXCEPT ![Len(stack)].next = @ + 1]
Pop       == SubSeq(stack, 1, Len(stack) - 1)

\* Mutants: the loop forgets what is Visited; the operands start at 0.
StartVisitAgain ==
  /\ status = "sorting"
  /\ stack = << >>
  /\ \E e \in Collected :
       /\ dfs[e] # "Discovered"
       /\ Len(Emitted) <= Cardinality(Collected)
       /\ dfs' = [dfs EXCEPT ![e] = "Discovered"]
       /\ stack' = << [entry |-> e, next |-> 1] >>
  /\ UNCHANGED <<graph, vec, status>>
StartVisitFromZero ==
  /\ status = "sorting"
  /\ stack = << >>
  /\ \E e \in Collected :
       /\ dfs[e] = "Unvisited"
       /\ dfs' = [dfs EXCEPT ![e] = "Discovered"]
       /\ stack' = << [entry |-> e, next |-> 0] >>
  /\ UNCHANGED <<graph, vec, status>>

\* The constructor's loop reaches the next entry that is not Visited; the
\* calls of visit() for the entries it passes return at once.
StartVisit ==
  /\ status = "sorting"
  /\ stack = << >>
  /\ \E e \in Collected :
       /\ dfs[e] = "Unvisited"
       /\ \A f \in Collected : dfs[f] = "Unvisited" => e <= f
       /\ dfs' = [dfs EXCEPT ![e] = "Discovered"]
       /\ stack' = << [entry |-> e, next |-> 1] >>
  /\ UNCHANGED <<graph, vec, status>>

\* Mutant: the loop passes an operand nobody has visited yet.
PassOperandUnvisited ==
  /\ status = "sorting"
  /\ HasOp
  /\ Skipped(TopOp) \/ dfs[TopOp] # "Discovered"
  /\ stack' = Advance
  /\ UNCHANGED <<graph, dfs, vec, status>>

\* The operand is a pointer with an OpTypeForwardPointer, or is Visited.
PassOperand ==
  /\ status = "sorting"
  /\ HasOp
  /\ Skipped(TopOp) \/ dfs[TopOp] = "Visited"
  /\ stack' = Advance
  /\ UNCHANGED <<graph, dfs, vec, status>>

\* The recursive call visit(Op); the caller's loop resumes after the operand.
VisitOperand ==
  /\ status = "sorting"
  /\ HasOp
  /\ ~Skipped(TopOp)
  /\ dfs[TopOp] = "Unvisited"
  /\ dfs' = [dfs EXCEPT ![TopOp] = "Discovered"]
  /\ stack' = Append(stack, [entry |-> TopOp, next |-> 1])
  /\ UNCHANGED <<graph, vec, status>>

\* Mutant: the assertion tests State == Unvisited.
CyclicDependencyStrict ==
  /\ status = "sorting"
  /\ HasOp
  /\ ~Skipped(TopOp)
  /\ dfs[TopOp] # "Unvisited"
  /\ status' = "cyclic"
  /\ UNCHANGED <<graph, dfs, stack, vec>>

\* assert(State != Discovered && "Cyclic dependency detected")
CyclicDependency ==
  /\ status = "sorting"
  /\ HasOp
  /\ ~Skipped(TopOp)
  /\ dfs[TopOp] = "Discovered"
  /\ status' = "cyclic"
  /\ UNCHANGED <<graph, dfs, stack, vec>>

\* All operands are done: the entry is Visited and goes to its vector.  The
\* operand the caller descended into is Visited now, PassOperand steps over it.
FinishVisit ==
  /\ status = "sorting"
  /\ stack # << >>
  /\ Top.next > Len(Operands(Top.entry))
  /\ dfs' = [dfs EXCEPT ![Top.entry] = "Visited"]
  /\ vec' = IF Layer(Top.entry) \in Layers
            THEN [vec EXCEPT ![Layer(Top.entry)] = Append(@, Top.entry)]
            ELSE vec
  /\ stack' = Pop
  /\ UNCHANGED <<graph, status>>

Finish ==
  /\ status = "sorting"
  /\ stack = << >>
  /\ \A e \in Collected : dfs[e] = "Visited"
  /\ status' = "sorted"
  /\ UNCHANGED <<graph, dfs, stack, vec>>

Next ==
  \/ StartVisit
  \/ PassOperand
  \/ VisitOperand
  \/ CyclicDependency
  \/ FinishVisit
  \/ Finish

Spec     == Init /\ [][Next]_vars
FairSpec == Spec /\ WF_vars(Next)      \* the constructor runs to its end
-----------------------------------------------------------------------------
(***************************************************************************)
(* Properties.                                                             *)
(***************************************************************************)
\* Type invariant: the search stays within the collected module and its
\* state, frames and vectors have the shapes the C++ declarations give them.
TypeOK ==
  /\ IsGraph(graph)
  /\ dfs \in [Entries -> DFSStates]
  /\ stack \in Seq(Frame)
  /\ vec \in [Layers -> Seq(Entries)]
  /\ status \in {"sorting", "sorted", "cyclic"}

\* The operands that have to stand before e in this part of the file: all of
\* them but the pointers an OpTypeForwardPointer has declared and the functions,
\* which the file defines at its end.
Needed(e) ==
  {Operands(e)[i] : i \in DOMAIN Operands(e)} \cap (Collected \ graph.forward)

\* Where the fixed order of the five vectors does no harm: nothing needs an
\* operand of a later vector (a constant that needs the address of a variable
\* does).
IsLayered == \A e \in Collected : \A op \in Needed(e) : Layer(op) <= Layer(e)

\* "All operands must be declared before being used": in the file every entry
\* stands after its operands, forward declared pointers excepted.
AllOperandsDeclared ==
  \A i \in DOMAIN Emitted : \A op \in Needed(Emitted[i]) :
    \E j \in 1..(i - 1) : Emitted[j] = op

\* The order of visit() is right for every module in which the order of the
\* vectors is.
DeclaredBeforeUse == IsLayered => AllOperandsDeclared

\* No type, constant or variable is written twice, whatever operands share it,
\* and when the sort is over none is missing.
EmittedOnce ==
  /\ \A i, j \in DOMAIN Emitted : Emitted[i] = Emitted[j] => i = j
  /\ status = "sorted" => {Emitted[i] : i \in DOMAIN Emitted} = Collected

\* The assertion never fires on a module whose operands are well founded: when
\* it does, the entries of the activations from the operand on form a cycle of
\* operands of which none is forward declared.
CycleIsReal ==
  status = "cyclic" =>
    \E k \in DOMAIN stack :
      /\ stack[k].entry = TopOp
      /\ TopOp \in Needed(Top.entry)
      /\ \A m \in k..(Len(stack) - 1) : stack[m + 1].entry \in Needed(stack[m].entry)

\* The constructor comes to an end on every module, cyclic ones included.
Terminates == <>(status # "sorting")
=============================================================================
