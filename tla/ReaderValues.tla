---------------------------- MODULE ReaderValues ----------------------------
(***************************************************************************)
(* SPIRVToLLVM::transValue, mapValue and transFunction of                  *)
(* lib/SPIRV/SPIRVReader.cpp: the translation of the variables and the     *)
(* functions of a SPIR-V module to LLVM.                                   *)
(*                                                                         *)
(* An operand whose instruction has not been translated yet becomes a      *)
(* placeholder, a load in the block at hand, which mapValue replaces when  *)
(* the turn of the instruction comes.  A call translates the function that *)
(* is called first, so the bodies of functions nest.                       *)
(***************************************************************************)
EXTENDS Naturals, Sequences, FiniteSets, SequencesExt

CONSTANT Modules      \* the SPIR-V modules to translate, see IsModule

(***************************************************************************)
(* The values of a module.  A variable is one of the module, its operand   *)
(* the initializer; a local one has no initializer and is one of the       *)
(* instructions of its function.  A chain is an OpSpecConstantOp that      *)
(* computes an address.  The function that an instruction calls is one of  *)
(* its operands, the labels of a branch or phi, which are there before     *)
(* all instructions, are left out.                                         *)
(***************************************************************************)
Instructions == {"inst", "phi", "local"}
Kinds        == Instructions \cup {"const", "chain", "variable", "function"}

\* roots: variables, then functions, in the order of the module.  blocks: those of a
\* function, as sequences of instructions.  A place is a block and an index in it.
FunctionsOf(m)    == {v \in DOMAIN m.kind : m.kind[v] = "function"}
InstructionsOf(m) == {v \in DOMAIN m.kind : m.kind[v] \in Instructions}
PlacesOf(m, f)    == UNION {{n} \X DOMAIN m.blocks[f][n] : n \in DOMAIN m.blocks[f]}
AtPlace(m, f, p)  == m.blocks[f][p[1]][p[2]]
BodyOf(m, f)      == {AtPlace(m, f, p) : p \in PlacesOf(m, f)}

\* Every instruction stands in a block, and in one only; only its function uses it.
IsModule(m) ==
  LET values    == DOMAIN m.kind
      insts     == InstructionsOf(m)
      functions == FunctionsOf(m)
  IN /\ m.kind \in [values -> Kinds]
     /\ m.operands \in [values -> Seq(values)]
     /\ \A v \in values : m.kind[v] \in {"local", "function"} => m.operands[v] = << >>
     /\ \A v \in values \ insts : Range(m.operands[v]) \cap insts = {}
     /\ m.roots \in Seq(values) /\ IsInjective(m.roots)
     /\ Range(m.roots) = {v \in values : m.kind[v] = "variable"} \cup functions
     /\ m.blocks \in [functions -> Seq(Seq(insts))]
     /\ \A v \in insts : \E f \in functions : v \in BodyOf(m, f)
     /\ \A f, g \in functions : \A p \in PlacesOf(m, f), q \in PlacesOf(m, g) :
          AtPlace(m, f, p) = AtPlace(m, g, q) => f = g /\ p = q
     /\ \A f \in functions : \A v \in BodyOf(m, f) :
          Range(m.operands[v]) \cap insts \subseteq BodyOf(m, f)

ASSUME ModulesAssumption == \A m \in Modules : IsModule(m)

VARIABLES
  module,       \* the SPIR-V module
  root,         \* how many of the roots have been asked for
  calls,        \* the activations of transValue and transFunction, innermost last
  obj,          \* the LLVM values in the order they were made
  valueMap,     \* ValueMap: the LLVM value (an index of obj) of a SPIR-V value
  placeholders, \* the keys of PlaceholderMap
  text,         \* the instructions of each LLVM block
  status        \* "translating", "translated", "failed", "crashed" or "endless"

vars == <<module, root, calls, obj, valueMap, placeholders, text, status>>

Values      == DOMAIN module.kind
Kind(v)     == module.kind[v]
Operands(v) == module.operands[v]
Mapped      == DOMAIN valueMap
Functions   == FunctionsOf(module)
Insts       == InstructionsOf(module)
Places(f)   == PlacesOf(module, f)
At(f, p)    == AtPlace(module, f, p)
Before(p, q) == p[1] < q[1] \/ (p[1] = q[1] /\ p[2] < q[2])
Blocks      == UNION {{f} \X DOMAIN module.blocks[f] : f \in Functions}
Put(f, x, y) == [z \in DOMAIN f \cup {x} |-> IF z = x THEN y ELSE f[z]]

Init ==
  /\ module \in Modules
  /\ root = 0 /\ calls = << >>
  /\ obj = << >> /\ valueMap = << >> /\ placeholders = {}
  /\ text = [b \in Blocks |-> << >>]
  /\ status = "translating"

Top     == calls[Len(calls)]
Running == status = "translating" /\ calls # << >>
InBody  == Running /\ Kind(Top.value) = "function"
InValue == Running /\ Kind(Top.value) # "function"
New     == Len(obj) + 1

\* An activation of transValue for a block, with the operands it has got so far; a
\* phi gives them to the LLVM phi at once.  An activation of transFunction, with the
\* place its loops over the blocks and their instructions have come to.
Frame(v, b) ==
  [value |-> v, block |-> b, at |-> << >>,
   held |-> IF Kind(v) = "phi" THEN << >> ELSE [i \in DOMAIN Operands(v) |-> 0]]
BodyFrame(f) == [value |-> f, block |-> << >>, at |-> <<1, 1>>, held |-> << >>]

(***************************************************************************)
(* mapValue(v, n): the placeholder of v, if there is one, gives its users  *)
(* to n and leaves its block.                                              *)
(***************************************************************************)
HasLoad(v) == v \in Mapped /\ obj[valueMap[v]].load
\* A bug in mapValue: the users of the placeholder keep it.
ReplaceNoUses(objs, v, n) == objs
ReplaceUses(objs, v, n) ==
  [k \in DOMAIN objs |-> [objs[k] EXCEPT !.ops =
     [i \in DOMAIN @ |-> IF HasLoad(v) /\ @[i] = valueMap[v] THEN n ELSE @[i]]]]
\* A bug in mapValue: the placeholder stays in its block.
RemovedNever(t, v) == t
Removed(t, v) ==
  [b \in DOMAIN t |-> IF HasLoad(v) THEN RemoveFirst(t[b], valueMap[v]) ELSE t[b]]

Value(v, ops) == [value |-> v, load |-> FALSE, ops |-> ops]

\* An instruction is made at the end of a block, and mapped.
Make(v, ops, b) ==
  /\ obj' = ReplaceUses(Append(obj, Value(v, ops)), v, New)
  /\ text' = Removed([text EXCEPT ![b] = Append(@, New)], v)
  /\ valueMap' = Put(valueMap, v, New)

\* transFunction: the function is in FuncMap and ValueMap before its body is looked at.
CallFunction(f) ==
  /\ obj' = Append(obj, Value(f, << >>))
  /\ valueMap' = Put(valueMap, f, New)
  /\ calls' = Append(calls, BodyFrame(f))

\* translate(): the next variable or function of the module.
TakeRoot ==
  /\ status = "translating" /\ calls = << >>
  /\ root < Len(module.roots)
  /\ LET v == module.roots[root + 1] IN
       CASE v \in Mapped         -> UNCHANGED <<calls, obj, valueMap>>
         [] Kind(v) = "variable" /\ v \notin Mapped ->
              calls' = <<Frame(v, << >>)>> /\ UNCHANGED <<obj, valueMap>>
         [] Kind(v) = "function" /\ v \notin Mapped -> CallFunction(v)
  /\ root' = root + 1
  /\ UNCHANGED <<module, placeholders, text, status>>

HasBlock == Top.at[1] \in DOMAIN module.blocks[Top.value]
HasTurn  == HasBlock /\ Top.at[2] \in DOMAIN module.blocks[Top.value][Top.at[1]]
Turn     == At(Top.value, Top.at)
Block    == <<Top.value, Top.at[1]>>
\* A bug in transFunction: the loop does not go on to the next instruction.
AdvancedNever == calls
Advanced == [calls EXCEPT ![Len(calls)].at[2] = @ + 1]

\* transFunction asks for its next instruction, transValue(BInst, F, BB, false): a
\* placeholder does not count as translated.
TakeInstruction ==
  /\ InBody /\ HasTurn /\ Kind(Turn) # "local"
  /\ Turn \notin Mapped \/ Turn \in placeholders
  /\ calls' = Append(Advanced, Frame(Turn, Block))
  /\ IF Kind(Turn) = "phi" THEN Make(Turn, << >>, Block) ELSE UNCHANGED <<obj, text, valueMap>>
  /\ UNCHANGED <<module, root, placeholders, status>>

TakeLocal ==
  /\ InBody /\ HasTurn /\ Kind(Turn) = "local"
  /\ IF Turn \in Mapped THEN UNCHANGED <<obj, text, valueMap>> ELSE Make(Turn, << >>, Block)
  /\ calls' = Advanced
  /\ UNCHANGED <<module, root, placeholders, status>>

NextBlock ==
  /\ InBody /\ HasBlock /\ ~HasTurn
  /\ calls' = [calls EXCEPT ![Len(calls)].at = <<@[1] + 1, 1>>]
  /\ UNCHANGED <<module, root, obj, valueMap, placeholders, text, status>>

ReturnFunction ==
  /\ InBody /\ ~HasBlock
  /\ calls' = Front(calls)
  /\ UNCHANGED <<module, root, obj, valueMap, placeholders, text, status>>

\* The operands that are still to be asked for: those of a phi in their order, the
\* arguments of a constructor in any.
Wanted ==
  IF Kind(Top.value) = "phi"
  THEN {Len(obj[valueMap[Top.value]].ops) + 1} \cap DOMAIN Operands(Top.value)
  ELSE {i \in DOMAIN Top.held : Top.held[i] = 0}
Asked == {Operands(Top.value)[i] : i \in Wanted}

\* The operand is in ValueMap, as itself or as a placeholder.
UseMapped ==
  /\ InValue
  /\ \E i \in Wanted :
       LET v == Operands(Top.value)[i] IN
       /\ v \in Mapped
       /\ IF Kind(Top.value) = "phi"
          THEN obj' = [obj EXCEPT ![valueMap[Top.value]].ops = Append(@, valueMap[v])]
               /\ UNCHANGED calls
          ELSE calls' = [calls EXCEPT ![Len(calls)].held[i] = valueMap[v]] /\ UNCHANGED obj
  /\ UNCHANGED <<module, root, valueMap, placeholders, text, status>>

\* An instruction that comes later gets a placeholder in the block at hand.
MakePlaceholder ==
  /\ InValue
  /\ \E v \in Asked \ Mapped :
       /\ Kind(v) \in {"inst", "phi"}
       /\ obj' = Append(obj, [value |-> v, load |-> TRUE, ops |-> << >>])
       /\ text' = [text EXCEPT ![Top.block] = Append(@, New)]
       /\ valueMap' = Put(valueMap, v, New)
       /\ placeholders' = placeholders \cup {v}
  /\ UNCHANGED <<module, root, calls, status>>

\* A local variable needs none: it is made at once, in the block at hand.
MakeLocalEarly ==
  /\ InValue
  /\ \E v \in Asked \ Mapped : Kind(v) = "local" /\ Make(v, << >>, Top.block)
  /\ UNCHANGED <<module, root, calls, placeholders, status>>

\* The values that are being translated for the body at hand, or for a root.
Within ==
  {calls[k].value : k \in {j \in DOMAIN calls :
     \A m \in j .. Len(calls) : Kind(calls[m].value) # "function"}}

\* A constant, a variable of the module or a function is translated by a nested call.
Descend ==
  /\ InValue
  /\ \E v \in Asked \ (Mapped \cup Within) :
       \/ Kind(v) \in {"const", "variable"} /\ calls' = Append(calls, Frame(v, Top.block))
          /\ UNCHANGED <<obj, valueMap>>
       \/ Kind(v) = "function" /\ CallFunction(v)
  /\ UNCHANGED <<module, root, placeholders, text, status>>

\* A variable that its own initializer needs is translated again, and again.
Recurse ==
  /\ InValue
  /\ \E v \in Asked \ Mapped : v \in Within /\ Kind(v) \in {"const", "variable"}
  /\ status' = "endless"
  /\ UNCHANGED <<module, root, calls, obj, valueMap, placeholders, text>>

\* assert(BB && "Invalid BB"): the instruction made from an OpSpecConstantOp has no
\* block, and only a bitcast is translated without one.
InvalidBlock ==
  /\ InValue
  /\ \E v \in Asked \ Mapped : Kind(v) = "chain"
  /\ status' = "failed"
  /\ UNCHANGED <<module, root, calls, obj, valueMap, placeholders, text>>

\* All operands are there.  A constant with the same elements is the same constant.
CompleteConstant ==
  /\ InValue /\ Wanted = {} /\ Kind(Top.value) = "const"
  /\ IF Top.value \in Mapped
     THEN UNCHANGED <<obj, valueMap>>
     ELSE /\ obj' = Append(obj, Value(Top.value, Top.held))
          /\ valueMap' = Put(valueMap, Top.value, New)
  /\ calls' = Front(calls)
  /\ UNCHANGED <<module, root, placeholders, text, status>>

CompleteVariable ==
  /\ InValue /\ Wanted = {} /\ Kind(Top.value) = "variable"
  /\ Top.value \notin Mapped
  /\ obj' = Append(obj, Value(Top.value, Top.held))
  /\ valueMap' = Put(valueMap, Top.value, New)
  /\ calls' = Front(calls)
  /\ UNCHANGED <<module, root, placeholders, text, status>>

\* mapValue takes what is mapped for a placeholder and reads the variable it loads.
TranslatedTwice ==
  /\ InValue /\ Wanted = {} /\ Kind(Top.value) \in {"variable", "inst"}
  /\ Top.value \in Mapped /\ ~HasLoad(Top.value)
  /\ status' = "crashed"
  /\ UNCHANGED <<module, root, calls, obj, valueMap, placeholders, text>>

CompleteInstruction ==
  /\ InValue /\ Wanted = {} /\ Kind(Top.value) \in {"inst", "phi"}
  /\ IF Kind(Top.value) = "phi"
     THEN UNCHANGED <<obj, text, valueMap>>
     ELSE (Top.value \in Mapped => HasLoad(Top.value)) /\ Make(Top.value, Top.held, Top.block)
  /\ calls' = Front(calls)
  /\ UNCHANGED <<module, root, placeholders, status>>

Finish ==
  /\ status = "translating" /\ calls = << >> /\ root = Len(module.roots)
  /\ status' = "translated"
  /\ UNCHANGED <<module, root, calls, obj, valueMap, placeholders, text>>

Next ==
  \/ TakeRoot \/ TakeInstruction \/ TakeLocal \/ NextBlock \/ ReturnFunction
  \/ UseMapped \/ MakePlaceholder \/ MakeLocalEarly \/ Descend
  \/ Recurse \/ InvalidBlock \/ TranslatedTwice
  \/ CompleteConstant \/ CompleteVariable \/ CompleteInstruction
  \/ Finish

Spec     == Init /\ [][Next]_vars
FairSpec == Spec /\ WF_vars(Next)     \* translate() runs to its end
-----------------------------------------------------------------------------
Translated == status = "translated"

\* The tables have the types the code gives them.
TypeOK ==
  /\ root \in 0 .. Len(module.roots)
  /\ Mapped \subseteq Values /\ Range(valueMap) \subseteq DOMAIN obj
  /\ placeholders \subseteq {v \in Values : Kind(v) \in {"inst", "phi"}}
  /\ \A k \in DOMAIN obj : obj[k].value \in Values /\ Range(obj[k].ops) \subseteq DOMAIN obj
  /\ \A b \in Blocks : IsInjective(text[b]) /\ Range(text[b]) \subseteq DOMAIN obj
  /\ \A k \in DOMAIN calls :
       calls[k].value \in Values /\ Range(calls[k].held) \subseteq {0} \cup DOMAIN obj
  /\ status \in {"translating", "translated", "failed", "crashed", "endless"}

\* Local variables that an instruction in front of them uses, as happens when a block
\* with an alloca stands behind one that it dominates.
EarlyLocals ==
  {v \in Values : Kind(v) = "local" /\ \E f \in Functions : \E p, q \in Places(f) :
     Before(p, q) /\ At(f, q) = v /\ v \in Range(Operands(At(f, p)))}

\* The LLVM blocks hold the instructions of the SPIR-V blocks in their order, one for
\* each, and no placeholder: the loads that stood between them are gone.  Only a local
\* variable that is used before its turn is elsewhere.
InOrder ==
  Translated => \A b \in Blocks :
    LET insts   == module.blocks[b[1]][b[2]]
        Made(i) == obj[text[b][i]].value
        InTurn  == {i \in DOMAIN text[b] : Made(i) \notin EarlyLocals}
    IN /\ \A i \in DOMAIN text[b] : ~obj[text[b][i]].load
       /\ {Made(i) : i \in InTurn} = Range(insts) \ EarlyLocals
       /\ \A i, j \in InTurn : i < j =>
            \E k, l \in DOMAIN insts : k < l /\ insts[k] = Made(i) /\ insts[l] = Made(j)

\* Every value has the LLVM values of its operands, and no activation of transValue,
\* however deep in the bodies of called functions, is left with an operand that has
\* been replaced meanwhile and is destroyed.
OperandsAgree ==
  /\ \A k \in DOMAIN calls : \A i \in DOMAIN calls[k].held :
       LET v == Operands(calls[k].value)[i]
       IN calls[k].held[i] # 0 => v \in Mapped /\ calls[k].held[i] = valueMap[v]
  /\ Translated => \A v \in Mapped :
       obj[valueMap[v]].ops = [i \in DOMAIN Operands(v) |-> valueMap[Operands(v)[i]]]

\* What a value is made from, up to the bodies of functions.
Reached(v) ==
  LET Step(vs) == vs \cup UNION {Range(Operands(w)) : w \in vs}
                     \cup UNION {BodyOf(module, f) : f \in vs \cap Functions}
      within[n \in Nat] == IF n = 0 THEN Range(Operands(v)) ELSE Step(within[n - 1])
  IN within[Cardinality(Values)]

\* The translation ends.  It recurses without end, or translates a variable twice and
\* reads a placeholder that is none, only for a variable that its own initializer
\* leads back to; the assertion on blocks fails only for a computed address.
TranslationEnds ==
  <>(\/ Translated
     \/ status = "failed" /\ \E v \in Values : Kind(v) = "chain"
     \/ status = "endless" /\ \E v \in Values : Kind(v) = "variable" /\ v \in Reached(v)
     \/ status = "crashed" /\ \E v \in Values :
          /\ Kind(v) = "variable" /\ v \in Reached(v)
          /\ \E w \in Reached(v) : Kind(w) = "function")
=============================================================================
