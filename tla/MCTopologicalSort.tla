------------------------- MODULE MCTopologicalSort -------------------------
(***************************************************************************)
(* Finite families of modules for TopologicalSort.                         *)
(***************************************************************************)
EXTENDS TopologicalSort, SequencesExt

\* Two structs (or arrays, vectors, functions) and two pointers, all ways to
\* refer to each other that need no struct inside itself, and every choice of
\* forward declared pointers, right or wrong.
RecursiveTypes ==
  LET code == <<"TypeOther", "TypePointer", "TypeOther", "TypePointer">>
  IN {[opcode |-> code, operands |-> <<m1, <<p2>>, m3, <<p4>> >>, forward |-> f] :
        m1 \in SeqOf({2, 3, 4}, 2), m3 \in SeqOf({2, 4}, 2),
        p2 \in {1, 3, 4}, p4 \in {1, 3}, f \in SUBSET {2, 4}}

\* Every kind of entry, those that refer before those they refer to, as in a
\* module that was read: variables with initializers, constants made of
\* integers and of the addresses of a variable or a function, integer constants
\* computed from other constants, an array with its length.
MixedEntries ==
  LET code == <<"Variable", "ConstOther", "ConstInt", "ConstInt", "TypeOther",
                "TypePointer", "TypeInt", "Function", "Variable", "ConstOther">>
  IN {[opcode |-> code,
       operands |-> <<v, c, ci, << >>, <<7, 4>>, <<p>>, << >>, << >>, w, d>>,
       forward |-> {}] :
        v \in {<< >>, <<2>>, <<3>>}, c \in SeqOf({3, 4, 8, 9, 10}, 2),
        ci \in {<< >>, <<9>>, <<4, 10>>}, p \in {5, 7},
        w \in {<< >>, <<4>>}, d \in {<< >>, <<4>>}}

AnyModules == RecursiveTypes \cup MixedEntries

\* The module of test/SPIRV/global-constant-expression.ll, names of the test:
\* k_var is initialized with two addresses inside a_var.
AddressesOfVariable ==
  {[opcode |-> <<"TypeInt", "ConstInt", "Variable", "ConstOther", "ConstOther",
                 "ConstOther", "Variable">>,
    operands |-> << << >>, << >>, << >>, <<3, 2, 2>>, <<3, 2, 2>>, <<4, 5>>, <<6>> >>,
    forward |-> {}]}
=============================================================================
