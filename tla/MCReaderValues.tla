--------------------------- MODULE MCReaderValues ---------------------------
(***************************************************************************)
(* Finite families of SPIR-V modules for ReaderValues.                     *)
(***************************************************************************)
EXTENDS ReaderValues

\* A function of two blocks whose instructions use each other, themselves, a constant
\* and a function, in every way; a variable whose initializer may lead to a function;
\* a second function that may use the variable or call the first.
AnyBodies ==
  {[kind |-> <<k1, k2, "inst", "function", k5, "variable", "function", "inst">>,
    operands |-> <<a, b, c, << >>, d, e, << >>, g>>,
    roots |-> <<6, 4, 7>>,
    blocks |-> [f \in {4, 7} |-> IF f = 4 THEN << <<1, 2>>, <<3>> >> ELSE << <<8>> >>]] :
     k1 \in {"inst", "phi"}, k2 \in {"local", "inst"}, k5 \in {"const", "chain"},
     a \in {<<1>>, <<2, 3>>, <<3, 2>>, <<5, 3>>, <<7, 3>>, <<3, 3>>},
     b \in {<< >>, <<2, 1>>, <<3, 5>>, <<7, 3>>},
     c \in {<<1, 2>>, <<7, 2>>, <<6, 3>>},
     d \in {<< >>, <<6>>, <<7>>},
     e \in {<< >>, <<5>>, <<7>>},
     g \in {<< >>, <<6, 8>>, <<4, 8>>}}

SmallBodies == {m \in AnyBodies : IsModule(m)}
=============================================================================
