------------------------ MODULE MCValueTranslation ------------------------
(***************************************************************************)
(* Finite families of programs for ValueTranslation.                       *)
(***************************************************************************)
EXTENDS ValueTranslation

Kinds == <<"inst", "inst", "inst", "const", "global", "global">>

\* Three instructions that use each other, and themselves, in every way; a
\* constant expression over the first global; two globals whose initializers may
\* refer to each other.  Decorations and names where they can go wrong: on an
\* instruction, and on the constant's global.
Loops ==
  {[kind |-> Kinds, operands |-> <<a, b, c, <<5>>, d, e>>,
    turns |-> <<5, 6, 1, 2, 3>>,
    deco |-> <<d1, {"early", "late"}, {}, {}, {"early", "late"}, {}>>,
    named |-> {1, 2, 5}] :
     a \in {<< >>, <<1>>, <<2, 3>>, <<3, 2>>, <<4, 2>>, <<2, 2>>},
     b \in {<< >>, <<1, 2>>, <<3, 4>>, <<4, 1>>},
     c \in {<<1, 2>>, <<4, 3>>},
     d \in {<< >>, <<4>>, <<6>>}, e \in {<< >>, <<4>>, <<5>>},
     d1 \in {{"late"}, {}}}

\* A phi in the header of a loop that uses the converted value of the previous
\* iteration, and the conversion, which has a decoration.
ConvertInLoop ==
  {[kind |-> Kinds, operands |-> << <<2, 4>>, <<1>>, <<2>>, << >>, << >>, << >> >>,
    turns |-> <<5, 6, 1, 2, 3>>,
    deco |-> << {}, {"early"}, {}, {}, {}, {} >>,
    named |-> {}]}
=============================================================================
