-------------------------- MODULE MCLowerConstExpr --------------------------
(***************************************************************************)
(* Small modules for LowerConstExpr: three nested expressions.             *)
(***************************************************************************)
EXTENDS LowerConstExpr

CONSTANTS e1, e2, e3

\* e3 contains e2 and e1, e2 contains e1, e1 is made of a constant.
Nestings ==
  {[x \in {e1, e2, e3} |-> CASE x = e1 -> <<Leaf>> [] x = e2 -> bs [] x = e3 -> cs] :
     bs \in {<<e1>>, <<e1, e1>>}, cs \in {<<Leaf>>, <<e2, e1>>, <<e1, e2>>, <<e2, e2>>}}

\* Two instructions with up to two operands each in one function, one in the other.
AnyUses ==
  LET operands == SeqOf({e1, e2, e3, Leaf}, 2)
  IN {[args |-> n, bodies |-> << <<o, p>>, <<q>> >>] :
        n \in Nestings, o \in operands, p \in operands, q \in {<<e3, e2>>, <<Leaf, e1>>}}

ExprsOf == {e1, e2, e3}
=============================================================================
