-------------------------- MODULE MCTypeRoundTrip --------------------------
(***************************************************************************)
(* Finite families of LLVM types for TypeRoundTrip.                        *)
(***************************************************************************)
EXTENDS TypeRoundTrip

\* Structs inside each other and two pointers, every way to close a circle with
\* pointers that are members, and some with a pointer to a pointer or an array of
\* pointers in between.
LinkedStructs ==
  LET kind == <<"struct", "struct", "struct", "pointer", "pointer", "array">>
  IN {[kind |-> kind, elems |-> <<a, b, c, <<p>>, <<q>>, <<r>> >>, roots |-> roots] :
        a \in {<<2>>, <<2, 5>>, <<4, 2>>, <<4, 5>>, <<6, 4>>},
        b \in {<<4>>, <<5, 3>>, <<6, 5>>, <<3, 4>>},
        c \in {<< >>, <<4>>, <<5>>, <<4, 5>>},
        p \in 1..3, q \in 1..4, r \in {3, 5}, roots \in {<<1>>, <<4>>, <<5, 2>>}}

\* Two structs of which the second may be inside the first, a pointer to either
\* or to the other pointer, an array (or vector) of a pointer or of the second
\* struct, a function: every way to refer to each other, asked for from two sides.
AnyTypes ==
  LET kind(k) == <<"struct", "struct", "pointer", "pointer", k, "function">>
  IN {[kind |-> kind("array"), elems |-> <<a, b, <<p>>, <<q>>, <<r>>, <<3, 1>> >>, roots |-> roots] :
        a \in SeqOf({2, 3, 4, 5}, 2), b \in {<< >>, <<3>>, <<4>>, <<4, 3>>},
        p \in {1, 2}, q \in {1, 3}, r \in {2, 3, 4},
        roots \in {<<1, 6>>, <<4, 2>>}}
     \cup
     {[kind |-> kind("vector"), elems |-> <<a, <<3>>, <<1>>, <<2>>, <<r>>, <<3, 1>> >>, roots |-> <<6>>] :
        a \in SeqOf({2, 3, 4, 5}, 2), r \in {3, 4}}

AllTypes == LinkedStructs \cup AnyTypes
=============================================================================
