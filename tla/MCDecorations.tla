--------------------------- MODULE MCDecorations ---------------------------
(***************************************************************************)
(* Small modules for Decorations: three targets, two kinds of decorations. *)
(***************************************************************************)
EXTENDS Decorations

ThreeIds   == 1 .. 3
TwoMembers == 1 .. 2
Decos      == [target : {1, 2}, member : {0, 1, 2}, kind : Kinds]

\* Flat files of up to three decorations of entries and members, which may be repeated,
\* in which no two members of a struct have the same decoration.
FlatFiles ==
  {f \in SeqOf(Decos, 3) : \A i, j \in DOMAIN f : Equal(f[i], f[j]) => f[i] = f[j]}
=============================================================================
