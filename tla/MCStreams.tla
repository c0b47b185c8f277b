------------------------------ MODULE MCStreams ------------------------------
(***************************************************************************)
(* Small instances of Streams, with bytes that have five values.           *)
(***************************************************************************)
EXTENDS Streams

AnyName(str) == Entry(Name, <<1>>, str, << >>, 0)
ListOf(op, n) ==
  Entry(op, [k \in 1 .. FixedWC[op] - 1 |-> k], << >>, [k \in 1 .. n |-> 1 + (k % 3)], FixedWC[op] + n)

\* All strings of up to five characters, in front of a struct.
ShortNames == {<<AnyName(str), ListOf(Struct, 2)>> : str \in SeqOf(1 .. 4, 5)}

\* Names and lists around a word count of 25, which is 2^16 in the code.
Lengths == {0, 1, 20, 21, 22, 23, 24}
LongNames ==
  {<<AnyName([k \in 1 .. 4 * n + l |-> Letter]), ListOf(Struct, 1)>> : n \in {20, 21, 22, 23}, l \in {0, 3}}
LongLists ==
  {<<ListOf(op, n), AnyName(<<Letter>>)>> : op \in {Struct, Composite}, n \in Lengths}

SmallModules == ShortNames \cup LongNames \cup LongLists
=============================================================================
