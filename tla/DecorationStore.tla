-------------------------- MODULE DecorationStore --------------------------
(***************************************************************************)
(* What the decorations of a SPIR-V module promise: as long as the module  *)
(* is being built, a decoration can be put on a target; from then on the   *)
(* module, in memory or in a file, means the same decorations, however     *)
(* often it is optimized, written and read back.                           *)
(***************************************************************************)
CONSTANT Possible     \* the decorations there can be: <<target, member, kind>>

VARIABLES decorated, open

Init == decorated \in SUBSET Possible /\ open \in BOOLEAN

Decorate == open /\ \E p \in Possible : decorated' = decorated \cup {p} /\ UNCHANGED open
Close    == open /\ open' = FALSE /\ UNCHANGED decorated

Spec == Init /\ [][Decorate \/ Close]_<<decorated, open>>
=============================================================================
