--------------------------- MODULE MCModuleTables ---------------------------
(***************************************************************************)
(* Small instances of ModuleTables.                                        *)
(***************************************************************************)
EXTENDS ModuleTables

OneName == {"a"}
OneFile  == {"f.cl"}

\* A function that is an entry point twice, with a name of its own too, and a
\* declaration that is none; the same with the name behind its function.
EntryPointTwice(n) ==
  <<[op |-> "entry point", id |-> 2, name |-> "a"],
    [op |-> "entry point", id |-> 2, name |-> n],
    [op |-> "mode", id |-> 2, kind |-> "LocalSizeHint", literals |-> <<1>>]>>
Functions ==
  <<[op |-> "function", id |-> 1, str |-> ""],
    [op |-> "parameter", id |-> 3, str |-> ""],
    [op |-> "function", id |-> 2, str |-> ""]>>
NameOf(n) == <<[op |-> "name", id |-> 2, name |-> n]>>
Foreign ==
  [bound : {4}, instructions :
     UNION {{EntryPointTwice(n) \o NameOf(n) \o Functions, EntryPointTwice(n) \o Functions \o NameOf(n)}
              : n \in {"a", "b"}}]
=============================================================================
