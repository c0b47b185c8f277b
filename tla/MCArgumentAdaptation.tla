----------------------- MODULE MCArgumentAdaptation -----------------------
(***************************************************************************)
(* Finite families of programs for ArgumentAdaptation.                     *)
(***************************************************************************)
EXTENDS ArgumentAdaptation

Call(f, g, args) == [caller |-> f, callee |-> g, args |-> args]
Args == {<<0, 1>>, <<0, 2>>, <<1, 2>>, <<2, 1>>, <<1, 1>>}

\* A kernel, one that may be a kernel, a function that may call itself, and a builtin
\* that samples: every way to hand two arguments on.
AnyCalls ==
  {[arity |-> <<2, 2, 2, 2>>, typed |-> t, builtins |-> {4},
    metadata |-> <<k1, k2, <<"none", "none">>, <<"none", "none">> >>,
    calls |-> <<Call(1, 3, a), Call(2, 3, b), Call(3, 4, c), Call(3, g, d)>>] :
     k1 \in {<<"read", "write">>, <<"read", "sampler">>},
     k2 \in {<<"none", "none">>, <<"write", "sampler">>},
     a \in {<<1, 2>>, <<1, 1>>, <<0, 2>>}, b \in Args, c \in Args, d \in {<<1, 2>>, <<0, 2>>},
     g \in {2, 3, 4}, t \in BOOLEAN}
=============================================================================
