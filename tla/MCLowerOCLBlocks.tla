-------------------------- MODULE MCLowerOCLBlocks --------------------------
(***************************************************************************)
(* Programs for LowerOCLBlocks: a kernel, two functions of blocks, and two *)
(* functions that return blocks.                                           *)
(***************************************************************************)
EXTENDS LowerOCLBlocks

Kernel == 1
A == 2
B == 3
Maker == 4
Other == 5

\* Numbers as in the sequence of instructions, 0 for none.
I(op, arg, fun, ctx) == [fn |-> 0, op |-> op, arg |-> arg, fun |-> fun, ctx |-> ctx]

\* Where a block comes from, and in which instruction it is then.
Bind(f)     == [code |-> <<I("alloca", 0, 0, 0), I("bind", 0, f, 1)>>, at |-> 2, fun |-> 0]
CallOf(f)   == [code |-> <<I("call", 0, f, 0)>>, at |-> 1, fun |-> 0]
Constant(f) == [code |-> <<>>, at |-> 0, fun |-> f]

\* What is done with it.
Use1(kind, s) ==
  LET n == Len(s.code)
      invoke  == I("invoke", s.at, s.fun, 0)
      context == I("context", s.at, s.fun, 0)
      through == I("indirect", n + 3, 0, n + 2)
  IN CASE kind = "nothing" -> <<>>
       [] kind = "invoke"  -> <<invoke>>
       [] kind = "call"    -> <<invoke, context, I("indirect", n + 1, 0, n + 2)>>
       [] kind = "cast"    -> <<invoke, context, I("cast", n + 1, 0, 0), through>>
       [] kind = "casts"   -> <<invoke, context, I("cast", n + 1, 0, 0), through, through>>
       [] kind = "enqueue" -> <<I("builtin", s.at, s.fun, 0)>>
       [] kind = "return"  -> <<I("ret", s.at, 0, 0)>>
Piece(s, kind) == s.code \o Use1(kind, s)

\* Pieces one after the other, each in its function.
Moved(x, base, fn) == [x EXCEPT !.fn = fn, !.arg = IF @ = 0 THEN 0 ELSE @ + base,
                                !.ctx = IF @ = 0 THEN 0 ELSE @ + base]
Name(n) == IF n = 0 THEN None ELSE <<n>>
\* Recursive programs double in each round and get fewer rounds.
ProgramOf(code, internal, constants, maxIter) ==
  LET all == FoldLeft(LAMBDA done, p : done \o [n \in DOMAIN p.code |-> Moved(p.code[n], Len(done), p.fn)],
                      <<>>, code)
  IN [inst |-> [k \in {<<n>> : n \in DOMAIN all} |->
                  [all[k[1]] EXCEPT !.arg = Name(@), !.ctx = Name(@)]],
      functions |-> 1 .. 5, internal |-> internal, constants |-> constants,
      maxIter |-> maxIter]
Program(code, internal, constants) == ProgramOf(code, internal, constants, 7)
In(f, s, kind) == [fn |-> f, code |-> Piece(s, kind)]
InReturned(f, s, kind) ==   \* the same, and the block in front of it is returned
  [fn |-> f, code |-> Piece(s, kind) \o Use1("return", s)]
Nowhere == [fn |-> 0, code |-> <<>>]

\* The second function that returns blocks: one of the first, its own, or it is only declared.
Returning == {In(Other, CallOf(Maker), "return"), InReturned(Other, Bind(B), "enqueue"), Nowhere}
Maker1(kind) == InReturned(Maker, Bind(A), kind)

\* Blocks of functions, used in every way; the first may be called from elsewhere, too.
Made == {Program(<<In(Kernel, CallOf(f), kind), In(Kernel, CallOf(Maker), "cast"),
                   Maker1(k1), other>>, {A, B, Other} \cup hidden, {}) : k1 \in {"nothing", "enqueue", "call"},
           f \in {Maker, Other}, kind \in {"nothing", "invoke", "casts", "enqueue"},
           other \in Returning, hidden \in {{}, {Maker}}}

\* A function that returns a block calls itself for one it uses or not, or another function
\* that calls the first.
Self == {ProgramOf(<<In(Kernel, CallOf(Maker), "enqueue"), Maker1("nothing"), In(Maker, CallOf(Maker), kind)>>,
                   {A, B, Maker, Other}, {}, IF kind = "enqueue" THEN 2 ELSE 7) :
           kind \in {"nothing", "enqueue"}}
Mutual == {ProgramOf(<<In(Kernel, CallOf(Maker), "enqueue"), Maker1("nothing"), In(Maker, CallOf(Other), kind), other>>,
                     {A, B, Maker, Other}, {},
                     IF kind = "enqueue" /\ other # Nowhere THEN 2 ELSE 7) :
             kind \in {"nothing", "enqueue"}, other \in {In(Other, CallOf(Maker), "return"), Nowhere}}

\* Blocks the kernel makes itself, nested and constant ones.
Local == {Program(<<In(Kernel, s1, k1), In(Kernel, s2, k2), In(A, Bind(B), k3)>>, {A, B}, {B}) :
            s1 \in {Bind(A), Constant(B)}, k1 \in {"nothing", "invoke", "casts", "enqueue"},
            s2 \in {Bind(B), Constant(B)}, k2 \in {"call", "casts", "enqueue"},
            k3 \in {"nothing", "casts", "enqueue"}}

\* There may be no bind at all.
NoBind == {Program(<<In(Kernel, Constant(B), kind)>>, {A, B}, {B}) : kind \in {"call", "enqueue"}}

AllPrograms == Made \cup Self \cup Mutual \cup Local \cup NoBind
=============================================================================
