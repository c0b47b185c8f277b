--------------------------- MODULE LowerOCLBlocks ---------------------------
(***************************************************************************)
(* The pass SPIRVLowerOCLBlocks (lib/SPIRV/SPIRVLowerOCLBlocks.cpp).  A    *)
(* block is made by spir_block_bind(function, context) and called through  *)
(* spir_get_block_invoke and spir_get_block_context; the pass replaces     *)
(* these calls by direct ones, in rounds over all binds, until a round     *)
(* changes nothing.  A function that returns a block is inlined, "since    *)
(* the context cannot be passed to another function".                      *)
(*                                                                         *)
(* An instruction has an op code:                                          *)
(*   alloca                 captured variables, the context of a block     *)
(*   bind fun ctx           spir_block_bind                                *)
(*   invoke arg             spir_get_block_invoke of a block               *)
(*   context arg            spir_get_block_context of a block              *)
(*   cast arg               a bitcast of an invoke                         *)
(*   indirect arg ctx       a call of an invoke, or of a cast of one       *)
(*   builtin arg            enqueue_kernel and the like, with a block      *)
(*   enqueue fun ctx        the same in SPIR-V                             *)
(*   call fun ctx           a direct call                                  *)
(*   ret arg                the return of a block                          *)
(* The block of an invoke or context is an instruction, or None for the    *)
(* load of a constant block, whose function is then in fun.  An            *)
(* instruction is named by a sequence: its number in the program, behind   *)
(* those of the calls through which it was inlined.                        *)
(***************************************************************************)
EXTENDS Naturals, SequencesExt

CONSTANT Programs   \* the programs, with the rounds after which the pass gives up on them:
                    \* [inst, functions, internal, constants, maxIter]

ASSUME MaxIterAssumption == \A p \in Programs : p.maxIter \in Nat   \* 1000 in the code

None == <<>>
NoFunction == 0
Intrinsics == {"bind", "invoke", "context"}

VARIABLES
  prog,      \* the program
  inst,      \* the instructions by name, each with its function
  funcs,     \* the functions of the module
  casts,     \* constant expressions that cast a function: for binds, for enqueues
  decls,     \* the intrinsics that are declared
  binds,     \* binds the round has still to visit
  bind,      \* the bind at hand
  users,     \* its users that are still to be visited
  calls,     \* calls of the function that returns it, still to be visited
  inlined,   \* one of them was inlined
  changed,   \* the round has changed the module
  iter,      \* rounds that are left
  phase

round == <<binds, bind, users, calls, inlined, changed, iter, phase>>
vars  == <<prog, inst, funcs, casts, decls, round>>

Origin(k)   == <<Last(k)>>   \* the instruction of the program this one is or is a copy of
OfOp(i, op)  == {k \in DOMAIN i : i[k].op = op}
UsersIn(i, v) == {k \in DOMAIN i : v # None /\ (i[k].arg = v \/ (i[k].op # "bind" /\ i[k].ctx = v))}
Users(v)     == UsersIn(inst, v)
Without(i, ks) == [k \in DOMAIN i \ ks |-> i[k]]
Declared(i)  == {op \in Intrinsics : OfOp(i, op) # {}}

Init ==
  /\ prog \in Programs
  /\ inst = prog.inst
  /\ funcs = prog.functions
  /\ casts = {<<"bind", inst[k].fun>> : k \in OfOp(inst, "bind")}
  /\ decls = Declared(inst)
  /\ binds = {} /\ bind = None /\ users = {} /\ calls = {}
  /\ inlined = FALSE /\ changed = FALSE /\ iter = prog.maxIter
  /\ phase = IF "bind" \in decls THEN "round" ELSE "invokes"

-----------------------------------------------------------------------------
(***************************************************************************)
(* lowerBlockBind.  The order of the users is that of LLVM's use lists,    *)
(* which is any.                                                           *)
(***************************************************************************)
StartRound ==
  /\ phase = "round"
  /\ binds' = OfOp(inst, "bind")
  /\ changed' = FALSE
  /\ phase' = "binds"
  /\ UNCHANGED <<prog, inst, funcs, casts, decls, bind, users, calls, inlined, iter>>

TakeBind ==
  /\ phase = "binds"
  /\ \E b \in binds :
       /\ bind' = b
       /\ binds' = binds \ {b}
       /\ users' = Users(b)
  /\ phase' = "users"
  /\ UNCHANGED <<prog, inst, funcs, casts, decls, calls, inlined, changed, iter>>

\* while (lowerBlockBind(F) && Iter > 0) and the assertion behind it
EndRound(isChanged) ==
  IF isChanged /\ iter > 0
  THEN iter' = iter - 1 /\ phase' = "round"
  ELSE UNCHANGED iter /\ phase' = IF iter > 0 THEN "invokes" ELSE "failed"

Use(u, op) == phase = "users" /\ u \in users /\ inst[u].op = op

CallsOf(f) == {c \in OfOp(inst, "call") : inst[c].fun = f}

LowerReturnBlock ==
  /\ \E u \in users :
       /\ Use(u, "ret")
       /\ calls' = CallsOf(inst[u].fn)
       /\ users' = users \ {u}
  /\ inlined' = FALSE
  /\ phase' = "calls"
  /\ UNCHANGED <<prog, inst, funcs, casts, decls, binds, bind, changed, iter>>

\* A call whose block nobody uses is erased.
EraseCall ==
  /\ phase = "calls"
  /\ \E c \in calls :
       /\ Users(c) = {}
       /\ inst' = Without(inst, {c})
       /\ calls' = calls \ {c}
  /\ changed' = TRUE
  /\ UNCHANGED <<prog, funcs, casts, decls, binds, bind, users, inlined, iter, phase>>

(***************************************************************************)
(* InlineFunction: the instructions of the function but its return are     *)
(* copied in place of the call, whose users get what the function returns. *)
(***************************************************************************)
Inlined(i, c) ==
  LET f       == i[c].fun
      body    == {k \in DOMAIN i : i[k].fn = f /\ i[k].op # "ret"}
      Copy(k) == IF k \in body THEN c \o k ELSE k
      Source(n) == CHOOSE k \in body : Copy(k) = n
      copies  == {Copy(k) : k \in body}
      result  == Copy(i[CHOOSE k \in DOMAIN i : i[k].fn = f /\ i[k].op = "ret"].arg)
  IN [n \in (DOMAIN i \ {c}) \cup copies |->
        IF n \in copies
        THEN [i[Source(n)] EXCEPT !.fn = i[c].fn, !.arg = Copy(@), !.ctx = Copy(@)]
        ELSE [i[n] EXCEPT !.arg = IF @ = c THEN result ELSE @]]

InlineCall ==
  /\ phase = "calls"
  /\ \E c \in calls :
       /\ Users(c) # {}
       /\ inst' = Inlined(inst, c)
       /\ calls' = calls \ {c}
  /\ inlined' = TRUE
  /\ UNCHANGED <<prog, funcs, casts, decls, binds, bind, users, changed, iter, phase>>

\* A bug in lowerReturnBlock: what it returns does not say that it has inlined.
EndReturnBlockQuietly ==
  /\ phase = "calls" /\ calls = {}
  /\ IF inlined
     THEN EndRound(changed) /\ binds' = {} /\ bind' = None /\ users' = {}
     ELSE phase' = "users" /\ UNCHANGED <<binds, bind, users, iter>>
  /\ UNCHANGED <<prog, inst, funcs, casts, decls, calls, inlined, changed>>

\* After inlining the round is over: "if (Inlined) return true".
EndReturnBlock ==
  /\ phase = "calls" /\ calls = {}
  /\ IF inlined
     THEN EndRound(TRUE) /\ binds' = {} /\ bind' = None /\ users' = {}
     ELSE phase' = "users" /\ UNCHANGED <<binds, bind, users, iter>>
  /\ UNCHANGED <<prog, inst, funcs, casts, decls, calls, inlined, changed>>

(***************************************************************************)
(* lowerGetBlockInvoke: of the calls behind a cast only the first user is  *)
(* lowered; the cast and the invoke stay while they have another.          *)
(***************************************************************************)
Called(i, c, f) == [i EXCEPT ![c].op = "call", ![c].arg = None, ![c].fun = f]
InvokeLowered(u, f, first) ==
  LET direct  == {k \in Users(u) : inst[k].op = "indirect"}
      lowered == direct \cup Range(first)
      callsMade == [k \in DOMAIN inst |->
        IF k \in lowered THEN Called(inst, k, f)[k] ELSE inst[k]]
      erased  == {k \in DOMAIN first : UsersIn(callsMade, k) = {}}
      left    == Without(callsMade, erased)
  IN IF UsersIn(left, u) = {} THEN Without(left, {u}) ELSE left

\* For each cast of the invoke its first user.
FirstUsers(u) ==
  LET cs == {k \in Users(u) : inst[k].op = "cast"}
  IN {first \in [cs -> DOMAIN inst] : \A k \in cs : first[k] \in Users(k)}

UseInvoke ==
  /\ \E u \in users :
       /\ Use(u, "invoke")
       /\ \E first \in FirstUsers(u) : inst' = InvokeLowered(u, inst[bind].fun, first)
       /\ changed' = (changed \/ Users(u) # {})
       /\ users' = users \ {u}
  /\ UNCHANGED <<prog, funcs, casts, decls, binds, bind, calls, inlined, iter, phase>>

\* A bug in lowerGetBlockContext: the context of the program's bind, not of its copy.
OriginalContext(i, u, ctx) ==
  Without([k \in DOMAIN i |-> IF i[k].ctx = u THEN [i[k] EXCEPT !.ctx = IF ctx = None THEN None ELSE Origin(ctx)]
                                   ELSE i[k]], {u})
\* lowerGetBlockContext: replaceAllUsesWith(Ctx)
ContextLowered(i, u, ctx) ==
  Without([k \in DOMAIN i |-> IF i[k].ctx = u THEN [i[k] EXCEPT !.ctx = ctx] ELSE i[k]], {u})

UseContext ==
  /\ \E u \in users :
       /\ Use(u, "context")
       /\ inst' = ContextLowered(inst, u, inst[bind].ctx)
       /\ users' = users \ {u}
  /\ changed' = TRUE
  /\ UNCHANGED <<prog, funcs, casts, decls, binds, bind, calls, inlined, iter, phase>>

\* lowerBlockBuiltin
UseBuiltin ==
  /\ \E u \in users :
       /\ Use(u, "builtin")
       /\ inst' = [inst EXCEPT ![u].op = "enqueue", ![u].arg = None,
                               ![u].fun = inst[bind].fun, ![u].ctx = inst[bind].ctx]
       /\ users' = users \ {u}
  /\ casts' = casts \cup {<<"enqueue", inst[bind].fun>>}
  /\ changed' = TRUE
  /\ UNCHANGED <<prog, funcs, decls, binds, bind, calls, inlined, iter, phase>>

\* erase(CallBlkBind), which does nothing while the bind has a user
EndBind ==
  /\ phase = "users" /\ users = {}
  /\ inst' = IF Users(bind) = {} THEN Without(inst, {bind}) ELSE inst
  /\ bind' = None
  /\ phase' = "binds"
  /\ UNCHANGED <<prog, funcs, casts, decls, binds, users, calls, inlined, changed, iter>>

(***************************************************************************)
(* eraseUselessFunctions, in the order of the functions: constant          *)
(* expressions that nobody uses go first, then the function, if it is      *)
(* internal or only declared.                                              *)
(***************************************************************************)
Erasable(f) == f \in prog.internal \/ \A k \in DOMAIN inst : inst[k].fn # f
EraseUseless(t, f) ==
  IF f \notin t.funcs \/ ~Erasable(f) THEN t
  ELSE LET Dead(c) == c[2] = f /\ \A k \in OfOp(t.inst, c[1]) : t.inst[k].fun # f
           cs    == {c \in t.casts : ~Dead(c)}
           erase == /\ f \notin {c[2] : c \in cs} \cup prog.constants
                    /\ \A k \in DOMAIN t.inst : t.inst[k].fun # f
       IN [inst    |-> IF erase THEN Without(t.inst, {k \in DOMAIN t.inst : t.inst[k].fn = f})
                       ELSE t.inst,
           funcs   |-> IF erase THEN t.funcs \ {f} ELSE t.funcs,
           casts   |-> cs,
           changed |-> t.changed \/ erase \/ cs # t.casts]

EraseUselessFunctions ==
  /\ phase = "binds" /\ binds = {}
  /\ LET N == Cardinality(prog.functions)
         start == [inst |-> inst, funcs |-> funcs, casts |-> casts, changed |-> changed]
         t == FoldLeft(EraseUseless, start, [f \in 1 .. N |-> f])
         unused == decls \ Declared(t.inst)
     IN /\ inst' = t.inst /\ funcs' = t.funcs /\ casts' = t.casts
        /\ decls' = decls \ unused
        /\ changed' = (t.changed \/ unused # {})
        /\ EndRound(t.changed \/ unused # {})
  /\ UNCHANGED <<prog, binds, bind, users, calls, inlined>>
-----------------------------------------------------------------------------
(***************************************************************************)
(* What the rounds have left: invokes and contexts of constant blocks.     *)
(***************************************************************************)
RoundsOver == UNCHANGED <<prog, funcs, casts, decls, binds, bind, calls, inlined, changed, iter>>

StartInvokes ==
  /\ phase = "invokes"
  /\ users' = OfOp(inst, "invoke")
  /\ phase' = "invoke"
  /\ UNCHANGED inst /\ RoundsOver

\* getBlockInvokeFuncAndContext
IsBlock(u) == inst[u].arg # None => inst[inst[u].arg].op = "bind"
BlockFunc(u) == IF inst[u].arg = None THEN inst[u].fun ELSE inst[inst[u].arg].fun
BlockContext(u) == IF inst[u].arg = None THEN None ELSE inst[inst[u].arg].ctx

LowerGetBlockInvoke ==
  /\ phase = "invoke"
  /\ \E u \in users :
       /\ Users(u) # {} => IsBlock(u)
       /\ \E first \in FirstUsers(u) : inst' = InvokeLowered(u, BlockFunc(u), first)
       /\ users' = users \ {u}
  /\ UNCHANGED phase /\ RoundsOver

StartContexts ==
  /\ phase = "invoke" /\ users = {}
  /\ users' = OfOp(inst, "context")
  /\ phase' = "context"
  /\ UNCHANGED inst /\ RoundsOver

LowerGetBlockContext ==
  /\ phase = "context"
  /\ \E u \in users :
       /\ IsBlock(u)
       /\ inst' = ContextLowered(inst, u, BlockContext(u))
       /\ users' = users \ {u}
  /\ UNCHANGED phase /\ RoundsOver

\* "Invalid block": the block is the result of a call.
InvalidBlock ==
  /\ phase \in {"invoke", "context"}
  /\ \E u \in users : ~IsBlock(u) /\ (phase = "invoke" => Users(u) # {})
  /\ phase' = "failed"
  /\ UNCHANGED <<prog, inst, funcs, casts, decls, binds, bind, users, calls, inlined, changed, iter>>

\* The declarations of intrinsics that are not used are erased.
Finish ==
  /\ phase = "context" /\ users = {}
  /\ decls' = Declared(inst)
  /\ phase' = "done"
  /\ UNCHANGED <<prog, inst, funcs, casts, binds, bind, users, calls, inlined, changed, iter>>

Next ==
  \/ StartRound \/ TakeBind
  \/ LowerReturnBlock \/ EraseCall \/ InlineCall \/ EndReturnBlock
  \/ UseInvoke \/ UseContext \/ UseBuiltin \/ EndBind \/ EraseUselessFunctions
  \/ StartInvokes \/ LowerGetBlockInvoke \/ StartContexts \/ LowerGetBlockContext
  \/ InvalidBlock \/ Finish

Spec == Init /\ [][Next]_vars
-----------------------------------------------------------------------------
(***************************************************************************)
(* What the program means.  A block is the bind its uses lead to, through  *)
(* the calls that return it, or a constant one.                            *)
(***************************************************************************)
BlockUsed(o) ==   \* the instruction with the block, for a builtin or an indirect call
  LET by == prog.inst[o].arg
  IN IF prog.inst[o].op = "builtin" THEN o
     ELSE IF prog.inst[by].op = "cast" THEN prog.inst[by].arg ELSE by

Returned(f) == LET rets == {k \in OfOp(prog.inst, "ret") : prog.inst[k].fn = f}
               IN IF rets = {} THEN None ELSE prog.inst[CHOOSE k \in rets : TRUE].arg

\* The name of the bind behind a block; None if a function that is only declared made it.
RECURSIVE BindOf(_, _)
BindOf(path, v) ==
  IF prog.inst[v].op = "bind" THEN path \o v
  ELSE LET w == Returned(prog.inst[v].fun)
       IN IF w = None THEN None ELSE BindOf(path \o v, w)

CallsMaker(f, g) ==
  \E k \in OfOp(prog.inst, "call") :
    /\ prog.inst[k].fn = f /\ prog.inst[k].fun = g
    /\ UsersIn(prog.inst, k) # {} /\ Returned(g) # None
RECURSIVE Makers(_, _)
Makers(f, n) ==
  LET next == {g \in prog.functions : CallsMaker(f, g)}
  IN IF n = 0 THEN next ELSE next \cup UNION {Makers(g, n - 1) : g \in next}
Recursive == \E f \in prog.functions : f \in Makers(f, Cardinality(prog.functions))

\* An invoke that is used, or a context, of a block of a function only declared; what an
\* internal function nobody calls does with one is erased before it matters.
Unknown ==
  \E k \in OfOp(prog.inst, "invoke") \cup OfOp(prog.inst, "context") :
    /\ prog.inst[k].arg # None /\ BindOf(<<>>, prog.inst[k].arg) = None
    /\ prog.inst[k].op = "invoke" => UsersIn(prog.inst, k) # {}
    /\ prog.inst[k].fn \in prog.internal =>
         \E c \in DOMAIN prog.inst : prog.inst[c].fun = prog.inst[k].fn

\* What a function does: its calls of blocks and those of the functions it calls.  The call
\* of a function for a block nobody uses is left out, as the pass erases it.
RECURSIVE Work(_, _)
Work(i, f) ==
  UNION {IF prog.inst[Origin(k)].op \in {"builtin", "indirect"} THEN {k}
         ELSE IF i[k].op = "call" /\ UsersIn(i, k) # {} THEN {k \o w : w \in Work(i, i[k].fun)}
         ELSE {} : k \in {j \in DOMAIN i : i[j].fn = f}}

Lowered(k) == inst[k].op \in {"call", "enqueue"} /\ prog.inst[Origin(k)].op # "call"
CallsItsBlock(k) ==
  LET u     == BlockUsed(Origin(k))
      const == prog.inst[u].arg = None
      b     == BindOf(Front(k), prog.inst[u].arg)
      c     == inst[k].ctx
  IN /\ inst[k].fun = prog.inst[IF const THEN u ELSE Origin(b)].fun
     /\ IF c = None THEN const
        ELSE /\ c \in DOMAIN inst /\ inst[c].fn = inst[k].fn
             /\ inst[c].op = "context" \/ (~const /\ c = Front(b) \o prog.inst[Origin(b)].ctx)

(***************************************************************************)
(* Every call and every enqueue the pass makes has the function and the    *)
(* context of the very block that was used there -- of two blocks one      *)
(* function made in two calls, the context of the right one -- and the     *)
(* context is in the function that uses it.  No function is erased that is *)
(* still used, and no function does more, less or other work than before,  *)
(* whatever was inlined, but for calls whose block nobody uses             *)
(* (lowerBlockBind, lowerReturnBlock, eraseUselessFunctions).              *)
(***************************************************************************)
BlocksCalled ==
  /\ \A k \in DOMAIN inst : Lowered(k) => CallsItsBlock(k)
  /\ \A k \in DOMAIN inst : inst[k].fun # NoFunction => inst[k].fun \in funcs
  /\ ~Recursive => \A f \in funcs : Work(inst, f) = Work(prog.inst, f)

\* What the pass leaves: blocks returned by functions others may call, enqueues of blocks
\* that no bind makes, and all but the first call through a cast of a constant block.
MayStay(k) ==
  LET o == Origin(k) IN
  CASE inst[k].op = "bind" -> inst[k].fn \notin prog.internal
    [] inst[k].op = "builtin" -> prog.inst[o].arg = None \/ BindOf(<<>>, prog.inst[o].arg) = None
    [] inst[k].op \in {"invoke", "cast"} -> prog.inst[BlockUsed(CHOOSE c \in DOMAIN prog.inst :
          prog.inst[c].op = "indirect" /\ o \in {prog.inst[c].arg, BlockUsed(c)})].arg = None
    [] inst[k].op = "indirect" -> /\ prog.inst[BlockUsed(o)].arg = None
                                  /\ Cardinality(UsersIn(prog.inst, prog.inst[o].arg)) > 1
    [] inst[k].op = "context" -> FALSE
    [] OTHER -> TRUE

(***************************************************************************)
(* The assertions fire ("Too many iterations", "Invalid block") exactly on *)
(* the programs that cannot be lowered: a function that returns a block    *)
(* and uses one of its own, by itself or through others, and a block of a  *)
(* function that is only declared.  Of the others nothing stays that       *)
(* SPIR-V cannot express, but what MayStay says (runOnModule).             *)
(***************************************************************************)
AllLowered ==
  /\ phase = "failed" => Recursive \/ Unknown
  /\ phase = "done" => ~Recursive /\ ~Unknown /\ \A k \in DOMAIN inst : MayStay(k)
=============================================================================
