--------------------------- MODULE LowerConstExpr ---------------------------
(***************************************************************************)
(* The pass SPIRVLowerConstExpr of lib/SPIRV/SPIRVLowerConstExpr.cpp.      *)
(* SPIR-V has no constant expressions, so in every function they are       *)
(* replaced by instructions at the front of the entry block.               *)
(***************************************************************************)
EXTENDS Integers, Sequences, FiniteSets, SequencesExt

CONSTANTS
  Exprs,      \* the constant expressions
  Leaf,       \* an operand of another kind: a constant, an argument, ...
  Modules     \* the modules to work on, see IsModule

ASSUME OperandsAssumption == Exprs \cap Int = {} /\ Leaf \notin Exprs \cup Int

(***************************************************************************)
(* A module: the operands of its constant expressions, which all functions *)
(* share and none of which contains itself, and for every function the     *)
(* operands of its instructions in the order of its text.                  *)
(***************************************************************************)
IsModule(m) ==
  /\ m.args \in [Exprs -> Seq(Exprs \cup {Leaf})]
  /\ \E rank \in [Exprs -> 1 .. Cardinality(Exprs)] :
       \A c \in Exprs : \A i \in DOMAIN m.args[c] :
         m.args[c][i] \in Exprs => rank[m.args[c][i]] < rank[c]
  /\ m.bodies \in Seq(Seq(Seq(Exprs \cup {Leaf})))

ASSUME ModulesAssumption == \A m \in Modules : IsModule(m)

(***************************************************************************)
(* An instruction is known by its place in its function: the ones that     *)
(* were there have the numbers 1, 2, ..., one put in front of them all a   *)
(* number below the lowest.  An operand that is such a number is the       *)
(* instruction that replaced an expression.                                *)
(***************************************************************************)
VARIABLES
  module,   \* the module as it was
  inst,     \* for each function, by number: what an instruction is made from, operands
  func,     \* the function at work (I), or one more than there are
  work,     \* WorkList
  cur,      \* the instruction taken from it (II)
  next      \* its operand to look at (OI), counted from 1; 0 when none is taken

vars == <<module, inst, func, work, cur, next>>

Functions  == DOMAIN module.bodies
Ops(f, n)  == inst[f][n].ops
Numbers(f) == IF f \in Functions THEN [n \in DOMAIN module.bodies[f] |-> n] ELSE << >>

Init ==
  /\ module \in Modules
  /\ inst = [f \in Functions |->
               [n \in DOMAIN module.bodies[f] |-> [from |-> Leaf, ops |-> module.bodies[f][n]]]]
  /\ func = 1 /\ work = Numbers(1)
  /\ cur = 0 /\ next = 0

\* A bug: front() without pop_front().
TakeInstructionAgain ==
  /\ next = 0
  /\ work # << >>
  /\ cur' = Head(work) /\ next' = 1
  /\ UNCHANGED <<module, inst, func, work>>

TakeInstruction ==
  /\ next = 0
  /\ work # << >>
  /\ cur' = Head(work) /\ work' = Tail(work) /\ next' = 1
  /\ UNCHANGED <<module, inst, func>>

\* Bugs: a made instruction is not in the work list; it stands at the end of the
\* function; any expression is replaced.
AddedNever(n)          == work
LastPlace              == 1 + CHOOSE n \in DOMAIN inst[func] : \A k \in DOMAIN inst[func] : k <= n
ReplacedAny(ops, c, n) == [i \in DOMAIN ops |-> IF ops[i] \in Exprs THEN n ELSE ops[i]]

\* InstUser of the function at work.
IsUser(f)    == f = func
\* WorkList.push_front(ReplInst).
Added(n)     == <<n>> \o work
\* ReplInst->insertBefore(FBegin->begin()).
FirstPlace   == (CHOOSE n \in DOMAIN inst[func] : \A k \in DOMAIN inst[func] : n <= k) - 1

\* replaceUsesOfWith(c, n)
Replaced(ops, c, n) == [i \in DOMAIN ops |-> IF ops[i] = c THEN n ELSE ops[i]]

\* The operand is a constant expression: getAsInstruction(), put in front of the
\* entry block, replaces it in all instructions of the function that use it.
LowerOperand ==
  /\ next # 0
  /\ next <= Len(Ops(func, cur))
  /\ Ops(func, cur)[next] \in Exprs
  /\ LET c   == Ops(func, cur)[next]
         new == FirstPlace
         users(f) == [n \in DOMAIN inst[f] |->
                        IF IsUser(f)
                        THEN [inst[f][n] EXCEPT !.ops = Replaced(@, c, new)]
                        ELSE inst[f][n]]
     IN /\ inst' = [f \in Functions |->
                      [n \in DOMAIN inst[f] \cup (IF f = func THEN {new} ELSE {}) |->
                         IF n \in DOMAIN inst[f] THEN users(f)[n]
                         ELSE [from |-> c, ops |-> module.args[c]]]]
        /\ work' = Added(new)
  /\ next' = next + 1
  /\ UNCHANGED <<module, func, cur>>

PassOperand ==
  /\ next # 0
  /\ next <= Len(Ops(func, cur))
  /\ Ops(func, cur)[next] \notin Exprs
  /\ next' = next + 1
  /\ UNCHANGED <<module, inst, func, work, cur>>

EndInstruction ==
  /\ next # 0
  /\ next > Len(Ops(func, cur))
  /\ next' = 0
  /\ UNCHANGED <<module, inst, func, work, cur>>

NextFunction ==
  /\ next = 0
  /\ work = << >>
  /\ func \in Functions
  /\ func' = func + 1
  /\ work' = Numbers(func + 1)
  /\ UNCHANGED <<module, inst, cur, next>>

Next ==
  \/ TakeInstruction
  \/ LowerOperand
  \/ PassOperand
  \/ EndInstruction
  \/ NextFunction

Spec     == Init /\ [][Next]_vars
FairSpec == Spec /\ WF_vars(Next)     \* visit() runs to its end
-----------------------------------------------------------------------------
Done == func = Len(module.bodies) + 1

\* The places of a function have no gaps, and the operands are in it.
Placed ==
  \A f \in Functions :
    /\ \E low \in {1} \cup DOMAIN inst[f] : low <= 1 /\ DOMAIN inst[f] = low .. Len(module.bodies[f])
    /\ \A n \in DOMAIN inst[f] :
         inst[f][n] \in [from : IF n > 0 THEN {Leaf} ELSE Exprs,
                         ops : Seq(Exprs \cup {Leaf} \cup DOMAIN inst[f])]

\* Type invariant of the module, the work list and the instruction at hand.
TypeOK ==
  /\ IsModule(module)
  /\ func \in 1 .. Len(module.bodies) + 1
  /\ Placed
  /\ work \in Seq(IF func \in Functions THEN DOMAIN inst[func] ELSE {})
  /\ next \in Nat /\ (next # 0 => func \in Functions /\ cur \in DOMAIN inst[func])

\* The function at hand is the only one that changes: what is made in the entry
\* block of a function stands in front of every instruction that uses it, however
\* deep the expressions are nested and whoever used them first.
DefinedBeforeUse ==
  \A f \in Functions : \A n \in DOMAIN inst[f] : \A i \in DOMAIN Ops(f, n) :
    Ops(f, n)[i] \in Int => Ops(f, n)[i] \in DOMAIN inst[f] /\ Ops(f, n)[i] < n

\* The operands an instruction had, or the expression it is made from.
Before(f, n) == IF n > 0 THEN module.bodies[f][n] ELSE module.args[inst[f][n].from]

\* Every instruction has the operands it had or instructions made from them: no use
\* is redirected to the value of another expression.
MeaningKept ==
  \A f \in Functions : \A n \in DOMAIN inst[f] :
    /\ DOMAIN Ops(f, n) = DOMAIN Before(f, n)
    /\ \A i \in DOMAIN Ops(f, n) :
         LET o == Ops(f, n)[i]
         IN IF o \in Int THEN inst[f][o].from = Before(f, n)[i] ELSE o = Before(f, n)[i]

\* No instruction of a function that is done has a constant expression for an
\* operand, those made on the way included.
AllLowered ==
  \A f \in Functions : f < func =>
    \A n \in DOMAIN inst[f] : \A i \in DOMAIN Ops(f, n) : Ops(f, n)[i] \notin Exprs

\* The work list runs empty in every function, although it is filled from its front.
Ends == <>Done
=============================================================================
