------------------------ MODULE ArgumentAdaptation ------------------------
(***************************************************************************)
(* The pass OCLTypeToSPIRV of lib/SPIRV/OCLTypeToSPIRV.cpp.  In LLVM the   *)
(* arguments of OpenCL functions have lost part of their types: a sampler  *)
(* is an i32, an image does not tell how it is accessed.  The pass finds   *)
(* the types in the metadata of the kernels and in the uses of samplers    *)
(* and carries them along the calls, over a work list of functions.        *)
(***************************************************************************)
EXTENDS Naturals, Sequences, FiniteSets, SequencesExt

CONSTANT Programs     \* the modules to adapt, see IsProgram

(***************************************************************************)
(* A program: the number of arguments of its functions, what the metadata  *)
(* of a kernel says of an argument ("none": nothing, or a type that is not *)
(* adapted), the SampledImage builtins, whose second argument is a         *)
(* sampler, and the calls.  An argument of a call is an argument of the    *)
(* calling function or, as 0, another value.  In a typed program samplers  *)
(* are no i32, but have the type of SPIR-V already.                        *)
(***************************************************************************)
Adapted == {"sampler", "read", "write"}     \* the types an argument is adapted to

IsProgram(p) ==
  LET funcs == DOMAIN p.arity IN
  /\ funcs \subseteq Nat \ {0} /\ IsFiniteSet(funcs) /\ p.typed \in BOOLEAN
  /\ p.arity \in [funcs -> Nat]
  /\ \A f \in funcs : p.metadata[f] \in [1 .. p.arity[f] -> Adapted \cup {"none"}]
  /\ p.builtins \subseteq {f \in funcs : p.arity[f] >= 2}
  /\ \A i \in DOMAIN p.calls :
       LET c == p.calls[i] IN
       /\ c.caller \in funcs \ p.builtins /\ c.callee \in funcs
       /\ c.args \in [1 .. p.arity[c.callee] -> 0 .. p.arity[c.caller]]

ASSUME ProgramsAssumption == \A p \in Programs : IsProgram(p)

VARIABLES
  prog,       \* the module
  argType,    \* AdaptedTy of arguments, a function on pairs <<function, index>>
  funcType,   \* AdaptedTy of functions: the types of their arguments
  work,       \* WorkSet
  processed,  \* Processed of adaptArgumentsBySamplerUse
  untraced,   \* the builtins adaptArgumentsBySamplerUse has not come to
  traces,     \* the activations of TraceArg, innermost last
  current,    \* the activation of adaptFunction
  phase       \* "metadata", "samplers", "working", "done" or "failed"

vars == <<prog, argType, funcType, work, processed, untraced, traces, current, phase>>

Functions   == DOMAIN prog.arity
Arguments   == UNION {{f} \X (1 .. prog.arity[f]) : f \in Functions}
Users(f)    == {i \in DOMAIN prog.calls : prog.calls[i].callee = f}
ArgOf(i, n) == <<prog.calls[i].caller, prog.calls[i].args[n]>>
IsArg(i, n) == prog.calls[i].args[n] # 0
Put(f, x, y) == [z \in DOMAIN f \cup {x} |-> IF z = x THEN y ELSE f[z]]
TypeOf(a)   == IF a \in DOMAIN argType THEN argType[a] ELSE "own"
Idle        == [func |-> 0, next |-> 1, types |-> << >>]

Init ==
  /\ prog \in Programs
  /\ argType = << >> /\ funcType = << >>
  /\ work = {} /\ processed = {} /\ untraced = prog.builtins
  /\ traces = << >> /\ current = Idle
  /\ phase = "metadata"

\* adaptArgumentsByMetadata for every function of the module.
AdaptByMetadata ==
  /\ phase = "metadata"
  /\ LET known == {a \in Arguments : prog.metadata[a[1]][a[2]] # "none"} IN
       /\ argType' = [a \in known |-> prog.metadata[a[1]][a[2]]]
       /\ work' = {a[1] : a \in known}
  /\ phase' = "samplers"
  /\ UNCHANGED <<prog, funcType, processed, untraced, traces, current>>

\* A bug in TraceArg: the arguments of callers are not traced.
TracedOnce(f, n, ts) ==
  IF ts # << >> THEN ts ELSE <<[func |-> f, index |-> n, left |-> Users(f)]>>

\* TraceArg(F, Idx) is called: it returns at once if F was processed.
Traced(f, n, ts) ==
  IF f \in processed THEN ts ELSE Append(ts, [func |-> f, index |-> n, left |-> Users(f)])

\* The loop of adaptArgumentsBySamplerUse over the builtins.
TraceBuiltin ==
  /\ phase = "samplers" /\ traces = << >>
  /\ \E b \in untraced :
       /\ untraced' = untraced \ {b}
       /\ traces' = Traced(b, 2, traces)
       /\ processed' = processed \cup {b}
  /\ UNCHANGED <<prog, argType, funcType, work, current, phase>>

\* A bug in TraceArg: the loop does not go on.
NotPast(i) == traces

Top     == traces[Len(traces)]
Past(i) == [traces EXCEPT ![Len(traces)].left = @ \ {i}]
Unknown(i) == IsArg(i, Top.index) /\ ArgOf(i, Top.index) \notin DOMAIN argType

\* The loop of TraceArg comes to a call that passes no argument of its caller, or one
\* that is adapted already.
PassUser ==
  /\ traces # << >>
  /\ \E i \in Top.left : ~Unknown(i) /\ traces' = Past(i)
  /\ UNCHANGED <<prog, argType, funcType, work, processed, untraced, current, phase>>

\* It comes to an argument of the caller that is no i32 but a sampler in LLVM.
StopTrace ==
  /\ traces # << >>
  /\ prog.typed
  /\ \E i \in Top.left : Unknown(i)
  /\ traces' = Front(traces)
  /\ UNCHANGED <<prog, argType, funcType, work, processed, untraced, current, phase>>

\* It comes to an argument of the caller: this is a sampler, and is traced in turn.
TraceUser ==
  /\ traces # << >>
  /\ ~prog.typed
  /\ \E i \in Top.left :
       LET a == ArgOf(i, Top.index) IN
       /\ Unknown(i)
       /\ argType' = Put(argType, a, "sampler")
       /\ work' = work \cup {a[1]}
       /\ traces' = Traced(a[1], a[2], Past(i))
       /\ processed' = processed \cup {a[1]}
  /\ UNCHANGED <<prog, funcType, untraced, current, phase>>

ReturnTrace ==
  /\ traces # << >> /\ Top.left = {}
  /\ traces' = Front(traces)
  /\ UNCHANGED <<prog, argType, funcType, work, processed, untraced, current, phase>>

EndSamplers ==
  /\ phase = "samplers" /\ untraced = {} /\ traces = << >>
  /\ phase' = "working"
  /\ UNCHANGED <<prog, argType, funcType, work, processed, untraced, traces, current>>

\* A bug in runOnModule: the function stays in WorkSet.
StillInWork(f) == work

WithoutFirst(f) == work \ {f}

\* A function is taken from the work list, which is ordered by addresses.
TakeWork ==
  /\ phase = "working" /\ current = Idle
  /\ \E f \in work :
       /\ f \notin DOMAIN funcType
       /\ current' = [func |-> f, next |-> 1, types |-> << >>]
       /\ work' = WithoutFirst(f)
  /\ UNCHANGED <<prog, argType, funcType, processed, untraced, traces, phase>>

\* assert (AdaptedTy.count(F) == 0)
AdaptedBefore ==
  /\ phase = "working" /\ current = Idle
  /\ work \cap DOMAIN funcType # {}
  /\ phase' = "failed"
  /\ UNCHANGED <<prog, argType, funcType, work, processed, untraced, traces, current>>

\* A bug in adaptFunction: callees are adapted although their type is made.
AnyCallee(f) == TRUE

Open(f) == f \notin DOMAIN funcType

\* A bug in adaptFunction: the index of the caller's own argument is used.
CallerIndex(i, n) == n

\* getArgIndex: the first place at which a call has the argument.
ArgIndex(i, n) ==
  CHOOSE k \in DOMAIN prog.calls[i].args :
    /\ prog.calls[i].args[k] = n
    /\ \A j \in 1 .. k - 1 : prog.calls[i].args[j] # n

\* The calls adaptFunction hands the type of its argument n on to.
HandedTo(f, n) ==
  {i \in DOMAIN prog.calls :
     prog.calls[i].caller = f /\ n \in Range(prog.calls[i].args) /\ Open(prog.calls[i].callee)}

\* The loop of adaptFunction over the arguments, with the inner loop over the users.
AdaptArgument ==
  /\ current.func # 0 /\ current.next <= prog.arity[current.func]
  /\ LET a      == <<current.func, current.next>>
         handed == IF a \in DOMAIN argType THEN HandedTo(a[1], a[2]) ELSE {}
         params == {<<prog.calls[i].callee, ArgIndex(i, a[2])>> : i \in handed}
     IN /\ current' = [current EXCEPT !.next = @ + 1,
                                      !.types = Append(@, TypeOf(a))]
        /\ argType' = [b \in DOMAIN argType \cup params |->
                         IF b \in params THEN argType[a] ELSE argType[b]]
        /\ work' = work \cup {b[1] : b \in params}
  /\ UNCHANGED <<prog, funcType, processed, untraced, traces, phase>>

FinishFunction ==
  /\ current.func # 0 /\ current.next > prog.arity[current.func]
  /\ funcType' = IF Range(current.types) \subseteq {"own"} THEN funcType
                 ELSE Put(funcType, current.func, current.types)
  /\ current' = Idle
  /\ UNCHANGED <<prog, argType, work, processed, untraced, traces, phase>>

Finish ==
  /\ phase = "working" /\ current = Idle /\ work = {}
  /\ phase' = "done"
  /\ UNCHANGED <<prog, argType, funcType, work, processed, untraced, traces, current>>

Next ==
  \/ AdaptByMetadata
  \/ TraceBuiltin \/ PassUser \/ StopTrace \/ TraceUser \/ ReturnTrace \/ EndSamplers
  \/ TakeWork \/ AdaptedBefore \/ AdaptArgument \/ FinishFunction \/ Finish

Spec     == Init /\ [][Next]_vars
FairSpec == Spec /\ WF_vars(Next)     \* the pass runs to its end
-----------------------------------------------------------------------------
(***************************************************************************)
(* What the types ought to be, and the properties.                         *)
(***************************************************************************)
Passings  == UNION {{i} \X {n \in DOMAIN prog.calls[i].args : IsArg(i, n)} : i \in DOMAIN prog.calls}
Param(p)  == <<prog.calls[p[1]].callee, p[2]>>
Passed(p) == ArgOf(p[1], p[2])

\* The arguments that the given ones lead to along a relation of arguments.
Reach(links, from) ==
  LET Step(S) == S \cup {l[2] : l \in {k \in links : k[1] \in S}}
      within[n \in Nat] == IF n = 0 THEN from ELSE Step(within[n - 1])
  IN within[Cardinality(Arguments)]

\* Arguments that are given to a SampledImage builtin as its sampler, directly or
\* through the arguments of other functions.
SamplerUse  == {Passed(p) : p \in {q \in Passings : Param(q) \in prog.builtins \X {2}}}
SamplerArgs == Reach({<<Param(p), Passed(p)>> : p \in Passings}, SamplerUse)

\* The types that the metadata and the uses of samplers give, and these types carried
\* along the calls.
Given(y) ==
  {a \in Arguments : prog.metadata[a[1]][a[2]] = y}
  \cup (IF y = "sampler" /\ ~prog.typed THEN SamplerArgs ELSE {})
Carried(y) == Reach({<<Passed(p), Param(p)>> : p \in Passings}, Given(y))
Intended == UNION {Carried(y) \X {y} : y \in Adapted}

\* The tables have the types the code gives them.
TypeOK ==
  /\ IsProgram(prog)
  /\ DOMAIN argType \subseteq Arguments /\ Range(argType) \subseteq Adapted
  /\ \A f \in DOMAIN funcType : funcType[f] \in [1 .. prog.arity[f] -> Adapted \cup {"own"}]
  /\ work \cup processed \subseteq Functions /\ untraced \subseteq prog.builtins
  /\ \A k \in DOMAIN traces :
       <<traces[k].func, traces[k].index>> \in Arguments /\ traces[k].left \subseteq Users(traces[k].func)
  /\ current = Idle \/ (current.func \in Functions /\ Len(current.types) = current.next - 1)
  /\ phase \in {"metadata", "samplers", "working", "done", "failed"}

\* getAdaptedType(): the type of a function and the types of its arguments, which are
\* asked for at different times, never disagree, in whatever order the functions
\* were taken from the work list (for functions that do not call themselves).
CallsItself(f) == \E i \in Users(f) : prog.calls[i].caller = f
TypesAgree ==
  \A f \in DOMAIN funcType : ~CallsItself(f) =>
    \A n \in 1 .. prog.arity[f] :
      funcType[f][n] = TypeOf(<<f, n>>)

\* assert (AdaptedTy.count(F) == 0): no function is adapted twice, except one that
\* calls itself.
AdaptedOnce ==
  phase = "failed" => \E f \in Functions : CallsItself(f)

\* No argument is adapted without a reason, along whichever calls the type came.
OnlyIntended == phase = "done" => {<<a, argType[a]>> : a \in DOMAIN argType} \subseteq Intended

\* Programs for which all of this works out.  No argument is given to a call twice,
\* no two types meet, there is no recursion (functions are numbered so that callers
\* come first) and no kernel is called.  A function that is called has at most one
\* argument that is a sampler by its use; it has no other argument that is adapted
\* then, as the function may be worked on before its callers are; and its other
\* arguments that are adapted are arguments in every call.
Orderly ==
  LET needed(f)   == {s \in Intended : s[1][1] = f}
      samplers(f) == {a \in SamplerArgs : a[1] = f}
  IN /\ \A i \in DOMAIN prog.calls :
          LET c == prog.calls[i] IN
          /\ c.caller < c.callee
          /\ \A n \in DOMAIN c.args : prog.metadata[c.callee][n] = "none"
          /\ \A m, n \in DOMAIN c.args : m # n /\ IsArg(i, m) => c.args[m] # c.args[n]
          /\ samplers(c.callee) # {} => Cardinality(needed(c.callee)) = 1
          /\ \A s \in needed(c.callee) : samplers(c.callee) = {} => <<ArgOf(i, s[1][2]), s[2]>> \in Intended
     /\ \A s, t \in Intended : s[1] = t[1] => s = t
     /\ \A f \in Functions : Cardinality(samplers(f)) <= 1

\* In these programs every argument has its type in the end, whatever the addresses
\* of the functions are.
OrderlyAdapted ==
  phase = "done" /\ Orderly => Intended = {<<a, argType[a]>> : a \in DOMAIN argType}

\* The work list and the recursion come to an end.
AdaptationEnds == <>(phase \in {"done", "failed"})
=============================================================================
