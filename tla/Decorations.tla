---------------------------- MODULE Decorations ----------------------------
(***************************************************************************)
(* The decorations of a SPIR-V module (lib/SPIRV/libSPIRV/SPIRVModule.cpp, *)
(* SPIRVDecorate.h, SPIRVDecorate.cpp, SPIRVEntry.cpp): they are put on    *)
(* entries, gathered in DecorateSet, moved into groups when several        *)
(* targets share one, written, and read back by a new module, which does   *)
(* the same again when it is written in turn (ConvertSPIRV).               *)
(***************************************************************************)
EXTENDS Naturals, Sequences, FiniteSets, SequencesExt

CONSTANTS
  Targets,      \* the ids of the entries that can be decorated
  Kinds,        \* kinds of decorations, with their literals
  Members,      \* the members of a struct that can be decorated, from 1 on
  Files,        \* flat files of decorations that other programs have written
  FirstId,      \* the bound of the ids of the entries
  MaxTargets,   \* 65530 in the code: a group decorate has a 16-bit word count
  MaxRounds     \* bound: how often the module is written and read back

\* OpDecorate is member 0; OpMemberDecorate decorates a member of its target.
Decoration == [target : Nat, member : Members \cup {0}, kind : Kinds]

\* SPIRVDecorateGeneric::Comparator: opcode, kind and literals.
Class(d) == <<d.member # 0, d.kind>>

\* operator== of two decorations: the target too, but not the member.
Equal(d, e) == d.target = e.target /\ Class(d) = Class(e)

\* A file may repeat a decoration, but the members of a struct have different ones.
ASSUME DecorationsAssumption ==
  /\ FirstId \in Nat /\ Targets \subseteq 0 .. FirstId - 1
  /\ Members \subseteq Nat \ {0}
  /\ MaxTargets \in Nat \ {0, 1} /\ MaxRounds \in Nat
  /\ \A f \in Files :
       /\ f \in Seq([target : Targets, member : Members \cup {0}, kind : Kinds])
       /\ \A i, j \in DOMAIN f : Equal(f[i], f[j]) => f[i] = f[j]

VARIABLES
  phase,        \* "building", "optimizing", "reading" or "done"
  rounds,       \* how often the module has been read
  nextId,       \* NextId
  decorateSet,  \* DecorateSet, in the order of insertion
  classes,      \* the equal ranges optimizeDecorates() still has to visit
  groups,       \* DecGroupVec: the ids of groups and their decorations
  groupDecs,    \* GroupDecVec: group decorates
  onEntry,      \* Decorates and MemberDecorates of the entries, with their ids
  file,         \* what is left to read
  lost          \* history: the decorations that went with a group that was dropped

vars == <<phase, rounds, nextId, decorateSet, classes, groups, groupDecs, onEntry, file, lost>>

\* SPIRVDecorateSet::insert
Insert(s, d) == IF \E i \in DOMAIN s : Equal(s[i], d) THEN s ELSE Append(s, d)

Loose(d)        == [op |-> "Decorate", dec |-> d]
GroupOf(id)     == [op |-> "DecorationGroup", id |-> id]
Grouped(id, ts) == [op |-> "GroupDecorate", group |-> id, targets |-> ts]

Map(Op(_), s) == [i \in DOMAIN s |-> Op(s[i])]

\* A bug in operator<<: DecorateSet before DecGroupVec.
LooseFirst ==
  Map(Loose, decorateSet)
  \o FlattenSeq([i \in DOMAIN groups |-> Map(Loose, groups[i].decs) \o <<GroupOf(groups[i].id)>>])
  \o groupDecs

\* operator<<: DecGroupVec, each group after its decorations, DecorateSet,
\* GroupDecVec.
Written ==
  FlattenSeq([i \in DOMAIN groups |-> Map(Loose, groups[i].decs) \o <<GroupOf(groups[i].id)>>])
  \o Map(Loose, decorateSet)
  \o groupDecs

Init ==
  /\ rounds = 0 /\ nextId = FirstId
  /\ decorateSet = << >> /\ classes = {} /\ groups = << >> /\ groupDecs = << >>
  /\ onEntry = {} /\ lost = {}
  /\ \/ phase = "building" /\ file = << >>
     \/ phase = "reading" /\ \E decs \in Files : file = Map(Loose, decs)

\* SPIRVEntry::addDecorate and SPIRVModuleImpl::addDecorate, called for a value of
\* the program that is translated.
Decorate ==
  /\ phase = "building"
  /\ \E t \in Targets, k \in Kinds :
       /\ decorateSet' = Insert(decorateSet, [target |-> t, member |-> 0, kind |-> k])
       /\ onEntry' = onEntry \cup {<<t, 0, k>>}
  /\ UNCHANGED <<phase, rounds, nextId, classes, groups, groupDecs, file, lost>>

\* optimizeDecorates() begins.
StartOptimize ==
  /\ phase = "building" \/ (phase = "reading" /\ file = << >>)
  /\ phase' = "optimizing"
  /\ classes' = {Class(d) : d \in Range(decorateSet)}
  /\ UNCHANGED <<rounds, nextId, decorateSet, groups, groupDecs, onEntry, file, lost>>

\* The elements of s that are in ds, in their order (SelectSeq with a set in place of
\* the test, which the prover can follow).
Selected(s, ds) ==
  LET upTo[n \in 0 .. Len(s)] ==
        IF n = 0 THEN << >>
        ELSE IF s[n] \in ds THEN Append(upTo[n - 1], s[n]) ELSE upTo[n - 1]
  IN upTo[Len(s)]

InClass(c, s)  == Selected(s, {d \in Range(s) : Class(d) = c})
OutOf(c, s)    == Selected(s, {d \in Range(s) : Class(d) # c})
TargetsOf(s)   == [i \in DOMAIN s |-> s[i].target]
Retarget(d, g) == [d EXCEPT !.target = g]

\* Bugs in optimizeDecorates(): two decorations are not worth a group; the first target
\* is left out.
Pair(range) == Len(range) <= 2
LaterTargets(s) == Tail(TargetsOf(s))

Single(range) == Len(range) < 2
ClassesLeft(c) == classes \ {c}
GroupTargets(s) == TargetsOf(s)
AfterGetId == nextId + 1

\* An equal range of one decoration, or of member decorations, stays as it is.
SkipClass ==
  /\ phase = "optimizing"
  /\ \E c \in classes :
       /\ c[1] \/ Single(InClass(c, decorateSet))
       /\ classes' = ClassesLeft(c)
  /\ UNCHANGED <<phase, rounds, nextId, decorateSet, groups, groupDecs, onEntry, file, lost>>

\* The first decoration of an equal range becomes that of a new group.
GroupClass ==
  /\ phase = "optimizing"
  /\ \E c \in classes :
       LET range == InClass(c, decorateSet) IN
       /\ ~c[1] /\ ~Single(range) /\ Len(range) < MaxTargets
       /\ classes' = ClassesLeft(c)
       /\ groups' = Append(groups, [id |-> nextId, decs |-> <<Retarget(range[1], nextId)>>])
       /\ groupDecs' = Append(groupDecs, Grouped(nextId, GroupTargets(range)))
       /\ decorateSet' = OutOf(c, decorateSet)
  /\ nextId' = AfterGetId
  /\ UNCHANGED <<phase, rounds, onEntry, file, lost>>

\* With too many targets the group is dropped, but its decoration has already been
\* given the id of the group.
TooManyTargets ==
  /\ phase = "optimizing"
  /\ \E c \in classes :
       LET range == InClass(c, decorateSet)
           first == CHOOSE i \in DOMAIN decorateSet : decorateSet[i] = range[1]
       IN
       /\ ~c[1] /\ ~Single(range) /\ Len(range) >= MaxTargets
       /\ classes' = ClassesLeft(c)
       /\ decorateSet' = [decorateSet EXCEPT ![first] = Retarget(@, nextId)]
       /\ lost' = lost \cup (Targets \cap {range[1].target}) \X {0} \X {range[1].kind}
  /\ nextId' = AfterGetId
  /\ UNCHANGED <<phase, rounds, groups, groupDecs, onEntry, file>>

\* The module is written, and a new one starts to read.
Write ==
  /\ phase = "optimizing" /\ classes = {} /\ rounds < MaxRounds
  /\ phase' = "reading"
  /\ file' = Written
  /\ rounds' = rounds + 1
  /\ decorateSet' = << >> /\ groups' = << >> /\ groupDecs' = << >> /\ onEntry' = {}
  /\ UNCHANGED <<nextId, classes, lost>>

Finish ==
  /\ phase = "optimizing" /\ classes = {} /\ rounds = MaxRounds
  /\ phase' = "done"
  /\ UNCHANGED <<rounds, nextId, decorateSet, classes, groups, groupDecs, onEntry, file, lost>>

\* SPIRVDecorate::decode, SPIRVMemberDecorate::decode: the target, of which there is
\* only a forward, and the module get the decoration.
DecodeDecorate ==
  /\ phase = "reading" /\ file # << >> /\ Head(file).op = "Decorate"
  /\ LET d == Head(file).dec IN
       /\ onEntry' = onEntry \cup {<<d.target, d.member, d.kind>>}
       /\ decorateSet' = Insert(decorateSet, d)
  /\ file' = Tail(file)
  /\ UNCHANGED <<phase, rounds, nextId, classes, groups, groupDecs, lost>>

\* SPIRVDecorationGroup::decode, addDecorationGroup: the group takes all that is in
\* DecorateSet.
DecodeGroup ==
  /\ phase = "reading" /\ file # << >> /\ Head(file).op = "DecorationGroup"
  /\ groups' = Append(groups, [id |-> Head(file).id, decs |-> decorateSet])
  /\ decorateSet' = << >>
  /\ file' = Tail(file)
  /\ UNCHANGED <<phase, rounds, nextId, classes, groupDecs, onEntry, lost>>

\* SPIRVGroupDecorate::decode, decorateTargets: every target gets the decorations of
\* the group; they have an owner and stay out of DecorateSet.
DecodeGroupDecorate ==
  /\ phase = "reading" /\ file # << >> /\ Head(file).op = "GroupDecorate"
  /\ \E i \in DOMAIN groups :
       /\ groups[i].id = Head(file).group
       /\ onEntry' = onEntry \cup
            {<<t, d.member, d.kind>> : t \in Range(Head(file).targets), d \in Range(groups[i].decs)}
  /\ groupDecs' = Append(groupDecs, Head(file))
  /\ file' = Tail(file)
  /\ UNCHANGED <<phase, rounds, nextId, decorateSet, classes, groups, lost>>

Next ==
  \/ Decorate \/ StartOptimize \/ SkipClass \/ GroupClass \/ TooManyTargets
  \/ Write \/ Finish
  \/ DecodeDecorate \/ DecodeGroup \/ DecodeGroupDecorate

Spec     == Init /\ [][Next]_vars
-----------------------------------------------------------------------------
\* What the decorations of the module mean, in memory or partly still in the file:
\* those of entries, and those of a group for each of its targets.
Tokens   == Range(Written) \cup Range(file)
GroupIds == {t.id : t \in {u \in Tokens : u.op = "DecorationGroup"}}
Own      == {t.dec : t \in {u \in Tokens : u.op = "Decorate"}}
Meaning  ==
  {<<d.target, d.member, d.kind>> : d \in {e \in Own : e.target \in Targets}}
  \cup
  UNION {{<<t, d.member, d.kind>> : t \in Range(g.targets), d \in {e \in Own : e.target = g.group}} :
           g \in {u \in Tokens : u.op = "GroupDecorate"}}

\* The tables have the types the code gives them, and no id is taken twice.
TypeOK ==
  /\ phase \in {"building", "optimizing", "reading", "done"}
  /\ rounds \in 0 .. MaxRounds /\ nextId \in Nat
  /\ decorateSet \in Seq(Decoration)
  /\ classes \subseteq BOOLEAN \X Kinds
  /\ IsInjective([i \in DOMAIN groups |-> groups[i].id])
  /\ \A i \in DOMAIN groups : groups[i].id < nextId /\ groups[i].decs \in Seq(Decoration)

\* The entries have the decorations that the module means: what the translation to
\* LLVM finds on an entry and what is written for it are the same, but for what is
\* lost at the limit.
OnTargets    == {p \in onEntry : p[1] \in Targets}
EntriesAgree == phase # "reading" => OnTargets \cup lost = Meaning \cup lost

\* optimizeDecorates() leaves no decoration on two targets outside a group, unless
\* they are too many for one.
SharedAreGrouped ==
  phase \in {"optimizing", "done"} /\ classes = {} =>
    \A i \in DOMAIN decorateSet :
      \/ decorateSet[i].member # 0
      \/ Len(InClass(Class(decorateSet[i]), decorateSet)) \notin 2 .. MaxTargets - 1

\* No decoration is lost, added or moved by optimizing, writing and reading, but at
\* the limit: the module implements a store that only decorates while it is built.
Store == INSTANCE DecorationStore WITH
           Possible <- Targets \X (Members \cup {0}) \X Kinds,
           decorated <- Meaning \cup lost,
           open <- (phase = "building")
MeaningKept == Store!Spec
=============================================================================
