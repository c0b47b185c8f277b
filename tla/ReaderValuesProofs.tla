------------------------- MODULE ReaderValuesProofs -------------------------
(***************************************************************************)
(* Theorems about the translation of values in SPIRVReader.cpp, for every  *)
(* module of valid SPIR-V: operands agree however the translations of      *)
(* functions nest, and the LLVM blocks have the order of the SPIR-V ones.  *)
(*                                                                         *)
(* IInv follows a placeholder from its first use to the turn of its        *)
(* instruction.  That mapValue() then replaces it in the users that are    *)
(* complete is not enough: an activation may hold it that has not made its *)
(* value yet.  None does: such a user is at work right above the body that *)
(* both are in, whose loops go on only when it is complete (Stacked).      *)
(***************************************************************************)
EXTENDS ReaderValues, SequenceTheorems, TLAPS

-----------------------------------------------------------------------------
(***************************************************************************)
(* What IsModule says of the module that is translated.                    *)
(***************************************************************************)
LEMMA TheModule ==
  ASSUME module \in Modules
  PROVE  IsModule(module)
  BY ModulesAssumption

LEMMA KindAndOperands ==
  ASSUME module \in Modules, NEW v \in Values
  PROVE  /\ Kind(v) \in Kinds
         /\ Operands(v) \in Seq(Values) /\ Len(Operands(v)) \in Nat
         /\ DOMAIN Operands(v) = 1 .. Len(Operands(v))
         /\ \A i \in DOMAIN Operands(v) : Operands(v)[i] \in Values
         /\ Kind(v) \in {"local", "function"} => Operands(v) = << >> /\ Len(Operands(v)) = 0
<1>1. /\ module.kind \in [Values -> Kinds] /\ module.operands \in [Values -> Seq(Values)]
      /\ \A w \in Values : module.kind[w] \in {"local", "function"} => module.operands[w] = << >>
  BY TheModule DEF IsModule, Values
<1>2. Operands(v) \in Seq(Values)
  BY <1>1 DEF Operands
<1>3. \A i \in 1 .. Len(Operands(v)) : Operands(v)[i] \in Values
  BY <1>2, ElementOfSeq
<1> QED BY <1>1, <1>2, <1>3, LenProperties, EmptySeq DEF Kind, Operands

LEMMA Sorts ==
  ASSUME module \in Modules, NEW v \in Values
  PROVE  /\ v \in Functions <=> Kind(v) = "function"
         /\ v \in Insts <=> Kind(v) \in {"inst", "phi", "local"}
         /\ v \in Functions => v \notin Insts
  BY DEF Functions, FunctionsOf, Insts, InstructionsOf, Instructions, Kind, Values

LEMMA BlockFacts ==
  ASSUME module \in Modules, NEW f \in Functions
  PROVE  /\ Len(module.blocks[f]) \in Nat
         /\ DOMAIN module.blocks[f] = 1 .. Len(module.blocks[f])
         /\ \A n \in DOMAIN module.blocks[f] :
              /\ module.blocks[f][n] \in Seq(Insts)
              /\ Len(module.blocks[f][n]) \in Nat
              /\ DOMAIN module.blocks[f][n] = 1 .. Len(module.blocks[f][n])
              /\ <<f, n>> \in Blocks
<1>1. module.blocks \in [Functions -> Seq(Seq(Insts))]
  BY TheModule DEF IsModule, Functions, Insts
<1>2. module.blocks[f] \in Seq(Seq(Insts))
  BY <1>1
<1>3. ASSUME NEW n \in DOMAIN module.blocks[f]
      PROVE  module.blocks[f][n] \in Seq(Insts)
  BY <1>2, <1>3, ElementOfSeq, LenProperties
<1>4. ASSUME NEW n \in DOMAIN module.blocks[f]
      PROVE  <<f, n>> \in Blocks
  BY <1>4 DEF Blocks
<1> QED BY <1>2, <1>3, <1>4, LenProperties

LEMMA PlaceFacts ==
  ASSUME module \in Modules, NEW f \in Functions, NEW p \in Places(f)
  PROVE  /\ p = <<p[1], p[2]>>
         /\ p[1] \in DOMAIN module.blocks[f] /\ p[2] \in DOMAIN module.blocks[f][p[1]]
         /\ p[1] \in Nat \ {0} /\ p[2] \in Nat \ {0}
         /\ At(f, p) = module.blocks[f][p[1]][p[2]]
         /\ At(f, p) \in Insts /\ At(f, p) \in Values
<1>1. PICK n \in DOMAIN module.blocks[f] : p \in {n} \X DOMAIN module.blocks[f][n]
  BY DEF Places, PlacesOf
<1>2. p = <<p[1], p[2]>> /\ p[1] = n /\ p[2] \in DOMAIN module.blocks[f][n]
  BY <1>1
<1>3. At(f, p) = module.blocks[f][p[1]][p[2]]
  BY DEF At, AtPlace
<1>4. /\ module.blocks[f][n] \in Seq(Insts)
      /\ Len(module.blocks[f]) \in Nat /\ Len(module.blocks[f][n]) \in Nat
      /\ DOMAIN module.blocks[f] = 1 .. Len(module.blocks[f])
      /\ DOMAIN module.blocks[f][n] = 1 .. Len(module.blocks[f][n])
  BY BlockFacts
<1>5. module.blocks[f][n][p[2]] \in Insts
  BY <1>2, <1>4, ElementOfSeq
<1>6. Insts \subseteq Values
  BY DEF Insts, InstructionsOf, Values
<1>7. p[1] \in Nat \ {0} /\ p[2] \in Nat \ {0}
  BY <1>2, <1>4
<1> QED BY <1>2, <1>3, <1>5, <1>6, <1>7

LEMMA IsPlace ==
  ASSUME module \in Modules, NEW f \in Functions,
         NEW n \in DOMAIN module.blocks[f], NEW i \in DOMAIN module.blocks[f][n]
  PROVE  <<n, i>> \in Places(f) /\ At(f, <<n, i>>) = module.blocks[f][n][i]
  BY DEF Places, PlacesOf, At, AtPlace

LEMMA OnePlace ==
  ASSUME module \in Modules, NEW f \in Functions, NEW g \in Functions,
         NEW p \in Places(f), NEW q \in Places(g), At(f, p) = At(g, q)
  PROVE  f = g /\ p = q
  BY TheModule DEF IsModule, Functions, Places, At

LEMMA EveryPlace ==
  ASSUME module \in Modules, NEW v \in Insts
  PROVE  \E f \in Functions : \E p \in Places(f) : At(f, p) = v
<1>1. \E f \in Functions : v \in BodyOf(module, f)
  BY TheModule DEF IsModule, Functions, Insts
<1> QED BY <1>1 DEF BodyOf, Places, At

\* The instructions that an instruction uses are those of its function.
LEMMA OperandPlace ==
  ASSUME module \in Modules, NEW f \in Functions, NEW p \in Places(f),
         NEW i \in DOMAIN Operands(At(f, p)), Operands(At(f, p))[i] \in Insts
  PROVE  \E q \in Places(f) : At(f, q) = Operands(At(f, p))[i]
<1>1. At(f, p) \in BodyOf(module, f)
  BY DEF BodyOf, Places, At
<1>2. Operands(At(f, p))[i] \in Range(module.operands[At(f, p)])
  BY DEF Range, Operands
<1>3. Operands(At(f, p))[i] \in BodyOf(module, f)
  BY <1>1, <1>2, TheModule DEF IsModule, Functions, Insts
<1> QED BY <1>3 DEF BodyOf, Places, At

LEMMA NoOperand ==
  ASSUME module \in Modules, NEW v \in Values, v \notin Insts, NEW i \in DOMAIN Operands(v)
  PROVE  Operands(v)[i] \notin Insts
<1>1. Range(module.operands[v]) \cap Insts = {}
  BY TheModule DEF IsModule, Insts, Values
<1> QED BY <1>1 DEF Range, Operands

-----------------------------------------------------------------------------
(***************************************************************************)
(* The inductive invariant.                                                *)
(***************************************************************************)
Frames  == [value : Values, block : Blocks \cup {<< >>},
            at : ((Nat \ {0}) \X (Nat \ {0})) \cup {<< >>}, held : Seq(Nat)]
Objects == [value : Values, load : BOOLEAN, ops : Seq(Nat)]

\* A value leads to its own LLVM value.
Tables ==
  /\ obj \in Seq(Objects)
  /\ Mapped \subseteq Values /\ valueMap \in [Mapped -> 1 .. Len(obj)]
  /\ \A v \in Mapped : obj[valueMap[v]].value = v

\* Functions that have been asked for are there; what has been translated is complete.
Rooted ==
  /\ root \in 0 .. Len(module.roots)
  /\ \A i \in 1 .. root : module.roots[i] \in Functions => module.roots[i] \in Mapped
  /\ Translated => calls = << >> /\ root = Len(module.roots)

\* The activations: a body is translated once, and an instruction right above the body
\* it is in, whose loops have just passed it.
TakenFrom(c, body) ==
  \E p \in Places(body.value) : /\ At(body.value, p) = c.value
                                /\ body.at = <<p[1], p[2] + 1>>
                                /\ c.block = <<body.value, p[1]>>
IsBody(c) == c.value \in Functions /\ c.value \in Mapped /\ c.at \in (Nat \ {0}) \X (Nat \ {0})
IsTaken(k) ==
  /\ Kind(calls[k].value) # "local"
  /\ k - 1 \in DOMAIN calls /\ calls[k - 1].value \in Functions
  /\ TakenFrom(calls[k], calls[k - 1])
Stacked ==
  /\ calls \in Seq(Frames)
  /\ \A c \in Range(calls) : c.value \in Functions => IsBody(c)
  /\ \A k \in DOMAIN calls : calls[k].value \in Insts => IsTaken(k)
  /\ \A j, k \in DOMAIN calls :
       calls[j].value \in Functions /\ calls[j].value = calls[k].value => j = k

\* What an activation holds.
Holds(c) ==
  /\ Len(c.held) = IF Kind(c.value) = "phi" THEN 0 ELSE Len(Operands(c.value))
  /\ \A i \in 1 .. Len(c.held) :
       c.held[i] # 0 => /\ Operands(c.value)[i] \in Mapped
                        /\ c.held[i] = valueMap[Operands(c.value)[i]]
Holding == \A c \in Range(calls) : Holds(c)

InProgress(v) == \E k \in DOMAIN calls : calls[k].value = v
\* The loops of transFunction have passed the place.
Behind(f, p) == \A k \in DOMAIN calls : calls[k].value = f => Before(p, calls[k].at)
Passed(f, p) == f \in Mapped /\ Behind(f, p)

\* When an instruction is translated, has a placeholder, or is not there.
TurnAt(f, p, v) ==
  /\ v \in Mapped => f \in Mapped
  /\ Passed(f, p) /\ ~InProgress(v) => v \in Mapped /\ ~HasLoad(v)
  /\ InProgress(v) /\ Kind(v) = "phi" => v \in Mapped /\ ~HasLoad(v)
  /\ InProgress(v) /\ Kind(v) = "inst" /\ v \in Mapped => HasLoad(v)
  /\ ~Passed(f, p) /\ v \in Mapped => HasLoad(v) \/ v \in EarlyLocals
Turns ==
  \A v \in Insts : \A f \in Functions : \A p \in Places(f) : At(f, p) = v => TurnAt(f, p, v)

\* The operands that a value has.
OpsOf(v) == obj[valueMap[v]].ops
LinkedTo(v, ops) ==
  /\ Len(ops) <= Len(Operands(v))
  /\ \A i \in 1 .. Len(ops) : /\ Operands(v)[i] \in Mapped
                              /\ ops[i] = valueMap[Operands(v)[i]]
Linked  == \A v \in Mapped : LinkedTo(v, OpsOf(v))
Whole   == \A v \in Mapped : ~HasLoad(v) /\ ~(Kind(v) = "phi" /\ InProgress(v)) =>
             Len(OpsOf(v)) = Len(Operands(v))
Loads   == \A v \in Mapped : HasLoad(v) => Kind(v) \in {"inst", "phi"}

\* The blocks hold values that are still in use, and those that are settled in order.
Live(n)    == n \in 1 .. Len(obj) /\ obj[n].value \in Mapped /\ n = valueMap[obj[n].value]
Settled(n) == ~obj[n].load /\ obj[n].value \notin EarlyLocals
InPlace(v) == v \in Mapped /\ ~HasLoad(v) /\ v \notin EarlyLocals
Comes(t, n, o) == \E i, j \in DOMAIN t : i < j /\ t[i] = n /\ t[j] = o
Ordered(t, insts) ==
  \A n, o \in Range(t) : Comes(t, n, o) /\ Settled(n) /\ Settled(o) =>
    \A k, l \in DOMAIN insts : insts[k] = obj[n].value /\ insts[l] = obj[o].value => k < l
TextOf(t, insts) ==
  /\ IsInjective(t)
  /\ \A n \in Range(t) : Live(n) /\ (Settled(n) => obj[n].value \in Range(insts))
  /\ \A k \in DOMAIN insts : InPlace(insts[k]) => valueMap[insts[k]] \in Range(t)
  /\ Ordered(t, insts)
Texts ==
  /\ text \in [Blocks -> Seq(Nat)]
  /\ \A f \in Functions : \A b \in DOMAIN module.blocks[f] :
       \A t \in {text[<<f, b>>]}, insts \in {module.blocks[f][b]} : TextOf(t, insts)

IInv ==
  /\ module \in Modules
  /\ Tables /\ Rooted /\ Stacked /\ Holding /\ Turns /\ Linked /\ Whole /\ Loads /\ Texts

-----------------------------------------------------------------------------
(***************************************************************************)
(* A step of the tables: v gets a new LLVM value, in place of the load if  *)
(* there is one (mapValue).                                                *)
(***************************************************************************)
\* The module that is translated stays the same, and what is said of it.
LEMMA SameModule ==
  ASSUME module' = module
  PROVE  /\ Values' = Values /\ Functions' = Functions /\ Insts' = Insts /\ Blocks' = Blocks
         /\ EarlyLocals' = EarlyLocals /\ Objects' = Objects /\ Frames' = Frames
         /\ \A v : Kind(v)' = Kind(v) /\ Operands(v)' = Operands(v)
         /\ \A f : Places(f)' = Places(f)
         /\ \A f, p : At(f, p)' = At(f, p)
<1>1. /\ Values' = Values /\ Functions' = Functions /\ Insts' = Insts
      /\ \A v : Kind(v)' = Kind(v) /\ Operands(v)' = Operands(v)
      /\ \A f : Places(f)' = Places(f)
      /\ \A f, p : At(f, p)' = At(f, p)
  BY DEF Values, Functions, Insts, Kind, Operands, Places, At
<1>2. Blocks' = Blocks
  BY DEF Blocks, Functions
<1>3. EarlyLocals' = EarlyLocals
  BY DEF EarlyLocals, Values, Functions, Kind, Operands, Places, At
<1>4. Objects' = Objects /\ Frames' = Frames
  BY <1>1, <1>2 DEF Objects, Frames
<1> QED BY <1>1, <1>2, <1>3, <1>4

LEMMA AppendFacts ==
  ASSUME NEW S, NEW s \in Seq(S), NEW x \in S, NEW t, t = Append(s, x)
  PROVE  /\ t \in Seq(S) /\ Len(s) \in Nat /\ Len(t) = Len(s) + 1
         /\ DOMAIN s = 1 .. Len(s) /\ DOMAIN t = 1 .. Len(s) + 1
         /\ \A i \in 1 .. Len(s) : t[i] = s[i]
         /\ t[Len(s) + 1] = x
  BY AppendProperties, LenProperties

Redirected(v, n) == IF HasLoad(v) /\ n = valueMap[v] THEN New ELSE n
RedirectedOps(v, ops, new) ==
  /\ Len(new) = Len(ops)
  /\ \A i \in 1 .. Len(ops) : new[i] = Redirected(v, ops[i])

TableStep(v, load, ops) ==
  /\ v \in Values /\ load \in BOOLEAN
  /\ v \in Mapped => HasLoad(v)
  /\ Len(obj) \in Nat /\ New = Len(obj) + 1 /\ Len(obj') = New
  /\ Mapped' = Mapped \cup {v} /\ valueMap'[v] = New
  /\ \A w \in Mapped : w # v => valueMap'[w] = valueMap[w]
  /\ \A k \in 1 .. Len(obj) : /\ obj'[k].value = obj[k].value /\ obj'[k].load = obj[k].load
                              /\ RedirectedOps(v, obj[k].ops, obj'[k].ops)
  /\ obj'[New].value = v /\ obj'[New].load = load
  /\ RedirectedOps(v, ops, obj'[New].ops)

LEMMA LiveValue ==
  ASSUME Tables, NEW v \in Mapped
  PROVE  /\ v \in Values /\ valueMap[v] \in 1 .. Len(obj) /\ Len(obj) \in Nat
         /\ DOMAIN obj = 1 .. Len(obj)
         /\ obj[valueMap[v]] \in Objects /\ obj[valueMap[v]].value = v
         /\ obj[valueMap[v]].load \in BOOLEAN
         /\ OpsOf(v) \in Seq(Nat) /\ Len(OpsOf(v)) \in Nat
         /\ DOMAIN OpsOf(v) = 1 .. Len(OpsOf(v))
<1>1. v \in Values /\ valueMap[v] \in 1 .. Len(obj) /\ obj[valueMap[v]].value = v
  BY DEF Tables
<1>2. obj \in Seq(Objects) /\ Len(obj) \in Nat /\ DOMAIN obj = 1 .. Len(obj)
  BY LenProperties DEF Tables
<1>3. obj[valueMap[v]] \in Objects
  BY <1>1, <1>2, ElementOfSeq
<1>4. OpsOf(v) \in Seq(Nat) /\ obj[valueMap[v]].load \in BOOLEAN
  BY <1>3 DEF OpsOf, Objects
<1> QED BY <1>1, <1>2, <1>3, <1>4, LenProperties

LEMMA AddTables ==
  ASSUME module' = module, Tables, NEW v \in Values, v \notin Mapped, NEW load \in BOOLEAN, NEW ops \in Seq(Nat),
         obj' = Append(obj, [value |-> v, load |-> load, ops |-> ops]),
         valueMap' = Put(valueMap, v, New)
  PROVE  Tables' /\ TableStep(v, load, ops)
<1>1. PICK o : o = [value |-> v, load |-> load, ops |-> ops]
  OBVIOUS
<1>2. o \in Objects /\ o.value = v /\ o.load = load /\ o.ops = ops
  BY <1>1 DEF Objects
<1>3. obj \in Seq(Objects) /\ obj' = Append(obj, o)
  BY <1>1 DEF Tables
<1>4. /\ obj' \in Seq(Objects) /\ Len(obj) \in Nat /\ Len(obj') = Len(obj) + 1
      /\ \A i \in 1 .. Len(obj) : obj'[i] = obj[i]
      /\ obj'[Len(obj) + 1] = o
  BY <1>2, <1>3, AppendFacts
<1>5. New = Len(obj) + 1
  BY DEF New
<1>6. /\ Mapped' = Mapped \cup {v} /\ valueMap'[v] = New
      /\ \A w \in Mapped : w # v => valueMap'[w] = valueMap[w]
      /\ valueMap' = [w \in Mapped' |-> valueMap'[w]]
  BY DEF Put, Mapped
<1>7. ASSUME NEW w \in Mapped'
      PROVE  valueMap'[w] \in 1 .. Len(obj') /\ obj'[valueMap'[w]].value = w
  <2>1. CASE w = v
    BY <2>1, <1>2, <1>4, <1>5, <1>6
  <2>2. CASE w # v
    <3>1. w \in Mapped /\ valueMap'[w] = valueMap[w]
      BY <2>2, <1>6
    <3>2. valueMap[w] \in 1 .. Len(obj) /\ obj[valueMap[w]].value = w
      BY <3>1, LiveValue
    <3> QED BY <3>1, <3>2, <1>4
  <2> QED BY <2>1, <2>2
<1>8. Tables'
  <2>1. Mapped' \subseteq Values'
    <3>1. Mapped \subseteq Values
      BY DEF Tables
    <3>2. Values' = Values
      BY SameModule
    <3> QED BY <3>1, <3>2, <1>6
  <2>2. Objects' = Objects
    BY SameModule
  <2> QED BY <2>1, <2>2, <1>4, <1>6, <1>7 DEF Tables
<1>9. ~HasLoad(v)
  BY DEF HasLoad
<1>10. \A x : RedirectedOps(v, x, x)
  BY <1>9 DEF RedirectedOps, Redirected
<1> QED BY <1>2, <1>4, <1>5, <1>6, <1>8, <1>10 DEF TableStep

LEMMA Redirecting ==
  ASSUME Tables, NEW v, v \in Mapped => HasLoad(v), NEW w \in Mapped
  PROVE  Redirected(v, valueMap[w]) = IF w = v THEN New ELSE valueMap[w]
<1>1. CASE w = v
  BY <1>1 DEF Redirected
<1>2. CASE w # v
  <2>1. HasLoad(v) => valueMap[w] # valueMap[v]
    BY <1>2, LiveValue DEF HasLoad
  <2> QED BY <2>1, <1>2 DEF Redirected
<1> QED BY <1>1, <1>2

\* mapValue for an instruction that is made.
MakesValue(v, ops) ==
  /\ obj' = ReplaceUses(Append(obj, Value(v, ops)), v, New)
  /\ valueMap' = Put(valueMap, v, New)

LEMMA MakeTables ==
  ASSUME module' = module, Tables, NEW v \in Values, v \in Mapped => HasLoad(v),
         NEW ops \in Seq(Nat), MakesValue(v, ops)
  PROVE  Tables' /\ TableStep(v, FALSE, ops)
<1>1. PICK o : o = Value(v, ops)
  OBVIOUS
<1>2. o \in Objects /\ o.value = v /\ o.load = FALSE /\ o.ops = ops
  BY <1>1 DEF Objects, Value
<1>3. PICK objs : objs = Append(obj, o)
  OBVIOUS
<1>4. obj \in Seq(Objects)
  BY DEF Tables
<1>5. /\ objs \in Seq(Objects) /\ Len(obj) \in Nat /\ Len(objs) = Len(obj) + 1
      /\ DOMAIN obj = 1 .. Len(obj) /\ DOMAIN objs = 1 .. Len(obj) + 1
      /\ \A i \in 1 .. Len(obj) : objs[i] = obj[i]
      /\ objs[Len(obj) + 1] = o
  BY <1>2, <1>3, <1>4, AppendFacts
<1>6. New = Len(obj) + 1
  BY DEF New
<1>7. New \in Nat /\ \A n \in Nat : Redirected(v, n) \in Nat
  BY <1>5, <1>6 DEF Redirected
<1>8. obj' = [k \in 1 .. New |-> [objs[k] EXCEPT !.ops =
                [i \in DOMAIN objs[k].ops |-> Redirected(v, objs[k].ops[i])]]]
  BY <1>1, <1>3, <1>5, <1>6 DEF MakesValue, ReplaceUses, Redirected
<1>9. ASSUME NEW k \in 1 .. New
      PROVE  /\ obj'[k] \in Objects /\ obj'[k].value = objs[k].value /\ obj'[k].load = objs[k].load
             /\ RedirectedOps(v, objs[k].ops, obj'[k].ops)
  <2>1. objs[k] \in Objects
    BY <1>5, <1>6, ElementOfSeq
  <2>2. PICK old : old = objs[k].ops
    OBVIOUS
  <2>3. old \in Seq(Nat) /\ Len(old) \in Nat /\ DOMAIN old = 1 .. Len(old)
    BY <2>1, <2>2, LenProperties DEF Objects
  <2>4. \A i \in 1 .. Len(old) : old[i] \in Nat
    BY <2>3, ElementOfSeq
  <2>5. PICK new : new = [i \in 1 .. Len(old) |-> Redirected(v, old[i])]
    OBVIOUS
  <2>6. new \in Seq(Nat) /\ Len(new) = Len(old)
    <3>1. new \in [1 .. Len(old) -> Nat]
      BY <2>4, <2>5, <1>7
    <3>2. new \in Seq(Nat)
      BY <3>1, <2>3, IsASeq
    <3>3. DOMAIN new = 1 .. Len(old) /\ DOMAIN new = 1 .. Len(new) /\ Len(new) \in Nat
      BY <3>2, <2>5, LenProperties
    <3> QED BY <3>2, <3>3, <2>3
  <2>7. obj'[k] = [objs[k] EXCEPT !.ops = new]
    BY <1>8, <2>2, <2>3, <2>5
  <2>8. obj'[k] \in Objects /\ obj'[k].value = objs[k].value /\ obj'[k].load = objs[k].load
        /\ obj'[k].ops = new
    BY <2>1, <2>6, <2>7 DEF Objects
  <2> QED BY <2>2, <2>5, <2>6, <2>8 DEF RedirectedOps
<1>10. obj' \in Seq(Objects) /\ Len(obj') = New
  <2>1. DOMAIN obj' = 1 .. New
    BY <1>8
  <2>2. obj' \in [1 .. New -> Objects]
    BY <1>8, <1>9
  <2>3. obj' \in Seq(Objects)
    BY <2>2, <1>7, IsASeq
  <2>4. DOMAIN obj' = 1 .. Len(obj') /\ Len(obj') \in Nat
    BY <2>3, LenProperties
  <2> QED BY <2>1, <2>3, <2>4, <1>7
<1>11. /\ Mapped' = Mapped \cup {v} /\ valueMap'[v] = New
       /\ \A w \in Mapped : w # v => valueMap'[w] = valueMap[w]
       /\ valueMap' = [w \in Mapped' |-> valueMap'[w]]
  BY DEF Put, Mapped, MakesValue
<1>12. ASSUME NEW w \in Mapped'
       PROVE  valueMap'[w] \in 1 .. Len(obj') /\ obj'[valueMap'[w]].value = w
  <2>1. CASE w = v
    BY <2>1, <1>2, <1>5, <1>6, <1>9, <1>10, <1>11
  <2>2. CASE w # v
    <3>1. w \in Mapped /\ valueMap'[w] = valueMap[w]
      BY <2>2, <1>11
    <3>2. valueMap[w] \in 1 .. Len(obj) /\ obj[valueMap[w]].value = w
      BY <3>1, LiveValue
    <3>3. valueMap[w] \in 1 .. New
      BY <3>2, <1>5, <1>6
    <3> QED BY <3>1, <3>2, <3>3, <1>5, <1>9, <1>10
  <2> QED BY <2>1, <2>2
<1>13. Tables'
  <2>1. Mapped' \subseteq Values'
    <3>1. Mapped \subseteq Values
      BY DEF Tables
    <3> QED BY <3>1, <1>11, SameModule
  <2>2. Objects' = Objects
    BY SameModule
  <2> QED BY <2>1, <2>2, <1>10, <1>11, <1>12 DEF Tables
<1>14. \A k \in 1 .. Len(obj) : /\ obj'[k].value = obj[k].value /\ obj'[k].load = obj[k].load
                                /\ RedirectedOps(v, obj[k].ops, obj'[k].ops)
  <2> SUFFICES ASSUME NEW k \in 1 .. Len(obj)
               PROVE  /\ obj'[k].value = obj[k].value /\ obj'[k].load = obj[k].load
                      /\ RedirectedOps(v, obj[k].ops, obj'[k].ops)
    OBVIOUS
  <2>1. k \in 1 .. New /\ objs[k] = obj[k]
    BY <1>5, <1>6
  <2> QED BY <2>1, <1>9
<1>15. /\ obj'[New].value = v /\ obj'[New].load = FALSE
       /\ RedirectedOps(v, ops, obj'[New].ops)
  <2>1. New \in 1 .. New /\ objs[New] = o
    BY <1>5, <1>6, <1>7
  <2> QED BY <2>1, <1>2, <1>9
<1> QED BY <1>5, <1>6, <1>10, <1>11, <1>13, <1>14, <1>15 DEF TableStep

\* Only v changes whether it has a placeholder.
LEMMA StepLoads ==
  ASSUME Tables, NEW v, NEW load, NEW ops, TableStep(v, load, ops)
  PROVE  /\ HasLoad(v)' <=> load
         /\ \A w : w # v => (HasLoad(w)' <=> HasLoad(w)) /\ (w \in Mapped' <=> w \in Mapped)
<1>1. HasLoad(v)' <=> load
  BY DEF TableStep, HasLoad
<1>2. ASSUME NEW w, w # v
      PROVE  (HasLoad(w)' <=> HasLoad(w)) /\ (w \in Mapped' <=> w \in Mapped)
  <2>1. w \in Mapped' <=> w \in Mapped
    BY <1>2 DEF TableStep
  <2>2. CASE w \in Mapped
    <3>1. valueMap[w] \in 1 .. Len(obj) /\ valueMap'[w] = valueMap[w]
      BY <2>2, <1>2, LiveValue DEF TableStep
    <3>2. obj'[valueMap[w]].load = obj[valueMap[w]].load
      BY <3>1 DEF TableStep
    <3> QED BY <2>1, <3>1, <3>2 DEF HasLoad
  <2>3. CASE w \notin Mapped
    BY <2>1, <2>3 DEF HasLoad
  <2> QED BY <2>1, <2>2, <2>3
<1> QED BY <1>1, <1>2

LEMMA StepLoadKinds ==
  ASSUME module' = module, Tables, Loads, NEW v, NEW load, NEW ops, TableStep(v, load, ops),
         load => Kind(v) \in {"inst", "phi"}
  PROVE  Loads'
<1> SUFFICES ASSUME NEW w \in Mapped', HasLoad(w)' PROVE Kind(w)' \in {"inst", "phi"}
  BY DEF Loads
<1>1. Kind(w)' = Kind(w)
  BY SameModule
<1>2. CASE w = v
  BY <1>1, <1>2, StepLoads
<1>3. CASE w # v
  <2>1. w \in Mapped /\ HasLoad(w)
    BY <1>3, StepLoads
  <2> QED BY <2>1, <1>1 DEF Loads
<1> QED BY <1>2, <1>3

\* The operands of a value are redirected with it.
LEMMA StepLinkedTo ==
  ASSUME module' = module, module \in Modules, Tables, NEW v, NEW load, NEW ops,
         TableStep(v, load, ops),
         NEW w \in Values, NEW old \in Seq(Nat), NEW new, RedirectedOps(v, old, new),
         LinkedTo(w, old)
  PROVE  LinkedTo(w, new)'
<1>1. Len(old) \in Nat /\ Len(new) = Len(old) /\ Operands(w)' = Operands(w)
  BY LenProperties, SameModule DEF RedirectedOps
<1>2. ASSUME NEW i \in 1 .. Len(new)
      PROVE  Operands(w)[i] \in Mapped' /\ new[i] = valueMap'[Operands(w)[i]]
  <2>1. PICK x : x = Operands(w)[i]
    OBVIOUS
  <2>2. x \in Mapped /\ old[i] = valueMap[x] /\ new[i] = Redirected(v, old[i])
    BY <1>1, <2>1 DEF LinkedTo, RedirectedOps
  <2>3. v \in Mapped => HasLoad(v)
    BY DEF TableStep
  <2>4. new[i] = IF x = v THEN New ELSE valueMap[x]
    BY <2>2, <2>3, Redirecting
  <2>5. x \in Mapped' /\ valueMap'[x] = IF x = v THEN New ELSE valueMap[x]
    BY <2>2 DEF TableStep
  <2> QED BY <2>1, <2>4, <2>5
<1>3. Len(new) <= Len(Operands(w))
  BY <1>1 DEF LinkedTo
<1> QED BY <1>1, <1>2, <1>3 DEF LinkedTo

LEMMA StepOps ==
  ASSUME Tables, NEW v, NEW load, NEW ops, TableStep(v, load, ops), NEW w \in Mapped, w # v
  PROVE  RedirectedOps(v, OpsOf(w), OpsOf(w)')
<1>1. valueMap[w] \in 1 .. Len(obj) /\ valueMap'[w] = valueMap[w]
  BY LiveValue DEF TableStep
<1>2. RedirectedOps(v, obj[valueMap[w]].ops, obj'[valueMap[w]].ops)
  BY <1>1 DEF TableStep
<1> QED BY <1>1, <1>2 DEF OpsOf

LEMMA StepLinked ==
  ASSUME module' = module, module \in Modules, Tables, Linked, NEW v, NEW load, NEW ops \in Seq(Nat),
         TableStep(v, load, ops), LinkedTo(v, ops)
  PROVE  Linked'
<1> SUFFICES ASSUME NEW w \in Mapped', NEW new, new = OpsOf(w)' PROVE LinkedTo(w, new)'
  BY DEF Linked, LinkedTo
<1>1. new = OpsOf(w)'
  OBVIOUS
<1>2. CASE w = v
  <2>1. RedirectedOps(v, ops, new) /\ v \in Values
    BY <1>1, <1>2 DEF TableStep, OpsOf
  <2>2. LinkedTo(v, new)'
    BY <2>1, StepLinkedTo
  <2> QED BY <2>2, <1>1, <1>2
<1>3. CASE w # v
  <2>1. w \in Mapped
    BY <1>3 DEF TableStep
  <2>2. PICK old : old = OpsOf(w)
    OBVIOUS
  <2>3. w \in Values /\ old \in Seq(Nat)
    BY <2>1, <2>2, LiveValue
  <2>4. RedirectedOps(v, old, new)
    BY <1>1, <1>3, <2>1, <2>2, StepOps
  <2>5. LinkedTo(w, old)
    BY <2>1, <2>2 DEF Linked
  <2>6. LinkedTo(w, new)'
    BY <2>3, <2>4, <2>5, StepLinkedTo
  <2> QED BY <2>6, <1>1
<1> QED BY <1>2, <1>3

LEMMA StepWhole ==
  ASSUME module' = module, Tables, Whole, NEW v, NEW load, NEW ops, TableStep(v, load, ops),
         \A w \in Mapped : Kind(w) = "phi" /\ InProgress(w) => InProgress(w)',
         \/ load \/ Len(ops) = Len(Operands(v)) \/ (Kind(v) = "phi" /\ InProgress(v)')
  PROVE  Whole'
<1> SUFFICES ASSUME NEW w \in Mapped', ~HasLoad(w)', ~(Kind(w)' = "phi" /\ InProgress(w)')
             PROVE  Len(OpsOf(w)') = Len(Operands(w)')
  BY DEF Whole
<1>1. Kind(w)' = Kind(w) /\ Operands(w)' = Operands(w)
  BY SameModule
<1>2. CASE w = v
  <2>1. ~load
    BY <1>2, StepLoads
  <2>2. Len(OpsOf(w)') = Len(ops)
    BY <1>2 DEF TableStep, RedirectedOps, OpsOf
  <2> QED BY <2>1, <2>2, <1>1, <1>2
<1>3. CASE w # v
  <2>1. w \in Mapped /\ ~HasLoad(w)
    BY <1>3, StepLoads
  <2>2. Len(OpsOf(w)') = Len(OpsOf(w))
    BY <2>1, <1>3, StepOps DEF RedirectedOps
  <2>3. ~(Kind(w) = "phi" /\ InProgress(w))
    BY <1>1, <2>1
  <2> QED BY <2>1, <2>2, <2>3, <1>1 DEF Whole
<1> QED BY <1>2, <1>3

\* What an activation holds stays right as long as it holds no placeholder of v.
LEMMA StepHolds ==
  ASSUME module' = module, Tables, NEW v, NEW load, NEW ops, TableStep(v, load, ops),
         NEW c, Holds(c), \A i \in 1 .. Len(c.held) : HasLoad(v) => Operands(c.value)[i] # v
  PROVE  Holds(c)'
<1>1. Operands(c.value)' = Operands(c.value) /\ Kind(c.value)' = Kind(c.value)
  BY SameModule
<1>2. ASSUME NEW i \in 1 .. Len(c.held), c.held[i] # 0
      PROVE  /\ Operands(c.value)[i] \in Mapped'
             /\ c.held[i] = valueMap'[Operands(c.value)[i]]
  <2>1. Operands(c.value)[i] \in Mapped /\ c.held[i] = valueMap[Operands(c.value)[i]]
    BY <1>2 DEF Holds
  <2>2. Operands(c.value)[i] # v
    BY <2>1 DEF TableStep
  <2> QED BY <2>1, <2>2 DEF TableStep
<1> QED BY <1>1, <1>2 DEF Holds

\* A block loses the load of v and may get what v becomes at its end.
TextStep(v, added, t, u) ==
  /\ u \in Seq(Nat) /\ IsInjective(u)
  /\ \A n : n \in Range(u) <=> \/ n \in Range(t) /\ ~(HasLoad(v) /\ n = valueMap[v])
                               \/ added /\ n = New
  /\ \A n, o \in Range(u) : Comes(u, n, o) => Comes(t, n, o) \/ (n # New /\ o = New)
\* v is in its turn in the block, if it is one that has a turn.
InTurn(v, load, added, insts) ==
  ~load /\ v \notin EarlyLocals =>
    /\ v \in Range(insts) <=> added
    /\ \A k, l \in DOMAIN insts : insts[l] = v /\ InPlace(insts[k]) => k < l

LEMMA StepText ==
  ASSUME module' = module, Tables, NEW v, NEW load, NEW ops, TableStep(v, load, ops),
         NEW insts, NEW t, TextOf(t, insts),
         NEW added \in BOOLEAN, NEW u, TextStep(v, added, t, u), InTurn(v, load, added, insts)
  PROVE  TextOf(u, insts)'
<1>1. EarlyLocals' = EarlyLocals
  BY SameModule
<1>2. \A n \in Range(t) : n \in 1 .. Len(obj) /\ n # New
  BY DEF TextOf, Live, TableStep
\* what stays
<1>3. ASSUME NEW n \in Range(u), n # New
      PROVE  /\ n \in Range(t) /\ obj[n].value \in Mapped /\ n = valueMap[obj[n].value]
             /\ obj[n].value # v /\ obj'[n].value = obj[n].value
             /\ Live(n)' /\ (Settled(n)' <=> Settled(n))
  <2>1. n \in Range(t) /\ ~(HasLoad(v) /\ n = valueMap[v])
    BY <1>3 DEF TextStep
  <2>2. n \in 1 .. Len(obj) /\ obj[n].value \in Mapped /\ n = valueMap[obj[n].value]
    BY <2>1 DEF TextOf, Live
  <2>3. obj[n].value # v
    BY <2>1, <2>2 DEF TableStep
  <2>4. obj'[n].value = obj[n].value /\ obj'[n].load = obj[n].load
    BY <2>2 DEF TableStep
  <2>5. n \in 1 .. Len(obj') /\ obj[n].value \in Mapped' /\ n = valueMap'[obj[n].value]
    BY <2>2, <2>3 DEF TableStep
  <2> QED BY <2>1, <2>2, <2>3, <2>4, <2>5, <1>1 DEF Live, Settled
\* what is new
<1>a. PICK new : new = New
  OBVIOUS
<1>4. ASSUME new \in Range(u)
      PROVE  added /\ obj'[new].value = v /\ Live(new)' /\ (Settled(new)' <=> ~load /\ v \notin EarlyLocals)
  <2>1. added
    BY <1>2, <1>4, <1>a DEF TextStep
  <2>2. obj'[new].value = v /\ obj'[new].load = load /\ new \in 1 .. Len(obj')
        /\ v \in Mapped' /\ new = valueMap'[v]
    BY <1>a DEF TableStep
  <2>3. load \in BOOLEAN
    BY DEF TableStep
  <2> QED BY <2>1, <2>2, <2>3, <1>1 DEF Live, Settled
<1>5. ASSUME NEW n \in Range(u)
      PROVE  Live(n)' /\ (Settled(n)' => obj'[n].value \in Range(insts))
  <2>1. CASE n = new
    BY <2>1, <1>4, <1>5 DEF InTurn
  <2>2. CASE n # new
    BY <2>2, <1>3, <1>a DEF TextOf
  <2> QED BY <2>1, <2>2
<1>6. ASSUME NEW k \in DOMAIN insts, InPlace(insts[k])'
      PROVE  valueMap'[insts[k]] \in Range(u)
  <2>1. insts[k] \in Mapped' /\ ~HasLoad(insts[k])' /\ insts[k] \notin EarlyLocals
    BY <1>1, <1>6 DEF InPlace
  <2>2. CASE insts[k] = v
    <3>1. ~load
      BY <2>1, <2>2, StepLoads
    <3>2. v \in Range(insts)
      BY <2>2 DEF Range
    <3>3. added
      BY <3>1, <3>2, <2>1, <2>2 DEF InTurn
    <3>4. valueMap'[v] = New
      BY DEF TableStep
    <3> QED BY <3>3, <3>4, <2>2 DEF TextStep
  <2>3. CASE insts[k] # v
    <3>1. insts[k] \in Mapped /\ ~HasLoad(insts[k])
      BY <2>1, <2>3, StepLoads
    <3>2. valueMap[insts[k]] \in Range(t)
      BY <2>1, <3>1 DEF TextOf, InPlace
    <3>3. HasLoad(v) => valueMap[insts[k]] # valueMap[v]
      BY <2>3, <3>1, LiveValue DEF HasLoad
    <3>4. valueMap'[insts[k]] = valueMap[insts[k]]
      BY <2>3, <3>1 DEF TableStep
    <3> QED BY <3>2, <3>3, <3>4 DEF TextStep
  <2> QED BY <2>2, <2>3
<1>7. ASSUME NEW n \in Range(u), NEW o \in Range(u), Comes(u, n, o), Settled(n)', Settled(o)',
             NEW k \in DOMAIN insts, NEW l \in DOMAIN insts,
             insts[k] = obj'[n].value, insts[l] = obj'[o].value
      PROVE  k < l
  <2>1. CASE n # New /\ o = New
    <3>1. insts[l] = v /\ ~load /\ v \notin EarlyLocals
      BY <2>1, <1>4, <1>7, <1>a
    <3>2. insts[k] \in Mapped /\ n = valueMap[insts[k]] /\ Settled(n) /\ insts[k] = obj[n].value
      BY <2>1, <1>3, <1>7
    <3>3. InPlace(insts[k])
      BY <3>2 DEF InPlace, Settled, HasLoad
    <3> QED BY <3>1, <3>3 DEF InTurn
  <2>2. CASE Comes(t, n, o)
    <3>1. n \in Range(t) /\ o \in Range(t)
      BY <2>2 DEF Comes, Range
    <3>2. n # New /\ o # New
      BY <3>1, <1>2
    <3>3. /\ Settled(n) /\ insts[k] = obj[n].value
          /\ Settled(o) /\ insts[l] = obj[o].value
      BY <3>2, <1>3, <1>7
    <3> QED BY <2>2, <3>1, <3>3 DEF TextOf, Ordered
  <2> QED BY <2>1, <2>2, <1>7 DEF TextStep
<1>8. Ordered(u, insts)'
  BY <1>7 DEF Ordered
<1>9. IsInjective(u)
  BY DEF TextStep
<1> QED BY <1>5, <1>6, <1>8, <1>9 DEF TextOf

(***************************************************************************)
(* What eraseFromParent makes of a block.                                  *)
(***************************************************************************)
LEMMA RemoveAtFacts ==
  ASSUME NEW S, NEW s \in Seq(S), NEW i \in 1 .. Len(s), NEW u, u = RemoveAt(s, i)
  PROVE  /\ u \in Seq(S) /\ Len(s) \in Nat \ {0} /\ Len(u) = Len(s) - 1
         /\ \A k \in 1 .. Len(u) : u[k] = IF k < i THEN s[k] ELSE s[k + 1]
<1>1. PICK x, y : x = SubSeq(s, 1, i - 1) /\ y = SubSeq(s, i + 1, Len(s))
  OBVIOUS
<1>2. Len(s) \in Nat /\ i \in Nat /\ 1 <= i /\ i <= Len(s)
  BY LenProperties
<1>3. x \in Seq(S) /\ Len(x) = i - 1 /\ \A k \in 1 .. i - 1 : x[k] = s[k]
  <2>1. \A k \in 1 .. i - 1 : s[k] \in S
    BY <1>2, ElementOfSeq
  <2> QED BY <1>1, <1>2, <2>1, SubSeqProperties
<1>4. y \in Seq(S) /\ Len(y) = Len(s) - i /\ \A k \in 1 .. Len(s) - i : y[k] = s[i + k]
  <2>1. \A k \in i + 1 .. Len(s) : s[k] \in S
    BY <1>2, ElementOfSeq
  <2> QED BY <1>1, <1>2, <2>1, SubSeqProperties
<1>5. u = x \o y
  BY <1>1 DEF RemoveAt
<1>6. /\ u \in Seq(S) /\ Len(u) = Len(x) + Len(y)
      /\ \A k \in 1 .. Len(x) + Len(y) : u[k] = IF k <= Len(x) THEN x[k] ELSE y[k - Len(x)]
  <2>1. x \in Seq(S) /\ y \in Seq(S)
    BY <1>3, <1>4
  <2>2. /\ x \o y \in Seq(S) /\ Len(x \o y) = Len(x) + Len(y)
        /\ \A k \in 1 .. Len(x) + Len(y) : (x \o y)[k] = IF k <= Len(x) THEN x[k] ELSE y[k - Len(x)]
    BY <2>1, ConcatProperties
  <2> QED BY <2>2, <1>5
<1>7. Len(u) = Len(s) - 1
  BY <1>2, <1>3, <1>4, <1>6
<1>8. ASSUME NEW k \in 1 .. Len(u)
      PROVE  u[k] = IF k < i THEN s[k] ELSE s[k + 1]
  <2>1. u[k] = IF k <= i - 1 THEN x[k] ELSE y[k - (i - 1)]
    BY <1>2, <1>3, <1>4, <1>6
  <2>2. CASE k < i
    BY <2>1, <2>2, <1>2, <1>3, <1>7
  <2>3. CASE ~(k < i)
    <3>1. k - (i - 1) \in 1 .. Len(s) - i /\ i + (k - (i - 1)) = k + 1
      BY <2>3, <1>2, <1>7
    <3>2. u[k] = y[k - (i - 1)]
      BY <2>1, <2>3, <1>2
    <3>3. \A j \in 1 .. Len(s) - i : y[j] = s[i + j]
      BY <1>4
    <3> QED BY <2>3, <3>1, <3>2, <3>3
  <2> QED BY <2>2, <2>3
<1>9. Len(s) \in Nat \ {0}
  BY <1>2
<1> QED BY <1>6, <1>7, <1>8, <1>9

LEMMA RemoveFirstFacts ==
  ASSUME NEW S, NEW s \in Seq(S), IsInjective(s), NEW e, NEW u, u = RemoveFirst(s, e)
  PROVE  /\ u \in Seq(S) /\ IsInjective(u)
         /\ \A n : n \in Range(u) <=> n \in Range(s) /\ n # e
         /\ \A n, o : Comes(u, n, o) => Comes(s, n, o)
<1>1. Len(s) \in Nat /\ DOMAIN s = 1 .. Len(s)
  BY LenProperties
<1>2. CASE \A i \in 1 .. Len(s) : s[i] # e
  <2>1. u = s
    BY <1>2 DEF RemoveFirst
  <2> QED BY <2>1, <1>1, <1>2 DEF Range
<1>3. CASE \E i \in 1 .. Len(s) : s[i] = e
  <2>1. PICK i \in 1 .. Len(s) : s[i] = e
    BY <1>3
  <2>2. \A j, k \in 1 .. Len(s) : s[j] = s[k] => j = k
    BY <1>1 DEF IsInjective
  <2>3. {k \in 1 .. Len(s) : s[k] = e} = {i}
    BY <2>1, <2>2
  <2>4. SelectInSeq(s, LAMBDA v : v = e) = i
    <3>1. Min({i}) = i
      BY <1>1 DEF Min
    <3> QED BY <2>3, <3>1 DEF SelectInSeq
  <2>5. u = RemoveAt(s, i)
    BY <1>3, <2>4 DEF RemoveFirst
  <2>6. /\ u \in Seq(S) /\ Len(s) \in Nat \ {0} /\ Len(u) = Len(s) - 1
        /\ \A k \in 1 .. Len(u) : u[k] = IF k < i THEN s[k] ELSE s[k + 1]
    BY <2>5, RemoveAtFacts
  <2>7. DOMAIN u = 1 .. Len(u)
    BY <2>6, LenProperties
  <2>8. IsInjective(u)
    <3> SUFFICES ASSUME NEW j \in 1 .. Len(u), NEW k \in 1 .. Len(u), u[j] = u[k] PROVE j = k
      BY <2>7 DEF IsInjective
    <3> QED BY <2>2, <2>6
  <2>9. ASSUME NEW n PROVE n \in Range(u) <=> n \in Range(s) /\ n # e
    <3>1. ASSUME n \in Range(u) PROVE n \in Range(s) /\ n # e
      <4>1. PICK k \in 1 .. Len(u) : u[k] = n
        BY <3>1, <2>7 DEF Range
      <4>2. PICK j : j = IF k < i THEN k ELSE k + 1
        OBVIOUS
      <4>3. j \in 1 .. Len(s) /\ s[j] = n /\ j # i
        BY <4>1, <4>2, <2>6
      <4> QED BY <4>3, <2>1, <2>2, <1>1 DEF Range
    <3>2. ASSUME n \in Range(s), n # e PROVE n \in Range(u)
      <4>1. PICK j \in 1 .. Len(s) : s[j] = n
        BY <3>2, <1>1 DEF Range
      <4>2. PICK k : k = IF j < i THEN j ELSE j - 1
        OBVIOUS
      <4>3. k \in 1 .. Len(u) /\ u[k] = n
        BY <4>1, <4>2, <3>2, <2>1, <2>6
      <4> QED BY <4>3, <2>7 DEF Range
    <3> QED BY <3>1, <3>2
  <2>10. ASSUME NEW n, NEW o, Comes(u, n, o) PROVE Comes(s, n, o)
    <3>1. PICK j, k \in 1 .. Len(u) : j < k /\ u[j] = n /\ u[k] = o
      BY <2>7, <2>10 DEF Comes
    <3>2. PICK a, b : a = (IF j < i THEN j ELSE j + 1) /\ b = (IF k < i THEN k ELSE k + 1)
      OBVIOUS
    <3>3. a \in 1 .. Len(s) /\ b \in 1 .. Len(s) /\ a < b /\ s[a] = n /\ s[b] = o
      BY <3>1, <3>2, <2>6
    <3> QED BY <3>3, <1>1 DEF Comes
  <2> QED BY <2>6, <2>8, <2>9, <2>10
<1> QED BY <1>2, <1>3

LEMMA AppendText ==
  ASSUME NEW s \in Seq(Nat), IsInjective(s), NEW n \in Nat, n \notin Range(s), NEW u, u = Append(s, n)
  PROVE  /\ u \in Seq(Nat) /\ IsInjective(u)
         /\ \A o : o \in Range(u) <=> o \in Range(s) \/ o = n
         /\ \A a, b : Comes(u, a, b) => Comes(s, a, b) \/ (a # n /\ b = n)
<1>1. /\ u \in Seq(Nat) /\ Len(s) \in Nat /\ Len(u) = Len(s) + 1
      /\ DOMAIN s = 1 .. Len(s) /\ DOMAIN u = 1 .. Len(s) + 1
      /\ \A i \in 1 .. Len(s) : u[i] = s[i]
      /\ u[Len(s) + 1] = n
  BY AppendFacts
<1>2. \A i \in 1 .. Len(s) : s[i] # n
  BY <1>1 DEF Range
<1>3. IsInjective(u)
  <2> SUFFICES ASSUME NEW j \in 1 .. Len(s) + 1, NEW k \in 1 .. Len(s) + 1, u[j] = u[k] PROVE j = k
    BY <1>1 DEF IsInjective
  <2>1. \A a, b \in 1 .. Len(s) : s[a] = s[b] => a = b
    BY <1>1 DEF IsInjective
  <2>2. (j \in 1 .. Len(s) \/ j = Len(s) + 1) /\ (k \in 1 .. Len(s) \/ k = Len(s) + 1)
    BY <1>1
  <2> QED BY <2>1, <2>2, <1>1, <1>2
<1>4. ASSUME NEW o PROVE o \in Range(u) <=> o \in Range(s) \/ o = n
  <2>1. \A k : k \in 1 .. Len(s) + 1 <=> k \in 1 .. Len(s) \/ k = Len(s) + 1
    BY <1>1
  <2> QED BY <2>1, <1>1 DEF Range
<1>5. ASSUME NEW a, NEW b, Comes(u, a, b) PROVE Comes(s, a, b) \/ (a # n /\ b = n)
  <2>1. PICK j, k \in 1 .. Len(s) + 1 : j < k /\ u[j] = a /\ u[k] = b
    BY <1>1, <1>5 DEF Comes
  <2>2. j \in 1 .. Len(s) /\ a = s[j] /\ a # n
    BY <2>1, <1>1, <1>2
  <2>3. CASE k \in 1 .. Len(s)
    BY <2>1, <2>2, <2>3, <1>1 DEF Comes
  <2>4. CASE k = Len(s) + 1
    BY <2>1, <2>2, <2>4, <1>1
  <2> QED BY <2>3, <2>4, <1>1
<1> QED BY <1>1, <1>3, <1>4, <1>5

\* A block, and what stands in it, of a function.
LEMMA MadeText ==
  ASSUME NEW v, NEW t \in Seq(Nat), IsInjective(t), New \in Nat, New \notin Range(t),
         NEW added \in BOOLEAN,
         NEW x, x = IF added THEN Append(t, New) ELSE t,
         NEW u, u = IF HasLoad(v) THEN RemoveFirst(x, valueMap[v]) ELSE x,
         HasLoad(v) => valueMap[v] # New
  PROVE  TextStep(v, added, t, u)
<1>1. /\ x \in Seq(Nat) /\ IsInjective(x)
      /\ \A n : n \in Range(x) <=> n \in Range(t) \/ (added /\ n = New)
      /\ \A n, o : Comes(x, n, o) => Comes(t, n, o) \/ (n # New /\ o = New)
  <2>1. CASE added
    <3>1. x = Append(t, New)
      BY <2>1
    <3>2. /\ x \in Seq(Nat) /\ IsInjective(x)
          /\ \A o : o \in Range(x) <=> o \in Range(t) \/ o = New
          /\ \A a, b : Comes(x, a, b) => Comes(t, a, b) \/ (a # New /\ b = New)
      BY <3>1, AppendText
    <3> QED BY <3>2, <2>1
  <2>2. CASE ~added
    BY <2>2
  <2> QED BY <2>1, <2>2
<1>2. CASE HasLoad(v)
  <2>1. u = RemoveFirst(x, valueMap[v])
    BY <1>2
  <2>2. /\ u \in Seq(Nat) /\ IsInjective(u)
        /\ \A n : n \in Range(u) <=> n \in Range(x) /\ n # valueMap[v]
        /\ \A n, o : Comes(u, n, o) => Comes(x, n, o)
    BY <2>1, <1>1, RemoveFirstFacts
  <2>3. \A n : n \in Range(u) <=> (n \in Range(t) /\ n # valueMap[v]) \/ (added /\ n = New)
    BY <2>2, <1>1, <1>2
  <2>4. \A n, o : Comes(u, n, o) => Comes(t, n, o) \/ (n # New /\ o = New)
    BY <2>2, <1>1
  <2> QED BY <2>2, <2>3, <2>4, <1>2 DEF TextStep
<1>3. CASE ~HasLoad(v)
  <2>1. u = x
    BY <1>3
  <2> QED BY <2>1, <1>1, <1>3 DEF TextStep
<1> QED BY <1>2, <1>3

\* The block is the one of the instruction that is made, whose turn it is.
HasItsTurn(v, b) ==
  \E f \in Functions : \E p \in Places(f) :
    /\ At(f, p) = v /\ b = <<f, p[1]>>
    /\ \A j \in DOMAIN module.blocks[f][p[1]] : InPlace(module.blocks[f][p[1]][j]) => j < p[2]

LEMMA TurnOfBlock ==
  ASSUME module \in Modules, NEW v, NEW b, HasItsTurn(v, b),
         NEW f \in Functions, NEW c \in DOMAIN module.blocks[f],
         NEW insts, insts = module.blocks[f][c]
  PROVE  /\ v \in Range(insts) <=> b = <<f, c>>
         /\ \A k, l \in DOMAIN insts : insts[l] = v /\ InPlace(insts[k]) => k < l
<1>1. PICK g \in Functions : \E p \in Places(g) :
        /\ At(g, p) = v /\ b = <<g, p[1]>>
        /\ \A j \in DOMAIN module.blocks[g][p[1]] : InPlace(module.blocks[g][p[1]][j]) => j < p[2]
  BY DEF HasItsTurn
<1>2. PICK p \in Places(g) :
        /\ At(g, p) = v /\ b = <<g, p[1]>>
        /\ \A j \in DOMAIN module.blocks[g][p[1]] : InPlace(module.blocks[g][p[1]][j]) => j < p[2]
  BY <1>1
<1>3. /\ p = <<p[1], p[2]>> /\ p[1] \in DOMAIN module.blocks[g]
      /\ p[2] \in DOMAIN module.blocks[g][p[1]]
      /\ At(g, p) = module.blocks[g][p[1]][p[2]]
  BY PlaceFacts
<1>4. ASSUME NEW l \in DOMAIN insts, insts[l] = v
      PROVE  f = g /\ p = <<c, l>>
  <2>1. <<c, l>> \in Places(f) /\ At(f, <<c, l>>) = v
    BY <1>4, IsPlace
  <2>2. At(f, <<c, l>>) = At(g, p)
    BY <2>1, <1>2
  <2> QED BY <2>1, <2>2, OnePlace
<1>5. ASSUME v \in Range(insts) PROVE b = <<f, c>>
  <2>1. PICK l \in DOMAIN insts : insts[l] = v
    BY <1>5 DEF Range
  <2>2. f = g /\ p = <<c, l>>
    BY <2>1, <1>4
  <2> QED BY <2>2, <1>2
<1>6. ASSUME b = <<f, c>> PROVE v \in Range(insts)
  <2>1. f = g /\ c = p[1]
    BY <1>6, <1>2
  <2> QED BY <2>1, <1>2, <1>3 DEF Range
<1>7. ASSUME NEW k \in DOMAIN insts, NEW l \in DOMAIN insts, insts[l] = v, InPlace(insts[k])
      PROVE  k < l
  <2>1. f = g /\ p = <<c, l>>
    BY <1>4, <1>7
  <2>2. p[1] = c /\ p[2] = l
    BY <2>1
  <2> QED BY <2>1, <2>2, <1>2, <1>7
<1> QED BY <1>5, <1>6, <1>7

LEMMA TextFacts ==
  ASSUME Tables, Texts, module \in Modules,
         NEW f \in Functions, NEW c \in DOMAIN module.blocks[f]
  PROVE  /\ <<f, c>> \in Blocks /\ text[<<f, c>>] \in Seq(Nat)
         /\ IsInjective(text[<<f, c>>]) /\ New \in Nat /\ New \notin Range(text[<<f, c>>])
<1>1. <<f, c>> \in Blocks
  BY BlockFacts
<1>2. TextOf(text[<<f, c>>], module.blocks[f][c])
  BY DEF Texts
<1>3. Len(obj) \in Nat
  BY LenProperties DEF Tables
<1>4. New \in Nat /\ New \notin 1 .. Len(obj)
  BY <1>3 DEF New
<1> QED BY <1>1, <1>2, <1>4 DEF Texts, TextOf, Live

LEMMA StepTexts ==
  ASSUME module' = module, module \in Modules, Tables, Texts,
         NEW v, NEW load, NEW ops, TableStep(v, load, ops),
         NEW b \in Blocks, text' = Removed([text EXCEPT ![b] = Append(@, New)], v),
         ~load /\ v \notin EarlyLocals => HasItsTurn(v, b)
  PROVE  Texts'
<1>1. ASSUME NEW f \in Functions, NEW c \in DOMAIN module.blocks[f]
      PROVE  TextStep(v, b = <<f, c>>, text[<<f, c>>], text'[<<f, c>>])
  <2>1. PICK t, x : /\ t = text[<<f, c>>]
                    /\ x = IF b = <<f, c>> THEN Append(t, New) ELSE t
    OBVIOUS
  <2>2. PICK u : u = IF HasLoad(v) THEN RemoveFirst(x, valueMap[v]) ELSE x
    OBVIOUS
  <2>3. /\ <<f, c>> \in Blocks /\ t \in Seq(Nat) /\ IsInjective(t)
        /\ New \in Nat /\ New \notin Range(t)
    BY <2>1, TextFacts
  <2>4. HasLoad(v) => valueMap[v] # New
    <3>1. v \in Mapped => valueMap[v] \in 1 .. Len(obj) /\ Len(obj) \in Nat
      BY LiveValue
    <3> QED BY <3>1 DEF HasLoad, New
  <2>5. TextStep(v, b = <<f, c>>, t, u)
    BY <2>1, <2>2, <2>3, <2>4, MadeText
  <2>6. text'[<<f, c>>] = u
    <3>1. PICK grown : grown = [text EXCEPT ![b] = Append(@, New)]
      OBVIOUS
    <3>2. DOMAIN text = Blocks
      BY DEF Texts
    <3>3. DOMAIN grown = Blocks /\ grown[<<f, c>>] = x
      BY <3>1, <3>2, <2>1, <2>3
    <3> QED BY <3>1, <3>3, <2>2, <2>3 DEF Removed
  <2> QED BY <2>1, <2>5, <2>6
<1>2. ASSUME NEW f \in Functions, NEW c \in DOMAIN module.blocks[f],
             NEW u, u = text'[<<f, c>>], NEW insts, insts = module.blocks[f][c]
      PROVE  TextOf(u, insts)'
  <2>1. PICK t : t = text[<<f, c>>]
    OBVIOUS
  <2>2. PICK added \in BOOLEAN : added = (b = <<f, c>>)
    OBVIOUS
  <2>3. TextStep(v, added, t, u)
    BY <2>1, <2>2, <1>1, <1>2
  <2>4. TextOf(t, insts)
    BY <2>1, <1>2 DEF Texts
  <2>5. InTurn(v, load, added, insts)
    <3> SUFFICES ASSUME ~load, v \notin EarlyLocals
                 PROVE  /\ v \in Range(insts) <=> added
                        /\ \A k, l \in DOMAIN insts : insts[l] = v /\ InPlace(insts[k]) => k < l
      BY DEF InTurn
    <3>1. HasItsTurn(v, b)
      OBVIOUS
    <3>2. /\ v \in Range(insts) <=> b = <<f, c>>
          /\ \A k, l \in DOMAIN insts : insts[l] = v /\ InPlace(insts[k]) => k < l
      BY <3>1, <1>2, TurnOfBlock
    <3> QED BY <3>2, <2>2
  <2> QED BY <2>3, <2>4, <2>5, StepText
<1>3. text' \in [Blocks -> Seq(Nat)]
  <2>1. DOMAIN text = Blocks
    BY DEF Texts
  <2>2. DOMAIN text' = Blocks /\ text' = [c \in Blocks |-> text'[c]]
    BY <2>1 DEF Removed
  <2>3. ASSUME NEW d \in Blocks PROVE text'[d] \in Seq(Nat)
    <3>1. PICK f \in Functions : \E c \in DOMAIN module.blocks[f] : d = <<f, c>>
      BY DEF Blocks
    <3>2. PICK c \in DOMAIN module.blocks[f] : d = <<f, c>>
      BY <3>1
    <3> QED BY <3>2, <1>1 DEF TextStep
  <2> QED BY <2>2, <2>3
<1> QED BY <1>2, <1>3, SameModule DEF Texts

\* Without a step of the blocks: what is made is no instruction.
LEMMA KeepTexts ==
  ASSUME module' = module, module \in Modules, Tables, Texts, Loads,
         NEW v, NEW load, NEW ops, TableStep(v, load, ops), v \notin Insts, text' = text
  PROVE  Texts'
<1>1. ~HasLoad(v)
  BY Sorts DEF Loads, HasLoad, TableStep
<1>2. ASSUME NEW f \in Functions, NEW c \in DOMAIN module.blocks[f],
             NEW u, u = text[<<f, c>>], NEW insts, insts = module.blocks[f][c]
      PROVE  TextOf(u, insts)'
  <2>1. u \in Seq(Nat) /\ IsInjective(u)
    BY <1>2, TextFacts
  <2>2. TextStep(v, FALSE, u, u)
    BY <2>1, <1>1 DEF TextStep
  <2>3. TextOf(u, insts)
    BY <1>2 DEF Texts
  <2>4. v \notin Range(insts)
    BY <1>2, BlockFacts, ElementOfSeq DEF Range
  <2>5. InTurn(v, load, FALSE, insts)
    BY <2>4 DEF InTurn, Range
  <2> QED BY <2>2, <2>3, <2>5, StepText
<1>3. text' \in [Blocks -> Seq(Nat)]
  BY DEF Texts
<1> QED BY <1>2, <1>3, SameModule DEF Texts

\* A phi gets an operand, or nothing happens to the tables.
SameValues ==
  /\ valueMap' = valueMap /\ Len(obj') = Len(obj)
  /\ \A k \in 1 .. Len(obj) : obj'[k].value = obj[k].value /\ obj'[k].load = obj[k].load

LEMMA SameLoads ==
  ASSUME Tables, SameValues
  PROVE  Mapped' = Mapped /\ \A w : HasLoad(w)' <=> HasLoad(w)
<1>1. Mapped' = Mapped
  BY DEF Mapped, SameValues
<1>2. ASSUME NEW w PROVE HasLoad(w)' <=> HasLoad(w)
  <2>1. w \in Mapped => valueMap[w] \in 1 .. Len(obj)
    BY LiveValue
  <2> QED BY <2>1, <1>1 DEF HasLoad, SameValues
<1> QED BY <1>1, <1>2

LEMMA SameTexts ==
  ASSUME module' = module, Tables, Texts, SameValues, text' = text
  PROVE  Texts'
<1>1. Mapped' = Mapped /\ \A w : HasLoad(w)' <=> HasLoad(w)
  BY SameLoads
<1>2. EarlyLocals' = EarlyLocals /\ valueMap' = valueMap
  BY SameModule DEF SameValues
<1>3. ASSUME NEW t, NEW insts, TextOf(t, insts) PROVE TextOf(t, insts)'
  <2>1. ASSUME NEW n \in Range(t)
        PROVE  Live(n)' /\ (Settled(n)' <=> Settled(n)) /\ obj'[n].value = obj[n].value
    <3>1. n \in 1 .. Len(obj) /\ Live(n)
      BY <1>3, <2>1 DEF TextOf, Live
    <3>2. obj'[n].value = obj[n].value /\ obj'[n].load = obj[n].load
      BY <3>1 DEF SameValues
    <3> QED BY <3>1, <3>2, <1>1, <1>2 DEF Live, Settled, SameValues
  <2>2. \A w : InPlace(w)' <=> InPlace(w)
    BY <1>1, <1>2 DEF InPlace
  <2>3. Ordered(t, insts)'
    BY <2>1, <1>3 DEF TextOf, Ordered
  <2> QED BY <2>1, <2>2, <2>3, <1>2, <1>3 DEF TextOf
<1>4. text' \in [Blocks -> Seq(Nat)]
  BY DEF Texts
<1> QED BY <1>3, <1>4, SameModule DEF Texts

-----------------------------------------------------------------------------
(***************************************************************************)
(* The activations.                                                        *)
(***************************************************************************)
LEMMA TopFacts ==
  ASSUME Stacked, calls # << >>
  PROVE  /\ calls \in Seq(Frames) /\ Len(calls) \in Nat \ {0} /\ DOMAIN calls = 1 .. Len(calls)
         /\ Len(calls) \in DOMAIN calls /\ Top = calls[Len(calls)]
         /\ Top \in Frames /\ Top \in Range(calls)
<1>1. calls \in Seq(Frames)
  BY DEF Stacked
<1>2. Len(calls) \in Nat /\ DOMAIN calls = 1 .. Len(calls) /\ (Len(calls) = 0 => calls = << >>)
  BY <1>1, LenProperties, EmptySeq
<1>3. Len(calls) \in Nat \ {0} /\ Len(calls) \in DOMAIN calls
  BY <1>2
<1>4. calls[Len(calls)] \in Frames
  BY <1>1, <1>2, <1>3, ElementOfSeq
<1> QED BY <1>1, <1>2, <1>3, <1>4 DEF Top, Range

LEMMA FrameFacts ==
  ASSUME Stacked, NEW k \in DOMAIN calls
  PROVE  /\ calls[k] \in Frames /\ calls[k].value \in Values /\ calls[k].held \in Seq(Nat)
         /\ calls[k].block \in Blocks \cup {<< >>} /\ calls[k] \in Range(calls)
         /\ k \in Nat \ {0} /\ k <= Len(calls) /\ Len(calls) \in Nat
<1>1. calls \in Seq(Frames)
  BY DEF Stacked
<1>2. Len(calls) \in Nat /\ DOMAIN calls = 1 .. Len(calls)
  BY <1>1, LenProperties
<1>3. calls[k] \in Frames
  BY <1>1, <1>2, ElementOfSeq
<1> QED BY <1>2, <1>3 DEF Frames, Range

\* A body is active once.
LEMMA OneBody ==
  ASSUME Stacked, NEW j \in DOMAIN calls, NEW k \in DOMAIN calls,
         calls[j].value \in Functions, calls[k].value = calls[j].value
  PROVE  j = k
  BY DEF Stacked

\* An instruction that is in progress is the last one that the loops of its body have
\* passed, and its activation is right above that of the body.
LEMMA AboveBody ==
  ASSUME module \in Modules, Stacked, NEW f \in Functions, NEW p \in Places(f),
         NEW k \in DOMAIN calls, calls[k].value = At(f, p)
  PROVE  /\ k - 1 \in DOMAIN calls /\ calls[k - 1].value = f
         /\ calls[k - 1].at = <<p[1], p[2] + 1>> /\ calls[k].block = <<f, p[1]>>
         /\ Kind(At(f, p)) \in {"inst", "phi"} /\ Behind(f, p)
<1>1. At(f, p) \in Insts /\ At(f, p) \in Values
  BY PlaceFacts
<1>2. IsTaken(k)
  BY <1>1 DEF Stacked
<1>3. PICK g : g = calls[k - 1].value
  OBVIOUS
<1>4. k - 1 \in DOMAIN calls /\ g \in Functions /\ TakenFrom(calls[k], calls[k - 1])
  BY <1>2, <1>3 DEF IsTaken
<1>5. PICK q \in Places(g) : /\ At(g, q) = calls[k].value
                             /\ calls[k - 1].at = <<q[1], q[2] + 1>>
                             /\ calls[k].block = <<g, q[1]>>
  BY <1>3, <1>4 DEF TakenFrom
<1>6. g = f /\ q = p
  BY <1>4, <1>5, OnePlace
<1>7. Kind(At(f, p)) \in {"inst", "phi"}
  BY <1>1, <1>2, Sorts DEF IsTaken
<1>8. Behind(f, p)
  <2> SUFFICES ASSUME NEW j \in DOMAIN calls, calls[j].value = f PROVE Before(p, calls[j].at)
    BY DEF Behind
  <2>1. j = k - 1
    BY <1>3, <1>4, <1>6, OneBody
  <2>2. calls[j].at = <<p[1], p[2] + 1>>
    BY <2>1, <1>5, <1>6
  <2>3. p[2] \in Nat
    BY PlaceFacts
  <2>4. calls[j].at[1] = p[1] /\ calls[j].at[2] = p[2] + 1
    BY <2>2
  <2> QED BY <2>3, <2>4 DEF Before
<1> QED BY <1>3, <1>4, <1>5, <1>6, <1>7, <1>8

\* What is in progress is in progress once.
LEMMA OneInstruction ==
  ASSUME module \in Modules, Stacked, NEW j \in DOMAIN calls, NEW k \in DOMAIN calls,
         calls[j].value \in Insts, calls[k].value = calls[j].value
  PROVE  j = k
<1>1. PICK f \in Functions : \E p \in Places(f) : At(f, p) = calls[j].value
  BY EveryPlace
<1>2. PICK p \in Places(f) : At(f, p) = calls[j].value
  BY <1>1
<1>3. j - 1 \in DOMAIN calls /\ calls[j - 1].value = f
  BY <1>2, AboveBody
<1>4. k - 1 \in DOMAIN calls /\ calls[k - 1].value = f
  BY <1>2, AboveBody
<1>5. j - 1 = k - 1
  BY <1>3, <1>4, OneBody
<1> QED BY <1>5, FrameFacts

\* What uses an instruction of a function is right above the body of that function.
LEMMA UserAboveBody ==
  ASSUME module \in Modules, Stacked, NEW f \in Functions, NEW p \in Places(f),
         NEW k \in DOMAIN calls, NEW i \in DOMAIN Operands(calls[k].value),
         Operands(calls[k].value)[i] = At(f, p)
  PROVE  \E q \in Places(f) : /\ At(f, q) = calls[k].value
                              /\ k - 1 \in DOMAIN calls /\ calls[k - 1].value = f
                              /\ calls[k - 1].at = <<q[1], q[2] + 1>>
                              /\ calls[k].block = <<f, q[1]>>
<1>1. PICK v : v = calls[k].value
  OBVIOUS
<1>2. v \in Values
  BY <1>1, FrameFacts
<1>3. At(f, p) \in Insts
  BY PlaceFacts
<1>4. v \in Insts
  BY <1>1, <1>2, <1>3, NoOperand
<1>5. PICK g \in Functions : \E q \in Places(g) : At(g, q) = v
  BY <1>4, EveryPlace
<1>6. PICK q \in Places(g) : At(g, q) = v
  BY <1>5
<1>7. PICK r \in Places(g) : At(g, r) = At(f, p)
  <2>1. i \in DOMAIN Operands(At(g, q)) /\ Operands(At(g, q))[i] = At(f, p)
    BY <1>1, <1>6
  <2>2. \E r \in Places(g) : At(g, r) = Operands(At(g, q))[i]
    BY <2>1, <1>3, OperandPlace
  <2> QED BY <2>1, <2>2
<1>8. g = f
  BY <1>7, OnePlace
<1>9. k - 1 \in DOMAIN calls /\ calls[k - 1].value = f
      /\ calls[k - 1].at = <<q[1], q[2] + 1>> /\ calls[k].block = <<f, q[1]>>
  BY <1>1, <1>6, <1>8, AboveBody
<1> QED BY <1>1, <1>6, <1>8, <1>9

-----------------------------------------------------------------------------
(***************************************************************************)
(* Steps of the activations.                                               *)
(***************************************************************************)
\* An activation stays, and only the innermost one, if it is a body, moves on.
Kept(k) ==
  /\ k \in DOMAIN calls /\ calls'[k].value = calls[k].value
  /\ calls'[k].block = calls[k].block
  /\ calls'[k].at = calls[k].at \/ (k = Len(calls) /\ calls[k].value \in Functions)
  /\ calls'[k].value \in Functions => calls'[k].at \in (Nat \ {0}) \X (Nat \ {0})
Pushed(k) ==
  /\ k = Len(calls) + 1
  /\ calls'[k].value \in Functions =>
       calls'[k].value \in Mapped' \ Mapped /\ calls'[k].at \in (Nat \ {0}) \X (Nat \ {0})
  /\ calls'[k].value \in Insts => IsTaken(k)'
StackStep == calls' \in Seq(Frames) /\ \A k \in DOMAIN calls' : Kept(k) \/ Pushed(k)

LEMMA StepStack ==
  ASSUME module' = module, module \in Modules, Stacked, Mapped \subseteq Mapped', StackStep
  PROVE  Stacked'
<1>1. /\ Frames' = Frames /\ Functions' = Functions /\ Insts' = Insts
      /\ \A v : Kind(v)' = Kind(v)
      /\ \A f : Places(f)' = Places(f)
      /\ \A f, p : At(f, p)' = At(f, p)
  BY SameModule
<1>2. calls \in Seq(Frames) /\ Len(calls) \in Nat /\ DOMAIN calls = 1 .. Len(calls)
  BY LenProperties DEF Stacked
<1>3. calls' \in Seq(Frames) /\ Len(calls') \in Nat /\ DOMAIN calls' = 1 .. Len(calls')
  BY LenProperties DEF StackStep
<1>4. ASSUME NEW k \in DOMAIN calls', NEW c, c = calls'[k], c.value \in Functions
      PROVE  IsBody(c)'
  <2>1. CASE Kept(k)
    <3>1. k \in DOMAIN calls /\ c.value = calls[k].value /\ c.at \in (Nat \ {0}) \X (Nat \ {0})
      BY <1>4, <2>1 DEF Kept
    <3>2. calls[k] \in Range(calls)
      BY <3>1, FrameFacts
    <3>3. IsBody(calls[k])
      BY <3>1, <3>2, <1>4 DEF Stacked
    <3> QED BY <3>1, <3>3, <1>1 DEF IsBody
  <2>2. CASE Pushed(k)
    <3>1. c.value \in Mapped' /\ c.at \in (Nat \ {0}) \X (Nat \ {0})
      BY <2>2, <1>4 DEF Pushed
    <3> QED BY <3>1, <1>1, <1>4 DEF IsBody
  <2> QED BY <2>1, <2>2, <1>4 DEF StackStep
<1>5. ASSUME NEW k \in DOMAIN calls', calls'[k].value \in Insts
      PROVE  IsTaken(k)'
  <2>1. CASE Kept(k)
    <3>1. k \in DOMAIN calls /\ calls'[k].value = calls[k].value /\ calls'[k].block = calls[k].block
      BY <2>1 DEF Kept
    <3>2. /\ Kind(calls[k].value) # "local"
          /\ k - 1 \in DOMAIN calls /\ calls[k - 1].value \in Functions
          /\ TakenFrom(calls[k], calls[k - 1])
      BY <3>1, <1>5 DEF Stacked, IsTaken
    <3>3. k - 1 \in DOMAIN calls' /\ k - 1 # Len(calls) /\ k - 1 # Len(calls) + 1
      BY <3>1, <3>2, <1>2, <1>3, <1>5
    <3>4. Kept(k - 1)
      BY <3>3 DEF StackStep, Pushed
    <3>5. calls'[k - 1].value = calls[k - 1].value /\ calls'[k - 1].at = calls[k - 1].at
      BY <3>3, <3>4 DEF Kept
    <3>6. TakenFrom(calls[k], calls[k - 1])'
      BY <3>1, <3>2, <3>5, <1>1 DEF TakenFrom
    <3> QED BY <3>1, <3>2, <3>3, <3>5, <3>6, <1>1 DEF IsTaken
  <2>2. CASE Pushed(k)
    BY <2>2, <1>5 DEF Pushed
  <2> QED BY <2>1, <2>2, <1>5 DEF StackStep
<1>6. ASSUME NEW j \in DOMAIN calls', NEW k \in DOMAIN calls',
             calls'[j].value \in Functions, calls'[j].value = calls'[k].value
      PROVE  j = k
  <2>1. ASSUME NEW i \in DOMAIN calls', Kept(i), calls'[i].value \in Functions
        PROVE  calls'[i].value \in Mapped
    <3>1. i \in DOMAIN calls /\ calls'[i].value = calls[i].value
      BY <2>1 DEF Kept
    <3>2. calls[i] \in Range(calls)
      BY <3>1, FrameFacts
    <3> QED BY <3>1, <3>2, <2>1 DEF Stacked, IsBody
  <2>2. CASE Kept(j) /\ Kept(k)
    BY <2>2, <1>6, OneBody DEF Kept
  <2>3. CASE Pushed(j) /\ Pushed(k)
    BY <2>3 DEF Pushed
  <2>4. CASE (Kept(j) /\ Pushed(k)) \/ (Kept(k) /\ Pushed(j))
    BY <2>1, <2>4, <1>6 DEF Pushed
  <2> QED BY <2>2, <2>3, <2>4, <1>6 DEF StackStep
<1> QED BY <1>1, <1>3, <1>4, <1>5, <1>6 DEF Stacked, Range

\* What a step of the activations leaves as it was.
OnlyTop == Len(calls) \in Nat /\ Len(calls') \in Nat /\ Len(calls) - 1 <= Len(calls')
IsPushed(v) == Len(calls) + 1 \in DOMAIN calls' /\ calls'[Len(calls) + 1].value = v
IsPopped(v) == Len(calls') < Len(calls) /\ Top.value = v

LEMMA SameActivity ==
  ASSUME Stacked, StackStep, OnlyTop, NEW v, ~IsPushed(v), ~IsPopped(v)
  PROVE  InProgress(v)' <=> InProgress(v)
<1>1. DOMAIN calls = 1 .. Len(calls) /\ DOMAIN calls' = 1 .. Len(calls')
  BY LenProperties DEF Stacked, StackStep
<1>2. ASSUME NEW k \in DOMAIN calls', calls'[k].value = v
      PROVE  InProgress(v)
  <2>1. Kept(k)
    BY <1>2 DEF StackStep, Pushed, IsPushed
  <2> QED BY <2>1, <1>2 DEF Kept, InProgress
<1>3. ASSUME NEW k \in DOMAIN calls, calls[k].value = v
      PROVE  InProgress(v)'
  <2>1. k \in DOMAIN calls'
    BY <1>1, <1>3 DEF OnlyTop, IsPopped, Top
  <2>2. ~Pushed(k)
    BY <1>1, <1>3 DEF Pushed, OnlyTop
  <2>3. Kept(k)
    BY <2>1, <2>2 DEF StackStep
  <2> QED BY <2>1, <2>3, <1>3 DEF Kept, InProgress
<1> QED BY <1>2, <1>3 DEF InProgress

LEMMA SameBody ==
  ASSUME Stacked, StackStep, OnlyTop, NEW f \in Functions, ~IsPushed(f),
         \A k \in DOMAIN calls : k = Len(calls) /\ calls[k].value = f =>
            k \in DOMAIN calls' /\ calls'[k].at = calls[k].at,
         NEW p
  PROVE  Behind(f, p)' <=> Behind(f, p)
<1>1. DOMAIN calls = 1 .. Len(calls) /\ DOMAIN calls' = 1 .. Len(calls')
  BY LenProperties DEF Stacked, StackStep
<1>2. ASSUME NEW k \in DOMAIN calls', calls'[k].value = f
      PROVE  k \in DOMAIN calls /\ calls[k].value = f /\ calls'[k].at = calls[k].at
  <2>1. Kept(k)
    BY <1>2 DEF StackStep, Pushed, IsPushed
  <2> QED BY <2>1, <1>2 DEF Kept
<1>3. ASSUME NEW k \in DOMAIN calls, calls[k].value = f
      PROVE  k \in DOMAIN calls' /\ calls'[k].value = f
  <2>1. k \in DOMAIN calls'
    BY <1>1, <1>3 DEF OnlyTop
  <2>2. ~Pushed(k)
    BY <1>1, <1>3 DEF Pushed, OnlyTop
  <2>3. Kept(k)
    BY <2>1, <2>2 DEF StackStep
  <2> QED BY <2>1, <2>3, <1>3 DEF Kept
<1>4. Behind(f, p)' <=> \A k \in DOMAIN calls' : calls'[k].value = f => Before(p, calls'[k].at)
  BY DEF Behind, Before
<1> QED BY <1>2, <1>3, <1>4 DEF Behind

\* The shapes of the steps.
PushOn(c) ==
  /\ calls' \in Seq(Frames) /\ Len(calls) \in Nat /\ Len(calls') = Len(calls) + 1
  /\ \A k \in 1 .. Len(calls) : calls'[k] = calls[k]
  /\ calls'[Len(calls) + 1] = c
PopOff ==
  /\ calls' \in Seq(Frames) /\ Len(calls) \in Nat \ {0} /\ Len(calls') = Len(calls) - 1
  /\ \A k \in 1 .. Len(calls) - 1 : calls'[k] = calls[k]
SetTop(c) ==
  /\ calls' \in Seq(Frames) /\ Len(calls) \in Nat \ {0} /\ Len(calls') = Len(calls)
  /\ \A k \in 1 .. Len(calls) - 1 : calls'[k] = calls[k]
  /\ calls'[Len(calls)] = c
TakeOn(d, c) ==
  /\ calls' \in Seq(Frames) /\ Len(calls) \in Nat \ {0} /\ Len(calls') = Len(calls) + 1
  /\ \A k \in 1 .. Len(calls) - 1 : calls'[k] = calls[k]
  /\ calls'[Len(calls)] = d /\ calls'[Len(calls) + 1] = c

LEMMA FrontFacts ==
  ASSUME NEW S, NEW s \in Seq(S), s # << >>, NEW u, u = Front(s)
  PROVE  /\ u \in Seq(S) /\ Len(s) \in Nat \ {0} /\ Len(u) = Len(s) - 1
         /\ \A k \in 1 .. Len(s) - 1 : u[k] = s[k]
<1>1. PICK n : n = Len(s)
  OBVIOUS
<1>2. n \in Nat /\ n # 0
  BY <1>1, LenProperties, EmptySeq
<1>3. PICK m \in Nat : m = n - 1
  BY <1>2
<1>4. u = SubSeq(s, 1, m)
  BY <1>1, <1>3 DEF Front
<1>5. \A k \in 1 .. m : s[k] \in S
  BY <1>1, <1>2, <1>3, ElementOfSeq
<1>6. /\ u \in Seq(S)
      /\ Len(u) = IF 1 <= m THEN m - 1 + 1 ELSE 0
      /\ \A k \in 1 .. m - 1 + 1 : u[k] = s[1 + k - 1]
  <2>1. 1 \in Int /\ m \in Int
    BY <1>3
  <2> QED BY <2>1, <1>4, <1>5, SubSeqProperties
<1>7. Len(u) = m
  BY <1>3, <1>6
<1>8. ASSUME NEW k \in 1 .. m PROVE u[k] = s[k]
  <2>1. 1 + k - 1 = k /\ k \in 1 .. m - 1 + 1
    BY <1>3
  <2> QED BY <2>1, <1>6
<1>9. Len(s) \in Nat \ {0} /\ Len(s) - 1 = m
  BY <1>1, <1>2, <1>3
<1> QED BY <1>6, <1>7, <1>8, <1>9

LEMMA PopOffFront ==
  ASSUME Stacked, calls # << >>, calls' = Front(calls)
  PROVE  PopOff
<1>1. calls \in Seq(Frames)
  BY DEF Stacked
<1> QED BY <1>1, FrontFacts DEF PopOff

LEMMA PushOnAppend ==
  ASSUME Stacked, NEW c \in Frames, calls' = Append(calls, c)
  PROVE  PushOn(c)
<1>1. calls \in Seq(Frames)
  BY DEF Stacked
<1> QED BY <1>1, AppendFacts DEF PushOn

\* A sequence of activations whose innermost one changes.
LEMMA ChangeLast ==
  ASSUME NEW S, NEW s \in Seq(S), s # << >>, NEW c \in S, NEW u, u = [s EXCEPT ![Len(s)] = c]
  PROVE  /\ u \in Seq(S) /\ Len(s) \in Nat \ {0} /\ Len(u) = Len(s)
         /\ \A k \in 1 .. Len(s) - 1 : u[k] = s[k]
         /\ u[Len(s)] = c
<1>1. PICK n : n = Len(s)
  OBVIOUS
<1>2. n \in Nat /\ n # 0
  BY <1>1, LenProperties, EmptySeq
<1>3. n \in 1 .. Len(s)
  BY <1>1, <1>2
<1>4. u = [s EXCEPT ![n] = c]
  BY <1>1
<1>5. /\ u \in Seq(S) /\ Len(u) = Len(s)
      /\ \A k \in 1 .. Len(s) : u[k] = IF k = n THEN c ELSE s[k]
  BY <1>3, <1>4, ExceptSeq
<1>6. ASSUME NEW k \in 1 .. n - 1 PROVE u[k] = s[k]
  <2>1. k \in 1 .. n /\ k # n
    BY <1>2
  <2> QED BY <2>1, <1>1, <1>5
<1>7. u[n] = c
  BY <1>3, <1>5
<1> QED BY <1>1, <1>2, <1>5, <1>6, <1>7

LEMMA SetTopExcept ==
  ASSUME Stacked, calls # << >>, NEW c \in Frames, calls' = [calls EXCEPT ![Len(calls)] = c]
  PROVE  SetTop(c)
<1>1. calls \in Seq(Frames)
  BY DEF Stacked
<1> QED BY <1>1, ChangeLast DEF SetTop

LEMMA TakeOnAppend ==
  ASSUME Stacked, calls # << >>, NEW d \in Frames, NEW c \in Frames,
         calls' = Append([calls EXCEPT ![Len(calls)] = d], c)
  PROVE  TakeOn(d, c)
<1>1. calls \in Seq(Frames)
  BY DEF Stacked
<1>2. PICK s : s = [calls EXCEPT ![Len(calls)] = d]
  OBVIOUS
<1>3. /\ s \in Seq(Frames) /\ Len(calls) \in Nat \ {0} /\ Len(s) = Len(calls)
      /\ \A k \in 1 .. Len(calls) - 1 : s[k] = calls[k]
      /\ s[Len(calls)] = d
  BY <1>1, <1>2, ChangeLast
<1>4. PICK n, S, t : n = Len(calls) /\ S = Frames /\ t = calls'
  OBVIOUS
<1>5. s \in Seq(S) /\ c \in S /\ t = Append(s, c)
  BY <1>2, <1>3, <1>4
<1>a. /\ t \in Seq(S) /\ Len(s) \in Nat /\ Len(t) = Len(s) + 1
      /\ DOMAIN s = 1 .. Len(s) /\ DOMAIN t = 1 .. Len(s) + 1
      /\ \A i \in 1 .. Len(s) : t[i] = s[i]
      /\ t[Len(s) + 1] = c
  BY <1>5, AppendFacts
<1>6. /\ calls' \in Seq(S) /\ Len(calls') = Len(s) + 1
      /\ \A i \in 1 .. Len(s) : calls'[i] = s[i]
      /\ calls'[Len(s) + 1] = c
  BY <1>4, <1>a
<1>7. /\ n \in Nat \ {0} /\ Len(s) = n /\ s[n] = d
      /\ \A k \in 1 .. n - 1 : s[k] = calls[k]
  BY <1>3, <1>4
<1>8. calls' \in Seq(S) /\ Len(calls') = n + 1 /\ calls'[n] = d /\ calls'[n + 1] = c
  BY <1>6, <1>7
<1>9. ASSUME NEW k \in 1 .. n - 1 PROVE calls'[k] = calls[k]
  <2>1. k \in 1 .. n
    BY <1>7
  <2> QED BY <2>1, <1>6, <1>7
<1> QED BY <1>4, <1>7, <1>8, <1>9 DEF TakeOn

-----------------------------------------------------------------------------
(***************************************************************************)
(* What the steps of the activations do to what is in progress, and to how *)
(* far the bodies are.                                                     *)
(***************************************************************************)
LEMMA BehindBody ==
  ASSUME Stacked, NEW n \in DOMAIN calls, NEW f \in Functions, calls[n].value = f, NEW p
  PROVE  Behind(f, p) <=> Before(p, calls[n].at)
<1>1. \A k \in DOMAIN calls : calls[k].value = f => k = n
  BY OneBody
<1> QED BY <1>1 DEF Behind

LEMMA BehindBodyNext ==
  ASSUME module' = module, Stacked', NEW n \in DOMAIN calls', NEW f \in Functions,
         calls'[n].value = f, NEW a, calls'[n].at = a, NEW p
  PROVE  Behind(f, p)' <=> Before(p, a)
<1>1. Functions' = Functions
  BY SameModule
<1>2. \A k \in DOMAIN calls' : calls'[k].value = f => k = n
  BY <1>1 DEF Stacked
<1> QED BY <1>2 DEF Behind, Before

\* A body that is active, and where it is.
LEMMA BodyFacts ==
  ASSUME module \in Modules, Stacked, calls # << >>, NEW f, f = Top.value, f \in Functions
  PROVE  /\ f \in Mapped /\ Top.at = <<Top.at[1], Top.at[2]>>
         /\ Top.at[1] \in Nat \ {0} /\ Top.at[2] \in Nat \ {0}
         /\ HasTurn => Top.at \in Places(f) /\ Turn = At(f, Top.at) /\ Block = <<f, Top.at[1]>>
                       /\ Block \in Blocks /\ Turn \in Insts /\ Turn \in Values
<1>1. IsBody(Top)
  BY TopFacts DEF Stacked
<1>2. Top.at \in (Nat \ {0}) \X (Nat \ {0})
  BY <1>1 DEF IsBody
<1>3. Top.at = <<Top.at[1], Top.at[2]>> /\ Top.at[1] \in Nat \ {0} /\ Top.at[2] \in Nat \ {0}
  BY <1>2
<1>4. ASSUME HasTurn
      PROVE  Top.at \in Places(f) /\ Block \in Blocks
  <2>1. Top.at[1] \in DOMAIN module.blocks[f] /\ Top.at[2] \in DOMAIN module.blocks[f][Top.at[1]]
    BY <1>4 DEF HasTurn, HasBlock
  <2>2. <<Top.at[1], Top.at[2]>> \in Places(f)
    BY <2>1, IsPlace
  <2> QED BY <2>1, <2>2, <1>3, BlockFacts DEF Block
<1>5. HasTurn => Turn \in Insts /\ Turn \in Values
  BY <1>4, PlaceFacts DEF Turn
<1> QED BY <1>1, <1>3, <1>4, <1>5 DEF IsBody, Turn, Block

SameFunctions == Mapped \subseteq Mapped' /\ \A f \in Functions : f \in Mapped' <=> f \in Mapped
SamePassed    == \A f \in Functions : \A p \in Places(f) : Passed(f, p)' <=> Passed(f, p)
SameProgress  == \A v \in Insts : InProgress(v)' <=> InProgress(v)
\* The loops of the body at hand pass its next instruction.
PassTurn == \A f \in Functions : \A p \in Places(f) :
              Passed(f, p)' <=> Passed(f, p) \/ At(f, p) = Turn

LEMMA SameFrame ==
  ASSUME Stacked, NEW k \in DOMAIN calls, calls'[k] = calls[k]
  PROVE  Kept(k)
<1>1. PICK c : c = calls[k]
  OBVIOUS
<1>2. c.value \in Functions => c.at \in (Nat \ {0}) \X (Nat \ {0})
  BY <1>1, FrameFacts DEF Stacked, IsBody
<1>3. PICK d : d = calls'[k]
  OBVIOUS
<1>4. d = c
  BY <1>1, <1>3
<1>5. calls'[k].value = d.value /\ calls'[k].block = d.block /\ calls'[k].at = d.at
  BY <1>3
<1> QED BY <1>1, <1>2, <1>4, <1>5 DEF Kept

LEMMA PushValue ==
  ASSUME module' = module, module \in Modules, Stacked, SameFunctions, NEW c, PushOn(c),
         c.value \in Values, c.value \notin Functions, c.value \notin Insts
  PROVE  Stacked' /\ SamePassed /\ SameProgress
<1>1. /\ DOMAIN calls = 1 .. Len(calls) /\ DOMAIN calls' = 1 .. Len(calls')
      /\ Len(calls) \in Nat
  BY LenProperties DEF Stacked, PushOn
<1>2. StackStep
  <2> SUFFICES ASSUME NEW k \in DOMAIN calls' PROVE Kept(k) \/ Pushed(k)
    BY DEF StackStep, PushOn
  <2>1. CASE k = Len(calls) + 1
    BY <2>1 DEF PushOn, Pushed
  <2>2. CASE k # Len(calls) + 1
    <3>1. k \in DOMAIN calls /\ calls'[k] = calls[k]
      BY <1>1, <2>2 DEF PushOn
    <3> QED BY <3>1, SameFrame
  <2> QED BY <2>1, <2>2
<1>3. Stacked'
  BY <1>2, StepStack DEF SameFunctions
<1>4. OnlyTop /\ \A v : IsPushed(v) => v = c.value
  BY <1>1 DEF OnlyTop, IsPushed, PushOn
<1>5. SameProgress
  BY <1>1, <1>2, <1>4, SameActivity DEF SameProgress, IsPopped, PushOn
<1>6. ASSUME NEW f \in Functions, NEW p \in Places(f) PROVE Passed(f, p)' <=> Passed(f, p)
  <2>1. \A k \in DOMAIN calls : k \in DOMAIN calls' /\ calls'[k].at = calls[k].at
    BY <1>1 DEF PushOn
  <2>2. Behind(f, p)' <=> Behind(f, p)
    BY <2>1, <1>2, <1>4, SameBody
  <2> QED BY <2>2 DEF Passed, SameFunctions
<1> QED BY <1>3, <1>5, <1>6 DEF SamePassed

\* A body that is begun has passed nothing, and was not there before.
LEMMA PushBody ==
  ASSUME module' = module, module \in Modules, Stacked, NEW c, PushOn(c),
         c.value \in Functions, c.value \notin Mapped, c.at = <<1, 1>>,
         Mapped' = Mapped \cup {c.value}
  PROVE  Stacked' /\ SamePassed /\ SameProgress
<1>1. /\ DOMAIN calls = 1 .. Len(calls) /\ DOMAIN calls' = 1 .. Len(calls')
      /\ Len(calls) \in Nat
  BY LenProperties DEF Stacked, PushOn
<1>2. StackStep
  <2> SUFFICES ASSUME NEW k \in DOMAIN calls' PROVE Kept(k) \/ Pushed(k)
    BY DEF StackStep, PushOn
  <2>1. CASE k = Len(calls) + 1
    <3>1. c.value \in Values
      BY DEF Functions, FunctionsOf, Values
    <3>2. c.value \notin Insts
      BY <3>1, Sorts
    <3>3. c.at \in (Nat \ {0}) \X (Nat \ {0})
      OBVIOUS
    <3> QED BY <2>1, <3>2, <3>3 DEF PushOn, Pushed
  <2>2. CASE k # Len(calls) + 1
    <3>1. k \in DOMAIN calls /\ calls'[k] = calls[k]
      BY <1>1, <2>2 DEF PushOn
    <3> QED BY <3>1, SameFrame
  <2> QED BY <2>1, <2>2
<1>3. Stacked'
  BY <1>2, StepStack
<1>4. OnlyTop /\ \A v : IsPushed(v) => v = c.value
  BY <1>1 DEF OnlyTop, IsPushed, PushOn
<1>5. SameProgress
  <2>1. c.value \notin Insts
    BY Sorts DEF Functions, FunctionsOf, Values
  <2> QED BY <2>1, <1>1, <1>2, <1>4, SameActivity DEF SameProgress, IsPopped, PushOn
<1>6. ASSUME NEW f \in Functions, NEW p \in Places(f) PROVE Passed(f, p)' <=> Passed(f, p)
  <2>1. CASE f # c.value
    <3>1. \A k \in DOMAIN calls : k \in DOMAIN calls' /\ calls'[k].at = calls[k].at
      BY <1>1 DEF PushOn
    <3>2. Behind(f, p)' <=> Behind(f, p)
      BY <2>1, <3>1, <1>2, <1>4, SameBody
    <3> QED BY <2>1, <3>2 DEF Passed
  <2>2. CASE f = c.value
    <3>1. PICK n : n = Len(calls) + 1
      OBVIOUS
    <3>2. n \in DOMAIN calls' /\ calls'[n].value = f /\ calls'[n].at = <<1, 1>>
      BY <2>2, <3>1, <1>1 DEF PushOn
    <3>3. Behind(f, p)' <=> Before(p, <<1, 1>>)
      BY <3>2, <1>3, BehindBodyNext
    <3>4. p[1] \in Nat \ {0} /\ p[2] \in Nat \ {0}
      BY PlaceFacts
    <3> QED BY <2>2, <3>3, <3>4 DEF Passed, Before
  <2> QED BY <2>1, <2>2
<1> QED BY <1>3, <1>5, <1>6 DEF SamePassed

LEMMA PopStack ==
  ASSUME module' = module, module \in Modules, Stacked, SameFunctions, PopOff
  PROVE  /\ Stacked' /\ StackStep /\ OnlyTop /\ calls # << >>
         /\ DOMAIN calls = 1 .. Len(calls) /\ DOMAIN calls' = 1 .. Len(calls) - 1
         /\ Len(calls) \in Nat \ {0}
         /\ \A v : ~IsPushed(v)
<1>1. /\ DOMAIN calls = 1 .. Len(calls) /\ DOMAIN calls' = 1 .. Len(calls')
      /\ Len(calls) \in Nat \ {0} /\ Len(calls') = Len(calls) - 1
  BY LenProperties DEF Stacked, PopOff
<1>2. StackStep
  <2> SUFFICES ASSUME NEW k \in DOMAIN calls' PROVE Kept(k)
    BY DEF StackStep, PopOff
  <2>1. k \in DOMAIN calls /\ calls'[k] = calls[k]
    BY <1>1 DEF PopOff
  <2> QED BY <2>1, SameFrame
<1>3. Stacked'
  BY <1>2, StepStack DEF SameFunctions
<1>4. OnlyTop /\ \A v : ~IsPushed(v)
  BY <1>1 DEF OnlyTop, IsPushed
<1>5. calls # << >>
  BY <1>1
<1> QED BY <1>1, <1>2, <1>3, <1>4, <1>5

LEMMA PopValue ==
  ASSUME module' = module, module \in Modules, Stacked, SameFunctions, PopOff,
         NEW v, v = Top.value, v \notin Functions
  PROVE  /\ Stacked' /\ SamePassed
         /\ \A w \in Insts : InProgress(w)' <=> InProgress(w) /\ w # v
<1>1. /\ Stacked' /\ StackStep /\ OnlyTop /\ calls # << >>
      /\ DOMAIN calls = 1 .. Len(calls) /\ DOMAIN calls' = 1 .. Len(calls) - 1
      /\ Len(calls) \in Nat \ {0}
      /\ \A w : ~IsPushed(w)
  BY PopStack
<1>2. ASSUME NEW f \in Functions, NEW p \in Places(f) PROVE Passed(f, p)' <=> Passed(f, p)
  <2>1. \A k \in DOMAIN calls : k = Len(calls) => calls[k].value # f
    BY DEF Top
  <2>2. Behind(f, p)' <=> Behind(f, p)
    BY <2>1, <1>1, SameBody
  <2> QED BY <2>2 DEF Passed, SameFunctions
<1>3. ASSUME NEW w \in Insts PROVE InProgress(w)' <=> InProgress(w) /\ w # v
  <2>1. CASE w # v
    BY <2>1, <1>1, SameActivity DEF IsPopped
  <2>2. CASE w = v
    <3> SUFFICES ASSUME NEW k \in DOMAIN calls', calls'[k].value = w PROVE FALSE
      BY <2>2 DEF InProgress
    <3>1. k \in DOMAIN calls /\ k # Len(calls) /\ calls[k] = calls'[k]
      BY <1>1 DEF PopOff
    <3>2. Len(calls) \in DOMAIN calls /\ calls[Len(calls)].value = w
      BY <2>2, <1>1 DEF Top
    <3>3. k = Len(calls)
      BY <3>1, <3>2, OneInstruction
    <3> QED BY <3>1, <3>3
  <2> QED BY <2>1, <2>2
<1> QED BY <1>1, <1>2, <1>3 DEF SamePassed

\* A body that returns has passed everything.
LEMMA PopBody ==
  ASSUME module' = module, module \in Modules, Stacked, SameFunctions, PopOff,
         NEW g, g = Top.value, g \in Functions, ~HasBlock
  PROVE  Stacked' /\ SamePassed /\ SameProgress
<1>1. /\ Stacked' /\ StackStep /\ OnlyTop /\ calls # << >>
      /\ DOMAIN calls = 1 .. Len(calls) /\ DOMAIN calls' = 1 .. Len(calls) - 1
      /\ Len(calls) \in Nat \ {0}
      /\ \A w : ~IsPushed(w)
  BY PopStack
<1>2. SameProgress
  <2>1. \A w \in Insts : w # g
    BY Sorts DEF Functions, FunctionsOf, Values
  <2> QED BY <2>1, <1>1, SameActivity DEF SameProgress, IsPopped
<1>3. ASSUME NEW f \in Functions, NEW p \in Places(f) PROVE Passed(f, p)' <=> Passed(f, p)
  <2>1. CASE f # g
    <3>1. \A k \in DOMAIN calls : k = Len(calls) => calls[k].value # f
      BY <2>1 DEF Top
    <3>2. Behind(f, p)' <=> Behind(f, p)
      BY <3>1, <1>1, SameBody
    <3> QED BY <3>2 DEF Passed, SameFunctions
  <2>2. CASE f = g
    <3>1. PICK n : n = Len(calls)
      OBVIOUS
    <3>2. n \in DOMAIN calls /\ calls[n] = Top /\ calls[n].value = f
      BY <3>1, <2>2, <1>1 DEF Top
    <3>3. Behind(f, p) <=> Before(p, Top.at)
      BY <3>2, BehindBody
    <3>4. Top.at[1] \in Nat \ {0} /\ f \in Mapped
      BY <2>2, <1>1, BodyFacts
    <3>5. Top.at[1] \notin DOMAIN module.blocks[f]
      BY <2>2 DEF HasBlock
    <3>6. /\ Len(module.blocks[f]) \in Nat /\ DOMAIN module.blocks[f] = 1 .. Len(module.blocks[f])
      BY BlockFacts
    <3>7. p[1] \in DOMAIN module.blocks[f]
      BY PlaceFacts
    <3>8. Before(p, Top.at)
      BY <3>4, <3>5, <3>6, <3>7 DEF Before
    <3>9. ASSUME NEW k \in DOMAIN calls' PROVE calls'[k].value # f
      <4>1. k \in DOMAIN calls /\ k # n /\ calls'[k] = calls[k]
        BY <1>1, <3>1, <3>9 DEF PopOff
      <4> QED BY <4>1, <3>2, OneBody
    <3>10. Behind(f, p)'
      BY <3>9 DEF Behind
    <3>11. f \in Mapped'
      BY <3>4 DEF SameFunctions
    <3> QED BY <3>3, <3>4, <3>8, <3>10, <3>11 DEF Passed
  <2> QED BY <2>1, <2>2
<1> QED BY <1>1, <1>2, <1>3 DEF SamePassed

\* The innermost activation changes what it holds, or how far it is.
LEMMA SetStack ==
  ASSUME module' = module, module \in Modules, Stacked, calls # << >>, SameFunctions,
         NEW c, SetTop(c), c.value = Top.value, c.block = Top.block,
         \/ c.at = Top.at
         \/ Top.value \in Functions /\ c.at \in (Nat \ {0}) \X (Nat \ {0})
  PROVE  /\ Stacked' /\ StackStep /\ OnlyTop /\ SameProgress
         /\ DOMAIN calls = 1 .. Len(calls) /\ DOMAIN calls' = 1 .. Len(calls)
         /\ Len(calls) \in Nat \ {0}
         /\ \A v : ~IsPushed(v)
<1>1. /\ DOMAIN calls = 1 .. Len(calls) /\ DOMAIN calls' = 1 .. Len(calls')
      /\ Len(calls) \in Nat \ {0} /\ Len(calls') = Len(calls)
  BY LenProperties DEF Stacked, SetTop
<1>2. StackStep
  <2> SUFFICES ASSUME NEW k \in DOMAIN calls' PROVE Kept(k)
    BY DEF StackStep, SetTop
  <2>1. CASE k # Len(calls)
    <3>1. k \in DOMAIN calls /\ calls'[k] = calls[k]
      BY <1>1, <2>1 DEF SetTop
    <3> QED BY <3>1, SameFrame
  <2>2. CASE k = Len(calls)
    <3>1. k \in DOMAIN calls /\ calls[k] = Top /\ calls'[k] = c
      BY <1>1, <2>2 DEF SetTop, Top
    <3>2. Top.value \in Functions => Top.at \in (Nat \ {0}) \X (Nat \ {0})
      BY TopFacts DEF Stacked, IsBody
    <3>3. c.value \in Functions => c.at \in (Nat \ {0}) \X (Nat \ {0})
      BY <3>2
    <3> QED BY <2>2, <3>1, <3>3 DEF Kept
  <2> QED BY <2>1, <2>2
<1>3. Stacked'
  BY <1>2, StepStack DEF SameFunctions
<1>4. OnlyTop /\ \A v : ~IsPushed(v)
  BY <1>1 DEF OnlyTop, IsPushed
<1>5. SameProgress
  BY <1>1, <1>2, <1>4, SameActivity DEF SameProgress, IsPopped
<1> QED BY <1>1, <1>2, <1>3, <1>4, <1>5

LEMMA SetHeld ==
  ASSUME module' = module, module \in Modules, Stacked, calls # << >>, SameFunctions,
         NEW c, SetTop(c), c.value = Top.value, c.block = Top.block, c.at = Top.at
  PROVE  Stacked' /\ SamePassed /\ SameProgress
<1>1. /\ Stacked' /\ StackStep /\ OnlyTop /\ SameProgress
      /\ DOMAIN calls = 1 .. Len(calls) /\ DOMAIN calls' = 1 .. Len(calls)
      /\ Len(calls) \in Nat \ {0}
      /\ \A v : ~IsPushed(v)
  BY SetStack
<1>2. ASSUME NEW f \in Functions, NEW p \in Places(f) PROVE Passed(f, p)' <=> Passed(f, p)
  <2>1. \A k \in DOMAIN calls : k = Len(calls) => k \in DOMAIN calls' /\ calls'[k].at = calls[k].at
    BY <1>1 DEF SetTop, Top
  <2>2. Behind(f, p)' <=> Behind(f, p)
    BY <2>1, <1>1, SameBody
  <2> QED BY <2>2 DEF Passed, SameFunctions
<1> QED BY <1>1, <1>2 DEF SamePassed

\* A body goes on to its next block, or instruction.
LEMMA SetPassed ==
  ASSUME module' = module, module \in Modules, Stacked, calls # << >>, SameFunctions,
         Stacked', StackStep, OnlyTop, \A v \in Functions : ~IsPushed(v),
         Len(calls) \in DOMAIN calls',
         NEW g, g = Top.value, g \in Functions, calls'[Len(calls)].value = g,
         NEW a, calls'[Len(calls)].at = a,
         NEW f \in Functions, NEW p \in Places(f)
  PROVE  /\ f # g => (Passed(f, p)' <=> Passed(f, p))
         /\ f = g => (Passed(f, p)' <=> Before(p, a)) /\ (Passed(f, p) <=> Before(p, Top.at))
<1>1. Len(calls) \in DOMAIN calls /\ calls[Len(calls)] = Top
  BY TopFacts
<1>2. ASSUME f # g PROVE Passed(f, p)' <=> Passed(f, p)
  <2>1. \A k \in DOMAIN calls : k = Len(calls) => calls[k].value # f
    BY <1>1, <1>2
  <2>2. Behind(f, p)' <=> Behind(f, p)
    BY <2>1, SameBody
  <2> QED BY <2>2 DEF Passed, SameFunctions
<1>3. ASSUME f = g PROVE (Passed(f, p)' <=> Before(p, a)) /\ (Passed(f, p) <=> Before(p, Top.at))
  <2>1. f \in Mapped
    BY <1>3, BodyFacts
  <2>2. f \in Mapped'
    BY <2>1 DEF SameFunctions
  <2>3. PICK n : n = Len(calls)
    OBVIOUS
  <2>4. n \in DOMAIN calls /\ calls[n].value = f /\ calls[n].at = Top.at
    BY <1>1, <1>3, <2>3
  <2>5. Behind(f, p) <=> Before(p, calls[n].at)
    BY <2>4, BehindBody
  <2>6. n \in DOMAIN calls' /\ calls'[n].value = f /\ calls'[n].at = a
    BY <1>3, <2>3
  <2>7. Behind(f, p)' <=> Before(p, a)
    BY <2>6, BehindBodyNext
  <2> QED BY <2>1, <2>2, <2>4, <2>5, <2>7 DEF Passed
<1> QED BY <1>2, <1>3

LEMMA SetBlock ==
  ASSUME module' = module, module \in Modules, Stacked, calls # << >>, SameFunctions,
         NEW c, SetTop(c), c.value = Top.value, c.block = Top.block,
         Top.value \in Functions, HasBlock, ~HasTurn, c.at = <<Top.at[1] + 1, 1>>
  PROVE  Stacked' /\ SamePassed /\ SameProgress
<1>1. PICK g \in Functions : g = Top.value
  OBVIOUS
<1>2. PICK x, y : x = Top.at[1] /\ y = Top.at[2]
  OBVIOUS
<1>3. x \in Nat \ {0} /\ y \in Nat \ {0} /\ c.at = <<x + 1, 1>>
  BY <1>1, <1>2, BodyFacts
<1>4. c.at \in (Nat \ {0}) \X (Nat \ {0})
  BY <1>3
<1>5. /\ Stacked' /\ StackStep /\ OnlyTop /\ SameProgress
      /\ DOMAIN calls = 1 .. Len(calls) /\ DOMAIN calls' = 1 .. Len(calls)
      /\ Len(calls) \in Nat \ {0}
      /\ \A v : ~IsPushed(v)
  BY <1>4, SetStack
<1>6. ASSUME NEW f \in Functions, NEW p \in Places(f) PROVE Passed(f, p)' <=> Passed(f, p)
  <2>1. Len(calls) \in DOMAIN calls' /\ calls'[Len(calls)] = c
    BY <1>5 DEF SetTop
  <2>2. /\ f # g => (Passed(f, p)' <=> Passed(f, p))
        /\ f = g => (Passed(f, p)' <=> Before(p, c.at)) /\ (Passed(f, p) <=> Before(p, Top.at))
    BY <1>1, <1>5, <2>1, SetPassed
  <2>3. ASSUME f = g PROVE Before(p, c.at) <=> Before(p, Top.at)
    <3>1. p[1] \in Nat \ {0} /\ p[2] \in Nat \ {0} /\ p[2] \in DOMAIN module.blocks[f][p[1]]
      BY PlaceFacts
    <3>2. x \in DOMAIN module.blocks[f] /\ y \notin DOMAIN module.blocks[f][x]
      BY <1>1, <1>2, <2>3 DEF HasBlock, HasTurn
    <3>3. Len(module.blocks[f][x]) \in Nat
          /\ DOMAIN module.blocks[f][x] = 1 .. Len(module.blocks[f][x])
      BY <3>2, BlockFacts
    <3>4. p[1] = x => p[2] < y
      BY <3>1, <3>2, <3>3, <1>3
    <3>5. c.at[1] = x + 1 /\ c.at[2] = 1
      BY <1>3
    <3> QED BY <3>1, <3>4, <3>5, <1>2, <1>3 DEF Before
  <2> QED BY <2>2, <2>3
<1> QED BY <1>5, <1>6 DEF SamePassed

\* The place right after the one at hand.
LEMMA NextPlace ==
  ASSUME module \in Modules, Stacked, calls # << >>, HasTurn,
         NEW g \in Functions, g = Top.value, NEW a, a = <<Top.at[1], Top.at[2] + 1>>,
         NEW f \in Functions, NEW p \in Places(f)
  PROVE  /\ a \in (Nat \ {0}) \X (Nat \ {0})
         /\ f = g => (Before(p, a) <=> Before(p, Top.at) \/ At(f, p) = Turn)
         /\ f # g => At(f, p) # Turn
<1>1. PICK q : q = Top.at
  OBVIOUS
<1>2. /\ q = <<q[1], q[2]>> /\ q[1] \in Nat \ {0} /\ q[2] \in Nat \ {0}
      /\ q \in Places(g) /\ Turn = At(g, q)
  BY <1>1, BodyFacts
<1>3. At(f, p) = Turn <=> f = g /\ p = q
  BY <1>2, OnePlace
<1>4. /\ p = <<p[1], p[2]>> /\ p[1] \in Nat \ {0} /\ p[2] \in Nat \ {0}
  BY PlaceFacts
<1>5. p = q <=> p[1] = q[1] /\ p[2] = q[2]
  BY <1>2, <1>4
<1>6. a = <<q[1], q[2] + 1>>
  BY <1>1
<1>7. a[1] = q[1] /\ a[2] = q[2] + 1 /\ a \in (Nat \ {0}) \X (Nat \ {0})
  BY <1>2, <1>6
<1>8. Before(p, a) <=> Before(p, q) \/ p = q
  BY <1>2, <1>4, <1>5, <1>7 DEF Before
<1> QED BY <1>1, <1>3, <1>7, <1>8

LEMMA SetPlace ==
  ASSUME module' = module, module \in Modules, Stacked, calls # << >>, SameFunctions,
         NEW c, SetTop(c), c.value = Top.value, c.block = Top.block,
         Top.value \in Functions, HasTurn, c.at = <<Top.at[1], Top.at[2] + 1>>
  PROVE  Stacked' /\ PassTurn /\ SameProgress
<1>1. PICK g \in Functions : g = Top.value
  OBVIOUS
<1>2. c.at \in (Nat \ {0}) \X (Nat \ {0})
  <2>1. Top.at[1] \in Nat \ {0} /\ Top.at[2] \in Nat \ {0}
    BY <1>1, BodyFacts
  <2> QED BY <2>1
<1>3. /\ Stacked' /\ StackStep /\ OnlyTop /\ SameProgress
      /\ DOMAIN calls = 1 .. Len(calls) /\ DOMAIN calls' = 1 .. Len(calls)
      /\ Len(calls) \in Nat \ {0}
      /\ \A v : ~IsPushed(v)
  BY <1>2, SetStack
<1>4. ASSUME NEW f \in Functions, NEW p \in Places(f)
      PROVE  Passed(f, p)' <=> Passed(f, p) \/ At(f, p) = Turn
  <2>1. Len(calls) \in DOMAIN calls' /\ calls'[Len(calls)] = c
    BY <1>3 DEF SetTop
  <2>2. /\ f # g => (Passed(f, p)' <=> Passed(f, p))
        /\ f = g => (Passed(f, p)' <=> Before(p, c.at)) /\ (Passed(f, p) <=> Before(p, Top.at))
    BY <1>1, <1>3, <2>1, SetPassed
  <2>3. PICK a : a = c.at
    OBVIOUS
  <2>4. /\ f = g => (Before(p, a) <=> Before(p, Top.at) \/ At(f, p) = Turn)
        /\ f # g => At(f, p) # Turn
    BY <1>1, <2>3, NextPlace
  <2> QED BY <2>2, <2>3, <2>4
<1> QED BY <1>3, <1>4 DEF PassTurn

LEMMA TakePlace ==
  ASSUME module' = module, module \in Modules, Stacked, calls # << >>, SameFunctions,
         NEW d, NEW c, TakeOn(d, c), d.value = Top.value, d.block = Top.block,
         Top.value \in Functions, HasTurn, d.at = <<Top.at[1], Top.at[2] + 1>>,
         c.value = Turn, c.block = Block, Kind(Turn) # "local"
  PROVE  /\ Stacked' /\ PassTurn
         /\ \A v \in Insts : InProgress(v)' <=> InProgress(v) \/ v = Turn
<1>1. PICK g \in Functions : g = Top.value
  OBVIOUS
<1>2. PICK n : n = Len(calls)
  OBVIOUS
<1>3. /\ n \in Nat \ {0} /\ Len(calls) = n /\ Len(calls') = n + 1
      /\ DOMAIN calls = 1 .. n /\ DOMAIN calls' = 1 .. n + 1
      /\ calls[n] = Top /\ calls'[n] = d /\ calls'[n + 1] = c
      /\ \A k \in 1 .. n - 1 : calls'[k] = calls[k]
  BY <1>2, LenProperties DEF Stacked, TakeOn, Top
<1>4. /\ Top.at[1] \in Nat \ {0} /\ Top.at[2] \in Nat \ {0}
      /\ Top.at \in Places(g) /\ Turn = At(g, Top.at) /\ Block = <<g, Top.at[1]>>
      /\ Turn \in Insts /\ Turn \in Values
  BY <1>1, BodyFacts
<1>5. d.at \in (Nat \ {0}) \X (Nat \ {0})
  BY <1>4
<1>6. Turn \notin Functions
  BY <1>4, Sorts
<1>7. Kept(n)
  <2>1. n \in DOMAIN calls /\ calls[n].value \in Functions
    BY <1>3
  <2> QED BY <2>1, <1>3, <1>5 DEF Kept
<1>8. Pushed(n + 1)
  <2>1. calls'[n + 1].value = Turn /\ calls'[n + 1].block = Block
    BY <1>3
  <2>2. (n + 1) - 1 = n /\ n \in DOMAIN calls' /\ calls'[n].value = g
        /\ calls'[n].at = <<Top.at[1], Top.at[2] + 1>>
    BY <1>1, <1>3
  <2>3. TakenFrom(calls[n + 1], calls[n])'
    <3>1. PICK p \in Places(g) : p = Top.at
      BY <1>4
    <3>2. At(g, p) = Turn /\ Block = <<g, p[1]>> /\ calls'[n].at = <<p[1], p[2] + 1>>
      BY <3>1, <1>4, <2>2
    <3>3. Places(g)' = Places(g) /\ At(g, p)' = At(g, p)
      BY SameModule
    <3> QED BY <3>2, <3>3, <2>1, <2>2 DEF TakenFrom
  <2>4. Functions' = Functions
    BY SameModule
  <2>5. Kind(calls[n + 1].value)' # "local"
    BY <2>1 DEF Kind
  <2>6. IsTaken(n + 1)'
    BY <2>1, <2>2, <2>3, <2>4, <2>5, <1>1 DEF IsTaken
  <2> QED BY <2>1, <2>6, <1>3, <1>6 DEF Pushed
<1>9. StackStep
  <2> SUFFICES ASSUME NEW k \in DOMAIN calls' PROVE Kept(k) \/ Pushed(k)
    BY DEF StackStep, TakeOn
  <2>1. CASE k \in 1 .. n - 1
    <3>1. k \in DOMAIN calls /\ calls'[k] = calls[k]
      BY <2>1, <1>3
    <3> QED BY <3>1, SameFrame
  <2>2. k \in 1 .. n - 1 \/ k = n \/ k = n + 1
    BY <1>3
  <2> QED BY <2>1, <2>2, <1>7, <1>8
<1>10. Stacked'
  BY <1>9, StepStack DEF SameFunctions
<1>11. OnlyTop /\ \A v : IsPushed(v) => v = Turn
  BY <1>3 DEF OnlyTop, IsPushed
<1>12. ASSUME NEW v \in Insts PROVE InProgress(v)' <=> InProgress(v) \/ v = Turn
  <2>1. CASE v # Turn
    <3>1. ~IsPopped(v)
      BY <1>3 DEF IsPopped
    <3> QED BY <2>1, <3>1, <1>9, <1>11, SameActivity
  <2>2. CASE v = Turn
    <3>1. n + 1 \in DOMAIN calls' /\ calls'[n + 1].value = v
      BY <2>2, <1>3
    <3> QED BY <2>2, <3>1 DEF InProgress
  <2> QED BY <2>1, <2>2
<1>13. ASSUME NEW f \in Functions, NEW p \in Places(f)
       PROVE  Passed(f, p)' <=> Passed(f, p) \/ At(f, p) = Turn
  <2>1. Len(calls) \in DOMAIN calls' /\ calls'[Len(calls)] = d
    BY <1>3
  <2>2. PICK a : a = d.at
    OBVIOUS
  <2>3. \A v \in Functions : ~IsPushed(v)
    BY <1>6, <1>11
  <2>4. /\ f # g => (Passed(f, p)' <=> Passed(f, p))
        /\ f = g => (Passed(f, p)' <=> Before(p, a)) /\ (Passed(f, p) <=> Before(p, Top.at))
    BY <1>1, <1>9, <1>10, <1>11, <2>1, <2>2, <2>3, SetPassed
  <2>5. /\ f = g => (Before(p, a) <=> Before(p, Top.at) \/ At(f, p) = Turn)
        /\ f # g => At(f, p) # Turn
    BY <1>1, <2>2, NextPlace
  <2> QED BY <2>4, <2>5
<1> QED BY <1>10, <1>12, <1>13 DEF PassTurn

-----------------------------------------------------------------------------
(***************************************************************************)
(* What the steps of the tables and of the activations do together.        *)
(***************************************************************************)
Untouched(v) ==
  /\ \A w \in Insts : w # v => /\ w \in Mapped' <=> w \in Mapped
                               /\ HasLoad(w)' <=> HasLoad(w)
  /\ \A f \in Functions : f \in Mapped => f \in Mapped'
Unmoved(v) ==
  /\ \A w \in Insts : w # v => (InProgress(w)' <=> InProgress(w))
  /\ \A f \in Functions : \A p \in Places(f) : At(f, p) # v => (Passed(f, p)' <=> Passed(f, p))

LEMMA StepTurns ==
  ASSUME module' = module, module \in Modules, Turns, NEW v, Untouched(v), Unmoved(v),
         \A f \in Functions : \A p \in Places(f) : At(f, p) = v => TurnAt(f, p, v)'
  PROVE  Turns'
<1>1. ASSUME NEW w \in Insts, NEW f \in Functions, NEW p \in Places(f), At(f, p) = w, w # v
      PROVE  TurnAt(f, p, w)'
  <2>1. TurnAt(f, p, w)
    BY <1>1 DEF Turns
  <2>2. /\ w \in Mapped' <=> w \in Mapped
        /\ HasLoad(w)' <=> HasLoad(w)
        /\ f \in Mapped => f \in Mapped'
    BY <1>1 DEF Untouched
  <2>3. (InProgress(w)' <=> InProgress(w)) /\ (Passed(f, p)' <=> Passed(f, p))
    BY <1>1 DEF Unmoved
  <2>4. Kind(w)' = Kind(w) /\ EarlyLocals' = EarlyLocals
    BY SameModule
  <2> QED BY <2>1, <2>2, <2>3, <2>4 DEF TurnAt
<1>2. ASSUME NEW w \in Insts, NEW f \in Functions, NEW p \in Places(f), At(f, p) = w
      PROVE  TurnAt(f, p, w)'
  BY <1>1, <1>2
<1> QED BY <1>2, SameModule DEF Turns

\* The tables change for no instruction.
LEMMA StillTurns ==
  ASSUME module' = module, module \in Modules, Turns, NEW v, v \notin Insts,
         Untouched(v), SamePassed, SameProgress
  PROVE  Turns'
<1>1. Unmoved(v)
  BY DEF Unmoved, SamePassed, SameProgress
<1>2. \A f \in Functions : \A p \in Places(f) : At(f, p) # v
  BY PlaceFacts
<1> QED BY <1>1, <1>2, StepTurns

LEMMA UntouchedByStep ==
  ASSUME Tables, NEW v, NEW load, NEW ops, TableStep(v, load, ops)
  PROVE  Untouched(v) /\ Mapped \subseteq Mapped' /\ (v \notin Functions => SameFunctions)
<1>1. Mapped' = Mapped \cup {v}
  BY DEF TableStep
<1> QED BY <1>1, StepLoads DEF Untouched, SameFunctions

LEMMA UntouchedBySame ==
  ASSUME Tables, SameValues, NEW v
  PROVE  Untouched(v) /\ SameFunctions
BY SameLoads DEF Untouched, SameFunctions

\* The activations still hold what they are to hold.
StillHeld == \A k \in DOMAIN calls : k \in DOMAIN calls' =>
               \A c : c.value = calls[k].value /\ Holds(c) => Holds(c)'
OldHeld(k, c) == k \in DOMAIN calls /\ c.value = calls[k].value /\ c.held = calls[k].held

LEMMA KeepHolding ==
  ASSUME Stacked, Holding, StillHeld, Stacked',
         \A k \in DOMAIN calls' : \A c : c = calls'[k] => OldHeld(k, c) \/ Holds(c)'
  PROVE  Holding'
<1> SUFFICES ASSUME NEW k \in DOMAIN calls', NEW c, c = calls'[k] PROVE Holds(c)'
  BY DEF Holding, Range
<1>1. CASE OldHeld(k, c)
  <2>1. PICK d : d = calls[k]
    OBVIOUS
  <2>2. k \in DOMAIN calls /\ c.value = d.value /\ c.held = d.held
    BY <1>1, <2>1 DEF OldHeld
  <2>3. Holds(d)
    BY <2>1, <2>2, FrameFacts DEF Holding
  <2>4. Holds(c)
    BY <2>2, <2>3 DEF Holds
  <2> QED BY <2>1, <2>2, <2>4 DEF StillHeld
<1>2. CASE Holds(c)'
  BY <1>2
<1> QED BY <1>1, <1>2

LEMMA SameHeld ==
  ASSUME module' = module, Tables, SameValues, NEW c, Holds(c)
  PROVE  Holds(c)'
<1>1. Kind(c.value)' = Kind(c.value) /\ Operands(c.value)' = Operands(c.value)
  BY SameModule
<1>2. Mapped' = Mapped /\ valueMap' = valueMap
  BY SameLoads DEF SameValues
<1> QED BY <1>1, <1>2 DEF Holds

LEMMA StillHeldBySame ==
  ASSUME module' = module, Tables, SameValues
  PROVE  StillHeld
BY SameHeld DEF StillHeld

LEMMA StillHeldByAdding ==
  ASSUME module' = module, Tables, NEW v, NEW load, NEW ops, TableStep(v, load, ops), ~HasLoad(v)
  PROVE  StillHeld
<1> SUFFICES ASSUME NEW c, Holds(c) PROVE Holds(c)'
  BY DEF StillHeld
<1> QED BY StepHolds

\* When a placeholder is replaced, only the activation right above the body at hand could
\* hold it, and that is the one that replaces it.
LEMMA StillHeldByMaking ==
  ASSUME module' = module, module \in Modules, Tables, Stacked,
         NEW v, NEW load, NEW ops, TableStep(v, load, ops),
         NEW f \in Functions, NEW p \in Places(f), At(f, p) = v,
         NEW j \in DOMAIN calls, calls[j].value = f, ~(j + 1 \in DOMAIN calls /\ j + 1 \in DOMAIN calls')
  PROVE  StillHeld
<1> SUFFICES ASSUME NEW k \in DOMAIN calls, k \in DOMAIN calls',
                    NEW c, c.value = calls[k].value, Holds(c)
             PROVE  Holds(c)'
  BY DEF StillHeld
<1>1. ASSUME NEW i \in 1 .. Len(c.held) PROVE Operands(c.value)[i] # v
  <2> SUFFICES ASSUME Operands(c.value)[i] = v PROVE FALSE
    OBVIOUS
  <2>1. c.value \in Values
    BY FrameFacts
  <2>2. Len(c.held) = IF Kind(c.value) = "phi" THEN 0 ELSE Len(Operands(c.value))
    BY DEF Holds
  <2>3. Len(Operands(c.value)) \in Nat /\ DOMAIN Operands(c.value) = 1 .. Len(Operands(c.value))
    BY <2>1, KindAndOperands
  <2>4. i \in DOMAIN Operands(calls[k].value)
    BY <1>1, <2>2, <2>3
  <2>5. Operands(calls[k].value)[i] = At(f, p)
    OBVIOUS
  <2>a. \E q \in Places(f) : /\ At(f, q) = calls[k].value
                           /\ k - 1 \in DOMAIN calls /\ calls[k - 1].value = f
                           /\ calls[k - 1].at = <<q[1], q[2] + 1>>
                           /\ calls[k].block = <<f, q[1]>>
    BY <2>4, <2>5, UserAboveBody
  <2>6. k - 1 \in DOMAIN calls /\ calls[k - 1].value = f
    BY <2>a
  <2>7. k - 1 = j
    BY <2>6, OneBody
  <2>8. k \in Nat /\ j + 1 = k
    BY <2>7, FrameFacts
  <2> QED BY <2>8
<1> QED BY <1>1, StepHolds

\* An activation that begins holds nothing.
LEMMA NewFrame ==
  ASSUME module' = module, module \in Modules, NEW v \in Values,
         NEW b \in Blocks \cup {<< >>}, NEW c, c = Frame(v, b)
  PROVE  /\ c \in Frames /\ c.value = v /\ c.block = b /\ c.at = << >>
         /\ Holds(c)'
<1>1. PICK n : n = Len(Operands(v))
  OBVIOUS
<1>2. n \in Nat /\ DOMAIN Operands(v) = 1 .. n
  BY <1>1, KindAndOperands
<1>3. PICK h : h = IF Kind(v) = "phi" THEN << >> ELSE [i \in 1 .. n |-> 0]
  OBVIOUS
<1>4. c = [value |-> v, block |-> b, at |-> << >>, held |-> h]
  BY <1>2, <1>3 DEF Frame
<1>5. h \in Seq(Nat) /\ Len(h) = IF Kind(v) = "phi" THEN 0 ELSE n
  <2>1. PICK z : z = [i \in 1 .. n |-> 0]
    OBVIOUS
  <2>2. z \in [1 .. n -> Nat]
    BY <2>1
  <2>3. z \in Seq(Nat)
    BY <2>2, <1>2, IsASeq
  <2>4. DOMAIN z = 1 .. n /\ DOMAIN z = 1 .. Len(z) /\ Len(z) \in Nat
    BY <2>1, <2>3, LenProperties
  <2>5. Len(z) = n
    BY <2>4, <1>2
  <2>6. CASE Kind(v) = "phi"
    <3>1. h = << >>
      BY <2>6, <1>3
    <3>2. h \in Seq(Nat) /\ Len(h) = 0
      BY <3>1, EmptySeq
    <3> QED BY <3>2, <2>6
  <2>7. CASE Kind(v) # "phi"
    <3>1. h = z
      BY <2>1, <2>7, <1>3
    <3> QED BY <3>1, <2>3, <2>5, <2>7
  <2> QED BY <2>6, <2>7
<1>6. \A i \in 1 .. Len(h) : h[i] = 0
  BY <1>2, <1>3, <1>5
<1>7. Kind(v)' = Kind(v) /\ Operands(v)' = Operands(v)
  BY SameModule
<1>8. c \in Frames /\ c.value = v /\ c.block = b /\ c.at = << >> /\ c.held = h
  BY <1>4, <1>5 DEF Frames
<1>9. Holds(c)'
  BY <1>1, <1>5, <1>6, <1>7, <1>8 DEF Holds
<1> QED BY <1>8, <1>9

LEMMA NewBody ==
  ASSUME module' = module, module \in Modules, NEW f \in Functions, NEW c, c = BodyFrame(f)
  PROVE  c \in Frames /\ c.value = f /\ c.at = <<1, 1>> /\ Holds(c)'
<1>1. f \in Values
  BY DEF Functions, FunctionsOf, Values
<1>2. << >> \in Seq(Nat) /\ Len(<< >>) = 0
  OBVIOUS
<1>3. <<1, 1>> \in (Nat \ {0}) \X (Nat \ {0})
  OBVIOUS
<1>4. c = [value |-> f, block |-> << >>, at |-> <<1, 1>>, held |-> << >>]
  BY DEF BodyFrame
<1>5. c \in Frames /\ c.value = f /\ c.at = <<1, 1>> /\ c.held = << >>
  BY <1>1, <1>2, <1>3, <1>4 DEF Frames
<1>6. Kind(f) = "function"
  BY <1>1, Sorts
<1>7. Len(Operands(f)) = 0
  BY <1>1, <1>6, KindAndOperands
<1>8. Kind(f)' = Kind(f) /\ Operands(f)' = Operands(f)
  BY SameModule
<1>9. Len(c.held) = 0
  BY <1>2, <1>5
<1>10. Holds(c)'
  BY <1>5, <1>6, <1>7, <1>8, <1>9 DEF Holds
<1> QED BY <1>5, <1>10

-----------------------------------------------------------------------------
(***************************************************************************)
(* Steps that make no instruction.                                         *)
(***************************************************************************)
LEMMA StillStack ==
  ASSUME module' = module, module \in Modules, Stacked, SameFunctions, calls' = calls
  PROVE  /\ Stacked' /\ SamePassed /\ SameProgress
         /\ \A k \in DOMAIN calls' : \A c : c = calls'[k] => OldHeld(k, c)
<1>1. StackStep
  <2> SUFFICES ASSUME NEW k \in DOMAIN calls' PROVE Kept(k)
    BY DEF StackStep, Stacked
  <2> QED BY SameFrame
<1>2. Stacked'
  BY <1>1, StepStack DEF SameFunctions
<1>3. SamePassed /\ SameProgress
  BY DEF SamePassed, SameProgress, Passed, Behind, Before, InProgress, SameFunctions
<1>4. \A k \in DOMAIN calls' : \A c : c = calls'[k] => OldHeld(k, c)
  BY DEF OldHeld
<1> QED BY <1>2, <1>3, <1>4

\* The activations that stay hold what they held.
LEMMA SetOldHeld ==
  ASSUME Stacked, calls # << >>, NEW c, SetTop(c), c.value = Top.value, c.held = Top.held
  PROVE  \A k \in DOMAIN calls' : \A d : d = calls'[k] => OldHeld(k, d) \/ Holds(d)'
<1> SUFFICES ASSUME NEW k \in DOMAIN calls', NEW d, d = calls'[k] PROVE OldHeld(k, d)
  OBVIOUS
<1>1. /\ DOMAIN calls = 1 .. Len(calls) /\ DOMAIN calls' = 1 .. Len(calls)
      /\ Len(calls) \in Nat \ {0}
  BY LenProperties DEF Stacked, SetTop
<1>2. CASE k = Len(calls)
  BY <1>1, <1>2 DEF SetTop, OldHeld, Top
<1>3. CASE k # Len(calls)
  <2>1. k \in DOMAIN calls /\ d = calls[k]
    BY <1>1, <1>3 DEF SetTop
  <2> QED BY <2>1 DEF OldHeld
<1> QED BY <1>2, <1>3

LEMMA PopOldHeld ==
  ASSUME Stacked, PopOff
  PROVE  \A k \in DOMAIN calls' : \A d : d = calls'[k] => OldHeld(k, d) \/ Holds(d)'
<1> SUFFICES ASSUME NEW k \in DOMAIN calls', NEW d, d = calls'[k] PROVE OldHeld(k, d)
  OBVIOUS
<1>1. /\ DOMAIN calls = 1 .. Len(calls) /\ DOMAIN calls' = 1 .. Len(calls')
      /\ Len(calls) \in Nat \ {0} /\ Len(calls') = Len(calls) - 1
  BY LenProperties DEF Stacked, PopOff
<1>2. k \in DOMAIN calls /\ d = calls[k]
  BY <1>1 DEF PopOff
<1> QED BY <1>2 DEF OldHeld

LEMMA PushOldHeld ==
  ASSUME Stacked, NEW c, PushOn(c), Holds(c)'
  PROVE  \A k \in DOMAIN calls' : \A d : d = calls'[k] => OldHeld(k, d) \/ Holds(d)'
<1> SUFFICES ASSUME NEW k \in DOMAIN calls', NEW d, d = calls'[k] PROVE OldHeld(k, d) \/ Holds(d)'
  OBVIOUS
<1>1. /\ DOMAIN calls = 1 .. Len(calls) /\ DOMAIN calls' = 1 .. Len(calls')
      /\ Len(calls) \in Nat /\ Len(calls') = Len(calls) + 1
  BY LenProperties DEF Stacked, PushOn
<1>2. CASE k = Len(calls) + 1
  <2>1. d = c
    BY <1>2 DEF PushOn
  <2> QED BY <2>1
<1>3. CASE k # Len(calls) + 1
  <2>1. k \in DOMAIN calls /\ d = calls[k]
    BY <1>1, <1>3 DEF PushOn
  <2> QED BY <2>1 DEF OldHeld
<1> QED BY <1>2, <1>3

LEMMA TakeOldHeld ==
  ASSUME Stacked, calls # << >>, NEW d, NEW c, TakeOn(d, c), d.value = Top.value, d.held = Top.held,
         Holds(c)'
  PROVE  \A k \in DOMAIN calls' : \A e : e = calls'[k] => OldHeld(k, e) \/ Holds(e)'
<1> SUFFICES ASSUME NEW k \in DOMAIN calls', NEW e, e = calls'[k] PROVE OldHeld(k, e) \/ Holds(e)'
  OBVIOUS
<1>1. /\ DOMAIN calls = 1 .. Len(calls) /\ DOMAIN calls' = 1 .. Len(calls')
      /\ Len(calls) \in Nat \ {0} /\ Len(calls') = Len(calls) + 1
  BY LenProperties DEF Stacked, TakeOn
<1>2. CASE k = Len(calls) + 1
  <2>1. e = c
    BY <1>2 DEF TakeOn
  <2> QED BY <2>1
<1>3. CASE k = Len(calls)
  BY <1>1, <1>3 DEF TakeOn, OldHeld, Top
<1>4. CASE k # Len(calls) + 1 /\ k # Len(calls)
  <2>1. k \in DOMAIN calls /\ e = calls[k]
    BY <1>1, <1>4 DEF TakeOn
  <2> QED BY <2>1 DEF OldHeld
<1> QED BY <1>2, <1>3, <1>4

LEMMA KeepRooted ==
  ASSUME module' = module, Rooted, root' = root, Mapped \subseteq Mapped', ~Translated'
  PROVE  Rooted'
<1>1. Functions' = Functions
  BY SameModule
<1> QED BY <1>1 DEF Rooted

\* The tables as they are.
LEMMA SameTables ==
  ASSUME module' = module, obj' = obj, valueMap' = valueMap, Tables, Linked, Loads
  PROVE  /\ SameValues /\ Tables' /\ Linked' /\ Loads'
         /\ Mapped' = Mapped /\ \A w : OpsOf(w)' = OpsOf(w) /\ (HasLoad(w)' <=> HasLoad(w))
<1>1. SameValues
  BY DEF SameValues
<1>2. /\ Mapped' = Mapped /\ Values' = Values /\ Objects' = Objects
      /\ \A w : OpsOf(w)' = OpsOf(w) /\ (HasLoad(w)' <=> HasLoad(w))
      /\ \A w : Kind(w)' = Kind(w) /\ Operands(w)' = Operands(w)
  BY SameModule DEF Mapped, OpsOf, HasLoad
<1>3. Tables'
  BY <1>2 DEF Tables
<1>4. Linked'
  <2> SUFFICES ASSUME NEW w \in Mapped', NEW ops, ops = OpsOf(w)' PROVE LinkedTo(w, ops)'
    BY DEF Linked, LinkedTo
  <2>1. LinkedTo(w, ops)
    BY <1>2 DEF Linked
  <2> QED BY <2>1, <1>2 DEF LinkedTo
<1>5. Loads'
  BY <1>2 DEF Loads
<1> QED BY <1>1, <1>2, <1>3, <1>4, <1>5

LEMMA PhiIsInstruction ==
  ASSUME module \in Modules, Tables, NEW w \in Mapped, Kind(w) \in {"phi", "inst", "local"}
  PROVE  w \in Insts
BY LiveValue, Sorts

LEMMA QuietStep ==
  ASSUME IInv, module' = module, obj' = obj, valueMap' = valueMap, text' = text,
         Rooted', Stacked', SamePassed, SameProgress,
         \A k \in DOMAIN calls' : \A c : c = calls'[k] => OldHeld(k, c) \/ Holds(c)'
  PROVE  IInv'
<1>1. /\ module \in Modules /\ Tables /\ Linked /\ Loads /\ Stacked /\ Holding
      /\ Turns /\ Whole /\ Texts
  BY DEF IInv
<1>2. /\ SameValues /\ Tables' /\ Linked' /\ Loads'
      /\ Mapped' = Mapped /\ \A w : OpsOf(w)' = OpsOf(w) /\ (HasLoad(w)' <=> HasLoad(w))
  BY <1>1, SameTables
<1>3. Texts'
  BY <1>1, <1>2, SameTexts
<1>4. Turns'
  <2>1. ASSUME NEW w \in Insts, NEW f \in Functions, NEW p \in Places(f), At(f, p) = w
        PROVE  TurnAt(f, p, w)'
    <3>1. TurnAt(f, p, w)
      BY <1>1, <2>1 DEF Turns
    <3>2. (InProgress(w)' <=> InProgress(w)) /\ (Passed(f, p)' <=> Passed(f, p))
      BY <2>1 DEF SamePassed, SameProgress
    <3>3. Kind(w)' = Kind(w) /\ EarlyLocals' = EarlyLocals
      BY SameModule
    <3> QED BY <3>1, <3>2, <3>3, <1>2 DEF TurnAt
  <2> QED BY <2>1, SameModule DEF Turns
<1>5. Holding'
  <2>1. StillHeld
    BY <1>1, <1>2, StillHeldBySame
  <2> QED BY <1>1, <2>1, KeepHolding
<1>6. Whole'
  <2> SUFFICES ASSUME NEW w \in Mapped', ~HasLoad(w)', ~(Kind(w)' = "phi" /\ InProgress(w)')
               PROVE  Len(OpsOf(w)') = Len(Operands(w)')
    BY DEF Whole
  <2>1. Kind(w)' = Kind(w) /\ Operands(w)' = Operands(w)
    BY SameModule
  <2>2. Kind(w) = "phi" => (InProgress(w)' <=> InProgress(w))
    BY <1>1, <1>2, PhiIsInstruction DEF SameProgress
  <2> QED BY <2>1, <2>2, <1>1, <1>2 DEF Whole
<1> QED BY <1>1, <1>2, <1>3, <1>4, <1>5, <1>6 DEF IInv

\* A value that is no instruction is made.
LEMMA AddStep ==
  ASSUME IInv, module' = module, NEW v \in Values, v \notin Insts, v \notin Mapped,
         NEW ops \in Seq(Nat), LinkedTo(v, ops), Len(ops) = Len(Operands(v)),
         obj' = Append(obj, Value(v, ops)), valueMap' = Put(valueMap, v, New), text' = text,
         Rooted', Stacked', SamePassed, SameProgress,
         \A k \in DOMAIN calls' : \A c : c = calls'[k] => OldHeld(k, c) \/ Holds(c)'
  PROVE  IInv'
<1>1. /\ module \in Modules /\ Tables /\ Linked /\ Loads /\ Stacked /\ Holding
      /\ Turns /\ Whole /\ Texts
  BY DEF IInv
<1>2. Tables' /\ TableStep(v, FALSE, ops)
  <2>1. obj' = Append(obj, [value |-> v, load |-> FALSE, ops |-> ops])
    BY DEF Value
  <2> QED BY <2>1, <1>1, AddTables
<1>3. Linked'
  BY <1>1, <1>2, StepLinked
<1>4. Loads'
  BY <1>1, <1>2, StepLoadKinds
<1>5. Texts'
  BY <1>1, <1>2, KeepTexts
<1>6. Turns'
  BY <1>1, <1>2, UntouchedByStep, StillTurns
<1>7. Holding'
  <2>1. ~HasLoad(v)
    BY DEF HasLoad
  <2>2. StillHeld
    BY <1>1, <1>2, <2>1, StillHeldByAdding
  <2> QED BY <1>1, <2>2, KeepHolding
<1>8. Whole'
  <2>1. \A w \in Mapped : Kind(w) = "phi" /\ InProgress(w) => InProgress(w)'
    BY <1>1, PhiIsInstruction DEF SameProgress
  <2> QED BY <1>1, <1>2, <2>1, StepWhole
<1> QED BY <1>1, <1>2, <1>3, <1>4, <1>5, <1>6, <1>7, <1>8 DEF IInv

-----------------------------------------------------------------------------
\* The end, and the ways in which the translation fails.
LEMMA StopStep ==
  ASSUME IInv, UNCHANGED <<module, root, calls, obj, valueMap, placeholders, text>>,
         ~Translated' \/ (calls = << >> /\ root = Len(module.roots))
  PROVE  IInv'
<1>1. module \in Modules /\ Tables /\ Rooted /\ Stacked
  BY DEF IInv
<1>2. Rooted'
  <2>1. Mapped' = Mapped /\ Functions' = Functions
    BY SameModule DEF Mapped
  <2> QED BY <2>1, <1>1 DEF Rooted
<1>3. SameFunctions
  BY DEF SameFunctions, Mapped
<1>4. /\ Stacked' /\ SamePassed /\ SameProgress
      /\ \A k \in DOMAIN calls' : \A c : c = calls'[k] => OldHeld(k, c)
  BY <1>1, <1>3, StillStack
<1> QED BY <1>2, <1>4, QuietStep

LEMMA NextBlockStep ==
  ASSUME IInv, NextBlock
  PROVE  IInv'
<1>1. /\ module \in Modules /\ Tables /\ Rooted /\ Stacked
      /\ UNCHANGED <<module, root, obj, valueMap, text, status>>
      /\ status = "translating" /\ calls # << >> /\ Kind(Top.value) = "function"
      /\ HasBlock /\ ~HasTurn
      /\ calls' = [calls EXCEPT ![Len(calls)].at = <<@[1] + 1, 1>>]
  BY DEF IInv, NextBlock, InBody, Running
<1>2. Top \in Frames /\ Top = calls[Len(calls)] /\ Top.value \in Values
  BY <1>1, TopFacts DEF Frames
<1>3. Top.value \in Functions
  BY <1>1, <1>2, Sorts
<1>4. PICK a : a = <<Top.at[1] + 1, 1>>
  OBVIOUS
<1>5. a \in (Nat \ {0}) \X (Nat \ {0})
  <2>1. Top.at[1] \in Nat \ {0}
    BY <1>1, <1>3, BodyFacts
  <2> QED BY <1>4, <2>1
<1>6. PICK c : c = [Top EXCEPT !.at = a]
  OBVIOUS
<1>7. /\ c \in Frames /\ c.value = Top.value /\ c.block = Top.block /\ c.held = Top.held
      /\ c.at = a
  BY <1>2, <1>5, <1>6 DEF Frames
<1>8. calls' = [calls EXCEPT ![Len(calls)] = c]
  BY <1>1, <1>2, <1>4, <1>6
<1>9. SetTop(c)
  BY <1>1, <1>7, <1>8, SetTopExcept
<1>10. SameFunctions /\ Mapped \subseteq Mapped'
  BY <1>1 DEF SameFunctions, Mapped
<1>11. Stacked' /\ SamePassed /\ SameProgress
  BY <1>1, <1>3, <1>4, <1>7, <1>9, <1>10, SetBlock
<1>12. Rooted'
  BY <1>1, <1>10, KeepRooted DEF Translated
<1>13. \A k \in DOMAIN calls' : \A d : d = calls'[k] => OldHeld(k, d) \/ Holds(d)'
  BY <1>1, <1>7, <1>9, SetOldHeld
<1> QED BY <1>1, <1>11, <1>12, <1>13, QuietStep

LEMMA ReturnFunctionStep ==
  ASSUME IInv, ReturnFunction
  PROVE  IInv'
<1>1. /\ module \in Modules /\ Tables /\ Rooted /\ Stacked
      /\ UNCHANGED <<module, root, obj, valueMap, text, status>>
      /\ status = "translating" /\ calls # << >> /\ Kind(Top.value) = "function"
      /\ ~HasBlock
      /\ calls' = Front(calls)
  BY DEF IInv, ReturnFunction, InBody, Running
<1>2. Top \in Frames /\ Top.value \in Values
  BY <1>1, TopFacts DEF Frames
<1>3. Top.value \in Functions
  BY <1>1, <1>2, Sorts
<1>4. PopOff
  BY <1>1, PopOffFront
<1>5. SameFunctions /\ Mapped \subseteq Mapped'
  BY <1>1 DEF SameFunctions, Mapped
<1>6. Stacked' /\ SamePassed /\ SameProgress
  BY <1>1, <1>3, <1>4, <1>5, PopBody
<1>7. Rooted'
  BY <1>1, <1>5, KeepRooted DEF Translated
<1>8. \A k \in DOMAIN calls' : \A d : d = calls'[k] => OldHeld(k, d) \/ Holds(d)'
  BY <1>1, <1>4, PopOldHeld
<1> QED BY <1>1, <1>6, <1>7, <1>8, QuietStep

\* A function is in the tables before its body is looked at.
LEMMA CallStep ==
  ASSUME IInv, module' = module, NEW f \in Functions, f \notin Mapped, CallFunction(f), text' = text,
         Mapped' = Mapped \cup {f} => Rooted'
  PROVE  IInv'
<1>1. module \in Modules /\ Tables /\ Stacked
  BY DEF IInv
<1>2. /\ obj' = Append(obj, Value(f, << >>)) /\ valueMap' = Put(valueMap, f, New)
      /\ calls' = Append(calls, BodyFrame(f))
  BY DEF CallFunction
<1>3. f \in Values /\ f \notin Insts /\ Len(Operands(f)) = 0 /\ Len(Operands(f)) \in Nat
  <2>1. f \in Values
    BY DEF Functions, FunctionsOf, Values
  <2>2. f \notin Insts /\ Kind(f) = "function"
    BY <1>1, <2>1, Sorts
  <2> QED BY <1>1, <2>1, <2>2, KindAndOperands
<1>4. PICK c : c = BodyFrame(f)
  OBVIOUS
<1>5. c \in Frames /\ c.value = f /\ c.at = <<1, 1>> /\ Holds(c)'
  BY <1>1, <1>4, NewBody
<1>6. PushOn(c)
  BY <1>1, <1>2, <1>4, <1>5, PushOnAppend
<1>7. Mapped' = Mapped \cup {f}
  BY <1>2 DEF Put, Mapped
<1>8. Stacked' /\ SamePassed /\ SameProgress
  BY <1>1, <1>5, <1>6, <1>7, PushBody
<1>9. \A k \in DOMAIN calls' : \A d : d = calls'[k] => OldHeld(k, d) \/ Holds(d)'
  BY <1>1, <1>5, <1>6, PushOldHeld
<1>10. PICK ops : ops = << >>
  OBVIOUS
<1>11. ops \in Seq(Nat) /\ Len(ops) = 0
  BY <1>10, EmptySeq
<1>12. LinkedTo(f, ops) /\ Len(ops) = Len(Operands(f))
  BY <1>3, <1>11 DEF LinkedTo
<1>13. Rooted'
  BY <1>7
<1>14. obj' = Append(obj, Value(f, ops))
  BY <1>2, <1>10
<1> QED BY <1>2, <1>3, <1>8, <1>9, <1>11, <1>12, <1>13, <1>14, AddStep

\* A constant or variable begins.
LEMMA BeginStep ==
  ASSUME IInv, module' = module, NEW v \in Values, Kind(v) \in {"const", "variable"},
         NEW b \in Blocks \cup {<< >>}, calls' = Append(calls, Frame(v, b)),
         obj' = obj, valueMap' = valueMap, text' = text, Rooted'
  PROVE  IInv'
<1>1. module \in Modules /\ Tables /\ Stacked
  BY DEF IInv
<1>2. v \notin Functions /\ v \notin Insts
  BY <1>1, Sorts
<1>3. PICK c : c = Frame(v, b)
  OBVIOUS
<1>4. c \in Frames /\ c.value = v /\ Holds(c)'
  BY <1>1, <1>3, NewFrame
<1>5. PushOn(c)
  BY <1>1, <1>3, <1>4, PushOnAppend
<1>6. SameFunctions
  BY DEF SameFunctions, Mapped
<1>7. Stacked' /\ SamePassed /\ SameProgress
  BY <1>1, <1>2, <1>4, <1>5, <1>6, PushValue
<1>8. \A k \in DOMAIN calls' : \A d : d = calls'[k] => OldHeld(k, d) \/ Holds(d)'
  BY <1>1, <1>4, <1>5, PushOldHeld
<1> QED BY <1>7, <1>8, QuietStep

LEMMA RootFacts ==
  ASSUME module \in Modules, Rooted, root < Len(module.roots), NEW v, v = module.roots[root + 1]
  PROVE  /\ root \in Nat /\ Len(module.roots) \in Nat /\ v \in Values
         /\ Kind(v) \in {"variable", "function"}
<1>1. module.roots \in Seq(Values)
      /\ Range(module.roots) = {w \in Values : module.kind[w] = "variable"} \cup Functions
  BY TheModule DEF IsModule, Values, Functions
<1>2. Len(module.roots) \in Nat /\ DOMAIN module.roots = 1 .. Len(module.roots)
  BY <1>1, LenProperties
<1>3. root \in Nat /\ root + 1 \in DOMAIN module.roots
  BY <1>2 DEF Rooted
<1>4. v \in Range(module.roots) /\ v \in Values
  BY <1>1, <1>2, <1>3, ElementOfSeq DEF Range
<1>5. v \in Functions => Kind(v) = "function"
  BY <1>4, Sorts
<1> QED BY <1>1, <1>2, <1>3, <1>4, <1>5 DEF Kind

LEMMA TakeRootStep ==
  ASSUME IInv, TakeRoot
  PROVE  IInv'
<1>1. /\ module \in Modules /\ Tables /\ Rooted /\ Stacked
      /\ UNCHANGED <<module, text, status>> /\ root' = root + 1
      /\ status = "translating" /\ calls = << >> /\ root < Len(module.roots)
  BY DEF IInv, TakeRoot
<1>2. PICK v : v = module.roots[root + 1]
  OBVIOUS
<1>3. /\ root \in Nat /\ Len(module.roots) \in Nat /\ v \in Values
      /\ Kind(v) \in {"variable", "function"}
  BY <1>1, <1>2, RootFacts
<1>4. ASSUME Mapped \subseteq Mapped', v \in Functions => v \in Mapped'
      PROVE  Rooted'
  <2>1. Functions' = Functions /\ root' \in 0 .. Len(module.roots)
    BY <1>1, <1>3, SameModule
  <2>2. ASSUME NEW i \in 1 .. root + 1, module.roots[i] \in Functions PROVE module.roots[i] \in Mapped'
    <3>1. CASE i = root + 1
      BY <3>1, <2>2, <1>2, <1>4
    <3>2. CASE i # root + 1
      <4>1. i \in 1 .. root
        BY <3>2, <1>3
      <4> QED BY <4>1, <2>2, <1>1, <1>4 DEF Rooted
    <3> QED BY <3>1, <3>2
  <2> QED BY <2>1, <2>2, <1>1 DEF Rooted, Translated
<1>5. CASE v \in Mapped
  <2>1. UNCHANGED <<calls, obj, valueMap>>
    BY <1>2, <1>5 DEF TakeRoot
  <2>2. SameFunctions /\ Mapped' = Mapped
    BY <2>1 DEF SameFunctions, Mapped
  <2>3. /\ Stacked' /\ SamePassed /\ SameProgress
        /\ \A k \in DOMAIN calls' : \A c : c = calls'[k] => OldHeld(k, c)
    BY <1>1, <2>1, <2>2, StillStack
  <2>4. Rooted'
    BY <1>4, <1>5, <2>2
  <2> QED BY <1>1, <2>1, <2>3, <2>4, QuietStep
<1>6. CASE v \notin Mapped /\ Kind(v) = "variable"
  <2>1. PICK b : b = << >>
    OBVIOUS
  <2>2. calls' = <<Frame(v, b)>> /\ UNCHANGED <<obj, valueMap>>
    BY <1>2, <1>6, <2>1 DEF TakeRoot
  <2>3. calls' = Append(calls, Frame(v, b))
    BY <1>1, <2>2
  <2>4. Rooted'
    <3>1. v \notin Functions
      BY <1>1, <1>3, <1>6, Sorts
    <3> QED BY <3>1, <1>4, <2>2 DEF Mapped
  <2>5. b \in Blocks \cup {<< >>} /\ Kind(v) \in {"const", "variable"}
    BY <2>1, <1>6
  <2> QED BY <1>1, <1>3, <2>2, <2>3, <2>4, <2>5, BeginStep
<1>7. CASE v \notin Mapped /\ Kind(v) = "function"
  <2>1. CallFunction(v)
    BY <1>2, <1>7 DEF TakeRoot
  <2>2. v \in Functions
    BY <1>1, <1>3, <1>7, Sorts
  <2>3. Mapped' = Mapped \cup {v} => Rooted'
    BY <1>4
  <2> QED BY <1>1, <1>7, <2>1, <2>2, <2>3, CallStep
<1> QED BY <1>3, <1>5, <1>6, <1>7

\* What is asked for is an operand of what is translated.
LEMMA ValueFacts ==
  ASSUME IInv, InValue
  PROVE  /\ module \in Modules /\ Tables /\ Rooted /\ Stacked /\ Holding
         /\ calls # << >> /\ status = "translating"
         /\ Top \in Frames /\ Top.value \in Values /\ Top.held \in Seq(Nat)
         /\ Top.block \in Blocks \cup {<< >>} /\ Top.value \notin Functions
         /\ Len(Operands(Top.value)) \in Nat
         /\ DOMAIN Operands(Top.value) = 1 .. Len(Operands(Top.value))
         /\ \A i \in DOMAIN Operands(Top.value) : Operands(Top.value)[i] \in Values
         /\ Len(Top.held) = IF Kind(Top.value) = "phi" THEN 0 ELSE Len(Operands(Top.value))
         /\ DOMAIN Top.held = 1 .. Len(Top.held)
         /\ \A i \in Wanted : i \in DOMAIN Operands(Top.value)
<1>1. /\ module \in Modules /\ Tables /\ Rooted /\ Stacked /\ Holding
      /\ calls # << >> /\ status = "translating" /\ Kind(Top.value) # "function"
  BY DEF IInv, InValue, Running
<1>2. Top \in Frames /\ Top \in Range(calls)
  BY <1>1, TopFacts
<1>3. Top.value \in Values /\ Top.held \in Seq(Nat) /\ Top.block \in Blocks \cup {<< >>}
  BY <1>2 DEF Frames
<1>4. Top.value \notin Functions
  BY <1>1, <1>3, Sorts
<1>5. /\ Len(Operands(Top.value)) \in Nat
      /\ DOMAIN Operands(Top.value) = 1 .. Len(Operands(Top.value))
      /\ \A i \in DOMAIN Operands(Top.value) : Operands(Top.value)[i] \in Values
  BY <1>1, <1>3, KindAndOperands
<1>6. Len(Top.held) = IF Kind(Top.value) = "phi" THEN 0 ELSE Len(Operands(Top.value))
  BY <1>1, <1>2 DEF Holding, Holds
<1>7. DOMAIN Top.held = 1 .. Len(Top.held)
  BY <1>3, LenProperties
<1>8. \A i \in Wanted : i \in DOMAIN Operands(Top.value)
  <2>1. CASE Kind(Top.value) = "phi"
    BY <2>1 DEF Wanted
  <2>2. CASE Kind(Top.value) # "phi"
    BY <2>2, <1>5, <1>6, <1>7 DEF Wanted
  <2> QED BY <2>1, <2>2
<1> QED BY <1>1, <1>2, <1>3, <1>4, <1>5, <1>6, <1>7, <1>8

LEMMA AskedFacts ==
  ASSUME IInv, InValue, NEW v \in Asked
  PROVE  v \in Values /\ \E i \in DOMAIN Operands(Top.value) : Operands(Top.value)[i] = v
<1>1. PICK i \in Wanted : v = Operands(Top.value)[i]
  BY DEF Asked
<1> QED BY <1>1, ValueFacts

LEMMA AllThere ==
  ASSUME IInv, InValue, Kind(Top.value) # "phi", Wanted = {}, NEW ops, ops = Top.held
  PROVE  LinkedTo(Top.value, ops) /\ Len(ops) = Len(Operands(Top.value)) /\ ops \in Seq(Nat)
<1>1. /\ Top.held \in Seq(Nat) /\ DOMAIN Top.held = 1 .. Len(Top.held)
      /\ Len(Top.held) = Len(Operands(Top.value)) /\ Len(Operands(Top.value)) \in Nat
      /\ calls # << >> /\ Holding /\ Stacked
  BY ValueFacts
<1>2. \A i \in 1 .. Len(ops) : ops[i] # 0
  BY <1>1 DEF Wanted
<1>3. Holds(Top)
  BY <1>1, TopFacts DEF Holding
<1> QED BY <1>1, <1>2, <1>3 DEF Holds, LinkedTo

LEMMA DescendStep ==
  ASSUME IInv, Descend
  PROVE  IInv'
<1>1. InValue /\ UNCHANGED <<module, root, text, status>>
  BY DEF Descend
<1>2. PICK v \in Asked \ (Mapped \cup Within) :
        \/ Kind(v) \in {"const", "variable"} /\ calls' = Append(calls, Frame(v, Top.block))
           /\ UNCHANGED <<obj, valueMap>>
        \/ Kind(v) = "function" /\ CallFunction(v)
  BY DEF Descend
<1>3. /\ module \in Modules /\ Rooted /\ status = "translating"
      /\ Top.block \in Blocks \cup {<< >>} /\ v \in Values
  BY <1>1, <1>2, ValueFacts, AskedFacts
<1>4. CASE Kind(v) \in {"const", "variable"} /\ calls' = Append(calls, Frame(v, Top.block))
           /\ UNCHANGED <<obj, valueMap>>
  <2>1. Mapped \subseteq Mapped'
    BY <1>4 DEF Mapped
  <2>2. Rooted'
    BY <1>1, <1>3, <2>1, KeepRooted DEF Translated
  <2>3. PICK b \in Blocks \cup {<< >>} : b = Top.block
    BY <1>3
  <2> QED BY <1>1, <1>3, <1>4, <2>2, <2>3, BeginStep
<1>5. CASE Kind(v) = "function" /\ CallFunction(v)
  <2>1. v \in Functions /\ v \notin Mapped
    BY <1>2, <1>3, <1>5, Sorts
  <2>2. Mapped' = Mapped \cup {v} => Rooted'
    BY <1>1, <1>3, KeepRooted DEF Translated
  <2> QED BY <1>1, <1>5, <2>1, <2>2, CallStep
<1> QED BY <1>2, <1>4, <1>5

\* A constant or variable is there.
LEMMA EndStep ==
  ASSUME IInv, InValue, Wanted = {}, Kind(Top.value) \in {"const", "variable"},
         Top.value \notin Mapped,
         obj' = Append(obj, Value(Top.value, Top.held)), valueMap' = Put(valueMap, Top.value, New),
         calls' = Front(calls), UNCHANGED <<module, root, text, status>>
  PROVE  IInv'
<1>1. /\ module \in Modules /\ Tables /\ Rooted /\ Stacked
      /\ calls # << >> /\ status = "translating" /\ Top.value \in Values /\ Top.value \notin Functions
  BY ValueFacts
<1>2. PICK v, ops : v = Top.value /\ ops = Top.held
  OBVIOUS
<1>3. v \in Values /\ v \notin Mapped /\ v \notin Functions /\ v \notin Insts
  BY <1>1, <1>2, Sorts
<1>4. LinkedTo(v, ops) /\ Len(ops) = Len(Operands(v)) /\ ops \in Seq(Nat)
  BY <1>2, AllThere
<1>5. PopOff
  BY <1>1, PopOffFront
<1>6. obj' = Append(obj, Value(v, ops)) /\ valueMap' = Put(valueMap, v, New)
  BY <1>2
<1>7. SameFunctions /\ Mapped \subseteq Mapped'
  BY <1>3, <1>6 DEF SameFunctions, Mapped, Put
<1>8. /\ Stacked' /\ SamePassed
      /\ \A w \in Insts : InProgress(w)' <=> InProgress(w) /\ w # v
  BY <1>1, <1>2, <1>3, <1>5, <1>7, PopValue
<1>9. SameProgress
  BY <1>3, <1>8 DEF SameProgress
<1>10. \A k \in DOMAIN calls' : \A d : d = calls'[k] => OldHeld(k, d) \/ Holds(d)'
  BY <1>1, <1>5, PopOldHeld
<1>11. Rooted'
  BY <1>1, <1>7, KeepRooted DEF Translated
<1> QED BY <1>3, <1>4, <1>6, <1>8, <1>9, <1>10, <1>11, AddStep

LEMMA CompleteVariableStep ==
  ASSUME IInv, CompleteVariable
  PROVE  IInv'
BY EndStep DEF CompleteVariable

LEMMA CompleteConstantStep ==
  ASSUME IInv, CompleteConstant
  PROVE  IInv'
<1>1. /\ InValue /\ Wanted = {} /\ Kind(Top.value) = "const" /\ calls' = Front(calls)
      /\ UNCHANGED <<module, root, text, status>>
  BY DEF CompleteConstant
<1>2. CASE Top.value \notin Mapped
  BY <1>1, <1>2, EndStep DEF CompleteConstant
<1>3. CASE Top.value \in Mapped
  <2>1. UNCHANGED <<obj, valueMap>>
    BY <1>3 DEF CompleteConstant
  <2>2. /\ module \in Modules /\ Tables /\ Rooted /\ Stacked
        /\ calls # << >> /\ status = "translating" /\ Top.value \in Values /\ Top.value \notin Functions
    BY <1>1, ValueFacts
  <2>3. PICK v : v = Top.value
    OBVIOUS
  <2>4. v \notin Functions /\ v \notin Insts
    BY <1>1, <2>2, <2>3, Sorts
  <2>5. PopOff
    BY <1>1, <2>2, PopOffFront
  <2>6. SameFunctions /\ Mapped \subseteq Mapped'
    BY <2>1 DEF SameFunctions, Mapped
  <2>7. /\ Stacked' /\ SamePassed
        /\ \A w \in Insts : InProgress(w)' <=> InProgress(w) /\ w # v
    BY <1>1, <2>2, <2>3, <2>4, <2>5, <2>6, PopValue
  <2>8. SameProgress
    BY <2>4, <2>7 DEF SameProgress
  <2>9. \A k \in DOMAIN calls' : \A d : d = calls'[k] => OldHeld(k, d) \/ Holds(d)'
    BY <2>2, <2>5, PopOldHeld
  <2>10. Rooted'
    BY <1>1, <2>2, <2>6, KeepRooted DEF Translated
  <2> QED BY <1>1, <2>1, <2>7, <2>8, <2>9, <2>10, QuietStep
<1> QED BY <1>2, <1>3

-----------------------------------------------------------------------------
(***************************************************************************)
(* Steps of the instructions.                                              *)
(***************************************************************************)
\* An instruction that is translated: its body, which is right below, and its turn.
LEMMA InstructionFacts ==
  ASSUME IInv, InValue, NEW v, v = Top.value, v \in Insts
  PROVE  \E f \in Functions : \E p \in Places(f) :
           /\ At(f, p) = v /\ f \in Mapped /\ Passed(f, p) /\ InProgress(v)
           /\ Top.block = <<f, p[1]>> /\ <<f, p[1]>> \in Blocks
           /\ Len(calls) - 1 \in DOMAIN calls /\ calls[Len(calls) - 1].value = f
           /\ calls[Len(calls) - 1].at = <<p[1], p[2] + 1>>
           /\ Kind(v) \in {"inst", "phi"} /\ TurnAt(f, p, v)
<1>1. /\ module \in Modules /\ Stacked /\ Turns /\ calls # << >>
  BY ValueFacts DEF IInv
<1>2. PICK n : n = Len(calls)
  OBVIOUS
<1>3. n \in DOMAIN calls /\ calls[n] = Top
  BY <1>1, <1>2, TopFacts
<1>4. PICK f \in Functions : \E p \in Places(f) : At(f, p) = v
  BY <1>1, EveryPlace
<1>5. PICK p \in Places(f) : At(f, p) = v
  BY <1>4
<1>6. calls[n].value = At(f, p)
  BY <1>3, <1>5
<1>7. /\ n - 1 \in DOMAIN calls /\ calls[n - 1].value = f
      /\ calls[n - 1].at = <<p[1], p[2] + 1>> /\ calls[n].block = <<f, p[1]>>
      /\ Kind(At(f, p)) \in {"inst", "phi"} /\ Behind(f, p)
  BY <1>1, <1>3, <1>6, AboveBody
<1>8. f \in Mapped
  BY <1>1, <1>7, FrameFacts DEF Stacked, IsBody
<1>9. InProgress(v)
  BY <1>3 DEF InProgress
<1>10. TurnAt(f, p, v)
  BY <1>1, <1>5 DEF Turns
<1>11. <<f, p[1]>> \in Blocks
  BY <1>1, PlaceFacts, BlockFacts
<1> QED BY <1>2, <1>3, <1>5, <1>7, <1>8, <1>9, <1>10, <1>11 DEF Passed

\* An operand is put among what is held.
LEMMA UseHeldStep ==
  ASSUME IInv, InValue, Kind(Top.value) # "phi", NEW i \in Wanted, NEW v,
         v = Operands(Top.value)[i], v \in Mapped,
         calls' = [calls EXCEPT ![Len(calls)].held[i] = valueMap[v]],
         UNCHANGED <<module, root, obj, valueMap, text, status>>
  PROVE  IInv'
<1>1. /\ module \in Modules /\ Tables /\ Rooted /\ Stacked /\ Holding
      /\ calls # << >> /\ status = "translating" /\ Top \in Frames
      /\ Top.held \in Seq(Nat) /\ DOMAIN Top.held = 1 .. Len(Top.held)
      /\ Len(Top.held) = Len(Operands(Top.value)) /\ Len(Operands(Top.value)) \in Nat
  BY ValueFacts
<1>2. PICK x, h : x = valueMap[v] /\ h = [Top.held EXCEPT ![i] = x]
  OBVIOUS
<1>3. x \in Nat
  BY <1>1, <1>2, LiveValue
<1>4. i \in 1 .. Len(Top.held)
  BY <1>1 DEF Wanted
<1>5. /\ h \in Seq(Nat) /\ Len(h) = Len(Top.held)
      /\ \A j \in 1 .. Len(Top.held) : h[j] = IF j = i THEN x ELSE Top.held[j]
  BY <1>1, <1>2, <1>3, <1>4, ExceptSeq
<1>6. PICK c : c = [Top EXCEPT !.held = h]
  OBVIOUS
<1>7. /\ c \in Frames /\ c.value = Top.value /\ c.block = Top.block /\ c.at = Top.at
      /\ c.held = h
  BY <1>1, <1>5, <1>6 DEF Frames
<1>8. calls' = [calls EXCEPT ![Len(calls)] = c]
  BY <1>1, <1>2, <1>6, TopFacts
<1>9. SetTop(c)
  BY <1>1, <1>7, <1>8, SetTopExcept
<1>10. SameFunctions /\ Mapped \subseteq Mapped'
  BY DEF SameFunctions, Mapped
<1>11. Stacked' /\ SamePassed /\ SameProgress
  BY <1>1, <1>7, <1>9, <1>10, SetHeld
<1>12. Rooted'
  BY <1>1, <1>10, KeepRooted DEF Translated
<1>13. Holds(Top)
  BY <1>1, TopFacts DEF Holding
<1>14. Holds(c)
  <2>1. Len(c.held) = Len(Operands(c.value)) /\ Kind(c.value) # "phi"
    BY <1>1, <1>5, <1>7
  <2>2. ASSUME NEW j \in 1 .. Len(c.held), c.held[j] # 0
        PROVE  Operands(c.value)[j] \in Mapped /\ c.held[j] = valueMap[Operands(c.value)[j]]
    <3>1. CASE j = i
      BY <3>1, <1>2, <1>4, <1>5, <1>7
    <3>2. CASE j # i
      <4>1. j \in 1 .. Len(Top.held) /\ c.held[j] = Top.held[j] /\ c.value = Top.value
        BY <3>2, <2>2, <1>5, <1>7
      <4> QED BY <4>1, <2>2, <1>13 DEF Holds
    <3> QED BY <3>1, <3>2
  <2> QED BY <2>1, <2>2 DEF Holds
<1>15. Holds(c)'
  <2>1. Mapped' = Mapped /\ Kind(c.value)' = Kind(c.value) /\ Operands(c.value)' = Operands(c.value)
    BY SameModule DEF Mapped
  <2> QED BY <1>14, <2>1 DEF Holds
<1>16. ASSUME NEW k \in DOMAIN calls', NEW d, d = calls'[k]
       PROVE  OldHeld(k, d) \/ Holds(d)'
  <2>1. /\ DOMAIN calls = 1 .. Len(calls) /\ DOMAIN calls' = 1 .. Len(calls)
    BY <1>1, <1>9, LenProperties DEF Stacked, SetTop
  <2>2. CASE k = Len(calls)
    <3>1. d = c
      BY <2>2, <1>9, <1>16 DEF SetTop
    <3> QED BY <3>1, <1>15
  <2>3. CASE k # Len(calls)
    <3>1. k \in DOMAIN calls /\ d = calls[k]
      BY <2>1, <2>3, <1>9, <1>16 DEF SetTop
    <3> QED BY <3>1 DEF OldHeld
  <2> QED BY <2>2, <2>3
<1> QED BY <1>11, <1>12, <1>16, QuietStep

\* A phi gets its next operand.
LEMMA UsePhiStep ==
  ASSUME IInv, InValue, Kind(Top.value) = "phi", NEW i \in Wanted, NEW v,
         v = Operands(Top.value)[i], v \in Mapped,
         obj' = [obj EXCEPT ![valueMap[Top.value]].ops = Append(@, valueMap[v])],
         UNCHANGED <<module, root, calls, valueMap, text, status>>
  PROVE  IInv'
<1>1. /\ module \in Modules /\ Tables /\ Rooted /\ Stacked /\ Holding
      /\ calls # << >> /\ status = "translating" /\ Top.value \in Values
      /\ Len(Operands(Top.value)) \in Nat
      /\ DOMAIN Operands(Top.value) = 1 .. Len(Operands(Top.value))
  BY ValueFacts
<1>2. Turns /\ Linked /\ Whole /\ Loads /\ Texts
  BY DEF IInv
<1>3. PICK w : w = Top.value
  OBVIOUS
<1>4. w \in Insts /\ w \in Values /\ Kind(w) = "phi"
  BY <1>1, <1>3, Sorts
<1>5. w \in Mapped /\ ~HasLoad(w) /\ InProgress(w)
  <2>1. PICK f \in Functions : \E p \in Places(f) : InProgress(w) /\ TurnAt(f, p, w)
    BY <1>3, <1>4, InstructionFacts
  <2> QED BY <2>1, <1>4 DEF TurnAt
<1>6. PICK n, x, old : n = valueMap[w] /\ x = valueMap[v] /\ old = OpsOf(w)
  OBVIOUS
<1>7. /\ n \in 1 .. Len(obj) /\ x \in Nat /\ Len(obj) \in Nat /\ DOMAIN obj = 1 .. Len(obj)
      /\ obj[n] \in Objects /\ obj[n].value = w /\ obj[n].ops = old
      /\ old \in Seq(Nat) /\ Len(old) \in Nat
      /\ obj \in Seq(Objects)
  BY <1>1, <1>5, <1>6, LiveValue DEF OpsOf, Tables
<1>8. PICK new : new = Append(old, x)
  OBVIOUS
<1>9. /\ new \in Seq(Nat) /\ Len(new) = Len(old) + 1
      /\ \A j \in 1 .. Len(old) : new[j] = old[j]
      /\ new[Len(old) + 1] = x
  BY <1>7, <1>8, AppendFacts
<1>10. PICK o : o = [obj[n] EXCEPT !.ops = new]
  OBVIOUS
<1>11. o \in Objects /\ o.value = w /\ o.load = obj[n].load /\ o.ops = new
  BY <1>7, <1>9, <1>10 DEF Objects
<1>12. obj' = [obj EXCEPT ![n] = o]
  BY <1>3, <1>6, <1>7, <1>8, <1>10
<1>13. /\ obj' \in Seq(Objects) /\ Len(obj') = Len(obj)
       /\ \A k \in 1 .. Len(obj) : obj'[k] = IF k = n THEN o ELSE obj[k]
  <2>1. PICK S, seq, m : S = Objects /\ seq = obj /\ m = Len(obj)
    OBVIOUS
  <2>2. seq \in Seq(S) /\ n \in 1 .. Len(seq) /\ o \in S
    BY <2>1, <1>7, <1>11
  <2>3. PICK u : u = [seq EXCEPT ![n] = o]
    OBVIOUS
  <2>4. /\ u \in Seq(S) /\ Len(u) = Len(seq)
        /\ \A k \in 1 .. Len(seq) : u[k] = IF k = n THEN o ELSE seq[k]
    BY <2>2, <2>3, ExceptSeq
  <2>5. u = obj'
    BY <2>1, <2>3, <1>12
  <2> QED BY <2>1, <2>4, <2>5
<1>14. SameValues
  BY <1>7, <1>11, <1>13 DEF SameValues
<1>15. Mapped' = Mapped /\ \A u : HasLoad(u)' <=> HasLoad(u)
  BY <1>1, <1>14, SameLoads
<1>16. Tables'
  <2>1. Objects' = Objects /\ Values' = Values
    BY SameModule
  <2>2. \A u \in Mapped : obj'[valueMap[u]].value = u
    BY <1>1, <1>14, LiveValue DEF SameValues
  <2> QED BY <1>1, <1>13, <1>15, <2>1, <2>2 DEF Tables
<1>17. Loads'
  BY <1>2, <1>15, SameModule DEF Loads
<1>18. Texts'
  BY <1>1, <1>2, <1>14, SameTexts
<1>19. SameFunctions
  BY <1>15 DEF SameFunctions
<1>20. /\ Stacked' /\ SamePassed /\ SameProgress
       /\ \A k \in DOMAIN calls' : \A c : c = calls'[k] => OldHeld(k, c)
  BY <1>1, <1>19, StillStack
<1>21. Turns'
  <2>1. ASSUME NEW u \in Insts, NEW f \in Functions, NEW p \in Places(f), At(f, p) = u
        PROVE  TurnAt(f, p, u)'
    <3>1. TurnAt(f, p, u)
      BY <1>2, <2>1 DEF Turns
    <3>2. (InProgress(u)' <=> InProgress(u)) /\ (Passed(f, p)' <=> Passed(f, p))
      BY <1>20, <2>1 DEF SamePassed, SameProgress
    <3>3. Kind(u)' = Kind(u) /\ EarlyLocals' = EarlyLocals
      BY SameModule
    <3> QED BY <3>1, <3>2, <3>3, <1>15 DEF TurnAt
  <2> QED BY <2>1, SameModule DEF Turns
<1>22. Holding'
  <2>1. StillHeld
    BY <1>1, <1>14, StillHeldBySame
  <2> QED BY <1>1, <1>20, <2>1, KeepHolding
<1>23. ASSUME NEW u \in Mapped, u # w PROVE OpsOf(u)' = OpsOf(u)
  <2>1. valueMap[u] \in 1 .. Len(obj) /\ valueMap[u] # n
    BY <1>1, <1>5, <1>6, <1>23, LiveValue
  <2> QED BY <2>1, <1>13 DEF OpsOf
<1>24. OpsOf(w)' = new
  BY <1>6, <1>7, <1>11, <1>13 DEF OpsOf
<1>25. LinkedTo(w, new)
  <2>1. LinkedTo(w, old)
    BY <1>2, <1>5, <1>6 DEF Linked
  <2>2. i = Len(old) + 1 /\ i \in 1 .. Len(Operands(w))
    <3>1. Len(obj[valueMap[Top.value]].ops) = Len(old)
      BY <1>3, <1>6 DEF OpsOf
    <3> QED BY <3>1, <1>1, <1>3 DEF Wanted
  <2>3. ASSUME NEW j \in 1 .. Len(new)
        PROVE  Operands(w)[j] \in Mapped /\ new[j] = valueMap[Operands(w)[j]]
    <3>1. CASE j = i
      BY <3>1, <2>2, <1>3, <1>6, <1>9
    <3>2. CASE j # i
      <4>1. j \in 1 .. Len(old) /\ new[j] = old[j]
        BY <3>2, <2>2, <1>7, <1>9
      <4> QED BY <4>1, <2>1 DEF LinkedTo
    <3> QED BY <3>1, <3>2
  <2>4. Len(new) <= Len(Operands(w))
    BY <2>2, <1>1, <1>3, <1>7, <1>9
  <2> QED BY <2>3, <2>4 DEF LinkedTo
<1>26. Linked'
  <2> SUFFICES ASSUME NEW u \in Mapped', NEW ops, ops = OpsOf(u)' PROVE LinkedTo(u, ops)'
    BY DEF Linked, LinkedTo
  <2>1. LinkedTo(u, ops)
    <3>1. CASE u = w
      BY <3>1, <1>24, <1>25
    <3>2. CASE u # w
      BY <3>2, <1>2, <1>15, <1>23 DEF Linked
    <3> QED BY <3>1, <3>2
  <2> QED BY <2>1, <1>15, SameModule DEF LinkedTo
<1>27. Whole'
  <2> SUFFICES ASSUME NEW u \in Mapped', ~HasLoad(u)', ~(Kind(u)' = "phi" /\ InProgress(u)')
               PROVE  Len(OpsOf(u)') = Len(Operands(u)')
    BY DEF Whole
  <2>1. Kind(u)' = Kind(u) /\ Operands(u)' = Operands(u)
    BY SameModule
  <2>2. InProgress(u)' <=> InProgress(u)
    BY DEF InProgress
  <2>3. u # w
    BY <2>1, <2>2, <1>4, <1>5
  <2> QED BY <2>1, <2>2, <2>3, <1>2, <1>15, <1>23 DEF Whole
<1>28. Rooted'
  BY <1>1, <1>15, KeepRooted DEF Translated
<1> QED BY <1>1, <1>16, <1>17, <1>18, <1>20, <1>21, <1>22, <1>26, <1>27, <1>28 DEF IInv

LEMMA UseMappedStep ==
  ASSUME IInv, UseMapped
  PROVE  IInv'
<1>1. InValue /\ UNCHANGED <<module, root, valueMap, text, status>>
  BY DEF UseMapped
<1>2. PICK i \in Wanted :
        LET v == Operands(Top.value)[i] IN
        /\ v \in Mapped
        /\ IF Kind(Top.value) = "phi"
           THEN obj' = [obj EXCEPT ![valueMap[Top.value]].ops = Append(@, valueMap[v])]
                /\ UNCHANGED calls
           ELSE calls' = [calls EXCEPT ![Len(calls)].held[i] = valueMap[v]] /\ UNCHANGED obj
  BY DEF UseMapped
<1>3. PICK v : v = Operands(Top.value)[i]
  OBVIOUS
<1>4. CASE Kind(Top.value) = "phi"
  <2>1. /\ v \in Mapped /\ UNCHANGED calls
        /\ obj' = [obj EXCEPT ![valueMap[Top.value]].ops = Append(@, valueMap[v])]
    BY <1>2, <1>3, <1>4
  <2> QED BY <1>1, <1>3, <1>4, <2>1, UsePhiStep
<1>5. CASE Kind(Top.value) # "phi"
  <2>1. /\ v \in Mapped /\ UNCHANGED obj
        /\ calls' = [calls EXCEPT ![Len(calls)].held[i] = valueMap[v]]
    BY <1>2, <1>3, <1>5
  <2> QED BY <1>1, <1>3, <1>5, <2>1, UseHeldStep
<1> QED BY <1>4, <1>5

\* A step of the activations that concerns an instruction, the tables as they are.
LEMMA MoveStep ==
  ASSUME IInv, module' = module, obj' = obj, valueMap' = valueMap, text' = text,
         Rooted', Stacked', NEW v, Unmoved(v),
         \A f \in Functions : \A p \in Places(f) : At(f, p) = v => TurnAt(f, p, v)',
         \A w \in Mapped : Kind(w) = "phi" /\ InProgress(w) =>
            InProgress(w)' \/ Len(OpsOf(w)) = Len(Operands(w)),
         \A k \in DOMAIN calls' : \A c : c = calls'[k] => OldHeld(k, c) \/ Holds(c)'
  PROVE  IInv'
<1>1. /\ module \in Modules /\ Tables /\ Linked /\ Loads /\ Stacked /\ Holding
      /\ Turns /\ Whole /\ Texts
  BY DEF IInv
<1>2. /\ SameValues /\ Tables' /\ Linked' /\ Loads'
      /\ Mapped' = Mapped /\ \A w : OpsOf(w)' = OpsOf(w) /\ (HasLoad(w)' <=> HasLoad(w))
  BY <1>1, SameTables
<1>3. Texts'
  BY <1>1, <1>2, SameTexts
<1>4. Turns'
  <2>1. Untouched(v)
    BY <1>1, <1>2, UntouchedBySame
  <2> QED BY <1>1, <2>1, StepTurns
<1>5. Holding'
  <2>1. StillHeld
    BY <1>1, <1>2, StillHeldBySame
  <2> QED BY <1>1, <2>1, KeepHolding
<1>6. Whole'
  <2> SUFFICES ASSUME NEW w \in Mapped', ~HasLoad(w)', ~(Kind(w)' = "phi" /\ InProgress(w)')
               PROVE  Len(OpsOf(w)') = Len(Operands(w)')
    BY DEF Whole
  <2>1. Kind(w)' = Kind(w) /\ Operands(w)' = Operands(w)
    BY SameModule
  <2> QED BY <2>1, <1>1, <1>2 DEF Whole
<1> QED BY <1>1, <1>2, <1>3, <1>4, <1>5, <1>6 DEF IInv

\* An instruction, or a placeholder of one, is made.
LEMMA MakeStep ==
  ASSUME IInv, module' = module, NEW v, NEW load, NEW ops \in Seq(Nat),
         Tables', TableStep(v, load, ops), LinkedTo(v, ops),
         load => Kind(v) \in {"inst", "phi"},
         NEW b \in Blocks, text' = Removed([text EXCEPT ![b] = Append(@, New)], v),
         ~load /\ v \notin EarlyLocals => HasItsTurn(v, b),
         Rooted', Stacked', StillHeld, Unmoved(v),
         \A f \in Functions : \A p \in Places(f) : At(f, p) = v => TurnAt(f, p, v)',
         \A w \in Mapped : Kind(w) = "phi" /\ InProgress(w) => InProgress(w)',
         \/ load \/ Len(ops) = Len(Operands(v)) \/ (Kind(v) = "phi" /\ InProgress(v)'),
         \A k \in DOMAIN calls' : \A c : c = calls'[k] => OldHeld(k, c) \/ Holds(c)'
  PROVE  IInv'
<1>1. /\ module \in Modules /\ Tables /\ Linked /\ Loads /\ Stacked /\ Holding
      /\ Turns /\ Whole /\ Texts
  BY DEF IInv
<1>2. Linked'
  BY <1>1, StepLinked
<1>3. Loads'
  BY <1>1, StepLoadKinds
<1>4. Whole'
  BY <1>1, StepWhole
<1>5. Texts'
  BY <1>1, StepTexts
<1>6. Turns'
  <2>1. Untouched(v)
    BY <1>1, UntouchedByStep
  <2> QED BY <1>1, <2>1, StepTurns
<1>7. Holding'
  BY <1>1, KeepHolding
<1> QED BY <1>1, <1>2, <1>3, <1>4, <1>5, <1>6, <1>7 DEF IInv

\* Where an instruction comes in its block: behind all that are in place.
LEMMA ComesNext ==
  ASSUME module \in Modules, Turns, NEW f \in Functions, NEW p \in Places(f), NEW v, At(f, p) = v,
         \A q \in Places(f) : Passed(f, q) => Before(q, p) \/ (q = p /\ ~InPlace(v)),
         NEW b, b = <<f, p[1]>>
  PROVE  HasItsTurn(v, b)
<1>1. p[1] \in DOMAIN module.blocks[f] /\ p[1] \in Nat
  BY PlaceFacts
<1>2. ASSUME NEW j \in DOMAIN module.blocks[f][p[1]], InPlace(module.blocks[f][p[1]][j])
      PROVE  j < p[2]
  <2>1. PICK q, w : q = <<p[1], j>> /\ w = module.blocks[f][p[1]][j]
    OBVIOUS
  <2>2. q \in Places(f) /\ At(f, q) = w
    BY <1>1, <1>2, <2>1, IsPlace
  <2>3. w \in Insts
    BY <2>2, PlaceFacts
  <2>4. TurnAt(f, q, w) /\ w \in Mapped /\ ~HasLoad(w) /\ w \notin EarlyLocals
    BY <1>2, <2>1, <2>2, <2>3 DEF Turns, InPlace
  <2>5. Passed(f, q)
    BY <2>4 DEF TurnAt
  <2>6. Before(q, p)
    <3>1. q = p => w = v
      BY <2>2
    <3>2. InPlace(w)
      BY <1>2, <2>1
    <3> QED BY <2>2, <2>5, <3>1, <3>2
  <2>7. q[1] = p[1] /\ q[2] = j
    BY <2>1
  <2> QED BY <2>6, <2>7, <1>1 DEF Before
<1> QED BY <1>2 DEF HasItsTurn

\* The instruction at hand: neither it nor any behind it has been passed.
LEMMA TurnFacts ==
  ASSUME IInv, InBody, HasTurn, NEW v, v = Turn
  PROVE  /\ module \in Modules /\ Tables /\ Rooted /\ Stacked /\ Turns /\ Loads
         /\ status = "translating" /\ calls # << >>
         /\ v \in Insts /\ v \in Values /\ Top \in Frames /\ Top.value \in Functions
         /\ Top.value \in Mapped /\ Top.at \in Places(Top.value) /\ At(Top.value, Top.at) = v
         /\ Block = <<Top.value, Top.at[1]>> /\ Block \in Blocks
         /\ ~Passed(Top.value, Top.at) /\ TurnAt(Top.value, Top.at, v) /\ HasItsTurn(v, Block)
         /\ Kind(v) # "local" /\ v \in Mapped => HasLoad(v)
<1>1. /\ module \in Modules /\ Tables /\ Rooted /\ Stacked /\ Turns /\ Loads
      /\ status = "translating" /\ calls # << >> /\ Kind(Top.value) = "function"
  BY DEF IInv, InBody, Running
<1>2. Top \in Frames /\ Top.value \in Values /\ Len(calls) \in DOMAIN calls /\ Top = calls[Len(calls)]
  BY <1>1, TopFacts DEF Frames
<1>3. PICK f \in Functions : f = Top.value
  BY <1>1, <1>2, Sorts
<1>4. PICK a : a = Top.at
  OBVIOUS
<1>5. /\ f \in Mapped /\ a = <<a[1], a[2]>> /\ a[1] \in Nat \ {0} /\ a[2] \in Nat \ {0}
      /\ a \in Places(f) /\ v = At(f, a) /\ Block = <<f, a[1]>>
      /\ Block \in Blocks /\ v \in Insts /\ v \in Values
  BY <1>1, <1>3, <1>4, BodyFacts
<1>6. ASSUME NEW q \in Places(f) PROVE Passed(f, q) <=> Before(q, a)
  <2>1. PICK n : n = Len(calls)
    OBVIOUS
  <2>2. n \in DOMAIN calls /\ calls[n].value = f /\ calls[n].at = a
    BY <1>2, <1>3, <1>4, <2>1
  <2>3. Behind(f, q) <=> Before(q, calls[n].at)
    BY <1>1, <2>2, BehindBody
  <2> QED BY <2>2, <2>3, <1>5 DEF Passed
<1>7. ~Passed(f, a)
  <2>1. ~Before(a, a)
    BY <1>5 DEF Before
  <2> QED BY <2>1, <1>5, <1>6
<1>8. TurnAt(f, a, v)
  BY <1>1, <1>5 DEF Turns
<1>9. HasItsTurn(v, Block)
  <2>1. \A q \in Places(f) : Passed(f, q) => Before(q, a) \/ (q = a /\ ~InPlace(v))
    BY <1>6
  <2>2. PICK b : b = Block
    OBVIOUS
  <2>3. HasItsTurn(v, b)
    BY <1>1, <1>5, <2>1, <2>2, ComesNext
  <2> QED BY <2>2, <2>3
<1>10. Kind(v) # "local" /\ v \in Mapped => HasLoad(v)
  <2>1. v \in EarlyLocals => Kind(v) = "local"
    BY DEF EarlyLocals
  <2> QED BY <2>1, <1>7, <1>8 DEF TurnAt
<1> QED BY <1>1, <1>2, <1>3, <1>4, <1>5, <1>7, <1>8, <1>9, <1>10

LEMMA AdvancedFacts ==
  ASSUME Stacked, calls # << >>, module \in Modules, Top.value \in Functions
  PROVE  \E d \in Frames : /\ Advanced = [calls EXCEPT ![Len(calls)] = d]
                           /\ d.value = Top.value /\ d.block = Top.block /\ d.held = Top.held
                           /\ d.at = <<Top.at[1], Top.at[2] + 1>>
<1>1. Top \in Frames /\ Top = calls[Len(calls)]
  BY TopFacts
<1>2. PICK x, y : x = Top.at[1] /\ y = Top.at[2]
  OBVIOUS
<1>3. x \in Nat \ {0} /\ y \in Nat \ {0} /\ Top.at = <<x, y>>
  BY <1>2, BodyFacts
<1>4. PICK a : a = [Top.at EXCEPT ![2] = @ + 1]
  OBVIOUS
<1>5. a = <<x, y + 1>>
  BY <1>3, <1>4
<1>6. a \in (Nat \ {0}) \X (Nat \ {0})
  BY <1>3, <1>5
<1>7. PICK d : d = [Top EXCEPT !.at = a]
  OBVIOUS
<1>8. /\ d \in Frames /\ d.value = Top.value /\ d.block = Top.block /\ d.held = Top.held
      /\ d.at = <<x, y + 1>>
  BY <1>1, <1>5, <1>6, <1>7 DEF Frames
<1>9. Advanced = [calls EXCEPT ![Len(calls)] = d]
  BY <1>1, <1>4, <1>7 DEF Advanced
<1> QED BY <1>2, <1>8, <1>9

\* The turn of an instruction: its translation begins, and that of a phi puts it in its
\* block at once.
LEMMA TakeInstructionStep ==
  ASSUME IInv, TakeInstruction
  PROVE  IInv'
<1>1. /\ InBody /\ HasTurn /\ Kind(Turn) # "local"
      /\ calls' = Append(Advanced, Frame(Turn, Block))
      /\ IF Kind(Turn) = "phi" THEN Make(Turn, << >>, Block) ELSE UNCHANGED <<obj, text, valueMap>>
      /\ UNCHANGED <<module, root, status>>
  BY DEF TakeInstruction
<1>2. PICK v, b, f, a : v = Turn /\ b = Block /\ f = Top.value /\ a = Top.at
  OBVIOUS
<1>3. /\ module \in Modules /\ Tables /\ Rooted /\ Stacked /\ Turns /\ Loads
      /\ status = "translating" /\ calls # << >>
      /\ v \in Insts /\ v \in Values /\ Top \in Frames /\ f \in Functions
      /\ f \in Mapped /\ a \in Places(f) /\ At(f, a) = v
      /\ b = <<f, a[1]>> /\ b \in Blocks
      /\ ~Passed(f, a) /\ TurnAt(f, a, v) /\ HasItsTurn(v, b)
      /\ (v \in Mapped => HasLoad(v)) /\ v \notin Functions /\ Kind(v) \in {"inst", "phi"}
  BY <1>1, <1>2, TurnFacts, Sorts
<1>4. PICK d \in Frames : /\ Advanced = [calls EXCEPT ![Len(calls)] = d]
                          /\ d.value = Top.value /\ d.block = Top.block /\ d.held = Top.held
                          /\ d.at = <<Top.at[1], Top.at[2] + 1>>
  BY <1>2, <1>3, AdvancedFacts
<1>5. PICK c : c = Frame(v, b)
  OBVIOUS
<1>6. c \in Frames /\ c.value = v /\ c.block = b /\ Holds(c)'
  <2>1. b \in Blocks \cup {<< >>}
    BY <1>3
  <2> QED BY <1>1, <1>3, <1>5, <2>1, NewFrame
<1>7. calls' = Append([calls EXCEPT ![Len(calls)] = d], c)
  BY <1>1, <1>2, <1>4, <1>5
<1>8. TakeOn(d, c)
  BY <1>3, <1>6, <1>7, TakeOnAppend
<1>9. \A k \in DOMAIN calls' : \A e : e = calls'[k] => OldHeld(k, e) \/ Holds(e)'
  BY <1>3, <1>4, <1>6, <1>8, TakeOldHeld
<1>10. ASSUME SameFunctions
       PROVE  /\ Stacked' /\ Unmoved(v) /\ Rooted' /\ InProgress(v)' /\ f \in Mapped'
              /\ \A w \in Insts : InProgress(w) => InProgress(w)'
              /\ Passed(f, a)'
  <2>1. /\ Stacked' /\ PassTurn
        /\ \A w \in Insts : InProgress(w)' <=> InProgress(w) \/ w = Turn
    BY <1>1, <1>2, <1>3, <1>4, <1>6, <1>8, <1>10, TakePlace
  <2>2. Rooted'
    BY <1>1, <1>3, <1>10, KeepRooted DEF SameFunctions, Translated
  <2> QED BY <2>1, <2>2, <1>2, <1>3, <1>10 DEF PassTurn, Unmoved, SameFunctions
<1>11. \A w \in Mapped : Kind(w) = "phi" => w \in Insts
  BY <1>3, PhiIsInstruction
<1>12. ASSUME NEW g \in Functions, NEW q \in Places(g), At(g, q) = v
       PROVE  g = f /\ q = a
  BY <1>3, <1>12, OnePlace
<1>13. CASE Kind(v) = "inst"
  <2>1. UNCHANGED <<obj, text, valueMap>>
    BY <1>1, <1>2, <1>13
  <2>2. SameFunctions /\ Mapped' = Mapped /\ (HasLoad(v)' <=> HasLoad(v))
    BY <2>1 DEF SameFunctions, Mapped, HasLoad
  <2>3. TurnAt(f, a, v)'
    <3>1. Kind(v)' = Kind(v)
      BY <1>1, SameModule
    <3> QED BY <3>1, <2>2, <1>3, <1>10, <1>13 DEF TurnAt
  <2>4. \A g \in Functions : \A q \in Places(g) : At(g, q) = v => TurnAt(g, q, v)'
    BY <2>3, <1>12
  <2>5. \A w \in Mapped : Kind(w) = "phi" /\ InProgress(w) =>
          InProgress(w)' \/ Len(OpsOf(w)) = Len(Operands(w))
    BY <2>2, <1>10, <1>11
  <2>6. Stacked' /\ Unmoved(v) /\ Rooted'
    BY <2>2, <1>10
  <2> QED BY <1>1, <1>9, <2>1, <2>4, <2>5, <2>6, MoveStep
<1>14. CASE Kind(v) = "phi"
  <2>1. PICK ops : ops = << >>
    OBVIOUS
  <2>2. ops \in Seq(Nat) /\ Len(ops) = 0
    BY <2>1, EmptySeq
  <2>3. MakesValue(v, ops) /\ text' = Removed([text EXCEPT ![b] = Append(@, New)], v)
    BY <1>1, <1>2, <1>14, <2>1 DEF Make, MakesValue
  <2>4. Tables' /\ TableStep(v, FALSE, ops)
    BY <1>1, <1>3, <2>2, <2>3, MakeTables
  <2>5. SameFunctions
    BY <1>3, <2>4, UntouchedByStep
  <2>6. LinkedTo(v, ops)
    <3>1. Len(Operands(v)) \in Nat
      BY <1>3, KindAndOperands
    <3> QED BY <3>1, <2>2 DEF LinkedTo
  <2>7. StillHeld
    <3>1. PICK j : j = Len(calls)
      OBVIOUS
    <3>2. j \in DOMAIN calls /\ calls[j].value = f /\ j + 1 \notin DOMAIN calls
      BY <1>2, <1>3, <3>1, TopFacts
    <3> QED BY <1>1, <1>3, <2>4, <3>2, StillHeldByMaking
  <2>8. TurnAt(f, a, v)'
    <3>1. Kind(v)' = Kind(v) /\ v \in Mapped' /\ ~HasLoad(v)'
      BY <1>1, <1>3, <2>4, SameModule, StepLoads DEF TableStep
    <3> QED BY <3>1, <2>5, <1>3, <1>10, <1>14 DEF TurnAt
  <2>9. \A g \in Functions : \A q \in Places(g) : At(g, q) = v => TurnAt(g, q, v)'
    BY <2>8, <1>12
  <2>10. \A w \in Mapped : Kind(w) = "phi" /\ InProgress(w) => InProgress(w)'
    BY <2>5, <1>10, <1>11
  <2>11. Stacked' /\ Unmoved(v) /\ Rooted' /\ InProgress(v)'
    BY <2>5, <1>10
  <2>12. module' = module /\ b \in Blocks /\ HasItsTurn(v, b)
    BY <1>1, <1>3
  <2> QED BY <1>9, <1>14, <2>2, <2>3, <2>4, <2>6, <2>7, <2>9, <2>10, <2>11, <2>12, MakeStep
<1> QED BY <1>3, <1>13, <1>14

LEMMA TakeLocalStep ==
  ASSUME IInv, TakeLocal
  PROVE  IInv'
<1>1. /\ InBody /\ HasTurn /\ Kind(Turn) = "local"
      /\ IF Turn \in Mapped THEN UNCHANGED <<obj, text, valueMap>> ELSE Make(Turn, << >>, Block)
      /\ calls' = Advanced
      /\ UNCHANGED <<module, root, status>>
  BY DEF TakeLocal
<1>2. PICK v, b, f, a : v = Turn /\ b = Block /\ f = Top.value /\ a = Top.at
  OBVIOUS
<1>3. /\ module \in Modules /\ Tables /\ Rooted /\ Stacked /\ Turns /\ Loads
      /\ status = "translating" /\ calls # << >>
      /\ v \in Insts /\ v \in Values /\ Top \in Frames /\ f \in Functions
      /\ f \in Mapped /\ a \in Places(f) /\ At(f, a) = v
      /\ b = <<f, a[1]>> /\ b \in Blocks
      /\ ~Passed(f, a) /\ TurnAt(f, a, v) /\ HasItsTurn(v, b)
      /\ v \notin Functions /\ Kind(v) = "local" /\ Len(Operands(v)) = 0
  BY <1>1, <1>2, TurnFacts, Sorts, KindAndOperands
<1>4. PICK d \in Frames : /\ Advanced = [calls EXCEPT ![Len(calls)] = d]
                          /\ d.value = Top.value /\ d.block = Top.block /\ d.held = Top.held
                          /\ d.at = <<Top.at[1], Top.at[2] + 1>>
  BY <1>2, <1>3, AdvancedFacts
<1>5. SetTop(d)
  BY <1>1, <1>3, <1>4, SetTopExcept
<1>6. \A k \in DOMAIN calls' : \A e : e = calls'[k] => OldHeld(k, e) \/ Holds(e)'
  BY <1>3, <1>4, <1>5, SetOldHeld
<1>7. ASSUME SameFunctions
      PROVE  /\ Stacked' /\ Unmoved(v) /\ Rooted' /\ f \in Mapped'
             /\ \A w \in Insts : InProgress(w)' <=> InProgress(w)
             /\ Passed(f, a)'
  <2>1. Stacked' /\ PassTurn /\ SameProgress
    BY <1>1, <1>2, <1>3, <1>4, <1>5, <1>7, SetPlace
  <2>2. Rooted'
    BY <1>1, <1>3, <1>7, KeepRooted DEF SameFunctions, Translated
  <2> QED BY <2>1, <2>2, <1>2, <1>3, <1>7 DEF PassTurn, Unmoved, SameFunctions, SameProgress
<1>8. \A w \in Mapped : Kind(w) = "phi" => w \in Insts
  BY <1>3, PhiIsInstruction
<1>9. ASSUME NEW g \in Functions, NEW q \in Places(g), At(g, q) = v
      PROVE  g = f /\ q = a
  BY <1>3, <1>9, OnePlace
<1>10. ASSUME SameFunctions, v \in Mapped', ~HasLoad(v)'
       PROVE  \A g \in Functions : \A q \in Places(g) : At(g, q) = v => TurnAt(g, q, v)'
  <2>1. Kind(v)' = Kind(v)
    BY <1>1, SameModule
  <2>2. TurnAt(f, a, v)'
    BY <2>1, <1>3, <1>7, <1>10 DEF TurnAt
  <2> QED BY <2>2, <1>9
<1>11. CASE v \in Mapped
  <2>1. UNCHANGED <<obj, text, valueMap>>
    BY <1>1, <1>2, <1>11
  <2>2. SameFunctions /\ Mapped' = Mapped /\ (HasLoad(v)' <=> HasLoad(v))
    BY <2>1 DEF SameFunctions, Mapped, HasLoad
  <2>3. ~HasLoad(v)
    BY <1>3, <1>11 DEF Loads
  <2>4. \A g \in Functions : \A q \in Places(g) : At(g, q) = v => TurnAt(g, q, v)'
    BY <2>2, <2>3, <1>10, <1>11
  <2>5. \A w \in Mapped : Kind(w) = "phi" /\ InProgress(w) =>
          InProgress(w)' \/ Len(OpsOf(w)) = Len(Operands(w))
    BY <2>2, <1>7, <1>8
  <2>6. Stacked' /\ Unmoved(v) /\ Rooted'
    BY <2>2, <1>7
  <2> QED BY <1>1, <1>6, <2>1, <2>4, <2>5, <2>6, MoveStep
<1>12. CASE v \notin Mapped
  <2>1. PICK ops : ops = << >>
    OBVIOUS
  <2>2. ops \in Seq(Nat) /\ Len(ops) = 0
    BY <2>1, EmptySeq
  <2>3. MakesValue(v, ops) /\ text' = Removed([text EXCEPT ![b] = Append(@, New)], v)
    BY <1>1, <1>2, <1>12, <2>1 DEF Make, MakesValue
  <2>4. Tables' /\ TableStep(v, FALSE, ops)
    BY <1>1, <1>3, <1>12, <2>2, <2>3, MakeTables
  <2>5. SameFunctions
    BY <1>3, <2>4, UntouchedByStep
  <2>6. LinkedTo(v, ops) /\ Len(ops) = Len(Operands(v))
    BY <2>2, <1>3 DEF LinkedTo
  <2>7. StillHeld
    <3>1. ~HasLoad(v)
      BY <1>12 DEF HasLoad
    <3> QED BY <1>1, <1>3, <2>4, <3>1, StillHeldByAdding
  <2>8. v \in Mapped' /\ ~HasLoad(v)'
    BY <1>3, <2>4, StepLoads DEF TableStep
  <2>9. \A g \in Functions : \A q \in Places(g) : At(g, q) = v => TurnAt(g, q, v)'
    BY <2>5, <2>8, <1>10
  <2>10. \A w \in Mapped : Kind(w) = "phi" /\ InProgress(w) => InProgress(w)'
    BY <2>5, <1>7, <1>8
  <2>11. Stacked' /\ Unmoved(v) /\ Rooted'
    BY <2>5, <1>7
  <2>12. module' = module /\ b \in Blocks /\ HasItsTurn(v, b)
    BY <1>1, <1>3
  <2> QED BY <1>6, <2>2, <2>3, <2>4, <2>6, <2>7, <2>9, <2>10, <2>11, <2>12, MakeStep
<1> QED BY <1>11, <1>12

\* An operand that has not been translated is an instruction of the body at hand.
LEMMA UserFacts ==
  ASSUME IInv, InValue, NEW v \in Asked, Kind(v) \in {"inst", "phi", "local"}
  PROVE  \E f \in Functions : \E p, q \in Places(f) :
           /\ At(f, p) = Top.value /\ At(f, q) = v
           /\ v \in Range(Operands(Top.value)) /\ v \in Values /\ v \in Insts /\ v \notin Functions
           /\ f \in Mapped /\ Top.block \in Blocks /\ TurnAt(f, q, v)
           /\ Kind(Top.value) \in {"inst", "phi"}
           /\ Passed(f, q) <=> Before(q, <<p[1], p[2] + 1>>)
<1>1. /\ module \in Modules /\ Stacked /\ Turns /\ Top.value \in Values
  BY ValueFacts DEF IInv
<1>2. PICK u : u = Top.value
  OBVIOUS
<1>3. v \in Values /\ \E i \in DOMAIN Operands(u) : Operands(u)[i] = v
  BY <1>2, AskedFacts
<1>4. PICK i \in DOMAIN Operands(u) : Operands(u)[i] = v
  BY <1>3
<1>5. v \in Insts /\ v \notin Functions
  BY <1>1, <1>3, Sorts
<1>6. u \in Insts
  BY <1>1, <1>2, <1>4, <1>5, NoOperand
<1>7. PICK f \in Functions : \E p \in Places(f) :
        /\ At(f, p) = u /\ f \in Mapped /\ Passed(f, p) /\ InProgress(u)
        /\ Top.block = <<f, p[1]>> /\ <<f, p[1]>> \in Blocks
        /\ Len(calls) - 1 \in DOMAIN calls /\ calls[Len(calls) - 1].value = f
        /\ calls[Len(calls) - 1].at = <<p[1], p[2] + 1>>
        /\ Kind(u) \in {"inst", "phi"} /\ TurnAt(f, p, u)
  BY <1>2, <1>6, InstructionFacts
<1>8. PICK p \in Places(f) :
        /\ At(f, p) = u /\ f \in Mapped
        /\ Top.block = <<f, p[1]>> /\ <<f, p[1]>> \in Blocks
        /\ Len(calls) - 1 \in DOMAIN calls /\ calls[Len(calls) - 1].value = f
        /\ calls[Len(calls) - 1].at = <<p[1], p[2] + 1>>
        /\ Kind(u) \in {"inst", "phi"}
  BY <1>7
<1>9. PICK q \in Places(f) : At(f, q) = v
  <2>1. i \in DOMAIN Operands(At(f, p)) /\ Operands(At(f, p))[i] \in Insts
    BY <1>4, <1>5, <1>8
  <2>2. \E q \in Places(f) : At(f, q) = Operands(At(f, p))[i]
    BY <1>1, <2>1, OperandPlace
  <2> QED BY <2>2, <1>4, <1>8
<1>10. TurnAt(f, q, v)
  BY <1>1, <1>5, <1>9 DEF Turns
<1>11. Passed(f, q) <=> Before(q, <<p[1], p[2] + 1>>)
  <2>1. PICK n : n = Len(calls) - 1
    OBVIOUS
  <2>2. n \in DOMAIN calls /\ calls[n].value = f /\ calls[n].at = <<p[1], p[2] + 1>>
    BY <1>8, <2>1
  <2>3. Behind(f, q) <=> Before(q, calls[n].at)
    BY <1>1, <2>2, BehindBody
  <2> QED BY <2>2, <2>3, <1>8 DEF Passed
<1>12. v \in Range(Operands(u))
  BY <1>4 DEF Range
<1> QED BY <1>2, <1>3, <1>5, <1>8, <1>9, <1>10, <1>11, <1>12

LEMMA MakePlaceholderStep ==
  ASSUME IInv, MakePlaceholder
  PROVE  IInv'
<1>1. InValue /\ UNCHANGED <<module, root, calls, status>>
  BY DEF MakePlaceholder
<1>2. PICK v \in Asked \ Mapped :
        /\ Kind(v) \in {"inst", "phi"}
        /\ obj' = Append(obj, [value |-> v, load |-> TRUE, ops |-> << >>])
        /\ text' = [text EXCEPT ![Top.block] = Append(@, New)]
        /\ valueMap' = Put(valueMap, v, New)
  BY DEF MakePlaceholder
<1>3. /\ module \in Modules /\ Tables /\ Rooted /\ Stacked /\ Holding /\ Texts
      /\ calls # << >> /\ status = "translating"
  BY <1>1, ValueFacts DEF IInv
<1>4. PICK f \in Functions : \E p, q \in Places(f) :
           /\ At(f, q) = v /\ v \in Values /\ v \in Insts /\ v \notin Functions
           /\ f \in Mapped /\ Top.block \in Blocks /\ TurnAt(f, q, v)
  BY <1>1, <1>2, UserFacts
<1>5. PICK q \in Places(f) :
           /\ At(f, q) = v /\ v \in Values /\ v \in Insts /\ v \notin Functions
           /\ f \in Mapped /\ Top.block \in Blocks /\ TurnAt(f, q, v)
  BY <1>4
<1>6. PICK ops, b : ops = << >> /\ b = Top.block
  OBVIOUS
<1>7. ops \in Seq(Nat) /\ Len(ops) = 0
  BY <1>6, EmptySeq
<1>8. Tables' /\ TableStep(v, TRUE, ops)
  BY <1>1, <1>2, <1>3, <1>5, <1>6, <1>7, AddTables
<1>9. LinkedTo(v, ops)
  <2>1. Len(Operands(v)) \in Nat
    BY <1>3, <1>5, KindAndOperands
  <2> QED BY <2>1, <1>7 DEF LinkedTo
<1>10. text' = Removed([text EXCEPT ![b] = Append(@, New)], v)
  <2>1. ~HasLoad(v)
    BY <1>2 DEF HasLoad
  <2>2. text' = [text EXCEPT ![b] = Append(@, New)]
    BY <1>2, <1>6
  <2>3. text' = [c \in DOMAIN text' |-> text'[c]]
    BY <2>2, <1>3 DEF Texts
  <2> QED BY <2>1, <2>2, <2>3 DEF Removed
<1>11. SameFunctions /\ Mapped \subseteq Mapped'
  BY <1>3, <1>5, <1>8, UntouchedByStep
<1>12. /\ Stacked' /\ SamePassed /\ SameProgress
       /\ \A k \in DOMAIN calls' : \A c : c = calls'[k] => OldHeld(k, c)
  BY <1>1, <1>3, <1>11, StillStack
<1>13. Rooted'
  BY <1>1, <1>3, <1>11, KeepRooted DEF Translated
<1>14. StillHeld
  <2>1. ~HasLoad(v)
    BY <1>2 DEF HasLoad
  <2> QED BY <1>1, <1>3, <1>8, <2>1, StillHeldByAdding
<1>15. Unmoved(v)
  BY <1>12 DEF Unmoved, SamePassed, SameProgress
<1>16. TurnAt(f, q, v)'
  <2>1. HasLoad(v)' /\ v \in Mapped' /\ f \in Mapped'
    BY <1>3, <1>5, <1>8, <1>11, StepLoads DEF TableStep
  <2>2. (InProgress(v)' <=> InProgress(v)) /\ (Passed(f, q)' <=> Passed(f, q))
    BY <1>5, <1>12 DEF SamePassed, SameProgress
  <2>3. Kind(v)' = Kind(v)
    BY <1>1, SameModule
  <2>4. v \notin Mapped /\ TurnAt(f, q, v)
    BY <1>2, <1>5
  <2> QED BY <2>1, <2>2, <2>3, <2>4 DEF TurnAt
<1>17. \A g \in Functions : \A r \in Places(g) : At(g, r) = v => TurnAt(g, r, v)'
  BY <1>3, <1>5, <1>16, OnePlace
<1>18. \A w \in Mapped : Kind(w) = "phi" /\ InProgress(w) => InProgress(w)'
  BY <1>1 DEF InProgress
<1>19. module' = module /\ b \in Blocks /\ Kind(v) \in {"inst", "phi"}
  BY <1>1, <1>2, <1>5, <1>6
<1> QED BY <1>7, <1>8, <1>9, <1>10, <1>12, <1>13, <1>14, <1>15, <1>17, <1>18, <1>19, MakeStep

\* A local variable that is made out of turn is used in front of its place.
LEMMA MakeLocalEarlyStep ==
  ASSUME IInv, MakeLocalEarly
  PROVE  IInv'
<1>1. InValue /\ UNCHANGED <<module, root, calls, status>>
  BY DEF MakeLocalEarly
<1>2. PICK v \in Asked \ Mapped : Kind(v) = "local" /\ Make(v, << >>, Top.block)
  BY DEF MakeLocalEarly
<1>3. /\ module \in Modules /\ Tables /\ Rooted /\ Stacked /\ Holding
      /\ calls # << >> /\ status = "translating"
  BY <1>1, ValueFacts
<1>4. PICK f \in Functions : \E p, q \in Places(f) :
           /\ At(f, p) = Top.value /\ At(f, q) = v
           /\ v \in Range(Operands(Top.value)) /\ v \in Values /\ v \in Insts /\ v \notin Functions
           /\ f \in Mapped /\ Top.block \in Blocks /\ TurnAt(f, q, v)
           /\ Kind(Top.value) \in {"inst", "phi"}
           /\ Passed(f, q) <=> Before(q, <<p[1], p[2] + 1>>)
  BY <1>1, <1>2, UserFacts
<1>5. PICK p, q \in Places(f) :
           /\ At(f, p) = Top.value /\ At(f, q) = v
           /\ v \in Range(Operands(Top.value)) /\ v \in Values /\ v \in Insts /\ v \notin Functions
           /\ f \in Mapped /\ Top.block \in Blocks /\ TurnAt(f, q, v)
           /\ Kind(Top.value) \in {"inst", "phi"}
           /\ Passed(f, q) <=> Before(q, <<p[1], p[2] + 1>>)
  BY <1>4
<1>6. v \in EarlyLocals
  <2>1. ~InProgress(v)
    <3> SUFFICES ASSUME NEW k \in DOMAIN calls, calls[k].value = v PROVE FALSE
      BY DEF InProgress
    <3>1. calls[k].value = At(f, q)
      BY <1>5
    <3>2. Kind(At(f, q)) \in {"inst", "phi"}
      BY <1>3, <3>1, AboveBody
    <3> QED BY <3>2, <1>2, <1>5
  <2>2. ~Passed(f, q)
    BY <2>1, <1>2, <1>5 DEF TurnAt
  <2>3. /\ p = <<p[1], p[2]>> /\ p[1] \in Nat /\ p[2] \in Nat
        /\ q = <<q[1], q[2]>> /\ q[1] \in Nat /\ q[2] \in Nat
    BY <1>3, PlaceFacts
  <2>4. p # q
    BY <1>2, <1>5
  <2>5. ~(p[1] = q[1] /\ p[2] = q[2])
    BY <2>3, <2>4
  <2>6. ~Before(q, <<p[1], p[2] + 1>>)
    BY <2>2, <1>5
  <2>7. Before(p, q)
    BY <2>3, <2>5, <2>6 DEF Before
  <2>8. v \in Range(Operands(At(f, p))) /\ Kind(v) = "local" /\ v \in Values
    BY <1>2, <1>5
  <2> QED BY <2>7, <2>8, <1>5 DEF EarlyLocals
<1>7. PICK ops, b : ops = << >> /\ b = Top.block
  OBVIOUS
<1>8. ops \in Seq(Nat) /\ Len(ops) = 0
  BY <1>7, EmptySeq
<1>9. MakesValue(v, ops) /\ text' = Removed([text EXCEPT ![b] = Append(@, New)], v)
  BY <1>2, <1>7 DEF Make, MakesValue
<1>10. Tables' /\ TableStep(v, FALSE, ops)
  BY <1>1, <1>2, <1>3, <1>5, <1>8, <1>9, MakeTables
<1>11. LinkedTo(v, ops) /\ Len(ops) = Len(Operands(v))
  <2>1. Len(Operands(v)) = 0
    BY <1>2, <1>3, <1>5, KindAndOperands
  <2> QED BY <2>1, <1>8 DEF LinkedTo
<1>12. SameFunctions /\ Mapped \subseteq Mapped'
  BY <1>3, <1>5, <1>10, UntouchedByStep
<1>13. /\ Stacked' /\ SamePassed /\ SameProgress
       /\ \A k \in DOMAIN calls' : \A c : c = calls'[k] => OldHeld(k, c)
  BY <1>1, <1>3, <1>12, StillStack
<1>14. Rooted'
  BY <1>1, <1>3, <1>12, KeepRooted DEF Translated
<1>15. StillHeld
  <2>1. ~HasLoad(v)
    BY <1>2 DEF HasLoad
  <2> QED BY <1>1, <1>3, <1>10, <2>1, StillHeldByAdding
<1>16. Unmoved(v)
  BY <1>13 DEF Unmoved, SamePassed, SameProgress
<1>17. TurnAt(f, q, v)'
  <2>1. ~HasLoad(v)' /\ v \in Mapped' /\ f \in Mapped'
    BY <1>3, <1>5, <1>10, <1>12, StepLoads DEF TableStep
  <2>2. Kind(v)' = Kind(v) /\ EarlyLocals' = EarlyLocals
    BY <1>1, SameModule
  <2> QED BY <2>1, <2>2, <1>2, <1>6 DEF TurnAt
<1>18. \A g \in Functions : \A r \in Places(g) : At(g, r) = v => TurnAt(g, r, v)'
  BY <1>3, <1>5, <1>17, OnePlace
<1>19. \A w \in Mapped : Kind(w) = "phi" /\ InProgress(w) => InProgress(w)'
  BY <1>1 DEF InProgress
<1>20. module' = module /\ b \in Blocks
  BY <1>1, <1>5, <1>7
<1> QED BY <1>6, <1>8, <1>9, <1>10, <1>11, <1>13, <1>14, <1>15, <1>16, <1>18, <1>19, <1>20, MakeStep

LEMMA CompleteInstructionStep ==
  ASSUME IInv, CompleteInstruction
  PROVE  IInv'
<1>1. /\ InValue /\ Wanted = {} /\ Kind(Top.value) \in {"inst", "phi"}
      /\ IF Kind(Top.value) = "phi"
         THEN UNCHANGED <<obj, text, valueMap>>
         ELSE (Top.value \in Mapped => HasLoad(Top.value)) /\ Make(Top.value, Top.held, Top.block)
      /\ calls' = Front(calls)
      /\ UNCHANGED <<module, root, status>>
  BY DEF CompleteInstruction
<1>2. /\ module \in Modules /\ Tables /\ Rooted /\ Stacked /\ Holding /\ Turns /\ Linked
      /\ calls # << >> /\ status = "translating" /\ Top.value \in Values /\ Top.value \notin Functions
      /\ Len(Operands(Top.value)) \in Nat
      /\ DOMAIN Operands(Top.value) = 1 .. Len(Operands(Top.value))
  BY <1>1, ValueFacts DEF IInv
<1>3. PICK v, ops, b : v = Top.value /\ ops = Top.held /\ b = Top.block
  OBVIOUS
<1>4. v \in Insts /\ v \in Values /\ v \notin Functions
  BY <1>1, <1>2, <1>3, Sorts
<1>5. PICK f \in Functions : \E p \in Places(f) :
        /\ At(f, p) = v /\ f \in Mapped /\ Passed(f, p) /\ InProgress(v)
        /\ Top.block = <<f, p[1]>> /\ <<f, p[1]>> \in Blocks
        /\ Len(calls) - 1 \in DOMAIN calls /\ calls[Len(calls) - 1].value = f
        /\ calls[Len(calls) - 1].at = <<p[1], p[2] + 1>>
        /\ Kind(v) \in {"inst", "phi"} /\ TurnAt(f, p, v)
  BY <1>1, <1>3, <1>4, InstructionFacts
<1>6. PICK p \in Places(f) :
        /\ At(f, p) = v /\ f \in Mapped /\ Passed(f, p) /\ InProgress(v)
        /\ b = <<f, p[1]>> /\ b \in Blocks
        /\ Len(calls) - 1 \in DOMAIN calls /\ calls[Len(calls) - 1].value = f
        /\ calls[Len(calls) - 1].at = <<p[1], p[2] + 1>>
        /\ Kind(v) \in {"inst", "phi"} /\ TurnAt(f, p, v)
  BY <1>3, <1>5
<1>7. PopOff
  BY <1>1, <1>2, PopOffFront
<1>8. ASSUME SameFunctions
      PROVE  /\ Stacked' /\ Rooted' /\ Unmoved(v) /\ ~InProgress(v)' /\ Passed(f, p)' /\ f \in Mapped'
             /\ \A w \in Insts : w # v => (InProgress(w)' <=> InProgress(w))
  <2>1. /\ Stacked' /\ SamePassed
        /\ \A w \in Insts : InProgress(w)' <=> InProgress(w) /\ w # v
    BY <1>1, <1>2, <1>3, <1>4, <1>7, <1>8, PopValue
  <2>2. Rooted'
    BY <1>1, <1>2, <1>8, KeepRooted DEF SameFunctions, Translated
  <2> QED BY <2>1, <2>2, <1>4, <1>6, <1>8 DEF Unmoved, SamePassed, SameFunctions
<1>9. \A k \in DOMAIN calls' : \A c : c = calls'[k] => OldHeld(k, c) \/ Holds(c)'
  BY <1>2, <1>7, PopOldHeld
<1>10. ASSUME SameFunctions, v \in Mapped', ~HasLoad(v)'
       PROVE  \A g \in Functions : \A q \in Places(g) : At(g, q) = v => TurnAt(g, q, v)'
  <2>1. TurnAt(f, p, v)'
    BY <1>8, <1>10 DEF TurnAt
  <2> QED BY <2>1, <1>2, <1>6, OnePlace
<1>11. \A w \in Mapped : Kind(w) = "phi" => w \in Insts
  BY <1>2, PhiIsInstruction
<1>12. CASE Kind(v) = "phi"
  <2>1. UNCHANGED <<obj, text, valueMap>>
    BY <1>1, <1>3, <1>12
  <2>2. SameFunctions /\ Mapped' = Mapped /\ (HasLoad(v)' <=> HasLoad(v))
    BY <2>1 DEF SameFunctions, Mapped, HasLoad
  <2>3. v \in Mapped /\ ~HasLoad(v)
    BY <1>6, <1>12 DEF TurnAt
  <2>4. \A g \in Functions : \A q \in Places(g) : At(g, q) = v => TurnAt(g, q, v)'
    BY <2>2, <2>3, <1>10
  <2>5. Len(OpsOf(v)) = Len(Operands(v))
    <3>1. Len(OpsOf(v)) <= Len(Operands(v)) /\ Len(OpsOf(v)) \in Nat
      BY <2>3, <1>2, LiveValue DEF Linked, LinkedTo
    <3>2. Len(OpsOf(v)) + 1 \notin DOMAIN Operands(v)
      BY <1>1, <1>3, <1>12 DEF Wanted, OpsOf
    <3> QED BY <3>1, <3>2, <1>2, <1>3
  <2>6. \A w \in Mapped : Kind(w) = "phi" /\ InProgress(w) =>
          InProgress(w)' \/ Len(OpsOf(w)) = Len(Operands(w))
    BY <2>2, <2>5, <1>8, <1>11
  <2>7. Stacked' /\ Unmoved(v) /\ Rooted'
    BY <2>2, <1>8
  <2> QED BY <1>1, <1>9, <2>1, <2>4, <2>6, <2>7, MoveStep
<1>13. CASE Kind(v) = "inst"
  <2>1. (v \in Mapped => HasLoad(v)) /\ Make(v, ops, b)
    BY <1>1, <1>3, <1>13
  <2>2. MakesValue(v, ops) /\ text' = Removed([text EXCEPT ![b] = Append(@, New)], v)
    BY <2>1 DEF Make, MakesValue
  <2>3. LinkedTo(v, ops) /\ Len(ops) = Len(Operands(v)) /\ ops \in Seq(Nat)
    BY <1>1, <1>3, <1>13, AllThere
  <2>4. Tables' /\ TableStep(v, FALSE, ops)
    BY <1>1, <1>2, <1>4, <2>1, <2>2, <2>3, MakeTables
  <2>5. SameFunctions
    BY <1>2, <1>4, <2>4, UntouchedByStep
  <2>6. StillHeld
    <3>1. PICK j : j = Len(calls) - 1
      OBVIOUS
    <3>2. j \in DOMAIN calls /\ calls[j].value = f
      BY <1>6, <3>1
    <3>3. ~(j + 1 \in DOMAIN calls /\ j + 1 \in DOMAIN calls')
      <4>1. Len(calls) \in Nat \ {0} /\ DOMAIN calls' = 1 .. Len(calls) - 1
        BY <1>7, LenProperties DEF PopOff
      <4> QED BY <3>1, <4>1
    <3> QED BY <1>1, <1>2, <1>6, <2>4, <3>2, <3>3, StillHeldByMaking
  <2>7. v \in Mapped' /\ ~HasLoad(v)'
    BY <1>2, <2>4, StepLoads DEF TableStep
  <2>8. \A g \in Functions : \A q \in Places(g) : At(g, q) = v => TurnAt(g, q, v)'
    BY <2>5, <2>7, <1>10
  <2>9. \A w \in Mapped : Kind(w) = "phi" /\ InProgress(w) => InProgress(w)'
    BY <2>5, <1>8, <1>11, <1>13
  <2>10. Stacked' /\ Unmoved(v) /\ Rooted'
    BY <2>5, <1>8
  <2>11. HasItsTurn(v, b)
    <3>1. ASSUME NEW q \in Places(f), Passed(f, q)
          PROVE  Before(q, p) \/ (q = p /\ ~InPlace(v))
      <4>1. PICK n : n = Len(calls) - 1
        OBVIOUS
      <4>2. n \in DOMAIN calls /\ calls[n].value = f /\ calls[n].at = <<p[1], p[2] + 1>>
        BY <1>6, <4>1
      <4>3. Behind(f, q) <=> Before(q, calls[n].at)
        BY <1>2, <4>2, BehindBody
      <4>4. Before(q, <<p[1], p[2] + 1>>)
        BY <4>2, <4>3, <3>1 DEF Passed
      <4>5. /\ p = <<p[1], p[2]>> /\ p[1] \in Nat /\ p[2] \in Nat
            /\ q = <<q[1], q[2]>> /\ q[1] \in Nat /\ q[2] \in Nat
        BY <1>2, PlaceFacts
      <4>6. Before(q, p) \/ (p[1] = q[1] /\ p[2] = q[2])
        BY <4>4, <4>5 DEF Before
      <4>7. ~InPlace(v)
        BY <2>1 DEF InPlace
      <4> QED BY <4>5, <4>6, <4>7
    <3> QED BY <1>2, <1>6, <3>1, ComesNext
  <2>12. module' = module /\ b \in Blocks
    BY <1>1, <1>6
  <2> QED BY <1>9, <2>2, <2>3, <2>4, <2>6, <2>8, <2>9, <2>10, <2>11, <2>12, MakeStep
<1> QED BY <1>6, <1>12, <1>13

-----------------------------------------------------------------------------
(***************************************************************************)
(* The invariant holds, and what follows from it.                          *)
(***************************************************************************)
LEMMA InitIInv ==
  ASSUME Init
  PROVE  IInv
<1>1. /\ module \in Modules /\ root = 0 /\ calls = << >> /\ obj = << >> /\ valueMap = << >>
      /\ text = [b \in Blocks |-> << >>] /\ status = "translating"
  BY DEF Init
<1>2. Mapped = {} /\ DOMAIN calls = {} /\ Len(obj) = 0
  BY <1>1 DEF Mapped
<1>3. Tables
  <2>1. obj \in Seq(Objects)
    BY <1>1, EmptySeq
  <2>2. valueMap \in [Mapped -> 1 .. Len(obj)]
    BY <1>1, <1>2
  <2> QED BY <2>1, <2>2, <1>2 DEF Tables
<1>4. Rooted
  <2>1. module.roots \in Seq(Values)
    BY <1>1, TheModule DEF IsModule, Values
  <2>2. Len(module.roots) \in Nat
    BY <2>1, LenProperties
  <2> QED BY <2>2, <1>1 DEF Rooted, Translated
<1>5. Stacked
  <2>1. calls \in Seq(Frames)
    BY <1>1, EmptySeq
  <2> QED BY <2>1, <1>2 DEF Stacked, Range
<1>6. Holding
  BY <1>2 DEF Holding, Range
<1>7. Turns
  BY <1>2 DEF Turns, TurnAt, Passed, InProgress
<1>8. Linked /\ Whole /\ Loads
  BY <1>2 DEF Linked, Whole, Loads
<1>9. Texts
  <2>1. << >> \in Seq(Nat)
    BY EmptySeq
  <2>2. text \in [Blocks -> Seq(Nat)]
    BY <1>1, <2>1
  <2>3. ASSUME NEW f \in Functions, NEW b \in DOMAIN module.blocks[f], NEW insts
        PROVE  TextOf(text[<<f, b>>], insts)
    <3>1. text[<<f, b>>] = << >>
      BY <1>1, BlockFacts
    <3>2. PICK t : t = text[<<f, b>>]
      OBVIOUS
    <3>3. DOMAIN t = {} /\ Range(t) = {}
      BY <3>1, <3>2 DEF Range
    <3>4. TextOf(t, insts)
      BY <3>3, <1>2 DEF TextOf, IsInjective, Ordered, InPlace
    <3> QED BY <3>2, <3>4
  <2> QED BY <2>2, <2>3 DEF Texts
<1> QED BY <1>1, <1>3, <1>4, <1>5, <1>6, <1>7, <1>8, <1>9 DEF IInv

LEMMA NextIInv ==
  ASSUME IInv, [Next]_vars
  PROVE  IInv'
<1>1. CASE TakeRoot
  BY <1>1, TakeRootStep
<1>2. CASE TakeInstruction
  BY <1>2, TakeInstructionStep
<1>3. CASE TakeLocal
  BY <1>3, TakeLocalStep
<1>4. CASE NextBlock
  BY <1>4, NextBlockStep
<1>5. CASE ReturnFunction
  BY <1>5, ReturnFunctionStep
<1>6. CASE UseMapped
  BY <1>6, UseMappedStep
<1>7. CASE MakePlaceholder
  BY <1>7, MakePlaceholderStep
<1>8. CASE MakeLocalEarly
  BY <1>8, MakeLocalEarlyStep
<1>9. CASE Descend
  BY <1>9, DescendStep
<1>10. CASE Recurse \/ InvalidBlock \/ TranslatedTwice
  BY <1>10, StopStep DEF Recurse, InvalidBlock, TranslatedTwice, Translated
<1>11. CASE CompleteConstant
  BY <1>11, CompleteConstantStep
<1>12. CASE CompleteVariable
  BY <1>12, CompleteVariableStep
<1>13. CASE CompleteInstruction
  BY <1>13, CompleteInstructionStep
<1>14. CASE Finish
  BY <1>14, StopStep DEF Finish
<1>15. CASE UNCHANGED vars
  <2>1. Translated => calls = << >> /\ root = Len(module.roots)
    BY DEF IInv, Rooted
  <2> QED BY <2>1, <1>15, StopStep DEF vars, Translated
<1> QED BY <1>1, <1>2, <1>3, <1>4, <1>5, <1>6, <1>7, <1>8, <1>9, <1>10, <1>11, <1>12, <1>13,
           <1>14, <1>15 DEF Next

LEMMA SpecIInv == Spec => []IInv
<1>1. Init => IInv
  BY InitIInv
<1>2. IInv /\ [Next]_vars => IInv'
  BY NextIInv
<1> QED BY <1>1, <1>2, PTL DEF Spec

\* At the end every body has been passed, and no placeholder is left.
LEMMA TheEnd ==
  ASSUME IInv, Translated
  PROVE  /\ \A v : ~InProgress(v)
         /\ \A v \in Mapped : ~HasLoad(v)
         /\ \A v \in Insts : v \in Mapped
<1>1. module \in Modules /\ Tables /\ Rooted /\ Turns /\ Loads
  BY DEF IInv
<1>2. calls = << >> /\ DOMAIN calls = {} /\ root = Len(module.roots)
  BY <1>1 DEF Rooted
<1>3. \A v : ~InProgress(v)
  BY <1>2 DEF InProgress
<1>4. ASSUME NEW f \in Functions PROVE f \in Mapped
  <2>1. module.roots \in Seq(Values) /\ Functions \subseteq Range(module.roots)
    BY <1>1, TheModule DEF IsModule, Values, Functions
  <2>2. PICK i \in 1 .. Len(module.roots) : module.roots[i] = f
    BY <2>1, LenProperties DEF Range
  <2> QED BY <2>2, <1>1, <1>2 DEF Rooted
<1>5. ASSUME NEW v \in Insts PROVE v \in Mapped /\ ~HasLoad(v)
  <2>1. PICK f \in Functions : \E p \in Places(f) : At(f, p) = v
    BY <1>1, EveryPlace
  <2>2. PICK p \in Places(f) : At(f, p) = v
    BY <2>1
  <2>3. Passed(f, p)
    BY <1>2, <1>4 DEF Passed, Behind
  <2>4. TurnAt(f, p, v)
    BY <1>1, <2>2 DEF Turns
  <2> QED BY <2>3, <2>4, <1>3 DEF TurnAt
<1>6. ASSUME NEW v \in Mapped PROVE ~HasLoad(v)
  <2> SUFFICES ASSUME HasLoad(v) PROVE FALSE
    OBVIOUS
  <2>1. Kind(v) \in {"inst", "phi"}
    BY <1>1 DEF Loads
  <2>2. v \in Insts
    BY <1>1, <2>1, PhiIsInstruction
  <2> QED BY <2>2, <1>5
<1> QED BY <1>3, <1>5, <1>6

\* No activation of transValue holds an operand that has been replaced meanwhile, however
\* the bodies of functions nest; and when the module is translated every value has the LLVM
\* values of its operands.
THEOREM OperandsAgreeHolds == Spec => []OperandsAgree
<1>1. ASSUME IInv PROVE OperandsAgree
  <2>1. module \in Modules /\ Tables /\ Stacked /\ Holding /\ Linked /\ Whole
    BY <1>1 DEF IInv
  <2>2. ASSUME NEW k \in DOMAIN calls, NEW i \in DOMAIN calls[k].held, calls[k].held[i] # 0
        PROVE  /\ Operands(calls[k].value)[i] \in Mapped
               /\ calls[k].held[i] = valueMap[Operands(calls[k].value)[i]]
    <3>1. Holds(calls[k]) /\ calls[k].held \in Seq(Nat)
      BY <2>1, FrameFacts DEF Holding
    <3>2. i \in 1 .. Len(calls[k].held)
      BY <3>1, <2>2, LenProperties
    <3> QED BY <3>1, <3>2, <2>2 DEF Holds
  <2>3. ASSUME Translated, NEW v \in Mapped
        PROVE  obj[valueMap[v]].ops = [i \in DOMAIN Operands(v) |-> valueMap[Operands(v)[i]]]
    <3>1. PICK ops, n : ops = OpsOf(v) /\ n = Len(Operands(v))
      OBVIOUS
    <3>2. /\ v \in Values /\ ops \in Seq(Nat) /\ Len(ops) \in Nat /\ DOMAIN ops = 1 .. Len(ops)
          /\ n \in Nat /\ DOMAIN Operands(v) = 1 .. n
      BY <3>1, <2>1, LiveValue, KindAndOperands
    <3>3. ~HasLoad(v) /\ ~InProgress(v)
      BY <1>1, <2>3, TheEnd
    <3>4. Len(ops) = n
      BY <3>1, <3>3, <2>1 DEF Whole
    <3>5. \A i \in 1 .. n : ops[i] = valueMap[Operands(v)[i]]
      BY <3>1, <3>4, <2>1 DEF Linked, LinkedTo
    <3>6. ops = [i \in 1 .. n |-> ops[i]]
      BY <3>2, <3>4
    <3>7. ops = [i \in DOMAIN Operands(v) |-> valueMap[Operands(v)[i]]]
      BY <3>2, <3>5, <3>6
    <3> QED BY <3>1, <3>7 DEF OpsOf
  <2> QED BY <2>2, <2>3 DEF OperandsAgree
<1> QED BY <1>1, SpecIInv, PTL

\* When the module is translated, the LLVM blocks hold the instructions of the SPIR-V
\* blocks, each of them, in their order, and no placeholder; only a local variable that an
\* instruction in front of its place uses may be elsewhere.
THEOREM InOrderHolds == Spec => []InOrder
<1>1. ASSUME IInv PROVE InOrder
  <2> SUFFICES ASSUME Translated, NEW f \in Functions, NEW c \in DOMAIN module.blocks[f],
                      NEW t, t = text[<<f, c>>], NEW insts, insts = module.blocks[f][c]
               PROVE  /\ \A i \in DOMAIN t : ~obj[t[i]].load
                      /\ {obj[t[i]].value : i \in {j \in DOMAIN t : obj[t[j]].value \notin EarlyLocals}}
                           = Range(insts) \ EarlyLocals
                      /\ \A i, j \in {k \in DOMAIN t : obj[t[k]].value \notin EarlyLocals} : i < j =>
                           \E k, l \in DOMAIN insts :
                              k < l /\ insts[k] = obj[t[i]].value /\ insts[l] = obj[t[j]].value
    <3> SUFFICES ASSUME Translated, NEW b \in Blocks
                 PROVE  LET insts   == module.blocks[b[1]][b[2]]
                            Made(i) == obj[text[b][i]].value
                            InTurn0 == {i \in DOMAIN text[b] : Made(i) \notin EarlyLocals}
                        IN /\ \A i \in DOMAIN text[b] : ~obj[text[b][i]].load
                           /\ {Made(i) : i \in InTurn0} = Range(insts) \ EarlyLocals
                           /\ \A i, j \in InTurn0 : i < j =>
                                \E k, l \in DOMAIN insts : k < l /\ insts[k] = Made(i) /\ insts[l] = Made(j)
      BY DEF InOrder
    <3>1. PICK f \in Functions : \E c \in DOMAIN module.blocks[f] : b = <<f, c>>
      BY DEF Blocks
    <3>2. PICK c \in DOMAIN module.blocks[f] : b = <<f, c>>
      BY <3>1
    <3>3. b[1] = f /\ b[2] = c
      BY <3>2
    <3> QED BY <3>2, <3>3
  <2>1. module \in Modules /\ Tables /\ Texts
    BY <1>1 DEF IInv
  <2>2. TextOf(t, insts)
    BY <2>1 DEF Texts
  <2>3. ASSUME NEW i \in DOMAIN t
        PROVE  /\ t[i] \in Range(t) /\ ~obj[t[i]].load
               /\ obj[t[i]].value \notin EarlyLocals => Settled(t[i]) /\ obj[t[i]].value \in Range(insts)
    <3>1. t[i] \in Range(t)
      BY DEF Range
    <3>2. Live(t[i]) /\ (Settled(t[i]) => obj[t[i]].value \in Range(insts))
      BY <2>2, <3>1 DEF TextOf
    <3>3. PICK v : v = obj[t[i]].value
      OBVIOUS
    <3>4. v \in Mapped /\ t[i] = valueMap[v]
      BY <3>2, <3>3 DEF Live
    <3>5. ~HasLoad(v)
      BY <1>1, <3>4, TheEnd
    <3>6. ~obj[t[i]].load
      BY <3>4, <3>5 DEF HasLoad
    <3> QED BY <3>1, <3>2, <3>6 DEF Settled
  <2>4. ASSUME NEW v \in Range(insts), v \notin EarlyLocals
        PROVE  \E i \in DOMAIN t : obj[t[i]].value = v
    <3>1. PICK k \in DOMAIN insts : insts[k] = v
      BY <2>4 DEF Range
    <3>2. v \in Insts
      BY <2>1, <3>1, BlockFacts, ElementOfSeq
    <3>3. v \in Mapped /\ ~HasLoad(v)
      BY <1>1, <3>2, TheEnd
    <3>4. valueMap[v] \in Range(t)
      BY <2>2, <2>4, <3>1, <3>3 DEF TextOf, InPlace
    <3>5. obj[valueMap[v]].value = v
      BY <2>1, <3>3, LiveValue
    <3> QED BY <3>4, <3>5 DEF Range
  <2>5. ASSUME NEW i \in DOMAIN t, NEW j \in DOMAIN t, i < j,
               obj[t[i]].value \notin EarlyLocals, obj[t[j]].value \notin EarlyLocals
        PROVE  \E k, l \in DOMAIN insts :
                 k < l /\ insts[k] = obj[t[i]].value /\ insts[l] = obj[t[j]].value
    <3>1. PICK n, o : n = t[i] /\ o = t[j]
      OBVIOUS
    <3>2. /\ n \in Range(t) /\ Settled(n) /\ obj[n].value \in Range(insts)
          /\ o \in Range(t) /\ Settled(o) /\ obj[o].value \in Range(insts)
      BY <2>3, <2>5, <3>1
    <3>3. PICK k, l \in DOMAIN insts : insts[k] = obj[n].value /\ insts[l] = obj[o].value
      BY <3>2 DEF Range
    <3>4. Comes(t, n, o)
      BY <2>5, <3>1 DEF Comes
    <3>5. k < l
      BY <2>2, <3>2, <3>3, <3>4 DEF TextOf, Ordered
    <3> QED BY <3>1, <3>3, <3>5
  <2>6. {obj[t[i]].value : i \in {j \in DOMAIN t : obj[t[j]].value \notin EarlyLocals}}
          = Range(insts) \ EarlyLocals
    <3>1. ASSUME NEW i \in DOMAIN t, obj[t[i]].value \notin EarlyLocals
          PROVE  obj[t[i]].value \in Range(insts)
      BY <2>3, <3>1
    <3> QED BY <3>1, <2>4
  <2> QED BY <2>3, <2>5, <2>6
<1> QED BY <1>1, SpecIInv, PTL
=============================================================================
