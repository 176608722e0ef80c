-------------------------- MODULE RepeatCacheProofs --------------------------
(* Theorems about RepeatCache, for every value of its constants.            *)
EXTENDS RepeatCache, TLAPS

(* A row an inference writes for its own text or action token is a row.     *)
LEMMA SessionRow ==
  ASSUME NEW i \in Inferences, NEW k \in {"text", "action"}
  PROVE  KVRow(i, i, k) \in Rows /\ KVRow(i, i, k) \in RowsOf(i)
  BY DEF Rows, KVRow, KVRows, RowsOf

(* So is what uninitialised memory reads as.                                *)
LEMMA JunkRow == Junk \in Rows
  BY DEF Rows

(* The cache nothing was written to.                                        *)
LEMMA NoRowsType == NoRows \in Sequences(Rows, 0)
  BY DEF NoRows, Sequences, Positions

(* A prefilled cache holds the inference's own rows.                        *)
LEMMA FillRows ==
  ASSUME NEW i, NEW n \in Nat, NEW row \in Rows, row \in RowsOf(i)
  PROVE  Fill(n, row) \in Sequences(Rows, n) /\ OwnRows(i, Fill(n, row))
  BY DEF Fill, Sequences, OwnRows

(* A substitute starts with the rows of the cache it was made from.         *)
LEMMA AllocateRows ==
  ASSUME NEW c \in Nat, NEW n \in Nat, n <= c, NEW kv \in Sequences(Rows, n)
  PROVE  /\ Allocate(kv, n, c, Junk) \in Sequences(Rows, c)
         /\ Prefix(Allocate(kv, n, c, Junk), n) = kv
  BY JunkRow DEF Prefix, Allocate, Sequences, Positions

(* Writing behind the prefix of a substitute is appending to it, ...        *)
LEMMA AppendInPlace ==
  ASSUME NEW c \in Nat, NEW b \in Sequences(Rows, c),
         NEW at \in Nat, NEW n \in Nat, at + n <= c, NEW row \in Rows
  PROVE  /\ WriteSlice(b, at, n, row) \in Sequences(Rows, c)
         /\ Prefix(WriteSlice(b, at, n, row), at + n)
              = Concat(Prefix(b, at), at, n, row)
  BY DEF Prefix, WriteSlice, Concat, Sequences, Positions

(* ... and leaves every shorter prefix alone.                               *)
LEMMA KeptInPlace ==
  ASSUME NEW c \in Nat, NEW b \in Sequences(Rows, c),
         NEW l \in Nat, NEW at \in Nat, l <= at, at <= c, NEW n \in Nat, NEW row
  PROVE  Prefix(WriteSlice(b, at, n, row), l) = Prefix(b, l)
  BY DEF Prefix, WriteSlice, Sequences, Positions

(* What attention is given: a prefix of the substitute, ...                 *)
LEMMA PrefixType ==
  ASSUME NEW c \in Nat, NEW b \in Sequences(Rows, c), NEW n \in Nat, n <= c
  PROVE  Prefix(b, n) \in Sequences(Rows, n)
  BY DEF Prefix, Sequences, Positions

(* ... the same when cropped twice, ...                                     *)
LEMMA PrefixOfPrefix ==
  ASSUME NEW n \in Nat, NEW m \in Nat, m <= n, NEW b
  PROVE  Prefix(Prefix(b, n), m) = Prefix(b, m)
  BY DEF Prefix, Positions

(* ... and the inference's own if all of it is; ...                         *)
LEMMA OwnPrefix ==
  ASSUME NEW i, NEW n \in Nat, NEW m \in Nat, m <= n,
         NEW kv \in Sequences(Rows, n), OwnRows(i, kv)
  PROVE  OwnRows(i, Prefix(kv, m))
  BY DEF OwnRows, Prefix, Sequences, Positions

(* ... or a stock cache with the new rows appended, ...                     *)
LEMMA ConcatType ==
  ASSUME NEW n \in Nat, NEW l \in Nat, NEW kv \in Sequences(Rows, l),
         NEW row \in Rows
  PROVE  Concat(kv, l, n, row) \in Sequences(Rows, l + n)
  BY DEF Concat, Sequences, Positions

(* ... the inference's own if they are.                                     *)
LEMMA OwnConcat ==
  ASSUME NEW i, NEW n \in Nat, NEW l \in Nat, NEW kv \in Sequences(Rows, l),
         NEW row \in RowsOf(i), OwnRows(i, kv)
  PROVE  OwnRows(i, Concat(kv, l, n, row))
  BY DEF OwnRows, Concat, Sequences, Positions

-----------------------------------------------------------------------------
(* The invariant. *)

(* generate() has adopted the VLM hook's substitute, and a flow step that   *)
(* was captured fails and is tried again: nothing crops the failed          *)
(* attempt's rows from the substitute first.                               *)
AdoptedRetry == held = "conv" /\ Retry

(* The margin and the hint of the VLM's hook cover what generate() and the  *)
(* flow write to the substitute.                                           *)
Room == \A s \in Setups :
          s.vlmHook => s.budget - 1 + FlowTokens <= Hint + Margin

Holding ==
  /\ held = "none" <=> phase = "idle"
  /\ held # "own" => dynLen = 0 /\ dyn = NoRows
  /\ held = "conv" => setup.vlmHook
  /\ Running => phase \in {"decode", "flow"}
  /\ phase = "decode" => 1 <= ntok /\ ntok <= setup.budget
  /\ phase = "decode" /\ Running => setup.vlmHook /\ ntok < setup.budget
  /\ phase \in {"flow", "crop"} /\ held = "own" => prompt = dynLen

(* Layer l of the substitute of m holds rows, n of them.                    *)
Holds(m, l, n, rows) == pos[m][l] = n /\ Prefix(buf[m][l], n) = rows

(* While the inference uses its own cache, a hook that remembers the id of  *)
(* that cache has a substitute made from it.                               *)
Substitute ==
  genuine /\ held = "own" =>
    /\ ~(phase = "decode" /\ Running) => origId["vlm"] # id
    /\ phase = "decode" => origId["expert"] # id
    /\ origId["expert"] = id =>
         /\ dynLen + FlowTokens <= cap["expert"]
         /\ \A l \in Layers : /\ dynLen <= pos["expert"][l]
                              /\ Prefix(buf["expert"][l], dynLen) = dyn
    /\ phase = "flow" /\ Running => origId["expert"] = id
    /\ phase = "crop" =>
         /\ origId["expert"] = id
         /\ \A l \in Layers :
              Holds("expert", l, dynLen + FlowTokens,
                    Concat(dyn, dynLen, FlowTokens, Action(inf)))

Own ==
  genuine =>
    /\ held = "own" => OwnRows(inf, dyn)
    /\ Running \/ held = "conv" =>
         \A l \in Layers : OwnRows(inf, Prefix(buf[Target][l], pos[Target][l]))

(* The running forward found n rows in every layer, and has appended to     *)
(* those it has updated; with no forward running, all layers hold them.     *)
Base(n, rows) ==
  /\ held = "own" => n = dynLen /\ rows = dyn
  /\ held = "conv" /\ phase = "flow" => n = prompt
  /\ held = "conv" /\ phase = "crop" => n = prompt + FlowTokens
  /\ Room /\ phase = "decode" =>
       n + (setup.budget - ntok) + FlowTokens <= cap["vlm"]
  /\ Room /\ phase = "flow" => n + FlowTokens <= cap[Target]
  /\ \A l \in Layers :
       IF Running /\ l < layer
       THEN /\ Holds(Target, l, n + New, Concat(rows, n, New, Row))
            /\ seen[l] = Concat(rows, n, New, Row)
       ELSE Holds(Target, l, n, rows)

(* ... in an execution that is spared adopted retries, and in any on the    *)
(* inference's own cache.                                                   *)
Aligned(spared) ==
  genuine /\ (spared \/ held = "own") /\ (Running \/ held = "conv") =>
    \E n \in Nat : \E rows \in Sequences(Rows, n) : Base(n, rows)

Genuine == ~setup.idsReused => genuine

Agree(spared) == spared => LayersAgree

Fits(spared) == Room /\ spared => NoOverflow

RInv(spared) ==
  /\ TypeOK /\ Holding /\ Substitute /\ Own /\ Aligned(spared) /\ Genuine
  /\ ReuseIsConfined /\ Agree(spared) /\ Fits(spared)

(* The constants are numbers, and there is a layer.                         *)
LEMMA ConstantFacts ==
  /\ FlowTokens \in Nat /\ FlowTokens >= 1 /\ NLayers \in Nat /\ NLayers >= 1
  /\ Hint \in Nat /\ Hint >= 1 /\ Margin \in Nat
  /\ 0 \in Layers /\ Watch \in Layers /\ Layers \subseteq Nat
  /\ \A l \in Layers : l < NLayers /\ l >= 0
  /\ "vlm" \in Modules /\ "expert" \in Modules
  BY Lengths DEF Layers, Modules

(* At first no hook remembers a cache.                                      *)
LEMMA RInvInit ==
  ASSUME NEW spared \in BOOLEAN
  PROVE  Init => RInv(spared)
<1> SUFFICES ASSUME Init PROVE RInv(spared)
  OBVIOUS
<1>1. NoRows \in Sequences(Rows, 0)
  BY NoRowsType
<1>2. /\ origId \in [Modules -> Ids \cup {NoId}] /\ cap \in [Modules -> Nat]
      /\ pos \in [Modules -> [Layers -> Nat]] /\ DOMAIN buf = Modules
      /\ \A m \in Modules :
            /\ DOMAIN buf[m] = Layers
            /\ \A l \in Layers : /\ pos[m][l] <= cap[m]
                                 /\ buf[m][l] \in Sequences(Rows, cap[m])
  BY <1>1 DEF Init
<1>3. NLayers \in 0 .. NLayers /\ ~(NLayers < NLayers)
  BY ConstantFacts
<1>4. TypeOK
  BY <1>1, <1>2, <1>3 DEF Init, TypeOK
<1> QED
  BY <1>3, <1>4 DEF Init, RInv, Holding, Substitute, Own, Aligned, Genuine, Running,
                    ReuseIsConfined, Agree, LayersAgree, Fits, NoOverflow

-----------------------------------------------------------------------------
(* The steps of a forward on a substitute. *)

(* What InplaceLayer.update does to the layer, and that it does nothing     *)
(* else (cache.py:60-77).                                                  *)
LEMMA UpdateEffect ==
  ASSUME TypeOK, Holding, Update
  PROVE  /\ layer \in Layers /\ layer' = layer + 1 /\ layer' \in 0 .. NLayers
         /\ Target \in Modules /\ New \in Nat /\ New >= 1
         /\ Row \in Rows /\ Row \in RowsOf(inf)
         /\ pos[Target][layer] \in Nat
         /\ pos[Target][layer] + New <= cap[Target]
         /\ Prefix(buf[Target][layer], pos[Target][layer])
              \in Sequences(Rows, pos[Target][layer])
         /\ buf[Target][layer] \in Sequences(Rows, cap[Target])
         /\ buf'[Target][layer]
              = WriteSlice(buf[Target][layer], pos[Target][layer], New, Row)
         /\ Holds(Target, layer, pos[Target][layer],
                  Prefix(buf[Target][layer], pos[Target][layer]))
         /\ pos'[Target][layer] = pos[Target][layer] + New
         /\ Prefix(buf'[Target][layer], pos[Target][layer] + New)
              = Concat(Prefix(buf[Target][layer], pos[Target][layer]),
                       pos[Target][layer], New, Row)
         /\ seen'[layer] = Prefix(buf'[Target][layer], pos[Target][layer] + New)
         /\ DOMAIN seen' = Layers
         /\ \A l \in Layers \ {layer} :
               /\ seen'[l] = seen[l]
               /\ pos'[Target][l] = pos[Target][l]
               /\ buf'[Target][l] = buf[Target][l]
         /\ \A m \in Modules \ {Target} : pos'[m] = pos[m] /\ buf'[m] = buf[m]
         /\ pos' \in [Modules -> [Layers -> Nat]] /\ DOMAIN buf' = Modules
         /\ \A m \in Modules :
               /\ DOMAIN buf'[m] = Layers
               /\ \A l \in Layers : /\ pos'[m][l] <= cap[m]
                                    /\ buf'[m][l] \in Sequences(Rows, cap[m])
<1> DEFINE m == Target  at == pos[m][layer]  b == buf[m][layer]
<1>1. /\ layer \in Layers /\ layer' = layer + 1 /\ layer' \in 0 .. NLayers
      /\ at + New <= cap[m]
      /\ buf' = [buf EXCEPT ![m] = [buf[m] EXCEPT ![layer] = WriteSlice(b, at, New, Row)]]
      /\ pos' = [pos EXCEPT ![m] = [pos[m] EXCEPT ![layer] = at + New]]
      /\ seen' = [seen EXCEPT ![layer] = Prefix(buf'[m][layer], at + New)]
  <2>1. layer \in 0 .. NLayers /\ layer < NLayers /\ layer' = layer + 1
    BY DEF Update, Running, TypeOK
  <2>2. layer \in Layers /\ layer' \in 0 .. NLayers
    BY <2>1, ConstantFacts DEF Layers
  <2>3. /\ at + New <= cap[m]
        /\ seen' = [seen EXCEPT ![layer] = Prefix(buf'[m][layer], at + New)]
    BY DEF Update
  <2>4. buf' = [buf EXCEPT ![m] = [buf[m] EXCEPT ![layer] = WriteSlice(b, at, New, Row)]]
    BY DEF Update
  <2>5. pos' = [pos EXCEPT ![m] = [pos[m] EXCEPT ![layer] = at + New]]
    BY DEF Update
  <2> QED
    BY <2>1, <2>2, <2>3, <2>4, <2>5
<1>2. m \in Modules /\ New \in Nat /\ New >= 1 /\ Row \in Rows /\ Row \in RowsOf(inf)
  BY SessionRow, ConstantFacts DEF Target, New, Row, Text, Action, TypeOK
<1>3. at \in Nat /\ cap[m] \in Nat /\ b \in Sequences(Rows, cap[m]) /\ at <= cap[m]
  BY <1>1, <1>2 DEF TypeOK
<1>4. Prefix(b, at) \in Sequences(Rows, at)
  BY <1>3, PrefixType
<1>5. /\ WriteSlice(b, at, New, Row) \in Sequences(Rows, cap[m])
      /\ Prefix(WriteSlice(b, at, New, Row), at + New)
           = Concat(Prefix(b, at), at, New, Row)
  BY <1>1, <1>2, <1>3, AppendInPlace
<1>6. /\ buf[m] = [l \in Layers |-> buf[m][l]] \/ DOMAIN buf[m] = Layers
      /\ DOMAIN buf = Modules /\ DOMAIN pos = Modules /\ DOMAIN pos[m] = Layers
      /\ DOMAIN seen = Layers /\ DOMAIN buf[m] = Layers
  BY <1>2 DEF TypeOK
<1>7. /\ buf'[m] = [buf[m] EXCEPT ![layer] = WriteSlice(b, at, New, Row)]
      /\ pos'[m] = [pos[m] EXCEPT ![layer] = at + New]
      /\ DOMAIN buf' = Modules /\ DOMAIN pos' = Modules
      /\ \A k \in Modules \ {m} : pos'[k] = pos[k] /\ buf'[k] = buf[k]
  BY <1>1, <1>2, <1>6
<1>8. /\ buf'[m][layer] = WriteSlice(b, at, New, Row)
      /\ pos'[m][layer] = at + New
      /\ DOMAIN buf'[m] = Layers
      /\ \A l \in Layers \ {layer} : /\ pos'[m][l] = pos[m][l]
                                     /\ buf'[m][l] = buf[m][l]
  BY <1>1, <1>6, <1>7
<1>9. /\ seen'[layer] = Prefix(buf'[m][layer], at + New) /\ DOMAIN seen' = Layers
      /\ \A l \in Layers \ {layer} : seen'[l] = seen[l]
  <2>1. seen' = [seen EXCEPT ![layer] = Prefix(buf'[m][layer], at + New)]
    BY <1>1
  <2> HIDE DEF m, at, b
  <2> QED
    BY <1>1, <1>6, <2>1
<1>10. /\ pos' \in [Modules -> [Layers -> Nat]]
       /\ \A k \in Modules :
               /\ DOMAIN buf'[k] = Layers
               /\ \A l \in Layers : /\ pos'[k][l] <= cap[k]
                                    /\ buf'[k][l] \in Sequences(Rows, cap[k])
  <2>1. at + New \in Nat /\ pos[m] \in [Layers -> Nat]
    BY <1>2, <1>3 DEF TypeOK
  <2>2. pos' \in [Modules -> [Layers -> Nat]]
    BY <1>1, <2>1 DEF TypeOK
  <2>3. ASSUME NEW k \in Modules, k # m
        PROVE  /\ DOMAIN buf'[k] = Layers
               /\ \A l \in Layers : /\ pos'[k][l] <= cap[k]
                                    /\ buf'[k][l] \in Sequences(Rows, cap[k])
    BY <1>7, <2>3 DEF TypeOK
  <2>4. ASSUME NEW l \in Layers
        PROVE  /\ pos'[m][l] <= cap[m]
               /\ buf'[m][l] \in Sequences(Rows, cap[m])
    <3>1. CASE l = layer
      BY <1>1, <1>5, <1>8, <3>1
    <3>2. CASE l # layer
      BY <1>2, <1>8, <3>2 DEF TypeOK
    <3> QED
      BY <3>1, <3>2
  <2> QED
    BY <1>8, <2>2, <2>3, <2>4
<1>11. Holds(m, layer, at, Prefix(b, at))
  BY DEF Holds
<1> HIDE DEF m, at, b
<1> QED
  <2>1. Prefix(buf'[m][layer], at + New) = Concat(Prefix(b, at), at, New, Row)
    BY <1>5, <1>8
  <2> QED
    BY <1>1, <1>2, <1>3, <1>4, <1>7, <1>8, <1>9, <1>10, <1>11, <2>1 DEF m, at, b

(* The hook gives a forward on the caller's cache a substitute; when no     *)
(* hook remembered this inference's cache, one of exactly its rows.         *)
LEMMA HookEffect ==
  ASSUME NEW spared \in BOOLEAN, RInv(spared), Convert \/ Reuse
  PROVE  /\ Target \in Modules /\ held = "own" /\ ~Running /\ Enters
         /\ phase \in {"decode", "flow"} /\ id \in Ids \cup {NoId}
         /\ cap' \in [Modules -> Nat] /\ pos' \in [Modules -> [Layers -> Nat]]
         /\ DOMAIN buf' = Modules
         /\ \A m \in Modules :
               /\ DOMAIN buf'[m] = Layers
               /\ \A l \in Layers : /\ pos'[m][l] <= cap'[m]
                                    /\ buf'[m][l] \in Sequences(Rows, cap'[m])
         /\ \A m \in Modules \ {Target} : /\ buf'[m] = buf[m] /\ pos'[m] = pos[m]
                                          /\ cap'[m] = cap[m] /\ origId'[m] = origId[m]
         /\ origId' \in [Modules -> Ids \cup {NoId}] /\ origId'[Target] = id
         /\ genuine => /\ \A l \in Layers : /\ pos'[Target][l] = dynLen
                                            /\ Prefix(buf'[Target][l], dynLen) = dyn
                       /\ phase = "flow" => dynLen + FlowTokens <= cap'["expert"]
                       /\ phase = "decode" => cap'["vlm"] = dynLen + Hint + Margin
<1>0. /\ TypeOK /\ dynLen \in Nat /\ dyn \in Sequences(Rows, dynLen)
      /\ id \in Ids \cup {NoId} /\ held = "own"
      /\ Calls /\ ~Running /\ phase \in {"decode", "flow"}
      /\ Target = IF phase = "decode" THEN "vlm" ELSE "expert"
      /\ Target \in Modules /\ Enters
  BY DEF RInv, TypeOK, Convert, Reuse, Calls, WantsToken, Target, Modules
<1>1. CASE Convert
  <2> DEFINE c == dynLen + Extra + Margin
             b == Allocate(dyn, dynLen, c, Junk)
  <2>1. /\ Extra \in Nat /\ c \in Nat /\ dynLen <= c
        /\ phase = "flow" => dynLen + FlowTokens <= c
        /\ phase = "decode" => c = dynLen + Hint + Margin
    BY <1>0, ConstantFacts DEF Extra, New
  <2>2. b \in Sequences(Rows, c) /\ Prefix(b, dynLen) = dyn
    BY <1>0, <2>1, AllocateRows
  <2>3. /\ cap' = [cap EXCEPT ![Target] = c]
        /\ buf' = [buf EXCEPT ![Target] = [l \in Layers |-> b]]
        /\ pos' = [pos EXCEPT ![Target] = [l \in Layers |-> dynLen]]
        /\ origId' = [origId EXCEPT ![Target] = id]
    BY <1>1 DEF Convert
  <2> HIDE DEF b, c
  <2>4. /\ cap'[Target] = c /\ \A l \in Layers : buf'[Target][l] = b
        /\ DOMAIN buf'[Target] = Layers
        /\ \A l \in Layers : pos'[Target][l] = dynLen /\ origId'[Target] = id
        /\ origId'[Target] = id
    BY <1>0, <2>3 DEF TypeOK
  <2>5. \A m \in Modules \ {Target} : /\ buf'[m] = buf[m] /\ pos'[m] = pos[m]
                                      /\ cap'[m] = cap[m] /\ origId'[m] = origId[m]
    BY <1>0, <2>3 DEF TypeOK
  <2>6. /\ cap' \in [Modules -> Nat] /\ pos' \in [Modules -> [Layers -> Nat]]
        /\ DOMAIN buf' = Modules /\ origId' \in [Modules -> Ids \cup {NoId}]
    BY <1>0, <2>1, <2>3 DEF TypeOK
  <2>7. \A m \in Modules :
               /\ DOMAIN buf'[m] = Layers
               /\ \A l \in Layers : /\ pos'[m][l] <= cap'[m]
                                    /\ buf'[m][l] \in Sequences(Rows, cap'[m])
    BY <1>0, <2>1, <2>2, <2>4, <2>5 DEF TypeOK
  <2> QED
    BY <1>0, <2>1, <2>2, <2>4, <2>5, <2>6, <2>7
<1>2. CASE Reuse
  <2>1. /\ pos' = [pos EXCEPT ![Target] = Cropped(Target, dynLen)]
        /\ UNCHANGED <<origId, buf, cap>> /\ origId[Target] = id
    BY <1>2 DEF Reuse
  <2>2. /\ Cropped(Target, dynLen) \in [Layers -> Nat]
        /\ \A l \in Layers : Cropped(Target, dynLen)[l] <= pos[Target][l]
    <3>1. \A l \in Layers : pos[Target][l] \in Nat
      BY <1>0 DEF TypeOK
    <3> QED
      BY <1>0, <3>1 DEF Cropped
  <2>3. /\ pos' \in [Modules -> [Layers -> Nat]]
        /\ pos'[Target] = Cropped(Target, dynLen)
        /\ \A m \in Modules \ {Target} : pos'[m] = pos[m]
    BY <1>0, <2>1, <2>2 DEF TypeOK
  <2>4. ASSUME NEW m \in Modules, NEW l \in Layers PROVE pos'[m][l] <= cap[m]
    <3>1. pos[m][l] <= cap[m] /\ pos[m][l] \in Nat /\ cap[m] \in Nat
          /\ pos'[m][l] \in Nat /\ pos'[m][l] <= pos[m][l]
      BY <1>0, <2>2, <2>3 DEF TypeOK
    <3> QED
      BY <3>1
  <2>5. ASSUME genuine
        PROVE  /\ phase = "flow"
               /\ \A l \in Layers : /\ pos'[Target][l] = dynLen
                                    /\ Prefix(buf[Target][l], dynLen) = dyn
               /\ dynLen + FlowTokens <= cap["expert"]
    <3>1. phase = "flow" /\ Target = "expert"
      BY <1>0, <2>1, <2>5 DEF RInv, Substitute
    <3>2. /\ dynLen + FlowTokens <= cap["expert"]
          /\ \A l \in Layers : /\ dynLen <= pos["expert"][l]
                               /\ Prefix(buf["expert"][l], dynLen) = dyn
      BY <1>0, <2>1, <2>5, <3>1 DEF RInv, Substitute
    <3>3. \A l \in Layers : pos["expert"][l] \in Nat
      BY <1>0, <3>1 DEF TypeOK
    <3> QED
      BY <1>0, <2>3, <3>1, <3>2, <3>3 DEF Cropped
  <2> QED
    BY <1>0, <2>1, <2>3, <2>4, <2>5 DEF TypeOK
<1> QED
  BY <1>1, <1>2

-----------------------------------------------------------------------------
(* The steps that take more than unfolding. *)

(* What a setup is. *)
LEMMA SetupFacts ==
  ASSUME TypeOK
  PROVE  /\ setup \in Setups /\ setup.budget \in Nat /\ setup.budget >= 1
         /\ setup.vlmHook \in BOOLEAN /\ setup.flowGraph \in BOOLEAN
         /\ setup.idsReused \in BOOLEAN
         /\ Room /\ setup.vlmHook => setup.budget - 1 + FlowTokens <= Hint + Margin
  BY Memory DEF TypeOK, Room

(* A converted or cropped substitute has the rows of the caller's cache.    *)
LEMMA HookStep ==
  ASSUME NEW spared \in BOOLEAN, RInv(spared), Convert \/ Reuse
  PROVE  RInv(spared)'
<1>1. /\ layer' = 0 /\ Running' /\ ~Running /\ held = "own"
      /\ UNCHANGED <<phase, inf, held, id, dyn, dynLen, ntok, prompt, overflowed,
                     seen, genuine, setup>>
      /\ phase \in {"decode", "flow"} /\ Target \in Modules /\ Target' = Target
      /\ Target = IF phase = "decode" THEN "vlm" ELSE "expert"
  BY HookEffect, ConstantFacts DEF Enters, caller, fixed, Running, Target
<1>2. /\ TypeOK /\ dynLen \in Nat /\ dyn \in Sequences(Rows, dynLen)
      /\ ntok \in Nat /\ genuine \in BOOLEAN
  BY DEF RInv, TypeOK
<1>3. phase = "decode" => setup.vlmHook /\ ntok < setup.budget
  BY DEF Convert, Reuse, Calls, WantsToken
<1>4. TypeOK'
  <2>1. layer' \in 0 .. NLayers
    BY <1>1, ConstantFacts
  <2> QED
    BY <1>1, <1>2, <2>1, HookEffect DEF TypeOK
<1>5. Holding'
  BY <1>1, <1>3 DEF RInv, Holding
<1>6. ASSUME genuine
      PROVE  /\ \A l \in Layers : /\ pos'[Target][l] = dynLen
                                  /\ Prefix(buf'[Target][l], dynLen) = dyn
             /\ phase = "flow" => dynLen + FlowTokens <= cap'["expert"]
             /\ phase = "decode" => cap'["vlm"] = dynLen + Hint + Margin
             /\ origId'[Target] = id
             /\ \A m \in Modules \ {Target} : origId'[m] = origId[m]
             /\ OwnRows(inf, dyn)
  BY <1>1, <1>6, HookEffect DEF RInv, Own
<1>7. Substitute'
  <2> SUFFICES ASSUME genuine PROVE Substitute'
    BY <1>1 DEF Substitute
  <2>1. CASE phase = "decode"
    <3>1. Target = "vlm" /\ origId'["expert"] = origId["expert"]
          /\ origId["expert"] # id
      BY <1>1, <1>6, <2>1 DEF RInv, Substitute, Modules
    <3> QED
      BY <1>1, <2>1, <3>1 DEF Substitute
  <2>2. CASE phase = "flow"
    <3>1. /\ Target = "expert" /\ origId'["vlm"] = origId["vlm"]
          /\ origId["vlm"] # id
      BY <1>1, <1>6, <2>2 DEF RInv, Substitute, Modules
    <3>2. \A l \in Layers : dynLen <= pos'["expert"][l]
      BY <1>2, <1>6, <3>1
    <3> QED
      BY <1>1, <1>6, <2>2, <3>1, <3>2 DEF Substitute
  <2> QED
    BY <1>1, <2>1, <2>2
<1>8. Own'
  BY <1>1, <1>6 DEF Own
<1>9. Aligned(spared)'
  <2> SUFFICES ASSUME genuine PROVE Base(dynLen, dyn)'
    BY <1>1, <1>2 DEF Aligned
  <2>1. Room /\ phase = "decode" =>
          dynLen + (setup.budget - ntok) + FlowTokens <= cap'["vlm"]
    <3>1. phase = "decode" => 1 <= ntok
      BY DEF RInv, Holding
    <3> QED
      BY <1>2, <1>3, <1>6, <3>1, SetupFacts, ConstantFacts
  <2>2. phase = "flow" => dynLen + FlowTokens <= cap'[Target]
    BY <1>1, <1>6
  <2>3. \A l \in Layers : ~(l < 0)
    BY ConstantFacts
  <2> QED
    BY <1>1, <1>6, <2>1, <2>2, <2>3 DEF Base, Holds
<1>10. ReuseIsConfined' /\ Agree(spared)' /\ Fits(spared)' /\ Genuine'
  BY <1>1 DEF RInv, ReuseIsConfined, Agree, LayersAgree, Fits, NoOverflow, Genuine
<1> QED
  BY <1>4, <1>5, <1>7, <1>8, <1>9, <1>10 DEF RInv

(* generate()'s next token, or the flow's next step, on the substitute it   *)
(* adopted.                                                                *)
LEMMA PassStep ==
  ASSUME NEW spared \in BOOLEAN, RInv(spared), PassThrough
  PROVE  RInv(spared)'
<1>1. /\ layer' = 0 /\ Running' /\ ~Running /\ held = "conv" /\ Target' = Target
      /\ UNCHANGED <<phase, inf, held, id, dyn, dynLen, ntok, prompt, overflowed,
                     seen, genuine, setup, hooks>>
      /\ phase \in {"decode", "flow"} /\ Target = "vlm"
      /\ phase = "decode" => setup.vlmHook /\ ntok < setup.budget
  BY ConstantFacts
     DEF PassThrough, Calls, WantsToken, Enters, caller, fixed, Running, Target
<1>2. TypeOK'
  <2>1. layer' \in 0 .. NLayers
    BY <1>1, ConstantFacts
  <2> QED
    BY <1>1, <2>1 DEF RInv, TypeOK, hooks
<1>3. Holding' /\ Substitute' /\ Own' /\ Genuine'
  BY <1>1 DEF RInv, Holding, Substitute, Own, Genuine, hooks
<1>4. Aligned(spared)'
  <2>1. \A l \in Layers : ~(l < 0)
    BY ConstantFacts
  <2>2. ASSUME NEW n, NEW rows, Base(n, rows) PROVE Base(n, rows)'
    BY <1>1, <2>1, <2>2 DEF Base, Holds, hooks
  <2> QED
    BY <1>1, <2>2 DEF RInv, Aligned
<1>5. ReuseIsConfined' /\ Agree(spared)' /\ Fits(spared)'
  BY <1>1 DEF RInv, ReuseIsConfined, Agree, LayersAgree, Fits, NoOverflow
<1> QED
  BY <1>2, <1>3, <1>4, <1>5 DEF RInv

(* The layers after an update, for the n rows all of them held before the   *)
(* forward: those up to the updated one have the new tokens.                *)
LEMMA UpdatedLayers ==
  ASSUME TypeOK, Holding, Update,
         NEW n \in Nat, NEW rows \in Sequences(Rows, n), Base(n, rows)
  PROVE  \A l \in Layers :
            IF l < layer'
            THEN /\ pos'[Target][l] = n + New
                 /\ Prefix(buf'[Target][l], n + New) = Concat(rows, n, New, Row)
                 /\ seen'[l] = Concat(rows, n, New, Row)
            ELSE pos'[Target][l] = n /\ Prefix(buf'[Target][l], n) = rows
<1>1. /\ TypeOK /\ Holding /\ Running /\ layer \in Nat /\ Layers \subseteq Nat
      /\ layer' = layer + 1
  BY UpdateEffect, ConstantFacts DEF Update
<1>2. pos[Target][layer] = n /\ Prefix(buf[Target][layer], n) = rows
  BY <1>1, UpdateEffect DEF Base, Holds
<1>3. /\ pos'[Target][layer] = n + New
      /\ Prefix(buf'[Target][layer], n + New) = Concat(rows, n, New, Row)
      /\ seen'[layer] = Concat(rows, n, New, Row)
  BY <1>1, <1>2, UpdateEffect
<1>4. ASSUME NEW l \in Layers, l # layer
      PROVE  /\ pos'[Target][l] = pos[Target][l] /\ buf'[Target][l] = buf[Target][l]
             /\ seen'[l] = seen[l] /\ (l < layer' <=> l < layer)
  BY <1>1, <1>4, UpdateEffect
<1>5. ASSUME NEW l \in Layers
      PROVE  IF l < layer
             THEN /\ pos[Target][l] = n + New
                  /\ Prefix(buf[Target][l], n + New) = Concat(rows, n, New, Row)
                  /\ seen[l] = Concat(rows, n, New, Row)
             ELSE pos[Target][l] = n /\ Prefix(buf[Target][l], n) = rows
  BY <1>1 DEF Base, Holds
<1>6. ASSUME NEW l \in Layers
      PROVE  IF l < layer'
             THEN /\ pos'[Target][l] = n + New
                  /\ Prefix(buf'[Target][l], n + New) = Concat(rows, n, New, Row)
                  /\ seen'[l] = Concat(rows, n, New, Row)
             ELSE pos'[Target][l] = n /\ Prefix(buf'[Target][l], n) = rows
  <2>1. CASE l = layer
    BY <1>1, <1>3, <2>1
  <2>2. CASE l # layer
    BY <1>4, <1>5, <2>2
  <2> QED
    BY <2>1, <2>2
<1> QED
  BY <1>6

(* A layer's update, the last of a forward or not.                          *)
LEMMA UpdateStep ==
  ASSUME NEW spared \in BOOLEAN, RInv(spared),
         UpdateLayer \/ DecodeReturns \/ FlowReturns
  PROVE  RInv(spared)'
<1>1. /\ TypeOK /\ Holding /\ Update /\ Running /\ phase \in {"decode", "flow"}
      /\ UNCHANGED <<inf, id, prompt, overflowed, origId, cap, genuine, setup>>
      /\ held \in {"own", "conv"} /\ dynLen \in Nat /\ dyn \in Sequences(Rows, dynLen)
      /\ Target = IF held = "conv" \/ phase = "decode" THEN "vlm" ELSE "expert"
  BY DEF UpdateLayer, DecodeReturns, FlowReturns, Update, RInv, Holding, fixed,
         TypeOK, Target
<1>2. /\ UpdateLayer => /\ Running' /\ UNCHANGED <<phase, held, dyn, dynLen, ntok>>
      /\ DecodeReturns => /\ ~Running' /\ phase = "decode" /\ phase' = "decode"
                          /\ held' = "conv" /\ dyn' = NoRows /\ dynLen' = 0
                          /\ ntok' = ntok + 1 /\ layer' = NLayers
      /\ FlowReturns => /\ ~Running' /\ phase = "flow" /\ phase' = "crop"
                        /\ UNCHANGED <<held, dyn, dynLen, ntok>> /\ layer' = NLayers
  BY ConstantFacts DEF UpdateLayer, DecodeReturns, FlowReturns, Running
<1>3. TypeOK'
  <2>1. dynLen' \in Nat /\ dyn' \in Sequences(Rows, dynLen')
    BY <1>1, <1>2, NoRowsType
  <2>2. ntok' \in Nat /\ phase' \in {"idle", "decode", "flow", "crop"}
        /\ held' \in {"none", "own", "conv"}
    BY <1>1, <1>2 DEF TypeOK
  <2> QED
    BY <1>1, <2>1, <2>2, UpdateEffect DEF TypeOK
<1>4. Holding'
  <2>1. ntok \in Nat /\ setup.budget \in Nat
    BY <1>1, SetupFacts DEF TypeOK
  <2> QED
    BY <1>1, <1>2, <2>1 DEF Holding
<1>5. ASSUME genuine
      PROVE  /\ \A l \in Layers : OwnRows(inf, Prefix(buf'[Target][l], pos'[Target][l]))
             /\ \A l \in Layers : OwnRows(inf, seen'[l])
  <2>1. \A l \in Layers : /\ OwnRows(inf, Prefix(buf[Target][l], pos[Target][l]))
                          /\ OwnRows(inf, seen[l])
    BY <1>1, <1>5 DEF RInv, Own, ReuseIsConfined
  <2>2. OwnRows(inf, Concat(Prefix(buf[Target][layer], pos[Target][layer]),
                            pos[Target][layer], New, Row))
    BY <1>1, <2>1, UpdateEffect, OwnConcat
  <2>3. ASSUME NEW l \in Layers, l # layer
        PROVE  /\ OwnRows(inf, Prefix(buf'[Target][l], pos'[Target][l]))
               /\ OwnRows(inf, seen'[l])
    BY <1>1, <2>1, <2>3, UpdateEffect
  <2>4. /\ OwnRows(inf, Prefix(buf'[Target][layer], pos'[Target][layer]))
        /\ OwnRows(inf, seen'[layer])
    BY <1>1, <2>2, UpdateEffect
  <2> QED
    BY <2>3, <2>4
<1>6. Running' \/ held' = "conv" => Target' = Target
  BY <1>1, <1>2 DEF Target
<1>7. Own'
  <2>1. genuine /\ held' = "own" => OwnRows(inf, dyn')
    BY <1>1, <1>2 DEF RInv, Own
  <2> QED
    BY <1>1, <1>5, <1>6, <2>1 DEF Own
<1>8. ReuseIsConfined' /\ Fits(spared)' /\ Genuine'
  BY <1>1, <1>5 DEF RInv, ReuseIsConfined, Fits, NoOverflow, Genuine
<1>10. ASSUME genuine, spared \/ held = "own"
       PROVE  \E n \in Nat : \E rows \in Sequences(Rows, n) : Base(n, rows)
  BY <1>1, <1>10 DEF RInv, Aligned
<1>11. Aligned(spared)'
  <2> SUFFICES ASSUME genuine, spared \/ held = "own", Running' \/ held' = "conv"
               PROVE  \E n \in Nat : \E rows \in Sequences(Rows, n) : Base(n, rows)'
    BY <1>1, <1>2 DEF Aligned, RInv
  <2> PICK n \in Nat : \E rows \in Sequences(Rows, n) : Base(n, rows)
    BY <1>10
  <2> PICK rows \in Sequences(Rows, n) : Base(n, rows)
    OBVIOUS
  <2>1. \A l \in Layers :
            IF l < layer'
            THEN /\ pos'[Target][l] = n + New
                 /\ Prefix(buf'[Target][l], n + New) = Concat(rows, n, New, Row)
                 /\ seen'[l] = Concat(rows, n, New, Row)
            ELSE pos'[Target][l] = n /\ Prefix(buf'[Target][l], n) = rows
    BY <1>1, UpdatedLayers
  <2>2. n + New \in Nat /\ Concat(rows, n, New, Row) \in Sequences(Rows, n + New)
    BY <1>1, UpdateEffect, ConcatType
  <2> PICK k \in Nat : k = n + New
    BY <2>2
  <2> PICK more \in Sequences(Rows, k) : more = Concat(rows, n, New, Row)
    BY <2>2
  <2>3. CASE UpdateLayer
    <3>1. /\ Target' = Target /\ New' = New /\ Row' = Row
          /\ UNCHANGED <<phase, held, dyn, dynLen, ntok>> /\ Running'
      BY <1>1, <1>2, <1>6, <2>3 DEF New, Row
    <3>2. Base(n, rows)'
      BY <1>1, <2>1, <3>1 DEF Base, Holds
    <3> QED
      BY <3>2
  <2>4. CASE DecodeReturns
    <3>1. Target' = "vlm" /\ Target = "vlm" /\ New = 1
      BY <1>1, <1>2, <1>6, <2>4 DEF New
    <3>2. Room => (n + 1) + (setup.budget - (ntok + 1)) + FlowTokens <= cap["vlm"]
      <4>1. ntok \in Nat /\ setup.budget \in Nat /\ cap["vlm"] \in Nat
        BY <1>1, SetupFacts, ConstantFacts DEF TypeOK
      <4> QED
        BY <1>2, <2>4, <4>1, ConstantFacts DEF Base
    <3>3. \A l \in Layers : l < layer'
      BY <1>2, <2>4, ConstantFacts
    <3>4. Base(k, more)'
      BY <1>1, <1>2, <2>1, <2>4, <3>1, <3>2, <3>3 DEF Base, Holds
    <3> QED
      BY <3>4
  <2>5. CASE FlowReturns
    <3>1. held = "conv" /\ held' = "conv" /\ Target' = Target /\ New = FlowTokens
          /\ n = prompt
      BY <1>1, <1>2, <1>6, <2>5 DEF New, Base
    <3>2. \A l \in Layers : l < layer'
      BY <1>2, <2>5, ConstantFacts
    <3>3. Base(k, more)'
      BY <1>1, <1>2, <2>1, <2>5, <3>1, <3>2 DEF Base, Holds
    <3> QED
      BY <3>3
  <2> QED
    BY <2>3, <2>4, <2>5
<1>12. Agree(spared)'
  <2> SUFFICES ASSUME genuine, spared, ~Running'
               PROVE  \A l, k \in Layers : seen'[l] = seen'[k]
    BY <1>1 DEF Agree, LayersAgree
  <2> PICK n \in Nat : \E rows \in Sequences(Rows, n) : Base(n, rows)
    BY <1>10
  <2> PICK rows \in Sequences(Rows, n) : Base(n, rows)
    OBVIOUS
  <2>1. \A l \in Layers : l < layer'
    BY <1>2, ConstantFacts
  <2>2. \A l \in Layers : seen'[l] = Concat(rows, n, New, Row)
    BY <1>1, <2>1, UpdatedLayers
  <2> QED
    BY <2>2
<1>13. Substitute'
  <2> SUFFICES ASSUME genuine, held = "own", held' = "own" PROVE Substitute'
    BY <1>1, <1>2 DEF Substitute
  <2>1. CASE phase = "decode"
    <3>1. UpdateLayer /\ Target = "vlm"
      BY <1>1, <1>2, <2>1
    <3>2. origId["expert"] # id
      BY <2>1 DEF RInv, Substitute
    <3> QED
      BY <1>1, <1>2, <2>1, <3>1, <3>2 DEF Substitute
  <2>2. CASE phase = "flow"
    <3>1. /\ Target = "expert" /\ origId["vlm"] # id /\ origId["expert"] = id
          /\ dynLen + FlowTokens <= cap["expert"]
          /\ \A l \in Layers : /\ dynLen <= pos["expert"][l]
                               /\ Prefix(buf["expert"][l], dynLen) = dyn
          /\ UNCHANGED <<dyn, dynLen>> /\ phase' \in {"flow", "crop"}
          /\ New = FlowTokens /\ Row = Action(inf)
      BY <1>1, <1>2, <2>2 DEF RInv, Substitute, New, Row
    <3>2. ASSUME NEW l \in Layers
          PROVE  /\ dynLen <= pos'["expert"][l]
                 /\ Prefix(buf'["expert"][l], dynLen) = dyn
      <4>1. CASE l = layer
        <5>1. /\ pos["expert"][l] \in Nat /\ dynLen <= pos["expert"][l]
              /\ pos["expert"][l] <= cap["expert"] /\ cap["expert"] \in Nat
          BY <1>1, <3>1, <4>1, UpdateEffect, ConstantFacts DEF TypeOK
        <5>2. Prefix(WriteSlice(buf["expert"][l], pos["expert"][l], New, Row), dynLen)
                = Prefix(buf["expert"][l], dynLen)
          BY <1>1, <3>1, <4>1, <5>1, UpdateEffect, KeptInPlace
        <5> QED
          BY <1>1, <3>1, <4>1, <5>1, <5>2, UpdateEffect
      <4>2. CASE l # layer
        BY <1>1, <3>1, <4>2, UpdateEffect
      <4> QED
        BY <4>1, <4>2
    <3>3. phase' = "crop" =>
            (\A l \in Layers :
               Holds("expert", l, dynLen + FlowTokens,
                     Concat(dyn, dynLen, FlowTokens, Action(inf))))'
      <4> SUFFICES ASSUME phase' = "crop"
                   PROVE  \A l \in Layers :
                            /\ pos'["expert"][l] = dynLen + FlowTokens
                            /\ Prefix(buf'["expert"][l], dynLen + FlowTokens)
                                 = Concat(dyn, dynLen, FlowTokens, Action(inf))
        BY <1>1, <3>1 DEF Holds, Action
      <4> PICK n \in Nat : \E rows \in Sequences(Rows, n) : Base(n, rows)
        BY <1>10
      <4> PICK rows \in Sequences(Rows, n) : Base(n, rows)
        OBVIOUS
      <4>1. n = dynLen /\ rows = dyn
        BY DEF Base
      <4>2. \A l \in Layers : l < layer'
        BY <1>1, <1>2, <2>2, ConstantFacts
      <4> QED
        BY <1>1, <3>1, <4>1, <4>2, UpdatedLayers
    <3> QED
      BY <1>1, <3>1, <3>2, <3>3 DEF Substitute
  <2> QED
    BY <1>1, <2>1, <2>2
<1> QED
  BY <1>3, <1>4, <1>7, <1>8, <1>11, <1>12, <1>13 DEF RInv

(* An inference that ends, in whatever way, leaves the hooks to the next.   *)
LEMMA DropStep ==
  ASSUME NEW spared \in BOOLEAN, RInv(spared), Drop,
         UNCHANGED <<genuine, setup, inf, ntok, prompt, buf, cap, pos, seen>>,
         overflowed' \in BOOLEAN, Fits(spared)', origId' \in [Modules -> Ids \cup {NoId}]
  PROVE  RInv(spared)'
<1>1. NLayers \in 0 .. NLayers /\ ~Running'
  BY ConstantFacts DEF Drop, Running
<1>2. TypeOK'
  BY <1>1, NoRowsType DEF RInv, TypeOK, Drop
<1> QED
  BY <1>1, <1>2 DEF RInv, Drop, Holding, Substitute, Own, Aligned, Genuine,
                    ReuseIsConfined, Agree, LayersAgree

(* Every step of the hooked pipeline keeps the invariant (cache.py:25-160,  *)
(* integrate.py:715-756, graph.py:206-232).                                *)
THEOREM RInvStep ==
  ASSUME NEW spared \in BOOLEAN, spared => [~AdoptedRetry]_vars
  PROVE  RInv(spared) /\ [Next]_vars => RInv(spared)'
<1> SUFFICES ASSUME RInv(spared), [Next]_vars PROVE RInv(spared)'
  OBVIOUS
<1>0. TypeOK /\ Holding
  BY DEF RInv
<1>1. ASSUME NEW i \in Inferences, NEW b \in PromptLens, NEW a \in Ids,
             Prefill(i, b, a)
      PROVE  RInv(spared)'
  <2>1. /\ b \in Nat /\ dyn' = Fill(b, Text(i)) /\ inf' = i
        /\ seen' = [l \in Layers |-> dyn'] /\ phase' = "decode" /\ held' = "own"
        /\ dynLen' = b /\ ntok' = 1 /\ id' = a /\ overflowed' = FALSE
        /\ genuine' = (a \notin Remembered)
        /\ UNCHANGED <<prompt, layer, origId, buf, cap, pos, setup>>
    BY <1>1, Lengths DEF Prefill, hooks
  <2>2. dyn' \in Sequences(Rows, b) /\ OwnRows(i, dyn')
    BY <2>1, SessionRow, FillRows DEF Text
  <2>3. ~Running /\ ~Running'
    BY <1>0, <1>1, <2>1 DEF Prefill, Holding, Running
  <2>4. TypeOK'
    BY <1>0, <2>1, <2>2 DEF TypeOK
  <2>5. genuine' => \A m \in Modules : origId[m] # a
    BY <2>1 DEF Remembered
  <2>6. Substitute'
    BY <2>1, <2>3, <2>5, ConstantFacts DEF Substitute
  <2>7. Own' /\ ReuseIsConfined' /\ Aligned(spared)'
    BY <2>1, <2>2, <2>3 DEF Own, ReuseIsConfined, Aligned
  <2>8. Holding'
    BY <1>0, <2>1, <2>3, SetupFacts DEF Holding
  <2>9. Genuine'
    BY <1>1, <2>1 DEF Prefill, Genuine
  <2>10. Agree(spared)' /\ Fits(spared)'
    BY <2>1 DEF Agree, LayersAgree, Fits, NoOverflow
  <2> QED
    BY <2>4, <2>6, <2>7, <2>8, <2>9, <2>10 DEF RInv
<1>2. CASE Convert \/ Reuse
  BY <1>2, HookStep
<1>3. CASE PassThrough
  BY <1>3, PassStep
<1>4. CASE UpdateLayer \/ DecodeReturns \/ FlowReturns
  BY <1>4, UpdateStep
<1>5. CASE ConversionRaises
  <2>1. /\ Drop /\ origId' = [origId EXCEPT ![Target] = id]
        /\ UNCHANGED <<inf, ntok, prompt, overflowed, seen, buf, cap, pos,
                       genuine, setup>>
    BY <1>5 DEF ConversionRaises, fixed
  <2>2. overflowed' \in BOOLEAN /\ origId' \in [Modules -> Ids \cup {NoId}]
    BY <1>0, <2>1 DEF TypeOK
  <2>3. Fits(spared)'
    BY <2>1 DEF RInv, Fits, NoOverflow
  <2> QED
    BY <2>1, <2>2, <2>3, DropStep
<1>6. CASE Overflow
  <2>1. /\ Drop /\ overflowed' = TRUE
        /\ UNCHANGED <<inf, ntok, prompt, seen, origId, buf, cap, pos, genuine, setup>>
    BY <1>6 DEF Overflow, fixed, hooks
  <2>2. Fits(spared)'
    <3> SUFFICES ASSUME Room, spared, genuine PROVE FALSE
      BY <2>1 DEF Fits, NoOverflow
    <3>1. Running /\ pos[Target][layer] + New > cap[Target]
      BY <1>6 DEF Overflow
    <3> PICK n \in Nat : \E rows \in Sequences(Rows, n) : Base(n, rows)
      BY <3>1 DEF RInv, Aligned
    <3> PICK rows \in Sequences(Rows, n) : Base(n, rows)
      OBVIOUS
    <3>2. layer \in Layers /\ ~(layer < layer)
      <4>1. layer \in 0 .. NLayers /\ layer < NLayers
        BY <1>0, <3>1 DEF TypeOK, Running
      <4> QED
        BY <4>1, ConstantFacts DEF Layers
    <3>3. pos[Target][layer] = n
      BY <3>2 DEF Base, Holds
    <3>4. phase \in {"decode", "flow"}
      BY <1>0, <3>1 DEF Holding
    <3>5. CASE phase = "decode"
      <4>1. /\ ntok \in Nat /\ setup.budget \in Nat /\ ntok < setup.budget
            /\ Target = "vlm" /\ New = 1 /\ cap["vlm"] \in Nat
        BY <1>0, <3>1, <3>5, SetupFacts, ConstantFacts
           DEF TypeOK, Holding, Target, New
      <4>2. n + (setup.budget - ntok) + FlowTokens <= cap["vlm"]
        BY <3>5 DEF Base
      <4> QED
        BY <3>1, <3>3, <4>1, <4>2, ConstantFacts
    <3>6. CASE phase = "flow"
      <4>1. Target \in Modules /\ cap[Target] \in Nat /\ New = FlowTokens
        BY <1>0, <3>6 DEF TypeOK, Target, New, Modules
      <4>2. n + FlowTokens <= cap[Target]
        BY <3>6 DEF Base
      <4> QED
        BY <3>1, <3>3, <4>1, <4>2, ConstantFacts
    <3> QED
      BY <3>4, <3>5, <3>6
  <2>3. overflowed' \in BOOLEAN /\ origId' \in [Modules -> Ids \cup {NoId}]
    BY <1>0, <2>1 DEF TypeOK
  <2> QED
    BY <2>1, <2>2, <2>3, DropStep
<1>7. CASE Retry
  <2>1. /\ setup.flowGraph /\ phase \in {"flow", "crop"} /\ phase' = "flow"
        /\ layer' = NLayers /\ ~Running'
        /\ UNCHANGED <<inf, held, id, dyn, dynLen, ntok, prompt, overflowed, seen,
                       origId, buf, cap, pos, genuine, setup>>
    BY <1>7, ConstantFacts DEF Retry, caller, hooks, fixed, Running
  <2>2. NLayers \in 0 .. NLayers
    BY ConstantFacts
  <2>3. TypeOK'
    BY <1>0, <2>1, <2>2 DEF TypeOK
  <2>4. Holding'
    BY <1>0, <2>1 DEF Holding
  <2>5. Substitute'
    BY <2>1 DEF RInv, Substitute
  <2>6. Own'
    <3>1. held = "conv" => Target' = "vlm" /\ Target = "vlm"
      BY <2>1 DEF Target
    <3> QED
      BY <2>1, <3>1 DEF RInv, Own
  <2>7. Aligned(spared)'
    <3>1. spared => held # "conv"
      BY <1>7, <2>1 DEF AdoptedRetry, Retry, vars, Running
    <3> QED
      BY <1>0, <2>1, <3>1 DEF Aligned, Holding
  <2>8. Genuine' /\ ReuseIsConfined' /\ Agree(spared)' /\ Fits(spared)'
    BY <1>0, <2>1
       DEF RInv, Holding, Genuine, ReuseIsConfined, Agree, LayersAgree, Fits,
           NoOverflow
  <2> QED
    BY <2>3, <2>4, <2>5, <2>6, <2>7, <2>8 DEF RInv
<1>8. CASE DecodeStock
  <2>1. /\ dyn' = Concat(dyn, dynLen, 1, Text(inf)) /\ dynLen' = dynLen + 1
        /\ seen' = [l \in Layers |-> dyn'] /\ ntok' = ntok + 1 /\ held = "own"
        /\ phase = "decode" /\ ntok < setup.budget /\ ~Running
        /\ UNCHANGED <<phase, inf, held, id, prompt, overflowed, layer, origId, buf,
                       cap, pos, genuine, setup>>
    BY <1>8 DEF DecodeStock, WantsToken, hooks, fixed
  <2>2. Text(inf) \in Rows /\ Text(inf) \in RowsOf(inf)
        /\ dynLen \in Nat /\ dyn \in Sequences(Rows, dynLen)
    BY <1>0, SessionRow DEF Text, TypeOK
  <2>3. Concat(dyn, dynLen, 1, Text(inf)) \in Sequences(Rows, dynLen + 1)
    BY <2>2, ConcatType
  <2>4. ~Running'
    BY <2>1 DEF Running
  <2>5. TypeOK'
    BY <1>0, <2>1, <2>2, <2>3 DEF TypeOK
  <2>6. genuine => OwnRows(inf, dyn')
    BY <2>1, <2>2, OwnConcat DEF RInv, Own
  <2>7. Holding'
    <3>1. ntok \in Nat /\ setup.budget \in Nat
      BY <1>0, SetupFacts DEF TypeOK
    <3> QED
      BY <1>0, <2>1, <2>4, <3>1 DEF Holding
  <2>8. Substitute' /\ Own' /\ Aligned(spared)'
    BY <2>1, <2>4, <2>6 DEF RInv, Substitute, Own, Aligned
  <2>9. Genuine' /\ ReuseIsConfined' /\ Agree(spared)' /\ Fits(spared)'
    BY <2>1, <2>6 DEF RInv, Genuine, ReuseIsConfined, Agree, LayersAgree, Fits,
                      NoOverflow
  <2> QED
    BY <2>5, <2>7, <2>8, <2>9 DEF RInv
<1>9. CASE EndGenerate
  <2>1. /\ phase = "decode" /\ phase' = "flow" /\ ~Running /\ ~Running'
        /\ prompt' = IF held = "conv" THEN pos["vlm"][0] ELSE dynLen
        /\ UNCHANGED <<inf, held, id, dyn, dynLen, ntok, overflowed, layer, seen,
                       origId, buf, cap, pos, genuine, setup>>
    BY <1>9 DEF EndGenerate, caller, hooks, fixed, Running
  <2>2. pos["vlm"][0] \in Nat /\ dynLen \in Nat
    BY <1>0, ConstantFacts DEF TypeOK
  <2>3. TypeOK'
    BY <1>0, <2>1, <2>2 DEF TypeOK
  <2>4. Holding'
    BY <1>0, <2>1 DEF Holding
  <2>5. held = "conv" => Target' = "vlm" /\ Target = "vlm"
    BY <2>1 DEF Target
  <2>6. /\ Substitute' /\ Own' /\ Genuine' /\ ReuseIsConfined'
        /\ Agree(spared)' /\ Fits(spared)'
    BY <2>1, <2>5 DEF RInv, Substitute, Own, Genuine, ReuseIsConfined, Agree,
                      LayersAgree, Fits, NoOverflow
  <2>7. Aligned(spared)'
    <3>1. ASSUME NEW n \in Nat, NEW rows, Base(n, rows), held = "conv"
          PROVE  Base(n, rows)'
      <4>1. pos["vlm"][0] = n
        BY <2>1, <2>5, <3>1, ConstantFacts DEF Base, Holds
      <4>2. Room => n + FlowTokens <= cap["vlm"]
        <5>1. ntok \in Nat /\ setup.budget \in Nat /\ ntok <= setup.budget
              /\ cap["vlm"] \in Nat
          BY <1>0, <2>1, SetupFacts, ConstantFacts DEF TypeOK, Holding
        <5> QED
          BY <2>1, <3>1, <5>1, ConstantFacts DEF Base
      <4> QED
        BY <2>1, <2>5, <3>1, <4>1, <4>2 DEF Base, Holds
    <3> QED
      BY <2>1, <3>1 DEF RInv, Aligned
  <2> QED
    BY <2>3, <2>4, <2>6, <2>7 DEF RInv
<1>10. CASE FlowCrop
  <2>1. /\ phase = "crop" /\ phase' = "flow" /\ ~Running /\ ~Running'
        /\ pos' = IF held = "conv" THEN [pos EXCEPT !["vlm"] = Cropped("vlm", prompt)]
                  ELSE pos
        /\ UNCHANGED <<inf, held, id, dyn, dynLen, ntok, prompt, overflowed, layer,
                       seen, origId, buf, cap, genuine, setup>>
    BY <1>0, <1>10 DEF FlowCrop, caller, fixed, Running, Holding
  <2>2. Holding'
    BY <1>0, <2>1 DEF Holding
  <2>3. Genuine' /\ ReuseIsConfined' /\ Agree(spared)' /\ Fits(spared)'
    BY <2>1 DEF RInv, Genuine, ReuseIsConfined, Agree, LayersAgree, Fits,
                NoOverflow
  <2>4. CASE held # "conv"
    <3>1. TypeOK'
      BY <1>0, <2>1, <2>4 DEF TypeOK
    <3>2. Substitute' /\ Own' /\ Aligned(spared)'
      BY <2>1, <2>4 DEF RInv, Substitute, Own, Aligned
    <3> QED
      BY <2>2, <2>3, <3>1, <3>2 DEF RInv
  <2>5. CASE held = "conv"
    <3>1. /\ pos["vlm"] \in [Layers -> Nat] /\ prompt \in Nat
          /\ \A l \in Layers : /\ pos["vlm"][l] \in Nat /\ cap["vlm"] \in Nat
                               /\ pos["vlm"][l] <= cap["vlm"]
      BY <1>0, ConstantFacts DEF TypeOK
    <3>2. /\ pos' \in [Modules -> [Layers -> Nat]]
          /\ \A l \in Layers : /\ pos'["vlm"][l] \in Nat
                               /\ pos'["vlm"][l] <= pos["vlm"][l]
                               /\ prompt <= pos["vlm"][l] => pos'["vlm"][l] = prompt
          /\ \A m \in Modules \ {"vlm"} : pos'[m] = pos[m]
      <4>1. /\ Cropped("vlm", prompt) \in [Layers -> Nat]
            /\ \A l \in Layers :
                 /\ Cropped("vlm", prompt)[l] <= pos["vlm"][l]
                 /\ prompt <= pos["vlm"][l] => Cropped("vlm", prompt)[l] = prompt
        BY <3>1 DEF Cropped
      <4>2. /\ pos' \in [Modules -> [Layers -> Nat]]
            /\ pos'["vlm"] = Cropped("vlm", prompt)
            /\ \A m \in Modules \ {"vlm"} : pos'[m] = pos[m]
        BY <1>0, <2>1, <2>5, <4>1, ConstantFacts DEF TypeOK
      <4> QED
        BY <4>1, <4>2
    <3>3. \A m \in Modules : \A l \in Layers : pos'[m][l] <= cap[m]
      <4>1. ASSUME NEW l \in Layers PROVE pos'["vlm"][l] <= cap["vlm"]
        BY <3>1, <3>2
      <4>2. ASSUME NEW m \in Modules, m # "vlm", NEW l \in Layers
            PROVE  pos'[m][l] <= cap[m]
        BY <1>0, <3>2, <4>2 DEF TypeOK
      <4> QED
        BY <4>1, <4>2
    <3>4. TypeOK'
      BY <1>0, <2>1, <3>2, <3>3 DEF TypeOK
    <3>5. Target' = "vlm" /\ Target = "vlm"
      BY <2>1, <2>5 DEF Target
    <3>6. Own'
      <4> SUFFICES ASSUME genuine, NEW l \in Layers
                   PROVE  OwnRows(inf, Prefix(buf["vlm"][l], pos'["vlm"][l]))
        BY <2>1, <2>5, <3>5 DEF Own
      <4>1. /\ OwnRows(inf, Prefix(buf["vlm"][l], pos["vlm"][l]))
            /\ pos["vlm"][l] \in Nat /\ pos'["vlm"][l] \in Nat
            /\ pos'["vlm"][l] <= pos["vlm"][l]
            /\ buf["vlm"][l] \in Sequences(Rows, cap["vlm"])
            /\ pos["vlm"][l] <= cap["vlm"] /\ cap["vlm"] \in Nat
        BY <1>0, <2>5, <3>1, <3>2, <3>5, ConstantFacts DEF RInv, Own, TypeOK
      <4>2. Prefix(buf["vlm"][l], pos["vlm"][l]) \in Sequences(Rows, pos["vlm"][l])
        BY <4>1, PrefixType
      <4>3. OwnRows(inf, Prefix(Prefix(buf["vlm"][l], pos["vlm"][l]), pos'["vlm"][l]))
        BY <4>1, <4>2, OwnPrefix
      <4> QED
        BY <4>1, <4>3, PrefixOfPrefix
    <3>7. Aligned(spared)'
      <4> SUFFICES ASSUME genuine, spared
                   PROVE  \E n \in Nat : \E rows \in Sequences(Rows, n) : Base(n, rows)'
        BY <2>1, <2>5 DEF Aligned
      <4> PICK n \in Nat : \E rows \in Sequences(Rows, n) : Base(n, rows)
        BY <2>5 DEF RInv, Aligned
      <4> PICK rows \in Sequences(Rows, n) : Base(n, rows)
        OBVIOUS
      <4>1. /\ n = prompt + FlowTokens
            /\ \A l \in Layers : pos["vlm"][l] = n /\ Prefix(buf["vlm"][l], n) = rows
        BY <2>1, <2>5, <3>5 DEF Base, Holds
      <4>2. \A l \in Layers : /\ pos'["vlm"][l] = prompt
                              /\ Prefix(buf["vlm"][l], prompt) = Prefix(rows, prompt)
        <5>1. prompt <= n
          BY <3>1, <4>1, ConstantFacts
        <5>2. \A l \in Layers : pos'["vlm"][l] = prompt
          BY <3>2, <4>1, <5>1
        <5> QED
          BY <3>1, <4>1, <5>1, <5>2, PrefixOfPrefix
      <4>3. Room => prompt + FlowTokens <= cap["vlm"]
        BY <3>1, <4>1, ConstantFacts
      <4>4. Prefix(rows, prompt) \in Sequences(Rows, prompt)
        BY <3>1, <4>1, ConstantFacts, PrefixType
      <4> PICK k \in Nat : k = prompt
        BY <3>1
      <4> PICK less \in Sequences(Rows, k) : less = Prefix(rows, prompt)
        BY <4>4
      <4>5. Base(k, less)'
        BY <2>1, <2>5, <3>5, <4>2, <4>3 DEF Base, Holds
      <4> QED
        BY <4>5
    <3>8. Substitute'
      BY <2>1, <2>5 DEF Substitute
    <3> QED
      BY <2>2, <2>3, <3>4, <3>6, <3>7, <3>8 DEF RInv
  <2> QED
    BY <2>4, <2>5
<1>11. CASE EndInference
  <2>1. /\ Drop
        /\ UNCHANGED <<inf, ntok, prompt, overflowed, seen, origId, buf, cap, pos,
                       genuine, setup>>
    BY <1>11 DEF EndInference, hooks, fixed
  <2>2. overflowed' \in BOOLEAN /\ origId' \in [Modules -> Ids \cup {NoId}]
    BY <1>0, <2>1 DEF TypeOK
  <2>3. Fits(spared)'
    BY <2>1 DEF RInv, Fits, NoOverflow
  <2> QED
    BY <2>1, <2>2, <2>3, DropStep
<1>12. CASE UNCHANGED vars
  BY <1>12 DEF vars, caller, hooks, fixed, RInv, TypeOK, Holding, Substitute, Own,
               Aligned, Base, Holds, Target, New, Row, Running, Genuine,
               ReuseIsConfined, Agree, LayersAgree, Fits, NoOverflow
<1> QED
  BY <1>1, <1>2, <1>3, <1>4, <1>5, <1>6, <1>7, <1>8, <1>9, <1>10, <1>11, <1>12 DEF Next

(* The executions in which nothing is appended to an adopted substitute on  *)
(* top of the rows of an attempt that failed.                              *)
Spared == [][~AdoptedRetry]_vars

(* What needs no premise (integrate.py:715-756).                            *)
THEOREM RepeatInvariant == Spec => []RInv(FALSE)
<1>1. Init => RInv(FALSE)
  BY RInvInit
<1>2. RInv(FALSE) /\ [Next]_vars => RInv(FALSE)'
  BY RInvStep
<1> QED
  BY <1>1, <1>2, PTL DEF Spec

(* The rest needs that the caller crops an adopted substitute before it     *)
(* appends to it again (integrate.py:741-750, graph.py:206-228).           *)
THEOREM SparedInvariant == Spec /\ Spared => []RInv(TRUE)
<1>1. Init => RInv(TRUE)
  BY RInvInit
<1>2. RInv(TRUE) /\ [Next]_vars /\ [~AdoptedRetry]_vars => RInv(TRUE)'
  BY RInvStep
<1> QED
  BY <1>1, <1>2, PTL DEF Spec, Spared

(* A setup that lacks the VLM's hook or the captured flow step is spared    *)
(* them: generate() adopts no substitute, or no step is tried again.       *)
THEOREM SparedSetups ==
  (\A s \in Setups : ~(s.vlmHook /\ s.flowGraph)) => (Spec => Spared)
<1>1. CASE \A s \in Setups : ~(s.vlmHook /\ s.flowGraph)
  <2>1. RInv(FALSE) => ~AdoptedRetry
    BY <1>1 DEF RInv, TypeOK, Holding, AdoptedRetry, Retry
  <2> QED
    BY <2>1, RepeatInvariant, PTL DEF Spared
<1>2. CASE ~(\A s \in Setups : ~(s.vlmHook /\ s.flowGraph))
  BY <1>2
<1> QED
  BY <1>1, <1>2

(* Every variable keeps its type: in particular no write pointer leaves the *)
(* substitute it points into, whatever raises (cache.py:33-91).             *)
THEOREM RepeatTypeCorrect == Spec => []TypeOK
<1>1. RInv(FALSE) => TypeOK
  BY DEF RInv
<1> QED
  BY <1>1, RepeatInvariant, PTL

(* An address given to a second cache, or a conversion that raised, harms   *)
(* the inference whose cache got the address and no other                   *)
(* (integrate.py:745-751).                                                 *)
THEOREM ReuseConfined == Spec => []ReuseIsConfined
<1>1. RInv(FALSE) => ReuseIsConfined
  BY DEF RInv
<1> QED
  BY <1>1, RepeatInvariant, PTL

(* However forwards of earlier inferences ended, the layers of a forward    *)
(* that returns attended to the same tokens (cache.py:60-87, 129-132).      *)
THEOREM LayersAlwaysAgree == Spec /\ Spared => []LayersAgree
<1>1. RInv(TRUE) => LayersAgree
  BY DEF RInv, Agree
<1> QED
  BY <1>1, SparedInvariant, PTL

(* If the VLM hook's hint and margin cover the budget of generate() and the *)
(* flow's tokens, a substitute of the cache at hand is large enough; the    *)
(* expert's always is (integrate.py:741-748, cache.py:68-71).               *)
THEOREM SubstitutesFit == Room => (Spec /\ Spared => []NoOverflow)
<1>1. CASE Room
  <2>1. RInv(TRUE) => NoOverflow
    BY <1>1 DEF RInv, Fits
  <2> QED
    BY <2>1, SparedInvariant, PTL
<1>2. CASE ~Room
  BY <1>2
<1> QED
  BY <1>1, <1>2

-----------------------------------------------------------------------------
(* The hooked program implements the stock one.                             *)

(* The operators of EagerSession are those of this module under the         *)
(* mapping.                                                                 *)
LEMMA SameEagerOperators ==
  /\ Eager!NoRows = NoRows
  /\ \A n, row : Eager!Fill(n, row) = Fill(n, row)
  /\ \A b, n : Eager!Prefix(b, n) = Prefix(b, n)
  /\ \A b, l, n, row : Eager!Concat(b, l, n, row) = Concat(b, l, n, row)
  /\ \A i : Eager!Text(i) = Text(i) /\ Eager!Action(i) = Action(i)
  BY DEF NoRows, Fill, Prefix, Concat, Text, Action, KVRow, Positions,
         Eager!NoRows, Eager!Fill, Eager!Prefix, Eager!Concat, Eager!Text,
         Eager!Action, Eager!KVRow, Eager!Positions

(* What the stock cache is while no forward has passed the watched layer.   *)
LEMMA StockBefore ==
  ~Passed /\ phase # "crop" =>
    /\ StockPhase = phase
    /\ held = "conv" => /\ StockLen = pos["vlm"][Watch]
                        /\ StockKV = Prefix(buf["vlm"][Watch], pos["vlm"][Watch])
    /\ held # "conv" => StockLen = dynLen /\ StockKV = dyn
  BY DEF StockPhase, StockLen, StockKV, Home, Appended

(* What it is once one has, on a substitute.                                *)
LEMMA StockAfter ==
  ASSUME held \in {"own", "conv"}, Passed \/ phase = "crop",
         phase \in {"decode", "flow", "crop"}
  PROVE  /\ StockPhase = IF phase = "decode" THEN "decode" ELSE "crop"
         /\ StockLen = pos[Target][Watch]
         /\ StockKV = Prefix(buf[Target][Watch], pos[Target][Watch])
  BY DEF StockPhase, StockLen, StockKV, Home, Appended, Target

(* The initial states are those of the stock program.                       *)
LEMMA HookedEagerInit == Init => Eager!Init
<1> SUFFICES ASSUME Init PROVE Eager!Init
  OBVIOUS
<1>1. ~Passed /\ phase # "crop" /\ held # "conv"
  BY ConstantFacts DEF Init, Passed, Running
<1>2. StockPhase = "idle" /\ StockLen = 0 /\ StockKV = NoRows /\ seen[Watch] = NoRows
  BY <1>1, StockBefore, ConstantFacts DEF Init
<1> QED
  BY <1>2, SameEagerOperators DEF Init, Eager!Init

(* The update of the watched layer is the stock program's forward, those of *)
(* the other layers are invisible.                                          *)
LEMMA UpdateMaps ==
  ASSUME RInv(TRUE), genuine, UpdateLayer \/ DecodeReturns \/ FlowReturns
  PROVE  Eager!Decode \/ Eager!FlowAppend \/ UNCHANGED Eager!vars
<1>1. /\ TypeOK /\ Holding /\ Update /\ Running /\ phase \in {"decode", "flow"}
      /\ UNCHANGED <<inf, prompt>> /\ held \in {"own", "conv"}
      /\ layer \in Nat /\ Watch \in Nat /\ layer' = layer + 1 /\ NLayers \in Nat
      /\ Watch < NLayers
  BY UpdateEffect, ConstantFacts
     DEF UpdateLayer, DecodeReturns, FlowReturns, Update, RInv, Holding, TypeOK
<1>2. /\ UpdateLayer => Running' /\ UNCHANGED <<phase, held, dyn, dynLen>>
      /\ DecodeReturns => /\ ~Running' /\ phase = "decode" /\ phase' = "decode"
                          /\ held' = "conv" /\ layer' = NLayers
      /\ FlowReturns => /\ ~Running' /\ phase = "flow" /\ phase' = "crop"
                        /\ held' = held /\ layer' = NLayers
  BY ConstantFacts DEF UpdateLayer, DecodeReturns, FlowReturns, Running
<1>3. Target' = Target /\ phase' \in {"decode", "flow", "crop"}
      /\ (phase' = "decode" <=> phase = "decode")
  BY <1>1, <1>2 DEF Target
<1>4. CASE layer < Watch
  <2>1. UpdateLayer /\ ~Passed /\ ~Passed' /\ phase # "crop" /\ phase' = phase
    BY <1>1, <1>2, <1>4 DEF Passed
  <2>2. seen'[Watch] = seen[Watch] /\ pos'[Target][Watch] = pos[Target][Watch]
        /\ buf'[Target][Watch] = buf[Target][Watch]
    BY <1>1, <1>4, UpdateEffect, ConstantFacts
  <2>3. held = "conv" => Target = "vlm"
    BY DEF Target
  <2>4. UNCHANGED <<StockPhase, StockLen, StockKV>>
    BY <1>2, <2>1, <2>2, <2>3, StockBefore
       DEF StockPhase, StockLen, StockKV, Home, Appended
  <2> QED
    BY <1>1, <2>2, <2>4 DEF Eager!vars
<1>5. CASE layer > Watch
  <2>1. Passed /\ (Passed' \/ DecodeReturns \/ phase' = "crop")
    BY <1>1, <1>2, <1>5 DEF Passed
  <2>2. seen'[Watch] = seen[Watch] /\ pos'[Target][Watch] = pos[Target][Watch]
        /\ buf'[Target][Watch] = buf[Target][Watch]
    BY <1>1, <1>5, UpdateEffect, ConstantFacts
  <2>3. UNCHANGED <<StockPhase, StockLen, StockKV>>
    BY <1>1, <1>2, <1>3, <2>1, <2>2
       DEF StockPhase, StockLen, StockKV, Home, Appended, Target
  <2> QED
    BY <1>1, <2>2, <2>3 DEF Eager!vars
<1>6. CASE layer = Watch
  <2> PICK n \in Nat : \E rows \in Sequences(Rows, n) : Base(n, rows)
    BY <1>1 DEF RInv, Aligned
  <2> PICK rows \in Sequences(Rows, n) : Base(n, rows)
    OBVIOUS
  <2>1. /\ pos'[Target][Watch] = n + New
        /\ Prefix(buf'[Target][Watch], n + New) = Concat(rows, n, New, Row)
        /\ seen'[Watch] = Concat(rows, n, New, Row)
    BY <1>1, <1>6, UpdatedLayers, ConstantFacts
  <2>2. ~Passed /\ pos[Target][Watch] = n /\ Prefix(buf[Target][Watch], n) = rows
    BY <1>1, <1>6, ConstantFacts DEF Passed, Base, Holds
  <2>3. StockPhase = phase /\ StockLen = n /\ StockKV = rows
    BY <1>1, <2>2, StockBefore DEF Base, Target
  <2>4. Passed' \/ DecodeReturns \/ phase' = "crop"
    BY <1>1, <1>2, <1>6 DEF Passed
  <2>5. /\ StockPhase' = IF phase = "decode" THEN "decode" ELSE "crop"
        /\ StockLen' = n + New /\ StockKV' = Concat(rows, n, New, Row)
    BY <1>1, <1>2, <1>3, <2>1, <2>4
       DEF StockPhase, StockLen, StockKV, Home, Appended, Target
  <2> QED
    BY <1>1, <2>1, <2>3, <2>5, SameEagerOperators
       DEF Eager!Decode, Eager!FlowAppend, Eager!Grow, New, Row
<1> QED
  BY <1>1, <1>4, <1>5, <1>6

(* An inference that ends in the middle of a forward ends the stock one.    *)
LEMMA DropMaps ==
  ASSUME Drop, phase # "idle", UNCHANGED <<inf, prompt, seen>>
  PROVE  Eager!EndInference
<1>1. StockPhase # "idle"
  BY DEF StockPhase
<1>2. ~Passed' /\ phase' = "idle" /\ held' = "none" /\ dyn' = NoRows /\ dynLen' = 0
  BY ConstantFacts DEF Drop, Passed, Running
<1>3. StockPhase' = "idle" /\ StockLen' = 0 /\ StockKV' = NoRows
  BY <1>2 DEF StockPhase, StockLen, StockKV, Home, Appended
<1> QED
  BY <1>1, <1>3, SameEagerOperators DEF Eager!EndInference

(* Cropping the caller's cache, or the substitute it adopted, and trying a  *)
(* step again are both the caller's crop of the stock cache.                *)
LEMMA CropMaps ==
  ASSUME RInv(TRUE), genuine, FlowCrop \/ Retry, [~AdoptedRetry]_vars
  PROVE  Eager!FlowCrop \/ UNCHANGED Eager!vars
<1>1. /\ TypeOK /\ Holding /\ held \in {"own", "conv"} /\ phase \in {"flow", "crop"}
      /\ phase' = "flow" /\ ~Running' /\ ~Passed' /\ prompt \in Nat /\ dynLen \in Nat
      /\ dyn \in Sequences(Rows, dynLen)
      /\ UNCHANGED <<inf, held, dyn, dynLen, prompt, seen, buf>>
  BY ConstantFacts
     DEF RInv, TypeOK, Holding, FlowCrop, Retry, caller, hooks, Running, Passed
<1>2. CASE phase = "flow" /\ ~Passed
  <2>1. Retry /\ UNCHANGED pos
    BY <1>2 DEF FlowCrop, Retry, hooks
  <2>2. UNCHANGED <<StockPhase, StockLen, StockKV>>
    BY <1>1, <1>2, <2>1 DEF StockPhase, StockLen, StockKV, Home, Appended
  <2> QED
    BY <1>1, <2>2 DEF Eager!vars
<1>3. CASE phase = "crop" \/ Passed
  <2>1. /\ StockPhase = "crop" /\ StockPhase' = "flow"
        /\ StockLen = pos[Target][Watch]
        /\ StockKV = Prefix(buf[Target][Watch], pos[Target][Watch])
    BY <1>1, <1>3, StockAfter DEF StockPhase, Appended
  <2>2. CASE held = "own"
    <3>1. /\ origId["expert"] = id /\ Target = "expert" /\ prompt = dynLen
          /\ pos["expert"][Watch] \in Nat
      BY <1>1, <1>3, <2>2, ConstantFacts
         DEF RInv, Substitute, Passed, Target, Holding, TypeOK
    <3>2. dynLen <= pos["expert"][Watch] /\ Prefix(buf["expert"][Watch], dynLen) = dyn
      BY <2>2, <3>1, ConstantFacts DEF RInv, Substitute
    <3>3. Prefix(Prefix(buf["expert"][Watch], pos["expert"][Watch]), prompt) = dyn
      BY <1>1, <3>1, <3>2, PrefixOfPrefix
    <3>4. StockLen' = dynLen /\ StockKV' = dyn
      BY <1>1, <2>2 DEF StockLen, StockKV, Home, Appended
    <3> QED
      BY <1>1, <2>1, <3>1, <3>3, <3>4, SameEagerOperators DEF Eager!FlowCrop
  <2>3. CASE held = "conv"
    <3>1. FlowCrop /\ phase = "crop" /\ Target = "vlm"
      <4>1. ~Retry
        BY <1>3, <2>3, ConstantFacts
           DEF AdoptedRetry, Retry, vars, Passed, Running
      <4> QED
        BY <1>1, <2>3, <4>1 DEF FlowCrop, Target
    <3>2. pos["vlm"][Watch] = prompt + FlowTokens
      <4> PICK n \in Nat : \E rows \in Sequences(Rows, n) : Base(n, rows)
        BY <2>3 DEF RInv, Aligned
      <4> PICK rows \in Sequences(Rows, n) : Base(n, rows)
        OBVIOUS
      <4> QED
        BY <1>1, <2>3, <3>1, ConstantFacts DEF Base, Holds, Holding
    <3>3. pos'["vlm"][Watch] = prompt
      <4>1. pos' = [pos EXCEPT !["vlm"] = Cropped("vlm", prompt)]
        BY <2>3, <3>1 DEF FlowCrop
      <4>2. Cropped("vlm", prompt)[Watch] = prompt
        BY <1>1, <3>2, ConstantFacts DEF Cropped
      <4> QED
        BY <1>1, <4>1, <4>2, ConstantFacts DEF TypeOK
    <3>4. StockLen' = prompt /\ StockKV' = Prefix(buf["vlm"][Watch], prompt)
      BY <1>1, <2>3, <3>3 DEF StockLen, StockKV, Home
    <3>5. prompt + FlowTokens \in Nat /\ prompt <= prompt + FlowTokens
      BY <1>1, ConstantFacts
    <3>6. Prefix(Prefix(buf["vlm"][Watch], prompt + FlowTokens), prompt)
            = Prefix(buf["vlm"][Watch], prompt)
      BY <1>1, <3>5, PrefixOfPrefix
    <3> QED
      BY <1>1, <2>1, <3>1, <3>2, <3>4, <3>6, SameEagerOperators DEF Eager!FlowCrop
  <2> QED
    BY <1>1, <2>2, <2>3
<1> QED
  BY <1>1, <1>2, <1>3

(* While the cache at hand is one that no hook remembered, each step is a   *)
(* step of the stock program: converting and cropping are invisible,        *)
(* appending in place is appending.                                        *)
THEOREM HookedEagerStep ==
  RInv(TRUE) /\ [Next]_vars /\ [~AdoptedRetry]_vars =>
    [~genuine \/ Eager!Next]_(Eager!vars)
<1> SUFFICES ASSUME RInv(TRUE), [Next]_vars, [~AdoptedRetry]_vars, genuine
             PROVE  Eager!Next \/ UNCHANGED Eager!vars
  OBVIOUS
<1>0. TypeOK /\ Holding /\ genuine /\ dynLen \in Nat /\ prompt \in Nat
  BY DEF RInv, TypeOK
<1>1. ASSUME NEW i \in Inferences, NEW b \in PromptLens, NEW a \in Ids,
             Prefill(i, b, a)
      PROVE  Eager!Next
  <2>1. /\ phase = "idle" /\ phase' = "decode" /\ held = "none" /\ held' = "own"
        /\ ~Passed /\ ~Passed'
        /\ dyn' = Fill(b, Text(i)) /\ dynLen' = b /\ seen'[Watch] = dyn'
        /\ i # inf /\ inf' = i /\ prompt' = prompt
    BY <1>0, <1>1, ConstantFacts DEF Prefill, Holding, Passed, Running
  <2>2. /\ StockPhase = "idle" /\ StockPhase' = "decode"
        /\ StockLen' = dynLen' /\ StockKV' = dyn'
    BY <2>1 DEF StockPhase, StockLen, StockKV, Home, Appended
  <2>3. Eager!Prefill(i, b)
    BY <2>1, <2>2, SameEagerOperators DEF Eager!Prefill
  <2> QED
    BY <2>3 DEF Eager!Next
<1>2. CASE Convert \/ Reuse
  <2>1. /\ ~Passed /\ held = "own" /\ phase \in {"decode", "flow"} /\ layer' = 0
        /\ UNCHANGED <<phase, inf, held, dyn, dynLen, prompt, seen>>
    BY <1>2, HookEffect DEF Enters, caller, Passed
  <2>2. ~Passed'
    BY <2>1, ConstantFacts DEF Passed
  <2>3. UNCHANGED <<StockPhase, StockLen, StockKV>>
    BY <2>1, <2>2 DEF StockPhase, StockLen, StockKV, Home, Appended
  <2> QED
    BY <2>1, <2>3 DEF Eager!vars
<1>3. CASE PassThrough
  <2>1. /\ ~Passed /\ held = "conv" /\ phase \in {"decode", "flow"} /\ layer' = 0
        /\ UNCHANGED <<phase, inf, held, dyn, dynLen, prompt, seen, hooks>>
    BY <1>3 DEF PassThrough, Calls, WantsToken, Enters, caller, Passed
  <2>2. ~Passed'
    BY <2>1, ConstantFacts DEF Passed
  <2>3. UNCHANGED <<StockPhase, StockLen, StockKV>>
    BY <2>1, <2>2 DEF StockPhase, StockLen, StockKV, Home, Appended, hooks
  <2> QED
    BY <2>1, <2>3 DEF Eager!vars
<1>4. CASE UpdateLayer \/ DecodeReturns \/ FlowReturns
  BY <1>0, <1>4, UpdateMaps DEF Eager!Next
<1>5. CASE ConversionRaises \/ Overflow \/ EndInference
  <2>1. Drop /\ phase # "idle" /\ UNCHANGED <<inf, prompt, seen>>
    BY <1>0, <1>5 DEF ConversionRaises, Overflow, EndInference, Calls, WantsToken,
                      Holding
  <2> QED
    BY <2>1, DropMaps DEF Eager!Next
<1>6. CASE FlowCrop \/ Retry
  BY <1>0, <1>6, CropMaps DEF Eager!Next
<1>7. CASE DecodeStock
  <2>1. /\ ~Passed /\ ~Passed' /\ held = "own" /\ phase = "decode"
        /\ UNCHANGED <<phase, inf, held, prompt>>
        /\ dyn' = Concat(dyn, dynLen, 1, Text(inf)) /\ dynLen' = dynLen + 1
        /\ seen'[Watch] = dyn'
    BY <1>7, ConstantFacts DEF DecodeStock, WantsToken, Passed, Running
  <2>2. /\ StockPhase = "decode" /\ StockPhase' = "decode"
        /\ StockLen = dynLen /\ StockKV = dyn /\ StockLen' = dynLen' /\ StockKV' = dyn'
    BY <2>1 DEF StockPhase, StockLen, StockKV, Home, Appended
  <2>3. Eager!Decode
    BY <2>1, <2>2, SameEagerOperators DEF Eager!Decode, Eager!Grow
  <2> QED
    BY <2>3 DEF Eager!Next
<1>8. CASE EndGenerate
  <2>1. /\ ~Passed /\ ~Passed' /\ phase = "decode" /\ phase' = "flow"
        /\ prompt' = IF held = "conv" THEN pos["vlm"][0] ELSE dynLen
        /\ UNCHANGED <<inf, held, dyn, dynLen, seen, buf, pos>>
    BY <1>8 DEF EndGenerate, caller, hooks, Passed, Running
  <2>2. held = "conv" => pos["vlm"][0] = pos["vlm"][Watch]
    <3> SUFFICES ASSUME held = "conv" PROVE pos["vlm"][0] = pos["vlm"][Watch]
      OBVIOUS
    <3> PICK n \in Nat : \E rows \in Sequences(Rows, n) : Base(n, rows)
      BY <1>0 DEF RInv, Aligned
    <3> PICK rows \in Sequences(Rows, n) : Base(n, rows)
      OBVIOUS
    <3>1. ~Running /\ Target = "vlm"
      BY <1>8 DEF EndGenerate, Target
    <3> QED
      BY <3>1, ConstantFacts DEF Base, Holds
  <2>3. /\ StockPhase = "decode" /\ StockPhase' = "flow" /\ prompt' = StockLen
        /\ UNCHANGED <<StockLen, StockKV>>
    BY <2>1, <2>2 DEF StockPhase, StockLen, StockKV, Home, Appended
  <2>4. Eager!EndGenerate
    BY <2>1, <2>3 DEF Eager!EndGenerate
  <2> QED
    BY <2>4 DEF Eager!Next
<1>9. CASE UNCHANGED vars
  BY <1>9 DEF vars, caller, hooks, Eager!vars, StockPhase, StockLen, StockKV, Home,
              Appended, Passed, Running
<1> QED
  BY <1>1, <1>2, <1>3, <1>4, <1>5, <1>6, <1>7, <1>8, <1>9 DEF Next

(* With the hooks the program attends, in every layer, to the rows that the *)
(* stock program attends to, in a setup where no cache gets the address of  *)
(* one that a hook remembers (integrate.py:715-756).                       *)
THEOREM HookedRefinement == Spec /\ Spared => RefinesEager
<1>1. RInv(TRUE) /\ [Next]_vars /\ [~AdoptedRetry]_vars =>
        [setup.idsReused \/ Eager!Next]_(Eager!vars)
  <2>1. RInv(TRUE) => setup.idsReused \/ genuine
    BY DEF RInv, Genuine
  <2> QED
    BY <2>1, HookedEagerStep
<1> QED
  BY <1>1, HookedEagerInit, SparedInvariant, PTL DEF Spec, Spared, RefinesEager

(* In particular: an execution in which no new cache gets an address that a *)
(* hook remembers is one of the stock program (integrate.py:10-12,          *)
(* 715-756).                                                               *)
THEOREM HookedImplements == Spec /\ Spared /\ []genuine => Eager!Spec
<1>1. RInv(TRUE) /\ [Next]_vars /\ [~AdoptedRetry]_vars /\ genuine =>
        [Eager!Next]_(Eager!vars)
  BY HookedEagerStep
<1> QED
  BY <1>1, HookedEagerInit, SparedInvariant, PTL DEF Spec, Spared, Eager!Spec

(* ... as every execution is where the interpreter reuses no address        *)
(* (integrate.py:745-751).                                                 *)
THEOREM GenuineSetups ==
  (\A s \in Setups : ~s.idsReused) => (Spec => []genuine)
<1>1. CASE \A s \in Setups : ~s.idsReused
  <2>1. RInv(FALSE) => genuine
    BY <1>1 DEF RInv, TypeOK, Genuine
  <2> QED
    BY <2>1, RepeatInvariant, PTL
<1>2. CASE ~(\A s \in Setups : ~s.idsReused)
  BY <1>2
<1> QED
  BY <1>1, <1>2
=============================================================================
