-------------------------- MODULE DecodeGraphProofs --------------------------
(* Theorems about DecodeGraph, for every value of its constants.            *)
EXTENDS DecodeGraph, TLAPS

-----------------------------------------------------------------------------
(* What the operators of KVBuffer return, for any set R of rows.            *)

(* The rows of an inference are rows.                                       *)
LEMMA RowType ==
  ASSUME NEW I, NEW i \in I, NEW r \in I, NEW k \in {"text", "action"}
  PROVE  /\ KVRow(i, r, k) \in KVRows(I)
         /\ KVRow(i, i, k) \in RowsOf(i)
  BY DEF KVRow, KVRows, RowsOf

(* A sequence of n rows has the positions 0 .. n-1.                         *)
LEMMA SequenceDomain ==
  ASSUME NEW R, NEW n \in Nat, NEW b \in Sequences(R, n)
  PROVE  /\ DOMAIN b = Positions(n) /\ DOMAIN b \subseteq Nat
         /\ b \in [DOMAIN b -> R]
  BY DEF Sequences, Positions

(* The empty sequence.                                                      *)
LEMMA NoRowsType ==
  ASSUME NEW R
  PROVE  NoRows \in Sequences(R, 0)
  BY DEF NoRows, Sequences, Positions

(* A sequence of equal rows.                                                *)
LEMMA FillType ==
  ASSUME NEW R, NEW n \in Nat, NEW row \in R
  PROVE  Fill(n, row) \in Sequences(R, n)
  BY DEF Fill, Sequences

(* Concatenation adds up the lengths.                                       *)
LEMMA ConcatType ==
  ASSUME NEW R, NEW n \in Nat, NEW l \in Nat, NEW kv \in Sequences(R, l),
         NEW row \in R
  PROVE  Concat(kv, l, n, row) \in Sequences(R, l + n)
  BY DEF Concat, Sequences, Positions

(* A prefix no longer than the sequence.                                    *)
LEMMA PrefixType ==
  ASSUME NEW R, NEW n \in Nat, NEW c \in Nat, NEW b \in Sequences(R, c), n <= c
  PROVE  Prefix(b, n) \in Sequences(R, n)
  BY DEF Prefix, Sequences, Positions

(* Writing a slice keeps the size of a buffer.                              *)
LEMMA WriteSliceType ==
  ASSUME NEW R, NEW c \in Nat, NEW b \in Sequences(R, c),
         NEW at \in Nat, NEW n \in Nat, NEW row \in R
  PROVE  WriteSlice(b, at, n, row) \in Sequences(R, c)
  BY DEF WriteSlice, Sequences, Positions

(* So does copying a prefix into it.                                        *)
LEMMA CopyPrefixType ==
  ASSUME NEW R, NEW c \in Nat, NEW b \in Sequences(R, c), NEW n \in Nat,
         NEW kv \in Sequences(R, n)
  PROVE  CopyPrefix(b, kv, n) \in Sequences(R, c)
  BY DEF CopyPrefix, Sequences, Positions

(* A new buffer has the size asked for.                                     *)
LEMMA AllocateType ==
  ASSUME NEW R, NEW c \in Nat, NEW n \in Nat, NEW kv \in Sequences(R, n),
         NEW junk \in R
  PROVE  Allocate(kv, n, c, junk) \in Sequences(R, c)
  BY DEF Allocate, Sequences, Positions

-----------------------------------------------------------------------------
(* Writing in place behind the prefix is appending to it: what makes the    *)
(* pre-allocated buffers of umic/cache.py stand for a growing cache.        *)

(* Writing behind a prefix and reading one further is concatenation.        *)
LEMMA PrefixOfWrite ==
  ASSUME NEW R, NEW c \in Nat, NEW b \in Sequences(R, c),
         NEW at \in Nat, NEW n \in Nat, at + n <= c, NEW row \in R
  PROVE  Prefix(WriteSlice(b, at, n, row), at + n)
           = Concat(Prefix(b, at), at, n, row)
  BY DEF Prefix, WriteSlice, Concat, Sequences, Positions

(* A copied prefix reads as what was copied.                                *)
LEMMA PrefixOfCopy ==
  ASSUME NEW R, NEW c \in Nat, NEW b \in Sequences(R, c), NEW n \in Nat, n <= c,
         NEW kv \in Sequences(R, n)
  PROVE  Prefix(CopyPrefix(b, kv, n), n) = kv
  BY DEF Prefix, CopyPrefix, Sequences, Positions

(* So does the prefix a new buffer was filled with.                         *)
LEMMA PrefixOfAllocate ==
  ASSUME NEW R, NEW c \in Nat, NEW n \in Nat, n <= c, NEW kv \in Sequences(R, n),
         NEW junk
  PROVE  Prefix(Allocate(kv, n, c, junk), n) = kv
  BY DEF Prefix, Allocate, Sequences, Positions

(* A prefix of a prefix is a prefix.                                        *)
LEMMA PrefixOfPrefix ==
  ASSUME NEW n \in Nat, NEW m \in Nat, m <= n, NEW b
  PROVE  Prefix(Prefix(b, n), m) = Prefix(b, m)
  BY DEF Prefix, Positions

-----------------------------------------------------------------------------
(* Ownership of rows. *)

(* Appending an own row to own rows gives own rows.                         *)
LEMMA OwnConcat ==
  ASSUME NEW R, NEW i, NEW n \in Nat, NEW l \in Nat, NEW kv \in Sequences(R, l),
         NEW row \in RowsOf(i), OwnRows(i, kv)
  PROVE  OwnRows(i, Concat(kv, l, n, row))
  BY DEF OwnRows, Concat, Sequences, Positions

(* A prefix of own rows is own rows.                                        *)
LEMMA OwnPrefix ==
  ASSUME NEW R, NEW i, NEW n \in Nat, NEW m \in Nat, m <= n,
         NEW kv \in Sequences(R, n), OwnRows(i, kv)
  PROVE  OwnRows(i, Prefix(kv, m))
  BY DEF OwnRows, Prefix, Sequences, Positions

(* So is a sequence of one own row.                                         *)
LEMMA OwnFill ==
  ASSUME NEW i, NEW n \in Nat, NEW row \in RowsOf(i)
  PROVE  OwnRows(i, Fill(n, row))
  BY DEF OwnRows, Fill

-----------------------------------------------------------------------------
(* The rows of this model. *)

(* A row an inference writes for its own text or action token is a row.     *)
LEMMA SessionRow ==
  ASSUME NEW i \in Inferences, NEW r \in Inferences, NEW k \in {"text", "action"}
  PROVE  KVRow(i, r, k) \in Rows /\ KVRow(i, i, k) \in RowsOf(i)
  BY RowType DEF Rows

(* So is what uninitialised memory reads as.                                *)
LEMMA JunkRow == Junk \in Rows
  BY DEF Rows

(* An empty graph table is a graph table.                                   *)
LEMMA NoGraphsType ==
  /\ DOMAIN NoGraphs = {} /\ NoGraphs \in [DOMAIN NoGraphs -> Baked]
  BY DEF NoGraphs

-----------------------------------------------------------------------------
(* The structural invariant: types, and what keeps every read in bounds.    *)

(* Graph mode is on exactly while the runner believes it is decoding, and   *)
(* never when the flow expert gets the cache.                               *)
Modes == /\ graphMode = inDecode
         /\ phase = "forward" => inDecode
         /\ phase \in {"flow", "crop"} => ~inDecode

Holding == /\ held = "none" <=> phase = "idle"
           /\ held # "dynamic" => dynLen = 0 /\ dyn = NoRows

Fits == /\ held = "runner" => pos <= cap
        /\ phase \in {"flow", "crop"} => prompt <= HeldLen
        /\ cap # 0 => cap = baseLen + MaxNew + Margin

Structure == TypeOK /\ GraphsLive /\ Modes /\ Holding /\ Fits

(* The runner starts with no buffers, no graphs and graph mode off          *)
(* (graph.py:39-56).                                                        *)
THEOREM StructureInit == Init => Structure
<1> SUFFICES ASSUME Init PROVE Structure
  OBVIOUS
<1>1. TypeOK
  <2>1. NoRows \in [DOMAIN NoRows -> Rows] /\ DOMAIN NoRows \subseteq Nat
    BY DEF NoRows, Positions
  <2> QED
    BY <2>1, NoRowsType, NoGraphsType DEF Init, TypeOK, Rows
<1>2. GraphsLive
  BY DEF Init, GraphsLive, NoGraphs
<1>3. Modes /\ Holding /\ Fits
  BY DEF Init, Modes, Holding, Fits, HeldLen
<1> QED
  BY <1>1, <1>2, <1>3 DEF Structure

(* An eager forward in a layer that is not in graph mode. *)
LEMMA AppendEffect ==
  ASSUME Structure, NEW n \in Nat, NEW row \in Rows,
         Append(n, row), ~graphMode, held # "none"
  PROVE  /\ dynLen' \in Nat /\ dyn' \in Sequences(Rows, dynLen')
         /\ \E m \in Nat : seen' \in Sequences(Rows, m)
         /\ cap' = cap /\ addr' = addr /\ buf' \in Sequences(Rows, cap)
         /\ graphMode' = graphMode /\ graphLen' = graphLen
         /\ pos' \in Nat
         /\ held = "runner" => pos' = pos + n /\ pos' <= cap
                               /\ dynLen' = 0 /\ dyn' = NoRows
         /\ held = "dynamic" => dynLen' = dynLen + n
<1>1. CASE held = "dynamic"
  BY <1>1, ConcatType
     DEF Append, Structure, TypeOK, cache
<1>2. CASE held = "runner"
  <2>1. /\ buf' = WriteSlice(buf, pos, n, row)
        /\ pos' = pos + n /\ seen' = Prefix(buf', pos') /\ pos' <= cap
        /\ UNCHANGED <<dyn, dynLen, addr, cap, graphMode, graphLen>>
    BY <1>2 DEF Append, Overflows, IndexWrite, Structure, TypeOK
  <2>2. buf' \in Sequences(Rows, cap)
    BY <2>1, WriteSliceType DEF Structure, TypeOK
  <2>3. seen' \in Sequences(Rows, pos')
    BY <2>1, <2>2, PrefixType DEF Structure, TypeOK
  <2> QED
    BY <1>2, <2>1, <2>2, <2>3 DEF Structure, TypeOK, Holding
<1> QED
  BY <1>1, <1>2 DEF Structure, TypeOK
(* What a decode forward of the runner does: all three ways to run it read  *)
(* the buffers the runner has now, as far as the new row.                   *)
LEMMA ForwardEffect ==
  ASSUME Structure, Warmup \/ Capture \/ Replay
  PROVE  /\ InDecodeForward
         /\ buf' = WriteSlice(buf, cpos, 1, KVRow(inf, sRope, "text"))
         /\ seen' = Prefix(buf', cpos + 1)
         /\ buf' \in Sequences(Rows, cap) /\ seen' \in Sequences(Rows, cpos + 1)
<1>1. InDecodeForward /\ StaticCall(addr, cpos + 1)
  <2>1. CASE Warmup
    BY <2>1 DEF Warmup, InDecodeForward
  <2>2. CASE Capture
    BY <2>2 DEF Capture, InDecodeForward
  <2>3. CASE Replay
    BY <2>3 DEF Replay, InDecodeForward, Structure, GraphsLive
  <2> QED
    BY <2>1, <2>2, <2>3
<1>2. /\ buf' = WriteSlice(buf, cpos, 1, KVRow(inf, sRope, "text"))
      /\ seen' = Prefix(buf', cpos + 1)
  BY <1>1 DEF StaticCall, InDecodeForward
<1>3. buf' \in Sequences(Rows, cap)
  BY <1>2, WriteSliceType, SessionRow DEF Structure, TypeOK
<1>4. seen' \in Sequences(Rows, cpos + 1)
  BY <1>1, <1>2, <1>3, PrefixType DEF InDecodeForward, Structure, TypeOK
<1> QED
  BY <1>1, <1>2, <1>3, <1>4

(* The graphs after a decode forward. *)
LEMMA ForwardGraphs ==
  ASSUME Structure, Warmup \/ Capture \/ Replay
  PROVE  /\ DOMAIN graphs' \subseteq Nat /\ graphs' \in [DOMAIN graphs' -> Baked]
         /\ GraphsLive'
         /\ \A n \in DOMAIN graphs : n \in DOMAIN graphs' /\ graphs'[n] = graphs[n]
<1>1. CASE Warmup \/ Replay
  BY <1>1 DEF Warmup, Replay, InDecodeForward, Structure, TypeOK, GraphsLive
<1>2. CASE Capture
  <2>1. graphLen' = cpos + 1 /\ cpos + 1 \in Nat /\ addr' = addr
    BY <1>2 DEF Capture, InDecodeForward, Structure, TypeOK
  <2>2. /\ graphs' = [n \in DOMAIN graphs \cup {cpos + 1} |->
                       IF n = cpos + 1 THEN [addr |-> addr, len |-> n]
                                       ELSE graphs[n]]
        /\ cpos + 1 \notin DOMAIN graphs
    BY <1>2, <2>1 DEF Capture, Structure, TypeOK
  <2>3. DOMAIN graphs \subseteq Nat /\ addr \in Addrs
        /\ graphs \in [DOMAIN graphs -> Baked]
    BY DEF Structure, TypeOK
  <2>4. [addr |-> addr, len |-> cpos + 1] \in Baked
    BY <2>1, <2>3 DEF Baked
  <2> QED
    BY <2>1, <2>2, <2>3, <2>4 DEF GraphsLive, Structure
<1> QED
  BY <1>1, <1>2

(* Every step of pipeline, generate() and runner keeps the types, the       *)
(* graphs over the live buffers, and graph mode in step with in_decode      *)
(* (graph.py:68-171).                                                       *)
THEOREM StructureStep == Structure /\ [Next]_vars => Structure'
<1> SUFFICES ASSUME Structure, [Next]_vars PROVE Structure'
  OBVIOUS
<1> USE DEF Structure
<1>1. ASSUME NEW i \in Inferences, NEW b \in PromptLens, NEW pad \in BOOLEAN,
             Prefill(i, b, pad)
      PROVE  Structure'
  <2>1. /\ b \in Nat /\ dyn' \in Sequences(Rows, b) /\ seen' \in Sequences(Rows, b)
    BY <1>1, SessionRow, FillType, Lengths DEF Prefill, Text
  <2>2. TypeOK'
    BY <1>1, <2>1, SequenceDomain
       DEF Prefill, TypeOK, runner, cache, Rows
  <2> QED
    BY <1>1, <2>2 DEF Prefill, GraphsLive, Modes, Holding, Fits, HeldLen,
                      runner, cache
<1>2. CASE NextTurn
  <2>1. ~graphMode /\ held # "none" /\ TurnTokens \in Nat
    BY <1>2, Lengths DEF NextTurn, Modes, Holding, TypeOK
  <2>2. Text(inf) \in Rows
    BY SessionRow DEF Text, TypeOK
  <2>3. Append(TurnTokens, Text(inf))
    BY <1>2 DEF NextTurn
  <2>4. PICK m \in Nat : seen' \in Sequences(Rows, m)
    BY <2>1, <2>2, <2>3, AppendEffect
  <2>5. TypeOK'
    BY <1>2, <2>1, <2>2, <2>3, <2>4, AppendEffect, SequenceDomain
       DEF NextTurn, TypeOK, runner, HeldLen, Rows
  <2> QED
    BY <1>2, <2>1, <2>2, <2>3, <2>5, AppendEffect
       DEF NextTurn, GraphsLive, Modes, Holding, Fits, HeldLen, runner, TypeOK
<1>3. CASE FlowAppend
  <2>1. ~graphMode /\ held # "none" /\ FlowTokens \in Nat
    BY <1>3, Lengths DEF FlowAppend, Modes, Holding, TypeOK
  <2>2. Action(inf) \in Rows
    BY SessionRow DEF Action, TypeOK
  <2>3. Append(FlowTokens, Action(inf))
    BY <1>3 DEF FlowAppend
  <2>4. PICK m \in Nat : seen' \in Sequences(Rows, m)
    BY <2>1, <2>2, <2>3, AppendEffect
  <2>5. TypeOK'
    BY <1>3, <2>1, <2>2, <2>3, <2>4, AppendEffect, SequenceDomain
       DEF FlowAppend, TypeOK, runner, HeldLen, Rows
  <2> QED
    BY <1>3, <2>1, <2>2, <2>3, <2>5, AppendEffect
       DEF FlowAppend, GraphsLive, Modes, Holding, Fits, HeldLen, runner, TypeOK
<1>4. CASE FlowCrop
  <2>1. held = "dynamic" => dyn' \in Sequences(Rows, prompt) /\ dynLen' = prompt
    BY <1>4, PrefixType DEF FlowCrop, Fits, HeldLen, TypeOK
  <2>2. TypeOK'
    BY <1>4, <2>1 DEF FlowCrop, TypeOK, runner
  <2> QED
    BY <1>4, <2>2 DEF FlowCrop, GraphsLive, Modes, Holding, Fits, HeldLen,
                      runner, TypeOK
<1>5. CASE EndInference \/ Overflow \/ AbortGenerate
  <2>1. /\ phase' = "idle" /\ held' = "none" /\ overflowed' \in BOOLEAN
        /\ dyn' = NoRows /\ dynLen' = 0
        /\ UNCHANGED <<inf, padded, cpos, ntok, prompt, seen, runner, cache,
                       begun>>
    BY <1>5 DEF EndInference, Overflow, AbortGenerate, Drop, TypeOK
  <2>2. dyn' \in Sequences(Rows, dynLen') /\ dynLen' \in Nat
    BY <2>1, NoRowsType
  <2>3. TypeOK'
    BY <2>1, <2>2 DEF TypeOK, runner, cache
  <2> QED
    BY <1>5, <2>1, <2>3 DEF GraphsLive, Modes, Holding, Fits, HeldLen,
                            runner, cache
<1>6. CASE Bypass
  <2>1. ~graphMode /\ held # "none" /\ 1 \in Nat
    BY <1>6 DEF Bypass, WantsToken, Modes, Holding, TypeOK
  <2>2. Text(inf) \in Rows
    BY SessionRow DEF Text, TypeOK
  <2>3. Append(1, Text(inf))
    BY <1>6 DEF Bypass
  <2>4. PICK m \in Nat : seen' \in Sequences(Rows, m)
    BY <2>1, <2>2, <2>3, AppendEffect
  <2>5. TypeOK'
    <3>1. /\ dynLen' \in Nat /\ dyn' \in Sequences(Rows, dynLen') /\ pos' \in Nat
          /\ cap' = cap /\ addr' = addr /\ buf' \in Sequences(Rows, cap)
          /\ graphMode' = graphMode /\ graphLen' = graphLen
      BY <2>1, <2>2, <2>3, AppendEffect
    <3>2. DOMAIN seen' \subseteq Nat /\ seen' \in [DOMAIN seen' -> Rows]
      BY <2>4, SequenceDomain
    <3> QED
      BY <1>6, <3>1, <3>2 DEF Bypass, TypeOK, runner, Rows
  <2> QED
    BY <1>6, <2>1, <2>2, <2>3, <2>5, AppendEffect
       DEF Bypass, WantsToken, GraphsLive, Modes, Holding, Fits, HeldLen,
           runner, TypeOK
<1>7. CASE BeginReuse
  <2>1. buf' \in Sequences(Rows, cap)
    BY <1>7, CopyPrefixType DEF BeginReuse, TypeOK
  <2>2. TypeOK'
    BY <1>7, <2>1 DEF BeginReuse, EnterDecode, TypeOK
  <2> QED
    BY <1>7, <2>2 DEF BeginReuse, EnterDecode, Begins, WantsToken, GraphsLive,
                      Modes, Holding, Fits, HeldLen, TypeOK
<1>8. CASE BeginRebuild
  <2>1. cap' \in Nat /\ buf' \in Sequences(Rows, cap')
    <3>1. dynLen \in Nat /\ dyn \in Sequences(Rows, dynLen)
      BY DEF TypeOK
    <3>2. cap' = dynLen + MaxNew + Margin /\ MaxNew \in Nat /\ Margin \in Nat
      BY <1>8, Lengths DEF BeginRebuild
    <3>3. cap' \in Nat
      BY <3>1, <3>2
    <3>4. buf' = Allocate(dyn, dynLen, cap', Junk)
      BY <1>8 DEF BeginRebuild
    <3> QED
      BY <3>1, <3>3, <3>4, AllocateType, JunkRow
  <2>2. TypeOK'
    BY <1>8, <2>1, NoGraphsType DEF BeginRebuild, EnterDecode, TypeOK
  <2>3. GraphsLive'
    BY <1>8, NoGraphsType DEF BeginRebuild, GraphsLive
  <2> QED
    BY <1>8, <2>2, <2>3 DEF BeginRebuild, EnterDecode, NeedsRebuild, Begins,
                      WantsToken,
                      Modes, Holding, Fits, HeldLen, TypeOK
<1>9. CASE BeginContinue
  BY <1>9 DEF BeginContinue, EnterDecode, Begins, WantsToken, GraphsLive,
              Modes, Holding, Fits, HeldLen, TypeOK
<1>10. CASE Warmup \/ Capture \/ Replay
  <2>1. /\ InDecodeForward /\ GraphsLive'
        /\ buf' \in Sequences(Rows, cap) /\ seen' \in Sequences(Rows, cpos + 1)
        /\ DOMAIN graphs' \subseteq Nat /\ graphs' \in [DOMAIN graphs' -> Baked]
    BY <1>10, ForwardEffect, ForwardGraphs
  <2>2. TypeOK'
    BY <2>1, NoRowsType, SequenceDomain DEF InDecodeForward, TypeOK, Rows
  <2> QED
    BY <2>1, <2>2 DEF InDecodeForward, Modes, Holding, Fits, HeldLen, TypeOK,
                      WantsToken
<1>11. CASE DeviceFault
  BY <1>11 DEF DeviceFault, TypeOK, GraphsLive, Modes, Holding, Fits, HeldLen,
               runner, cache, WantsToken
<1>12. CASE EndGenerate
  <2>1. HeldLen \in Nat /\ HeldLen' = HeldLen /\ prompt' = HeldLen
    BY <1>12 DEF EndGenerate, HeldLen, TypeOK
  <2>2. TypeOK'
    BY <1>12, <2>1 DEF EndGenerate, TypeOK
  <2> QED
    <3>1. GraphsLive' /\ Modes' /\ Holding'
      BY <1>12 DEF EndGenerate, GraphsLive, Modes, Holding
    <3>2. Fits'
      BY <1>12, <2>1 DEF EndGenerate, Fits
    <3> QED
      BY <2>2, <3>1, <3>2
<1>13. CASE RebuildRaises
  <2>1. /\ phase' = "idle" /\ held' = "none" /\ graphs' = NoGraphs
        /\ dyn' = NoRows /\ dynLen' = 0 /\ ~inDecode
        /\ UNCHANGED <<inf, padded, cpos, ntok, prompt, seen, overflowed,
                       baseLen, inDecode, step, sPos, sRope, cache, begun>>
    BY <1>13 DEF RebuildRaises, NeedsRebuild, Begins, Drop
  <2>2. dyn' \in Sequences(Rows, dynLen') /\ dynLen' \in Nat
    BY <2>1, NoRowsType
  <2>3. TypeOK' /\ GraphsLive'
    BY <2>1, <2>2, NoGraphsType DEF TypeOK, GraphsLive, cache
  <2> QED
    BY <2>1, <2>3 DEF Modes, Holding, Fits, HeldLen, cache
<1>14. CASE UNCHANGED vars
  BY <1>14 DEF vars, pipeline, runner, cache,
               TypeOK, GraphsLive, Modes, Holding, Fits, HeldLen
<1> QED
  BY <1>1, <1>2, <1>3, <1>4, <1>5, <1>6, <1>7, <1>8, <1>9, <1>10, <1>11,
     <1>12, <1>13, <1>14 DEF Next

(* Every state of DecodeGraph is well typed, keeps only graphs over the     *)
(* buffers it has, and never reads past what it holds (graph.py:75-171).    *)
THEOREM StructureInvariant == Spec => []Structure
  BY StructureInit, StructureStep, PTL DEF Spec

(* Type correctness. *)
THEOREM TypeCorrect == Spec => []TypeOK
<1>1. Structure => TypeOK
  BY DEF Structure
<1> QED
  BY <1>1, StructureInvariant, PTL

(* No graph outlives the buffers whose address it bakes (graph.py:94-102).  *)
THEOREM GraphsAlwaysLive == Spec => []GraphsLive
<1>1. Structure => GraphsLive
  BY DEF Structure
<1> QED
  BY <1>1, StructureInvariant, PTL

(* No graph is lost or replaced but for an inference that brings another    *)
(* prompt length, whose rebuild may raise (graph.py:87-102).                *)
THEOREM GraphsPersistent == Spec => GraphsPersist
<1>1. Structure /\ [Next]_vars => NeedsRebuild \/ KeepsGraphs
  <2> SUFFICES ASSUME Structure, [Next]_vars, ~NeedsRebuild
               PROVE  KeepsGraphs
    OBVIOUS
  <2> USE DEF KeepsGraphs
  <2>1. CASE Warmup \/ Capture \/ Replay
    BY <2>1, ForwardGraphs
  <2>2. ~BeginRebuild /\ ~RebuildRaises
    BY DEF BeginRebuild, RebuildRaises
  <2>3. CASE ~(Warmup \/ Capture \/ Replay)
    <3>1. graphs' = graphs
      BY <2>2, <2>3 DEF Next, Prefill, NextTurn, FlowAppend, FlowCrop,
         EndInference, Overflow, AbortGenerate, Bypass, BeginReuse,
         BeginContinue, DeviceFault, EndGenerate, vars, runner
    <3> QED
      BY <3>1
  <2> QED
    BY <2>1, <2>3
<1> QED
  BY <1>1, StructureInvariant, PTL DEF Spec, GraphsPersist

-----------------------------------------------------------------------------
(* The session invariant: who owns the rows an inference will read.  It     *)
(* adds to Structure what makes the buffers mean the current inference.     *)

(* From _begin_inference on, the write pointer, generate()'s position, the  *)
(* rope delta and the copied rows belong to this inference.                 *)
Moved == phase \in {"decode", "forward"} /\ inDecode /\ begun =>
           /\ cpos = pos /\ sRope = inf
           /\ held = "dynamic" => /\ phase = "forward"
                                  /\ dynLen = pos /\ pos <= cap
                                  /\ dyn = Prefix(buf, pos)

(* Before it, generate()'s position is the length of the cache it holds.    *)
InStep == phase = "decode" /\ ~inDecode => cpos = HeldLen

(* Only an exception in generate() lets in_decode outlive its inference.    *)
NoLeak == ~GenAborts => /\ inDecode => /\ begun
                                       /\ phase \in {"decode", "forward", "fault"}
                        /\ held = "runner" => begun

Own == phase \notin {"idle", "fault"} =>
         /\ held = "dynamic" => OwnRows(inf, dyn)
         /\ held = "runner" /\ begun => OwnRows(inf, Prefix(buf, pos))

Session == Moved /\ InStep /\ NoLeak /\ Own /\ LeakIsConfined

IInv == Structure /\ Session

(* Before the first prefill nobody owns a row.                              *)
LEMMA SessionInit == Init => Session
  BY DEF Init, Session, Moved, InStep, NoLeak, Own, LeakIsConfined

(* An eager forward appends a row of this inference to what it holds.       *)
LEMMA AppendExtends ==
  ASSUME Structure, NEW n \in Nat, NEW row \in Rows,
         Append(n, row), ~graphMode, held # "none"
  PROVE  /\ held = "dynamic" => /\ dyn' = Concat(dyn, dynLen, n, row)
                                /\ dynLen' = dynLen + n /\ seen' = dyn'
                                /\ buf' = buf /\ pos' = pos
         /\ held = "runner" => /\ Prefix(buf', pos')
                                    = Concat(Prefix(buf, pos), pos, n, row)
                               /\ pos' = pos + n /\ seen' = Prefix(buf', pos')
<1>1. CASE held = "dynamic"
  BY <1>1 DEF Append, cache
<1>2. CASE held = "runner"
  <2>1. /\ buf' = WriteSlice(buf, pos, n, row)
        /\ pos' = pos + n /\ seen' = Prefix(buf', pos') /\ pos' <= cap
    BY <1>2 DEF Append, Overflows, IndexWrite, Structure, TypeOK
  <2> QED
    BY <1>2, <2>1, PrefixOfWrite DEF Structure, TypeOK
<1> QED
  BY <1>1, <1>2 DEF Structure, TypeOK

(* So does a decode forward of the runner, for an inference whose KV was    *)
(* moved into the buffers.                                                  *)
LEMMA ForwardExtends ==
  ASSUME Structure, Moved, begun, Warmup \/ Capture \/ Replay
  PROVE  /\ Prefix(buf', pos') = Concat(Prefix(buf, pos), pos, 1, Text(inf))
         /\ pos' = pos + 1 /\ seen' = Prefix(buf', pos') /\ pos < cap
         /\ held = "dynamic" => dyn = Prefix(buf, pos) /\ dynLen = pos
<1>1. /\ InDecodeForward
      /\ buf' = WriteSlice(buf, cpos, 1, KVRow(inf, sRope, "text"))
      /\ seen' = Prefix(buf', cpos + 1)
  BY ForwardEffect
<1>2. cpos = pos /\ sRope = inf /\ phase \in {"decode", "forward"}
  BY <1>1 DEF InDecodeForward, WantsToken, Moved
<1>3. pos' = pos + 1 /\ pos < cap /\ pos \in Nat /\ cap \in Nat /\ pos + 1 <= cap
  BY <1>1, <1>2 DEF InDecodeForward, Structure, TypeOK
<1>4. buf \in Sequences(Rows, cap) /\ Text(inf) \in Rows
  BY SessionRow DEF Structure, TypeOK, Text
<1>5. Prefix(buf', pos + 1) = Concat(Prefix(buf, pos), pos, 1, Text(inf))
  BY <1>1, <1>2, <1>3, <1>4, PrefixOfWrite DEF Text
<1> QED
  BY <1>1, <1>2, <1>3, <1>5 DEF InDecodeForward, Moved
(* An eager forward of the current inference keeps Own and LeakIsConfined.  *)
LEMMA AppendKeepsOwn ==
  ASSUME IInv, NEW n \in Nat, NEW k \in {"text", "action"},
         Append(n, KVRow(inf, inf, k)), ~graphMode,
         phase \in {"decode", "flow"}, UNCHANGED <<inf, held, begun>>
  PROVE  Own' /\ LeakIsConfined'
<1> DEFINE row == KVRow(inf, inf, k)
<1>1. row \in Rows /\ row \in RowsOf(inf)
  BY SessionRow DEF IInv, Structure, TypeOK
<1> HIDE DEF row
<1>2. held # "none"
  BY DEF IInv, Structure, Holding
<1>3. CASE held = "dynamic"
  <2>1. dyn' = Concat(dyn, dynLen, n, row) /\ seen' = dyn'
    BY <1>1, <1>3, AppendExtends DEF IInv, row
  <2>2. OwnRows(inf, dyn) /\ dyn \in Sequences(Rows, dynLen) /\ dynLen \in Nat
    BY <1>3 DEF IInv, Session, Own, Structure, TypeOK
  <2>3. OwnRows(inf, dyn')
    BY <1>1, <2>1, <2>2, OwnConcat
  <2> QED
    BY <1>3, <2>1, <2>3 DEF Own, LeakIsConfined, OwnRows
<1>4. CASE held = "runner" /\ begun
  <2>1. /\ Prefix(buf', pos') = Concat(Prefix(buf, pos), pos, n, row)
        /\ seen' = Prefix(buf', pos')
    BY <1>1, <1>4, AppendExtends DEF IInv, row
  <2>2. /\ OwnRows(inf, Prefix(buf, pos)) /\ Prefix(buf, pos) \in Sequences(Rows, pos)
        /\ pos \in Nat
    BY <1>4, PrefixType DEF IInv, Session, Own, Structure, TypeOK, Fits
  <2>3. OwnRows(inf, Prefix(buf', pos'))
    BY <1>1, <2>1, <2>2, OwnConcat
  <2> QED
    BY <1>4, <2>1, <2>3 DEF Own, LeakIsConfined, OwnRows
<1>5. CASE held = "runner" /\ ~begun
  BY <1>5 DEF Own, LeakIsConfined
<1> QED
  BY <1>2, <1>3, <1>4, <1>5 DEF IInv, Structure, TypeOK

(* Every step keeps what an inference attends to its own: prefill and the   *)
(* copy of _begin_inference bring in its rows, each forward adds one        *)
(* (graph.py:84-117, 132-171).                                              *)
THEOREM SessionStep == IInv /\ [Next]_vars => Session'
<1> SUFFICES ASSUME IInv, [Next]_vars PROVE Session'
  OBVIOUS
<1> USE DEF Session
<1>0. TypeOK /\ Modes /\ Holding /\ Fits /\ Structure'
  BY StructureStep DEF IInv, Structure
<1>1. ASSUME NEW i \in Inferences, NEW b \in PromptLens, NEW pad \in BOOLEAN,
             Prefill(i, b, pad)
      PROVE  Session'
  <2>1. b \in Nat /\ dyn' = Fill(b, Text(i)) /\ seen' = dyn' /\ inf' = i
    BY <1>1, Lengths DEF Prefill
  <2>2. OwnRows(inf, dyn)' /\ OwnRows(inf, seen)'
    BY <2>1, SessionRow, OwnFill DEF Text
  <2>3. NoLeak'
    BY <1>1 DEF IInv, NoLeak, Prefill, runner
  <2> QED
    BY <1>1, <2>2, <2>3
       DEF Prefill, Moved, InStep, Own, LeakIsConfined, HeldLen, runner
<1>2. CASE NextTurn
  <2>1. ~graphMode /\ ~inDecode /\ TurnTokens \in Nat /\ held # "none"
    BY <1>0, <1>2, Lengths DEF NextTurn, Modes, Holding
  <2>2. Append(TurnTokens, KVRow(inf, inf, "text"))
    BY <1>2 DEF NextTurn, Text
  <2>3. Own' /\ LeakIsConfined'
    BY <1>2, <2>1, <2>2, AppendKeepsOwn DEF NextTurn
  <2>4. HeldLen' = HeldLen + TurnTokens
    BY <1>0, <1>2, <2>1, <2>2, AppendEffect, SessionRow
       DEF NextTurn, HeldLen, IInv, TypeOK
  <2>5. InStep'
    BY <1>2, <2>4 DEF NextTurn, InStep
  <2> QED
    BY <1>2, <2>1, <2>3, <2>5 DEF IInv, NextTurn, Moved, NoLeak, runner
<1>3. CASE FlowAppend
  <2>1. ~graphMode /\ ~inDecode /\ FlowTokens \in Nat
    BY <1>0, <1>3, Lengths DEF FlowAppend, Modes
  <2>2. Append(FlowTokens, KVRow(inf, inf, "action"))
    BY <1>3 DEF FlowAppend, Action
  <2>3. Own' /\ LeakIsConfined'
    BY <1>3, <2>1, <2>2, AppendKeepsOwn DEF FlowAppend
  <2> QED
    BY <1>3, <2>1, <2>3
       DEF IInv, FlowAppend, Moved, InStep, NoLeak, runner
<1>4. CASE FlowCrop
  <2>1. held = "dynamic" => OwnRows(inf, dyn')
    BY <1>0, <1>4, OwnPrefix DEF IInv, FlowCrop, Own, Fits, HeldLen, TypeOK
  <2>2. held = "runner" /\ begun => OwnRows(inf, Prefix(buf', pos'))
    <3> SUFFICES ASSUME held = "runner", begun PROVE OwnRows(inf, Prefix(buf', pos'))
      OBVIOUS
    <3>1. prompt <= pos /\ pos' = prompt /\ buf' = buf
      BY <1>0, <1>4 DEF FlowCrop, Fits, HeldLen, TypeOK
    <3>2. Prefix(buf, pos) \in Sequences(Rows, pos) /\ OwnRows(inf, Prefix(buf, pos))
      BY <1>0, <1>4, PrefixType DEF IInv, FlowCrop, Own, Fits, TypeOK
    <3>3. OwnRows(inf, Prefix(Prefix(buf, pos), prompt))
      BY <1>0, <3>1, <3>2, OwnPrefix DEF TypeOK
    <3> QED
      BY <1>0, <3>1, <3>3, PrefixOfPrefix DEF TypeOK
  <2>3. Own'
    BY <1>4, <2>1, <2>2 DEF FlowCrop, Own, OwnRows
  <2> QED
    BY <1>4, <2>3 DEF IInv, FlowCrop, Moved, InStep, NoLeak, LeakIsConfined,
                      OwnRows, runner
<1>5. CASE EndInference \/ Overflow \/ AbortGenerate \/ RebuildRaises
  <2>1. /\ phase' = "idle" /\ held' = "none"
        /\ UNCHANGED <<inDecode, begun>>
        /\ ~GenAborts => phase \in {"flow", "crop"}
    BY <1>5 DEF EndInference, Overflow, AbortGenerate, RebuildRaises, Drop, runner
  <2>2. NoLeak'
    BY <1>0, <2>1 DEF IInv, NoLeak, Modes
  <2> QED
    BY <2>1, <2>2 DEF Moved, InStep, Own, LeakIsConfined
<1>6. CASE Bypass
  <2>1. /\ ~graphMode /\ ~inDecode /\ held # "none"
        /\ phase = "decode" /\ phase' = "decode"
    BY <1>0, <1>6 DEF Bypass, WantsToken, Modes, Holding
  <2>2. Append(1, KVRow(inf, inf, "text"))
    BY <1>6 DEF Bypass, Text
  <2>3. Own' /\ LeakIsConfined'
    BY <1>6, <2>1, <2>2, AppendKeepsOwn DEF Bypass
  <2>4. HeldLen' = HeldLen + 1
    BY <1>0, <1>6, <2>1, <2>2, AppendEffect, SessionRow
       DEF Bypass, HeldLen, IInv, TypeOK
  <2>5. InStep'
    BY <1>6, <2>1, <2>4 DEF IInv, Bypass, InStep
  <2> QED
    BY <1>6, <2>1, <2>3, <2>5 DEF IInv, Bypass, Moved, NoLeak, runner
<1>7. CASE BeginReuse \/ BeginRebuild
  <2>1. /\ phase = "decode" /\ phase' = "forward" /\ held = "dynamic"
        /\ begun' /\ sRope' = inf' /\ cpos = HeldLen
        /\ UNCHANGED <<inf, held, dyn, dynLen, cpos, seen>>
    BY <1>7 DEF IInv, BeginReuse, BeginRebuild, EnterDecode,
                NeedsRebuild, Begins, WantsToken, InStep
  <2>2. pos' = dynLen /\ dynLen <= cap' /\ dyn = Prefix(buf', dynLen)
    <3>1. dynLen \in Nat /\ dyn \in Sequences(Rows, dynLen) /\ cap \in Nat
          /\ buf \in Sequences(Rows, cap)
      BY <1>0 DEF TypeOK
    <3>2. CASE BeginReuse
      <4>1. dynLen <= cap
        BY <1>0, <3>1, <3>2, Lengths DEF BeginReuse, SameBase, Fits, TypeOK
      <4> QED
        BY <3>1, <3>2, <4>1, PrefixOfCopy DEF BeginReuse
    <3>3. CASE BeginRebuild
      <4>1. cap' = dynLen + MaxNew + Margin /\ cap' \in Nat /\ dynLen <= cap'
        BY <3>1, <3>3, Lengths DEF BeginRebuild
      <4> QED
        BY <3>1, <3>3, <4>1, PrefixOfAllocate DEF BeginRebuild
    <3> QED
      BY <1>7, <3>2, <3>3
  <2>3. Moved'
    BY <2>1, <2>2 DEF Moved, HeldLen
  <2>4. Own' /\ LeakIsConfined'
    BY <2>1 DEF IInv, Own, LeakIsConfined, OwnRows
  <2> QED
    BY <2>1, <2>3, <2>4 DEF InStep, NoLeak
<1>8. CASE BeginContinue
  BY <1>8 DEF IInv, BeginContinue, EnterDecode, Begins, WantsToken, Moved,
              InStep, NoLeak, Own, LeakIsConfined, OwnRows, HeldLen
<1>9. CASE Warmup \/ Capture \/ Replay
  <2>1. /\ phase' = "decode" /\ held' = "runner" /\ cpos' = pos'
        /\ phase \in {"decode", "forward"} /\ inDecode /\ inDecode'
        /\ UNCHANGED <<inf, sRope, inDecode, begun>>
    BY <1>9, ForwardEffect DEF IInv, InDecodeForward, WantsToken
  <2>2. Moved' /\ InStep' /\ NoLeak'
    BY <2>1 DEF IInv, Moved, InStep, NoLeak
  <2>3. ASSUME begun PROVE OwnRows(inf, Prefix(buf', pos')) /\ seen' = Prefix(buf', pos')
    <3>1. /\ Prefix(buf', pos') = Concat(Prefix(buf, pos), pos, 1, Text(inf))
          /\ seen' = Prefix(buf', pos') /\ pos < cap
          /\ held = "dynamic" => dyn = Prefix(buf, pos)
      BY <1>9, <2>3, ForwardExtends DEF IInv
    <3>2. pos \in Nat /\ Prefix(buf, pos) \in Sequences(Rows, pos)
      BY <1>0, <3>1, PrefixType DEF TypeOK
    <3>3. OwnRows(inf, Prefix(buf, pos))
      BY <1>0, <2>1, <2>3, <3>1 DEF IInv, Own, Holding, TypeOK
    <3>4. Text(inf) \in Rows /\ Text(inf) \in RowsOf(inf)
      BY <1>0, SessionRow DEF Text, TypeOK
    <3> QED
      BY <3>1, <3>2, <3>3, <3>4, OwnConcat
  <2>4. Own' /\ LeakIsConfined'
    BY <2>1, <2>3 DEF Own, LeakIsConfined, OwnRows
  <2> QED
    BY <2>2, <2>4
<1>10. CASE DeviceFault
  BY <1>10 DEF IInv, DeviceFault, WantsToken, Moved, InStep, NoLeak, Own,
               LeakIsConfined, OwnRows, runner, cache
<1>11. CASE EndGenerate
  BY <1>11 DEF IInv, EndGenerate, Moved, InStep, NoLeak, Own,
               LeakIsConfined, OwnRows
<1>12. CASE UNCHANGED vars
  BY <1>12 DEF IInv, vars, pipeline, runner, cache, Moved, InStep,
               NoLeak, Own, LeakIsConfined, OwnRows, HeldLen
<1> QED
  BY <1>1, <1>2, <1>3, <1>4, <1>5, <1>6, <1>7, <1>8, <1>9, <1>10, <1>11,
     <1>12 DEF Next

(* The session invariant holds in every state. *)
THEOREM SessionInvariant == Spec => []IInv
<1>1. Init => IInv
  BY StructureInit, SessionInit DEF IInv
<1>2. IInv /\ [Next]_vars => IInv'
  BY StructureStep, SessionStep DEF IInv
<1> QED
  BY <1>1, <1>2, PTL DEF Spec

(* An exception in generate() corrupts no inference whose KV was moved by   *)
(* _begin_inference (graph.py:58-61, 84-117).                               *)
THEOREM LeakConfined == Spec => []LeakIsConfined
<1>1. IInv => LeakIsConfined
  BY DEF IInv, Session
<1> QED
  BY <1>1, SessionInvariant, PTL

(* A decode mode left behind takes an exception in generate().              *)
THEOREM OnlyAbortsLeak == ~GenAborts => (Spec => []~Leaked)
<1>1. CASE ~GenAborts
  <2>1. IInv => ~Leaked
    BY <1>1 DEF IInv, Session, NoLeak, Leaked
  <2> QED
    BY <2>1, SessionInvariant, PTL
<1>2. CASE GenAborts
  BY <1>2
<1> QED
  BY <1>1, <1>2

(* The buffers are only used by inferences whose KV was moved there.        *)
Unspoilt == held = "runner" => begun

(* As long as nothing runs in a decode mode left behind they are; after     *)
(* that only until the cache that a forward there returned is dropped.      *)
LEMMA UnspoiltStep == IInv /\ Unspoilt /\ ~Leaked /\ [Next]_vars => Unspoilt'
<1> SUFFICES ASSUME IInv, Unspoilt, ~Leaked, [Next]_vars PROVE Unspoilt'
  OBVIOUS
<1>1. CASE Warmup \/ Capture \/ Replay
  BY <1>1, ForwardEffect DEF IInv, InDecodeForward, WantsToken, Leaked, Unspoilt
<1>2. CASE BeginReuse \/ BeginRebuild \/ BeginContinue
  BY <1>2 DEF BeginReuse, BeginRebuild, BeginContinue, EnterDecode, Unspoilt
<1>3. CASE Bypass \/ NextTurn \/ FlowAppend \/ FlowCrop
  BY <1>3 DEF Bypass, NextTurn, FlowAppend, FlowCrop, Unspoilt
<1>4. CASE EndInference \/ Overflow \/ AbortGenerate \/ RebuildRaises
  BY <1>4 DEF EndInference, Overflow, AbortGenerate, RebuildRaises, Drop, Unspoilt
<1>5. CASE DeviceFault \/ EndGenerate \/ UNCHANGED vars
  BY <1>5 DEF DeviceFault, EndGenerate, vars, pipeline, Unspoilt
<1>6. ASSUME NEW i \in Inferences, NEW b \in PromptLens, NEW pad \in BOOLEAN,
             Prefill(i, b, pad)
      PROVE  Unspoilt'
  BY <1>6 DEF Prefill, Unspoilt
<1> QED
  BY <1>1, <1>2, <1>3, <1>4, <1>5, <1>6 DEF Next

(* Unless an inference runs in a decode mode left behind, no forward ever   *)
(* attends to a row another inference left in the persistent buffers        *)
(* (graph.py:15-18).                                                        *)
THEOREM NoStaleReads == Spec /\ []~Leaked => []NoStaleRead
<1>1. Init => Unspoilt
  BY DEF Init, Unspoilt
<1>2. IInv /\ Unspoilt => NoStaleRead
  <2> SUFFICES ASSUME IInv, Unspoilt, phase # "idle" PROVE OwnRows(inf, seen)
    BY DEF NoStaleRead
  <2>1. begun \/ held = "dynamic"
    BY DEF IInv, Structure, TypeOK, Unspoilt, Holding, Session, LeakIsConfined
  <2> QED
    BY <2>1 DEF IInv, Session, LeakIsConfined
<1> QED
  BY <1>1, <1>2, UnspoiltStep, SessionInvariant, PTL DEF Spec

-----------------------------------------------------------------------------
(* DecodeGraph implements EagerSession.                                     *)

(* The operators of EagerSession are those of this module under the         *)
(* mapping.                                                                 *)
LEMMA SameOperators ==
  /\ Eager!NoRows = NoRows
  /\ \A n, row : Eager!Fill(n, row) = Fill(n, row)
  /\ \A b, n : Eager!Prefix(b, n) = Prefix(b, n)
  /\ \A b, l, n, row : Eager!Concat(b, l, n, row) = Concat(b, l, n, row)
  /\ \A i : Eager!Text(i) = Text(i) /\ Eager!Action(i) = Action(i)
  BY DEF NoRows, Fill, Prefix, Concat, Text, Action, KVRow, Positions,
         Eager!NoRows, Eager!Fill, Eager!Prefix, Eager!Concat, Eager!Text,
         Eager!Action, Eager!KVRow, Eager!Positions

(* The initial states are those of the stock program.                       *)
LEMMA EagerInit == Init => Eager!Init
  BY SameOperators
     DEF Init, Eager!Init, AbsPhase, AbsKV, AbsLen, HeldLen

(* Growing the cache the inference holds grows the eager one. *)
LEMMA AppendGrows ==
  ASSUME Structure, NEW n \in Nat, NEW row \in Rows,
         Append(n, row), ~graphMode, held # "none", held' = held,
         phase # "fault", phase' # "fault"
  PROVE  Eager!Grow(n, row)
<1>1. CASE held = "dynamic"
  BY <1>1, AppendExtends, SameOperators
     DEF Eager!Grow, AbsKV, AbsLen, HeldLen
<1>2. CASE held = "runner"
  BY <1>2, AppendExtends, SameOperators
     DEF Eager!Grow, AbsKV, AbsLen, HeldLen
<1> QED
  BY <1>1, <1>2 DEF Structure, TypeOK

(* Every step of the runner is a step of the stock program or invisible to  *)
(* it, but for the forwards in a decode mode left behind (graph.py:75-171). *)
THEOREM EagerStep ==
  IInv /\ IInv' /\ [Next]_vars => [Leaked \/ Eager!Next]_(Eager!vars)
<1> SUFFICES ASSUME ~Leaked, IInv, IInv', [Next]_vars
             PROVE  Eager!Next \/ UNCHANGED Eager!vars
  OBVIOUS
<1>0. TypeOK /\ Modes /\ Holding /\ Structure /\ Session
  BY DEF IInv, Structure
<1>1. ASSUME NEW i \in Inferences, NEW b \in PromptLens, NEW pad \in BOOLEAN,
             Prefill(i, b, pad)
      PROVE  Eager!Prefill(i, b)
  BY <1>1, SameOperators
     DEF Prefill, Eager!Prefill, AbsPhase, AbsKV, AbsLen, HeldLen
<1>2. CASE NextTurn
  <2>1. Eager!Grow(TurnTokens, Text(inf))
    BY <1>0, <1>2, AppendGrows, SessionRow, Lengths
       DEF NextTurn, Modes, Holding, Text, TypeOK
  <2>2. Eager!NextTurn
    BY <1>2, <2>1, SameOperators DEF NextTurn, Eager!NextTurn, AbsPhase
  <2> QED
    BY <2>2 DEF Eager!Next
<1>3. CASE FlowAppend
  <2>1. Eager!Grow(FlowTokens, Action(inf))
    BY <1>0, <1>3, AppendGrows, SessionRow, Lengths
       DEF FlowAppend, Modes, Holding, Action, TypeOK
  <2>2. Eager!FlowAppend
    BY <1>3, <2>1, SameOperators DEF FlowAppend, Eager!FlowAppend, AbsPhase
  <2> QED
    BY <2>2 DEF Eager!Next
<1>4. CASE FlowCrop
  <2>1. ASSUME held = "dynamic" PROVE Eager!FlowCrop
    BY <1>4, <2>1, SameOperators
       DEF FlowCrop, Eager!FlowCrop, AbsPhase, AbsKV, AbsLen, HeldLen
  <2>2. ASSUME held = "runner" PROVE Eager!FlowCrop
    <3>1. prompt <= pos /\ pos \in Nat /\ prompt \in Nat
      BY <1>0, <1>4, <2>2 DEF FlowCrop, Structure, Fits, HeldLen, TypeOK
    <3>2. pos' = prompt /\ buf' = buf
      BY <1>4, <2>2, <3>1 DEF FlowCrop
    <3>3. Prefix(buf, prompt) = Prefix(Prefix(buf, pos), prompt)
      BY <3>1, PrefixOfPrefix
    <3> QED
      BY <1>4, <2>2, <3>2, <3>3, SameOperators
         DEF FlowCrop, Eager!FlowCrop, AbsPhase, AbsKV, AbsLen, HeldLen
  <2>3. Eager!FlowCrop
    BY <1>0, <1>4, <2>1, <2>2 DEF FlowCrop, Holding, TypeOK
  <2> QED
    BY <2>3 DEF Eager!Next
<1>5. CASE EndInference \/ Overflow \/ AbortGenerate \/ RebuildRaises
  <2>1. Eager!EndInference
    BY <1>5, SameOperators
       DEF EndInference, Overflow, AbortGenerate, RebuildRaises, NeedsRebuild,
           Begins, WantsToken, Drop, Eager!EndInference,
           AbsPhase, AbsKV, AbsLen, HeldLen
  <2> QED
    BY <2>1 DEF Eager!Next
<1>6. CASE Bypass
  <2>1. Eager!Grow(1, Text(inf))
    BY <1>0, <1>6, AppendGrows, SessionRow
       DEF Bypass, WantsToken, Modes, Holding, Text, TypeOK
  <2>2. Eager!Decode
    BY <1>6, <2>1, SameOperators DEF Bypass, WantsToken, Eager!Decode, AbsPhase
  <2> QED
    BY <2>2 DEF Eager!Next
<1>7. CASE BeginReuse \/ BeginRebuild \/ BeginContinue
  <2>1. UNCHANGED <<inf, prompt, seen, held, dyn, dynLen>>
        /\ phase = "decode" /\ phase' = "forward"
    BY <1>7 DEF BeginReuse, BeginRebuild, NeedsRebuild, BeginContinue,
                EnterDecode, Begins, WantsToken
  <2>2. held = "runner" => buf' = buf /\ pos' = pos
    BY <1>7 DEF BeginReuse, BeginRebuild, NeedsRebuild, BeginContinue
  <2>3. UNCHANGED Eager!vars
    BY <2>1, <2>2 DEF Eager!vars, AbsPhase, AbsKV, AbsLen, HeldLen
  <2> QED
    BY <2>3
<1>8. CASE Warmup \/ Capture \/ Replay
  <2>1. /\ phase \in {"decode", "forward"} /\ phase' = "decode" /\ inDecode
        /\ held' = "runner" /\ UNCHANGED <<inf, prompt>>
    BY <1>0, <1>8, ForwardEffect DEF InDecodeForward, WantsToken
  <2>2. begun
    BY <2>1 DEF Leaked
  <2>3. /\ Prefix(buf', pos') = Concat(Prefix(buf, pos), pos, 1, Text(inf))
        /\ pos' = pos + 1 /\ seen' = Prefix(buf', pos')
        /\ held = "dynamic" => dyn = Prefix(buf, pos) /\ dynLen = pos
    BY <1>0, <1>8, <2>2, ForwardExtends DEF Session
  <2>4. AbsKV = Prefix(buf, pos) /\ AbsLen = pos
    BY <1>0, <2>1, <2>3 DEF AbsKV, AbsLen, HeldLen, Holding, TypeOK
  <2>5. AbsKV' = Prefix(buf', pos') /\ AbsLen' = pos'
    BY <2>1 DEF AbsKV, AbsLen, HeldLen
  <2>6. Eager!Decode
    BY <2>1, <2>3, <2>4, <2>5, SameOperators
       DEF Eager!Decode, Eager!Grow, AbsPhase
  <2> QED
    BY <2>6 DEF Eager!Next
<1>9. CASE DeviceFault
  <2>1. Eager!EndInference
    BY <1>9, SameOperators
       DEF DeviceFault, WantsToken, Eager!EndInference, AbsPhase, AbsKV,
           AbsLen, HeldLen
  <2> QED
    BY <2>1 DEF Eager!Next
<1>10. CASE EndGenerate
  <2>1. Eager!EndGenerate
    BY <1>10 DEF EndGenerate, Eager!EndGenerate, AbsPhase, AbsKV, AbsLen, HeldLen
  <2> QED
    BY <2>1 DEF Eager!Next
<1>11. CASE UNCHANGED vars
  BY <1>11 DEF vars, pipeline, runner, cache, Eager!vars, AbsPhase,
               AbsKV, AbsLen, HeldLen
<1> QED
  BY <1>1, <1>2, <1>3, <1>4, <1>5, <1>6, <1>7, <1>8, <1>9, <1>10, <1>11
     DEF Next, Eager!Next

(* What an exception in generate() leaves behind spoils the forwards of an  *)
(* inference that finds it and nothing else: all other steps, before it,    *)
(* after it, and of its own flow, are the stock program's (graph.py:58-61). *)
THEOREM SpoilsOneInference == Spec => EagerUnlessLeaked
BY EagerInit, EagerStep, SessionInvariant, PTL DEF Spec, EagerUnlessLeaked

(* Unless an inference runs in a decode mode left behind, a program with    *)
(* the graphs installed behaves like the stock one: every forward of every  *)
(* inference, decode and flow, attends to the rows it would have attended   *)
(* to (graph.py:1-20).                                                      *)
THEOREM Refinement == Spec /\ []~Leaked => RefinesEager
<1>1. ~Leaked /\ [Leaked \/ Eager!Next]_(Eager!vars) => [Eager!Next]_(Eager!vars)
  OBVIOUS
<1> QED
  BY <1>1, SpoilsOneInference, PTL DEF EagerUnlessLeaked, RefinesEager, Eager!Spec
-----------------------------------------------------------------------------
(* Room in the buffers.                                                     *)

(* What the buffers must hold past the prompt: the tokens generate() feeds  *)
(* back (all but the last it generates) and the flow expert's own.          *)
Headroom == GenBudget - 1 + FlowTokens <= MaxNew + Margin

(* The tokens generate() and then flow may still append fit.                *)
Reserve == GenBudget - ntok + FlowTokens

(* The inference uses the runner's buffers only after its KV was moved.     *)
Proper == Unspoilt /\ ~Leaked

(* There is room for what generate() and then flow may still append.        *)
Reserved ==
  /\ phase \in {"decode", "forward"} =>
       /\ 1 <= ntok /\ ntok <= GenBudget
       /\ held = "runner" \/ phase = "forward" =>
            ~padded /\ pos + Reserve <= cap /\ pos = cpos
       /\ ~inDecode /\ held = "dynamic" /\ ~padded => ntok = 1
       /\ phase = "forward" => ntok < GenBudget
  /\ phase = "flow" /\ held = "runner" => ~padded /\ pos + FlowTokens <= cap
  /\ phase = "crop" /\ held = "runner" => ~padded /\ prompt + FlowTokens <= cap
  /\ phase \in {"flow", "crop"} /\ held = "runner" => prompt <= pos

(* It does not take that no exception left a decode mode behind: only that  *)
(* it left none to the inference at hand.                                  *)
Room == (Proper => Reserved) /\ (phase # "idle" => ~overflowed) /\ MovedFits

(* At first nothing is held and nothing overflowed.                         *)
LEMMA RoomInit == Init => Room
  BY DEF Init, Room, Reserved, MovedFits, NoOverflow

(* Neither kind of overflow happens to a proper inference.                  *)
LEMMA ProperFits ==
  ASSUME IInv, Proper, Reserved
  PROVE  ~Overflow /\ ~DeviceFault
<1>0. /\ TypeOK /\ Modes /\ Holding /\ Fits /\ Moved
  BY DEF IInv, Structure, Session
<1>n. /\ GenBudget \in Nat /\ FlowTokens \in Nat /\ FlowTokens >= 1
  BY Lengths
<1>1. ~Overflow
  BY <1>0, <1>n DEF Overflow, Overflows, Reserved, TypeOK
<1>2. ~DeviceFault
  <2> SUFFICES ASSUME DeviceFault PROVE FALSE
    OBVIOUS
  <2>1. /\ phase \in {"decode", "forward"} /\ inDecode /\ cpos >= cap
        /\ ntok < GenBudget
    BY DEF DeviceFault, WantsToken, Reserved
  <2>2. held = "runner" \/ phase = "forward"
    BY <1>0, <2>1 DEF Proper, Leaked, Moved, Holding, TypeOK
  <2> QED
    BY <1>0, <1>n, <2>1, <2>2 DEF Reserved, Reserve, TypeOK
<1> QED
  BY <1>1, <1>2

(* One whose KV was moved is proper.                                        *)
LEMMA MovedProper == begun => Proper
  BY DEF Proper, Unspoilt, Leaked

(* With headroom for the whole of generate() and flow, each step leaves     *)
(* what the rest may still append (graph.py:100, cache.py:59-65).           *)
LEMMA ReservedStep ==
  ASSUME Headroom, IInv, IInv', Proper => Reserved, [Next]_vars
  PROVE  Proper' => Reserved'
<1> SUFFICES ASSUME Proper' PROVE Reserved'
  OBVIOUS
<1>0. /\ TypeOK /\ TypeOK' /\ Modes /\ Holding /\ Fits /\ Structure
      /\ Moved /\ InStep /\ Moved' /\ InStep'
  BY DEF IInv, Structure, Session
<1> DEFINE Nats == /\ GenBudget \in Nat /\ GenBudget >= 1 /\ FlowTokens \in Nat
                   /\ FlowTokens >= 1 /\ TurnTokens \in Nat
                   /\ MaxNew \in Nat /\ Margin \in Nat
<1>n. Nats
  BY Lengths
<1>1. ASSUME NEW i \in Inferences, NEW b \in PromptLens, NEW pad \in BOOLEAN,
             Prefill(i, b, pad)
      PROVE  Reserved'
  BY <1>1, <1>n DEF Prefill, Reserved
<1>2. CASE NextTurn
  <2>1. ~graphMode /\ held # "none" /\ phase = "flow" /\ phase' = "decode"
        /\ UNCHANGED <<held, padded, begun>> /\ ntok' = 1
    BY <1>0, <1>2 DEF NextTurn, Modes, Holding
  <2>2. held = "runner" => pos' = pos + TurnTokens /\ cap' = cap
                           /\ pos' = cpos'
    BY <1>0, <1>2, <1>n, <2>1, AppendEffect, SessionRow
       DEF NextTurn, HeldLen, Text, TypeOK
  <2>3. held = "runner" => pos + TurnTokens + (GenBudget - 1) + FlowTokens <= cap
    BY <1>2 DEF NextTurn, TurnFits
  <2>4. Reserved
    BY <2>1 DEF Proper, Unspoilt, Leaked
  <2> QED
    BY <1>0, <1>n, <2>1, <2>2, <2>3, <2>4 DEF Reserved, Reserve, TypeOK
<1>3. CASE FlowAppend
  <2>1. ~graphMode /\ held # "none" /\ phase = "flow" /\ phase' = "crop"
        /\ UNCHANGED <<held, padded, prompt, begun>>
    BY <1>0, <1>3 DEF FlowAppend, Modes, Holding
  <2>2. held = "runner" => pos' = pos + FlowTokens /\ cap' = cap
    BY <1>0, <1>3, <1>n, <2>1, AppendEffect, SessionRow
       DEF FlowAppend, Action, TypeOK
  <2>3. Reserved
    BY <2>1 DEF Proper, Unspoilt, Leaked
  <2> QED
    BY <1>0, <1>n, <2>1, <2>2, <2>3 DEF Reserved, TypeOK
<1>4. CASE FlowCrop
  <2>1. Reserved
    BY <1>4 DEF FlowCrop, Proper, Unspoilt, Leaked
  <2> QED
    BY <1>0, <1>4, <1>n, <2>1 DEF FlowCrop, Reserved, TypeOK
<1>5. CASE EndInference \/ AbortGenerate \/ RebuildRaises \/ Overflow
  BY <1>5 DEF EndInference, AbortGenerate, RebuildRaises, Overflow, Drop, Reserved
<1>6. CASE DeviceFault
  BY <1>6 DEF DeviceFault, Reserved
<1>7. CASE Bypass
  <2>1. phase = "decode" /\ ~inDecode /\ padded /\ ntok < GenBudget
        /\ UNCHANGED <<phase, padded, held, begun>> /\ ntok' = ntok + 1
    BY <1>7 DEF Bypass, WantsToken
  <2>2. Reserved
    BY <2>1 DEF Proper, Unspoilt, Leaked
  <2>3. held = "dynamic"
    BY <1>0, <2>1, <2>2 DEF Reserved, Holding, TypeOK
  <2> QED
    BY <1>0, <1>n, <2>1, <2>2, <2>3 DEF Reserved, TypeOK
<1>8. CASE BeginReuse \/ BeginRebuild
  <2>1. /\ phase = "decode" /\ phase' = "forward" /\ held = "dynamic"
        /\ held' = "dynamic" /\ ~padded /\ ~padded' /\ ntok' = ntok
        /\ ntok < GenBudget /\ ~inDecode /\ cpos' = cpos
    BY <1>8 DEF BeginReuse, BeginRebuild, NeedsRebuild, EnterDecode, Begins,
                WantsToken
  <2>2. ntok = 1 /\ cpos = dynLen
    BY <1>0, <2>1 DEF Reserved, InStep, HeldLen, Proper, Unspoilt, Leaked
  <2>3. pos' = dynLen /\ cap' = dynLen + MaxNew + Margin
    BY <1>0, <1>8 DEF BeginReuse, BeginRebuild, SameBase, Fits
  <2> QED
    BY <1>0, <1>n, <2>1, <2>2, <2>3 DEF Reserved, Reserve, Headroom, TypeOK
<1>9. CASE BeginContinue
  <2>1. /\ phase = "decode" /\ phase' = "forward" /\ held = "runner"
        /\ ~inDecode /\ ntok < GenBudget /\ (begun' => begun)
        /\ UNCHANGED <<held, padded, ntok, cpos, pos, cap>>
    BY <1>9 DEF BeginContinue, EnterDecode, Begins, WantsToken
  <2>2. Reserved
    BY <2>1 DEF Proper, Unspoilt, Leaked
  <2> QED
    BY <1>0, <1>n, <2>1, <2>2 DEF Reserved, Reserve, TypeOK
<1>10. CASE Warmup \/ Capture \/ Replay
  <2>1. /\ phase \in {"decode", "forward"} /\ phase' = "decode"
        /\ held' = "runner" /\ pos' = cpos + 1 /\ cpos' = cpos + 1
        /\ ntok' = ntok + 1 /\ inDecode
        /\ phase = "forward" \/ ntok < GenBudget
        /\ UNCHANGED <<padded, cap, inDecode, begun>>
    BY <1>0, <1>10, ForwardEffect DEF InDecodeForward, WantsToken
  <2>2. begun /\ Reserved
    BY <2>1, MovedProper DEF Proper, Unspoilt
  <2>3. held = "runner" \/ phase = "forward"
    BY <1>0, <2>1, <2>2 DEF Moved, Holding, TypeOK
  <2>4. ntok < GenBudget /\ ~padded /\ pos + Reserve <= cap /\ pos = cpos
    BY <2>1, <2>2, <2>3 DEF Reserved
  <2> QED
    BY <1>0, <1>n, <2>1, <2>2, <2>4 DEF Reserved, Reserve, TypeOK
<1>12. CASE EndGenerate
  <2>1. /\ phase = "decode" /\ phase' = "flow" /\ prompt' = HeldLen
        /\ UNCHANGED <<held, padded, pos, cap, begun>>
    BY <1>12 DEF EndGenerate
  <2>2. held = "runner" => Reserved
    BY <2>1, MovedProper DEF Proper, Unspoilt
  <2> QED
    BY <1>0, <1>n, <2>1, <2>2 DEF Reserved, Reserve, HeldLen, TypeOK
<1>13. CASE UNCHANGED vars
  BY <1>13 DEF vars, pipeline, runner, cache, Reserved, Reserve, Proper,
               Unspoilt, Leaked
<1> QED
  BY <1>1, <1>2, <1>3, <1>4, <1>5, <1>6, <1>7, <1>8, <1>9, <1>10, <1>12,
     <1>13 DEF Next

(* Each step keeps the room, and an overflow is never of an inference whose *)
(* KV was moved.                                                            *)
THEOREM RoomStep == Headroom /\ IInv /\ IInv' /\ Room /\ [Next]_vars => Room'
<1> SUFFICES ASSUME Headroom, IInv, IInv', Room, [Next]_vars
             PROVE  (phase' # "idle" => ~overflowed') /\ MovedFits'
  BY ReservedStep DEF Room
<1> USE DEF Room, MovedFits, NoOverflow
<1>1. ASSUME NEW i \in Inferences, NEW b \in PromptLens, NEW pad \in BOOLEAN,
             Prefill(i, b, pad)
      PROVE  (phase' # "idle" => ~overflowed') /\ MovedFits'
  BY <1>1 DEF Prefill
<1>2. CASE NextTurn \/ FlowAppend \/ FlowCrop \/ Bypass
  BY <1>2 DEF NextTurn, FlowAppend, FlowCrop, Bypass, WantsToken
<1>3. CASE EndInference \/ AbortGenerate \/ RebuildRaises
  BY <1>3 DEF EndInference, AbortGenerate, RebuildRaises, Drop
<1>4. CASE Overflow \/ DeviceFault
  <2>1. ~begun
    BY <1>4, ProperFits, MovedProper
  <2>2. begun' = begun /\ (DeviceFault => phase # "idle" /\ overflowed' = overflowed)
        /\ (Overflow => phase' = "idle")
    BY <1>4 DEF Overflow, DeviceFault, Drop, WantsToken
  <2> QED
    BY <1>4, <2>1, <2>2
<1>5. CASE BeginReuse \/ BeginRebuild \/ BeginContinue
  BY <1>5 DEF BeginReuse, BeginRebuild, NeedsRebuild, BeginContinue,
              EnterDecode, Begins, WantsToken
<1>6. CASE Warmup \/ Capture \/ Replay
  <2>1. phase # "idle" /\ phase' = "decode" /\ UNCHANGED <<overflowed, begun>>
    BY <1>6, ForwardEffect DEF IInv, InDecodeForward, WantsToken
  <2> QED
    BY <2>1
<1>7. CASE EndGenerate \/ UNCHANGED vars
  BY <1>7 DEF EndGenerate, vars, pipeline
<1> QED
  BY <1>1, <1>2, <1>3, <1>4, <1>5, <1>6, <1>7 DEF Next

(* With headroom for the flow expert's tokens beside generate()'s, no       *)
(* inference whose KV was moved into the buffers runs past them, whatever   *)
(* earlier ones left behind: neither cache.py:65 raises nor cache.py:59     *)
(* writes out of bounds.                                                    *)
THEOREM MovedNeverOverflow == Headroom => (Spec => []MovedFits)
<1>1. CASE Headroom
  <2>1. IInv /\ IInv' /\ Room /\ [Next]_vars => Room'
    BY <1>1, RoomStep
  <2>2. Room => MovedFits
    BY DEF Room
  <2> QED
    BY <2>1, <2>2, RoomInit, SessionInvariant, PTL DEF Spec
<1>2. CASE ~Headroom
  BY <1>2
<1> QED
  BY <1>1, <1>2

(* Nor does any, unless one runs in a decode mode left behind.              *)
THEOREM NeverOverflows == Headroom => (Spec /\ []~Leaked => []NoOverflow)
<1>1. CASE Headroom
  <2> DEFINE Safe == Unspoilt /\ Room /\ NoOverflow
  <2>1. Init => Safe
    BY RoomInit DEF Init, Unspoilt, NoOverflow
  <2>2. IInv /\ IInv' /\ ~Leaked /\ Safe /\ [Next]_vars => Safe'
    <3> SUFFICES ASSUME IInv, IInv', ~Leaked, Safe, [Next]_vars PROVE NoOverflow'
      BY <1>1, RoomStep, UnspoiltStep
    <3>1. ~Overflow /\ ~DeviceFault
      BY ProperFits DEF Proper, Room
    <3>2. CASE Warmup \/ Capture \/ Replay
      BY <3>2, ForwardEffect DEF IInv, InDecodeForward, NoOverflow
    <3> QED
      BY <3>1, <3>2
         DEF NoOverflow, Next, Prefill, NextTurn, FlowAppend, FlowCrop,
             EndInference, AbortGenerate, RebuildRaises, Drop, Bypass,
             BeginReuse, BeginRebuild, BeginContinue, EnterDecode, EndGenerate, vars, pipeline
  <2>3. Safe => NoOverflow
    OBVIOUS
  <2> HIDE DEF Safe
  <2> QED
    BY <2>1, <2>2, <2>3, SessionInvariant, PTL DEF Spec
<1>2. CASE ~Headroom
  BY <1>2
<1> QED
  BY <1>1, <1>2
=============================================================================
