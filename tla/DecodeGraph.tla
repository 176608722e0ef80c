----------------------------- MODULE DecodeGraph -----------------------------
(***************************************************************************)
(* DecodeGraphRunner (src/umic/graph.py) with its persistent InplaceKVCache *)
(* (src/umic/cache.py), driven by the pipeline: prefill, generate() loop,   *)
(* flow loop, over and over on one model.                                  *)
(*                                                                         *)
(* The runner replaces vlm.forward.  For single-token forwards it moves the *)
(* KV of the inference into buffers it owns and replays one CUDA graph per  *)
(* KV length.  A graph bakes the address of the buffers and the length of   *)
(* the prefix it reads, so everything hangs on the buffers staying where    *)
(* they are and on each inference overwriting what the last one left.       *)
(*                                                                         *)
(* The layers of a cache move in lock step here: a forward is either run to *)
(* its end or not begun.                                                    *)
(***************************************************************************)
EXTENDS KVBuffer

CONSTANTS Inferences,   \* identities of inferences
          PromptLens,   \* prompt lengths a prefill may have
          GenBudget,    \* max_new_tokens the caller gives to generate()
          FlowTokens,   \* action tokens the expert appends per ODE step
          TurnTokens,   \* prompt tokens of a follow-up generate()
          MaxNew,       \* DecodeGraphRunner.max_new
          Margin,       \* from_dynamic's margin (8)
          WarmupSteps,  \* DecodeGraphRunner.warmup_steps (2)
          Addrs,        \* device addresses a buffer may get
          Junk,         \* what memory nobody wrote reads as
          GenAborts,    \* whether generate() may be left by an exception
          MaxKV         \* bound: a DynamicCache never grows past it

ASSUME Lengths ==
    /\ PromptLens \subseteq Nat \ {0, 1}
    /\ GenBudget \in Nat \ {0} /\ FlowTokens \in Nat \ {0}
    /\ TurnTokens \in Nat \ {0, 1}
    /\ MaxNew \in Nat \ {0} /\ Margin \in Nat /\ WarmupSteps \in Nat
    /\ MaxKV \in Nat

ASSUME Memory == /\ Addrs # {} /\ \A a \in Addrs : Addrs \ {a} # {}
                 /\ Junk \notin KVRows(Inferences)
                 /\ Inferences # {} /\ GenAborts \in BOOLEAN

VARIABLES
  \* the pipeline and generate()
  phase,     \* "idle", "decode", "forward", "flow", "crop", "fault"
  inf,       \* the current or last inference; also vlm.model.rope_deltas
  padded,    \* its attention mask has zeros
  held,      \* the cache it uses: "none", its own "dynamic", the "runner"'s
  dyn,       \* rows of its own DynamicCache
  dynLen,
  cpos,      \* generate()'s cache_position for the next forward
  ntok,      \* tokens generated by this generate()
  prompt,    \* cache length when generate() returned: what flow crops to
  seen,      \* rows the last forward attended to
  overflowed,  \* it died of InplaceLayer's overflow error
  \* DecodeGraphRunner
  graphs,    \* KV length -> [addr, len] baked into its graph
  baseLen,   \* prompt length the buffers were sized for
  inDecode, step,
  sPos, sRope,   \* the static position and rope-delta tensors
  \* runner.cache: InplaceKVCache
  addr,      \* address of the buffers
  cap,       \* their capacity; 0: runner.cache is None
  buf,       \* their rows
  pos,       \* _pos
  graphMode, graphLen,
  \* history
  begun      \* _begin_inference moved this inference's KV to the buffers

pipeline == <<phase, inf, padded, held, dyn, dynLen, cpos, ntok, prompt,
              seen, overflowed>>
cache == <<addr, cap, buf, pos, graphMode, graphLen>>
runner == <<graphs, baseLen, inDecode, step, sPos, sRope>>
vars == <<pipeline, runner, cache, begun>>

Rows == KVRows(Inferences) \cup {Junk}

Baked == [addr : Addrs, len : Nat]

TypeOK ==
    /\ phase \in {"idle", "decode", "forward", "flow", "crop", "fault"}
    /\ inf \in Inferences /\ padded \in BOOLEAN
    /\ held \in {"none", "dynamic", "runner"}
    /\ dynLen \in Nat /\ dyn \in Sequences(Rows, dynLen)
    /\ cpos \in Nat /\ ntok \in Nat /\ prompt \in Nat
    /\ DOMAIN seen \subseteq Nat
    /\ seen \in [DOMAIN seen -> Rows]
    /\ overflowed \in BOOLEAN
    /\ DOMAIN graphs \subseteq Nat /\ graphs \in [DOMAIN graphs -> Baked]
    /\ baseLen \in Nat /\ inDecode \in BOOLEAN /\ step \in Nat
    /\ sPos \in Nat /\ sRope \in Inferences
    /\ addr \in Addrs /\ cap \in Nat /\ buf \in Sequences(Rows, cap)
    /\ pos \in Nat /\ graphMode \in BOOLEAN /\ graphLen \in Nat
    /\ begun \in BOOLEAN

NoGraphs == [n \in {} |-> [addr |-> CHOOSE a \in Addrs : TRUE, len |-> 0]]

Init ==
    /\ phase = "idle" /\ inf \in Inferences /\ padded = FALSE
    /\ held = "none" /\ dyn = NoRows /\ dynLen = 0
    /\ cpos = 0 /\ ntok = 0 /\ prompt = 0 /\ seen = NoRows
    /\ overflowed = FALSE
    /\ graphs = NoGraphs /\ baseLen = 0
    /\ inDecode = FALSE /\ step = 0 /\ sPos = 0 /\ sRope = inf
    /\ addr \in Addrs /\ cap = 0 /\ buf = NoRows /\ pos = 0
    /\ graphMode = FALSE /\ graphLen = 0
    /\ begun = FALSE

-----------------------------------------------------------------------------
(* What a forward does to the cache it is given (InplaceLayer.update).      *)

Text(i) == KVRow(i, i, "text")
Action(i) == KVRow(i, i, "action")

(* The branch taken when graph mode is on and one token arrives. *)
IndexWrite(n) == graphMode /\ n = 1

Overflows(n) == held = "runner" /\ ~IndexWrite(n) /\ pos + n > cap

(* Append n rows eagerly: cat under DynamicCache, in place in the buffers. *)
Append(n, row) ==
    IF held = "dynamic"
    THEN /\ dyn' = Concat(dyn, dynLen, n, row) /\ dynLen' = dynLen + n
         /\ seen' = dyn'
         /\ UNCHANGED cache
    ELSE /\ held = "runner" /\ ~Overflows(n)
         /\ IF IndexWrite(n)
            THEN /\ buf' = WriteSlice(buf, sPos, 1, row)
                 /\ seen' = Prefix(buf', graphLen) /\ pos' = pos
            ELSE /\ buf' = WriteSlice(buf, pos, n, row)
                 /\ pos' = pos + n /\ seen' = Prefix(buf', pos')
         /\ UNCHANGED <<dyn, dynLen, addr, cap, graphMode, graphLen>>

HeldLen == IF held = "runner" THEN pos ELSE dynLen

-----------------------------------------------------------------------------
(* The pipeline's side.                                                     *)

(* generate()'s first forward: many tokens, so the runner passes it on to   *)
(* the stock forward, which fills a new DynamicCache.                       *)
Prefill(i, b, pad) ==
    /\ phase = "idle" /\ i # inf
    /\ phase' = "decode" /\ inf' = i /\ padded' = pad
    /\ held' = "dynamic" /\ dyn' = Fill(b, Text(i)) /\ dynLen' = b
    /\ seen' = dyn' /\ cpos' = b /\ ntok' = 1 /\ overflowed' = FALSE
    /\ begun' = FALSE
    /\ UNCHANGED <<prompt, runner, cache>>

(* The caller keeps a conversation on one cache within its headroom. *)
TurnFits ==
    IF held = "runner"
    THEN pos + TurnTokens + (GenBudget - 1) + FlowTokens <= cap
    ELSE dynLen + TurnTokens <= MaxKV

(* generate() again with the cache the last one returned. *)
NextTurn ==
    /\ phase = "flow" /\ TurnFits
    /\ phase' = "decode" /\ ntok' = 1
    /\ Append(TurnTokens, Text(inf)) /\ cpos' = HeldLen + TurnTokens
    /\ UNCHANGED <<inf, padded, held, prompt, overflowed, runner, begun>>

(* An ODE step of the flow expert on the cache generate() returned. *)
FlowAppend ==
    /\ phase = "flow" /\ phase' = "crop"
    /\ Append(FlowTokens, Action(inf))
    /\ UNCHANGED <<inf, padded, held, cpos, ntok, prompt, overflowed,
                   runner, begun>>

(* Mutation: crop(n) takes the distance from the wrong end. *)
FlowCropSwapped ==
    /\ phase = "crop" /\ phase' = "flow"
    /\ IF held = "dynamic"
       THEN dyn' = Prefix(dyn, prompt) /\ dynLen' = prompt /\ pos' = pos
       ELSE /\ pos' = prompt - pos
            /\ UNCHANGED <<dyn, dynLen>>
    /\ UNCHANGED <<inf, padded, held, cpos, ntok, prompt, seen, overflowed,
                   runner, addr, cap, buf, graphMode, graphLen, begun>>

(* Mutation: crop() does nothing in place, the flow's rows pile up. *)
FlowCropDropped ==
    /\ phase = "crop" /\ phase' = "flow"
    /\ IF held = "dynamic"
       THEN dyn' = Prefix(dyn, prompt) /\ dynLen' = prompt
       ELSE UNCHANGED <<dyn, dynLen>>
    /\ UNCHANGED <<inf, padded, held, cpos, ntok, prompt, seen, overflowed,
                   runner, cache, begun>>

(* crop() only moves the write pointer back. *)
FlowCrop ==
    /\ phase = "crop" /\ phase' = "flow"
    /\ IF held = "dynamic"
       THEN dyn' = Prefix(dyn, prompt) /\ dynLen' = prompt /\ pos' = pos
       ELSE /\ pos' = (IF prompt < pos THEN prompt ELSE pos)
            /\ UNCHANGED <<dyn, dynLen>>
    /\ UNCHANGED <<inf, padded, held, cpos, ntok, prompt, seen, overflowed,
                   runner, addr, cap, buf, graphMode, graphLen, begun>>

Drop == /\ phase' = "idle"
        /\ held' = "none" /\ dyn' = NoRows /\ dynLen' = 0

(* The inference is done, or flow raised: the pipeline drops its cache. *)
EndInference ==
    /\ phase \in {"flow", "crop"} /\ Drop
    /\ UNCHANGED <<inf, padded, cpos, ntok, prompt, seen, overflowed,
                   runner, cache, begun>>

(* update() raises "InplaceLayer overflow" in flow (TurnFits keeps the       *)
(* eager forwards of a conversation clear of it).                           *)
Overflow ==
    /\ phase = "flow" /\ Overflows(FlowTokens)
    /\ Drop /\ overflowed' = TRUE
    /\ UNCHANGED <<inf, padded, cpos, ntok, prompt, seen,
                   runner, cache, begun>>

(* An exception leaves orig_generate: finish() is not called. *)
AbortGenerate ==
    /\ GenAborts /\ phase \in {"decode", "forward"} /\ Drop
    /\ UNCHANGED <<inf, padded, cpos, ntok, prompt, seen, overflowed,
                   runner, cache, begun>>

-----------------------------------------------------------------------------
(* DecodeGraphRunner.__call__ for a single-token forward.  A forward that   *)
(* enters decode goes through phase "forward", where the capture or the     *)
(* model's own code may still raise.                                        *)

WantsToken == phase = "decode" /\ ntok < GenBudget

(* _begin_inference returns False: the stock forward runs. *)
Bypass ==
    /\ WantsToken /\ ~inDecode /\ padded
    /\ Append(1, Text(inf))
    /\ cpos' = cpos + 1 /\ ntok' = ntok + 1
    /\ UNCHANGED <<phase, inf, padded, held, prompt, overflowed,
                   runner, begun>>

(* Mutation: the rope deltas are copied only when s_rope is allocated. *)
EnterDecodeStaleRope ==
    /\ phase' = "forward" /\ begun' = (begun \/ held = "dynamic")
    /\ sRope' = (IF cap = 0 THEN inf ELSE sRope)
    /\ graphMode' = TRUE /\ inDecode' = TRUE
    /\ UNCHANGED <<inf, padded, held, dyn, dynLen, cpos, ntok, prompt, seen,
                   overflowed, step, sPos>>

(* The end of _begin_inference. *)
EnterDecode ==
    /\ phase' = "forward" /\ begun' = (begun \/ held = "dynamic")
    /\ sRope' = inf /\ graphMode' = TRUE /\ inDecode' = TRUE
    /\ UNCHANGED <<inf, padded, held, dyn, dynLen, cpos, ntok, prompt, seen,
                   overflowed, step, sPos>>

Begins == WantsToken /\ ~inDecode /\ ~padded

SameBase == cap # 0 /\ dynLen = baseLen

(* Mutation: the write pointer is set but the prefill KV is not copied. *)
BeginReuseNoCopy ==
    /\ Begins /\ held = "dynamic" /\ SameBase
    /\ pos' = dynLen
    /\ EnterDecode
    /\ UNCHANGED <<graphs, baseLen, addr, cap, buf, graphLen>>

(* Mutation: graphs are dropped at every new inference. *)
BeginReuseDropsGraphs ==
    /\ Begins /\ held = "dynamic" /\ SameBase
    /\ buf' = CopyPrefix(buf, dyn, dynLen) /\ pos' = dynLen
    /\ graphs' = NoGraphs
    /\ EnterDecode
    /\ UNCHANGED <<baseLen, addr, cap, graphLen>>

(* The prompt is as long as the last one: copy it into the buffers. *)
BeginReuse ==
    /\ Begins /\ held = "dynamic" /\ SameBase
    /\ buf' = CopyPrefix(buf, dyn, dynLen) /\ pos' = dynLen
    /\ EnterDecode
    /\ UNCHANGED <<graphs, baseLen, addr, cap, graphLen>>

(* The prompt has another length, or there are no buffers yet: what the      *)
(* runner has is given up before new buffers are allocated.                *)
NeedsRebuild == Begins /\ held = "dynamic" /\ ~SameBase

(* Mutation: the graphs survive the buffers they bake. *)
BeginRebuildKeepsGraphs ==
    /\ NeedsRebuild
    /\ addr' \in Addrs \ {addr}
    /\ cap' = dynLen + MaxNew + Margin
    /\ buf' = Allocate(dyn, dynLen, cap', Junk)
    /\ pos' = dynLen /\ baseLen' = dynLen /\ graphLen' = 0
    /\ EnterDecode
    /\ UNCHANGED graphs

(* New buffers, no graphs.  The old buffers still live while the new ones   *)
(* are allocated.                                                          *)
BeginRebuild ==
    /\ NeedsRebuild
    /\ graphs' = NoGraphs
    /\ addr' \in Addrs \ {addr}
    /\ cap' = dynLen + MaxNew + Margin
    /\ buf' = Allocate(dyn, dynLen, cap', Junk)
    /\ pos' = dynLen /\ baseLen' = dynLen /\ graphLen' = 0
    /\ EnterDecode

(* from_dynamic raises, for want of memory: the graphs are gone by then,    *)
(* but the old buffers and their base_len stay.                            *)
RebuildRaises ==
    /\ GenAborts /\ NeedsRebuild /\ Drop
    /\ graphs' = NoGraphs
    /\ UNCHANGED <<inf, padded, cpos, ntok, prompt, seen, overflowed,
                   baseLen, inDecode, step, sPos, sRope, cache, begun>>

(* A follow-up generate() on the runner's own cache: nothing to move. *)
BeginContinue ==
    /\ Begins /\ held = "runner"
    /\ EnterDecode
    /\ UNCHANGED <<graphs, baseLen, addr, cap, buf, pos, graphLen>>

(* Mutation: the static tensors are refreshed after the call. *)
StaticCallThenInputs(a, n) ==
    IF a = addr
    THEN /\ buf' = WriteSlice(buf, sPos, 1, KVRow(inf, sRope, "text"))
         /\ seen' = Prefix(buf', n)
    ELSE buf' = buf /\ seen' = Fill(n, Junk)

(* _static_call on buffers at address a, reading n rows.  The position and  *)
(* the rope delta come from the static tensors; memory that is no longer    *)
(* the runner's reads as Junk.                                              *)
StaticCall(a, n) ==
    IF a = addr
    THEN /\ buf' = WriteSlice(buf, sPos', 1, KVRow(inf, sRope, "text"))
         /\ seen' = Prefix(buf', n)
    ELSE buf' = buf /\ seen' = Fill(n, Junk)

(* What all three ways to run the forward share. *)
InDecodeForward ==
    /\ inDecode
    /\ phase = "forward" \/ WantsToken
    /\ cpos < cap
    /\ phase' = "decode"
    /\ sPos' = cpos /\ graphLen' = cpos + 1
    /\ step' = (IF step < WarmupSteps THEN step + 1 ELSE step) \* saturated
    /\ pos' = cpos + 1
    /\ cpos' = cpos + 1 /\ ntok' = ntok + 1
    /\ held' = "runner" /\ dyn' = NoRows /\ dynLen' = 0
    /\ UNCHANGED <<inf, padded, prompt, overflowed, baseLen, inDecode, sRope,
                   addr, cap, graphMode, begun>>

WarmingUp == DOMAIN graphs = {} /\ step < WarmupSteps

Warmup == /\ InDecodeForward /\ WarmingUp
          /\ StaticCall(addr, graphLen')
          /\ UNCHANGED graphs

Capture == /\ InDecodeForward /\ ~WarmingUp /\ graphLen' \notin DOMAIN graphs
           /\ graphs' = [n \in DOMAIN graphs \cup {graphLen'} |->
                           IF n = graphLen' THEN [addr |-> addr, len |-> n]
                                            ELSE graphs[n]]
           /\ StaticCall(addr, graphLen')

Replay == /\ InDecodeForward /\ ~WarmingUp /\ graphLen' \in DOMAIN graphs
          /\ StaticCall(graphs[graphLen'].addr, graphs[graphLen'].len)
          /\ UNCHANGED graphs

(* index_copy_ past the end of the buffers: a device-side assert, which     *)
(* leaves the CUDA context unusable.                                        *)
DeviceFault ==
    /\ inDecode /\ (phase = "forward" \/ WantsToken) /\ cpos >= cap
    /\ phase' = "fault"
    /\ UNCHANGED <<inf, padded, held, dyn, dynLen, cpos, ntok, prompt, seen,
                   overflowed, runner, cache, begun>>

(* Mutation: finish() leaves in_decode set. *)
EndGenerateInDecode ==
    /\ phase = "decode" /\ phase' = "flow"
    /\ prompt' = HeldLen
    /\ graphMode' = FALSE /\ step' = 0
    /\ UNCHANGED <<inf, padded, held, dyn, dynLen, cpos, ntok, seen,
                   overflowed, graphs, baseLen, inDecode, sPos, sRope, addr,
                   cap, buf, pos, graphLen, begun>>

(* generate() returns (end of sequence, or the budget): finish(). *)
EndGenerate ==
    /\ phase = "decode" /\ phase' = "flow"
    /\ prompt' = HeldLen
    /\ graphMode' = FALSE /\ inDecode' = FALSE /\ step' = 0
    /\ UNCHANGED <<inf, padded, held, dyn, dynLen, cpos, ntok, seen,
                   overflowed, graphs, baseLen, sPos, sRope, addr, cap, buf,
                   pos, graphLen, begun>>

-----------------------------------------------------------------------------
DecodeForward == Warmup \/ Capture \/ Replay \/ DeviceFault

Next == \/ \E i \in Inferences, b \in PromptLens, pad \in BOOLEAN :
              Prefill(i, b, pad)
        \/ NextTurn \/ FlowAppend \/ FlowCrop
        \/ EndInference \/ Overflow \/ AbortGenerate
        \/ Bypass \/ BeginReuse \/ BeginRebuild \/ RebuildRaises
        \/ BeginContinue
        \/ Warmup \/ Capture \/ Replay \/ DeviceFault
        \/ EndGenerate

Spec == Init /\ [][Next]_vars
-----------------------------------------------------------------------------
(* Correctness.                                                             *)

(* With the graphs installed an inference still attends, in every forward   *)
(* of decode and flow, to exactly the rows the stock program would attend   *)
(* to, in the same order of events (graph.py:15-18, __call__, finish).      *)
AbsPhase == IF phase = "forward" THEN "decode"
            ELSE IF phase = "fault" THEN "idle" ELSE phase
AbsLen == IF phase = "fault" THEN 0 ELSE HeldLen
AbsKV == IF phase = "fault" THEN NoRows
         ELSE IF held = "runner" THEN Prefix(buf, pos) ELSE dyn

Eager == INSTANCE EagerSession
           WITH phase <- AbsPhase, kv <- AbsKV, len <- AbsLen

RefinesEager == Eager!Spec

(* This inference finds the decode mode of one that raised: its KV was not  *)
(* moved to the buffers it decodes on.                                     *)
Leaked == phase \in {"decode", "forward"} /\ inDecode /\ ~begun

(* However often generate() or a rebuild raises, only the decode forwards   *)
(* of such an inference differ from the stock program's: not its flow, and  *)
(* nothing of the next one (graph.py:58-68).                               *)
EagerUnlessLeaked == Eager!Init /\ [][Leaked \/ Eager!Next]_(Eager!vars)

(* Every graph the runner keeps bakes the address of the buffers it has now *)
(* and reads as many rows as the length it is filed under (graph.py:86-102, *)
(* 155-164).                                                                *)
GraphsLive == \A n \in DOMAIN graphs : graphs[n] = [addr |-> addr, len |-> n]

KeepsGraphs == \A n \in DOMAIN graphs : /\ n \in DOMAIN graphs'
                                        /\ graphs'[n] = graphs[n]

(* A graph is lost or recaptured only when an inference brings a prompt of  *)
(* another length than the buffers were made for (graph.py:87-102).         *)
GraphsPersist == [][NeedsRebuild \/ KeepsGraphs]_vars

(* No forward runs past the end of the buffers, neither the checked write   *)
(* of cache.py:65 nor the unchecked index_copy_ of cache.py:59.             *)
NoOverflow == ~overflowed /\ phase # "fault"

(* Nor does one of an inference whose KV was moved to the buffers, when     *)
(* they have the headroom, whatever earlier ones that raised left behind.   *)
MovedFits == begun => NoOverflow

(* Each inference attends only to its own KV: the new prefill KV and rope   *)
(* deltas were copied into the buffers first (graph.py:15-18).              *)
NoStaleRead == phase # "idle" => OwnRows(inf, seen)

(* generate() leaving by an exception corrupts no inference but the next:   *)
(* one whose KV _begin_inference moved, or that never left its own cache,   *)
(* attends only to its own rows.                                           *)
LeakIsConfined == phase # "idle" /\ (begun \/ held = "dynamic") => OwnRows(inf, seen)

(* The in_decode flag an exception left behind is cleared in the end, by    *)
(* the finish() of a generate() that returns.                               *)
LeakHeals == (inDecode /\ phase = "idle") ~> (~inDecode \/ phase = "fault")

(* Capturing ends once the prompt lengths settle: if from some point on no  *)
(* inference brings one the buffers were not made for, no graph is captured *)
(* any more, though generate() may go on raising (graph.py:18-19).          *)
PromptsSettle == <>[]~NeedsRebuild
CapturesEnd == PromptsSettle => <>[][graphs' = graphs]_vars

(* The loop of inferences goes on, a forward that was entered is executed,  *)
(* and generate() does not raise for ever.                                  *)
Fairness ==
    /\ WF_vars(\E i \in Inferences, b \in PromptLens, pad \in BOOLEAN :
                  Prefill(i, b, pad))
    /\ WF_vars(DecodeForward)
    /\ SF_vars(EndGenerate)

FairSpec == Spec /\ Fairness
=============================================================================
