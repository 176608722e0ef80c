----------------------------- MODULE RepeatCache -----------------------------
(***************************************************************************)
(* The pipeline with the hooks of integrate.fuse_repeat_cache and without   *)
(* decode graphs: one hook on the VLM (UmicConfig.decode_cache) and one on  *)
(* the flow expert (flow_cache).                                           *)
(*                                                                         *)
(* A hook swaps the caller's DynamicCache for an InplaceKVCache it made     *)
(* from it.  It remembers which cache that was by id(), the address of the  *)
(* object, and holds no reference to it; the interpreter may give the same  *)
(* address to the cache of a later inference.                              *)
(*                                                                         *)
(* The VLM's forward returns the cache it used, so generate() goes on with  *)
(* the substitute; the flow loop keeps passing the caller's own cache.      *)
(*                                                                         *)
(* A forward on a substitute updates one layer after the other and may      *)
(* raise between two.  A forward of the stock program is one step.          *)
(***************************************************************************)
EXTENDS KVBuffer

CONSTANTS Inferences, PromptLens, FlowTokens,
          Hint,      \* extra_tokens_hint of both hooks (128 and 64)
          Margin,    \* from_dynamic's margin (8)
          Ids,       \* addresses a cache object may get
          NoId, Junk,
          NLayers,
          Watch,     \* the layer whose cache RefinesEager looks at
          Setups     \* what is installed, what it runs on

Layers == 0 .. NLayers - 1

ASSUME Lengths ==
    /\ PromptLens \subseteq Nat \ {0} /\ FlowTokens \in Nat \ {0}
    /\ Hint \in Nat \ {0} /\ Margin \in Nat
    /\ NLayers \in Nat \ {0} /\ Watch \in Layers

(* vlmHook: decode_cache without decode graphs; flowGraph: fuse_flow_graph, *)
(* with its eager fallback; idsReused: a new cache may get the address of   *)
(* one a hook remembers; prompts, budget: what generate() is called with.   *)
ASSUME Memory ==
    /\ NoId \notin Ids /\ Junk \notin KVRows(Inferences)
    /\ Setups \subseteq [vlmHook : BOOLEAN, flowGraph : BOOLEAN, idsReused : BOOLEAN,
                        prompts : SUBSET PromptLens, budget : Nat \ {0}]

Modules == {"vlm", "expert"}

VARIABLES phase, inf,
          held,      \* the caller's cache: "none", "own", the VLM hook's "conv"
          id,        \* address of its own cache
          dyn, dynLen,
          ntok, prompt, overflowed,
          layer,     \* the layer a running forward updates next, or NLayers
          seen,      \* per layer: the rows its last forward attended to
          origId,    \* per hook: state["orig_id"]
          buf, cap, pos, \* per hook: state["converted"]; buf, pos by layer
          genuine,   \* history: no hook remembered this inference's cache address
          setup

hooks == <<origId, buf, cap, pos>>
caller == <<inf, held, id, dyn, dynLen>>
fixed == <<genuine, setup>>
vars == <<phase, caller, ntok, prompt, overflowed, layer, seen, hooks, fixed>>

Rows == KVRows(Inferences) \cup {Junk}

TypeOK ==
    /\ phase \in {"idle", "decode", "flow", "crop"} /\ inf \in Inferences
    /\ held \in {"none", "own", "conv"} /\ id \in Ids \cup {NoId}
    /\ dynLen \in Nat /\ dyn \in Sequences(Rows, dynLen)
    /\ ntok \in Nat /\ prompt \in Nat /\ overflowed \in BOOLEAN
    /\ genuine \in BOOLEAN /\ setup \in Setups
    /\ layer \in 0 .. NLayers /\ DOMAIN seen = Layers
    /\ origId \in [Modules -> Ids \cup {NoId}] /\ cap \in [Modules -> Nat]
    /\ pos \in [Modules -> [Layers -> Nat]]
    /\ DOMAIN buf = Modules
    /\ \A m \in Modules :
          /\ DOMAIN buf[m] = Layers
          /\ \A l \in Layers : /\ pos[m][l] <= cap[m]
                               /\ buf[m][l] \in Sequences(Rows, cap[m])

Init == /\ phase = "idle" /\ inf \in Inferences /\ held = "none" /\ id = NoId
        /\ dyn = NoRows /\ dynLen = 0 /\ ntok = 0 /\ prompt = 0
        /\ layer = NLayers /\ seen = [l \in Layers |-> NoRows]
        /\ overflowed = FALSE /\ genuine = TRUE /\ setup \in Setups
        /\ origId = [m \in Modules |-> NoId]
        /\ buf = [m \in Modules |-> [l \in Layers |-> NoRows]]
        /\ cap = [m \in Modules |-> 0]
        /\ pos = [m \in Modules |-> [l \in Layers |-> 0]]

Text(i) == KVRow(i, i, "text")
Action(i) == KVRow(i, i, "action")

Remembered == {origId[m] : m \in Modules}

(* The prefill finds a cache with lazy layers, which no hook converts.      *)
Prefill(i, b, a) ==
    /\ phase = "idle" /\ i # inf /\ b \in setup.prompts
    /\ setup.idsReused \/ a \notin Remembered
    /\ phase' = "decode" /\ inf' = i /\ held' = "own" /\ id' = a
    /\ dyn' = Fill(b, Text(i)) /\ dynLen' = b /\ ntok' = 1
    /\ seen' = [l \in Layers |-> dyn']
    /\ overflowed' = FALSE /\ genuine' = (a \notin Remembered)
    /\ UNCHANGED <<prompt, layer, hooks, setup>>

Drop == /\ phase' = "idle" /\ held' = "none" /\ id' = NoId
        /\ dyn' = NoRows /\ dynLen' = 0 /\ layer' = NLayers

-----------------------------------------------------------------------------
(* A forward on a substitute: the hook, then layer after layer.             *)

Running == layer < NLayers

WantsToken == phase = "decode" /\ ntok < setup.budget /\ ~Running

(* The module that is called, the number of its new tokens, their rows. *)
Target == IF held = "conv" \/ phase = "decode" THEN "vlm" ELSE "expert"
New == IF phase = "decode" THEN 1 ELSE FlowTokens
Row == IF phase = "decode" THEN Text(inf) ELSE Action(inf)

Calls == \/ WantsToken /\ setup.vlmHook
         \/ phase = "flow" /\ ~Running

Enters == /\ layer' = 0
          /\ UNCHANGED <<phase, caller, ntok, prompt, overflowed, seen, fixed>>

(* Mutation: only the new tokens of this call are counted. *)
ExtraOfCall == IF phase = "flow" THEN New ELSE 0

(* n_new: the VLM is called with input_ids, so its hook sees no embeddings. *)
Extra == IF phase = "flow" /\ New > Hint THEN New ELSE Hint

(* Mutation: a substitute that is large enough is kept, not refilled. *)
ConvertKeepsLarge ==
    /\ Calls /\ held = "own" /\ origId[Target] # id
    /\ LET c == dynLen + Extra + Margin
           kept == cap[Target] >= c
       IN /\ cap' = IF kept THEN cap ELSE [cap EXCEPT ![Target] = c]
          /\ buf' = IF kept THEN buf
                    ELSE [buf EXCEPT ![Target] =
                            [l \in Layers |-> Allocate(dyn, dynLen, c, Junk)]]
    /\ pos' = [pos EXCEPT ![Target] = [l \in Layers |-> dynLen]]
    /\ origId' = [origId EXCEPT ![Target] = id]
    /\ Enters

(* A cache object the hook does not remember is converted. *)
Convert ==
    /\ Calls /\ held = "own" /\ origId[Target] # id
    /\ LET c == dynLen + Extra + Margin
       IN /\ cap' = [cap EXCEPT ![Target] = c]
          /\ buf' = [buf EXCEPT ![Target] =
                       [l \in Layers |-> Allocate(dyn, dynLen, c, Junk)]]
    /\ pos' = [pos EXCEPT ![Target] = [l \in Layers |-> dynLen]]
    /\ origId' = [origId EXCEPT ![Target] = id]
    /\ Enters

(* from_dynamic found no memory: the hook remembers the cache by now, and   *)
(* still has the substitute of an earlier one.                             *)
ConversionRaises ==
    /\ Calls /\ held = "own" /\ origId[Target] # id
    /\ origId' = [origId EXCEPT ![Target] = id]
    /\ Drop
    /\ UNCHANGED <<inf, ntok, prompt, overflowed, seen, buf, cap, pos, fixed>>

(* Mutation: only the first layer is cropped. *)
CroppedFirst(m, n) ==
    [l \in Layers |-> IF l = 0 /\ n < pos[m][l] THEN n ELSE pos[m][l]]

(* Mutation: a length is taken for a number of tokens to drop. *)
CroppedBy(m, n) ==
    [l \in Layers |-> IF n < pos[m][l] THEN n - pos[m][l] ELSE pos[m][l]]

(* InplaceKVCache.crop: the write pointers after it. *)
Cropped(m, n) == [l \in Layers |-> IF n < pos[m][l] THEN n ELSE pos[m][l]]

(* One it remembers: its substitute is cropped to the caller's length.      *)
(* Without a substitute (cap = 0, only conversions that raised) this raises.*)
Reuse ==
    /\ Calls /\ held = "own" /\ origId[Target] = id /\ cap[Target] # 0
    /\ pos' = [pos EXCEPT ![Target] = Cropped(Target, dynLen)]
    /\ Enters /\ UNCHANGED <<origId, buf, cap>>

(* An InplaceKVCache passes through the hook. *)
PassThrough == Calls /\ held = "conv" /\ Enters /\ UNCHANGED hooks

(* InplaceLayer.update of the next layer, which attends to what it returns. *)
Update ==
    /\ Running
    /\ LET m == Target
           end == pos[m][layer] + New
       IN /\ end <= cap[m]
          /\ buf' = [buf EXCEPT ![m][layer] =
                       WriteSlice(buf[m][layer], pos[m][layer], New, Row)]
          /\ pos' = [pos EXCEPT ![m][layer] = end]
          /\ seen' = [seen EXCEPT ![layer] = Prefix(buf'[m][layer], end)]
    /\ layer' = layer + 1
    /\ UNCHANGED <<inf, id, prompt, overflowed, origId, cap, fixed>>

UpdateLayer == /\ Update /\ layer' < NLayers
               /\ UNCHANGED <<phase, held, dyn, dynLen, ntok>>

(* The last layer of a decode forward: generate() adopts the substitute and *)
(* drops its own cache.                                                    *)
DecodeReturns == /\ Update /\ layer' = NLayers /\ phase = "decode"
                 /\ held' = "conv" /\ dyn' = NoRows /\ dynLen' = 0
                 /\ ntok' = ntok + 1 /\ UNCHANGED phase

FlowReturns == /\ Update /\ layer' = NLayers /\ phase = "flow"
               /\ phase' = "crop" /\ UNCHANGED <<held, dyn, dynLen, ntok>>

Overflow == /\ Running /\ pos[Target][layer] + New > cap[Target]
            /\ Drop /\ overflowed' = TRUE
            /\ UNCHANGED <<inf, ntok, prompt, seen, hooks, fixed>>

(* A captured step that raises before its crop is tried again, without      *)
(* graphs: FlowStepGraph (once per sample; here as often as it likes).      *)
Retry == /\ setup.flowGraph
         /\ phase = "crop" \/ (phase = "flow" /\ Running)
         /\ phase' = "flow" /\ layer' = NLayers
         /\ UNCHANGED <<caller, ntok, prompt, overflowed, seen, hooks, fixed>>

-----------------------------------------------------------------------------
(* The caller. *)

DecodeStock ==
    /\ WantsToken /\ held = "own" /\ ~setup.vlmHook
    /\ dyn' = Concat(dyn, dynLen, 1, Text(inf)) /\ dynLen' = dynLen + 1
    /\ seen' = [l \in Layers |-> dyn'] /\ ntok' = ntok + 1
    /\ UNCHANGED <<phase, inf, held, id, prompt, overflowed, layer, hooks, fixed>>

EndGenerate ==
    /\ phase = "decode" /\ ~Running /\ phase' = "flow"
    /\ prompt' = IF held = "conv" THEN pos["vlm"][0] ELSE dynLen
    /\ UNCHANGED <<caller, ntok, overflowed, layer, seen, hooks, fixed>>

(* The caller's crop to its prompt length: redundant on its own cache,      *)
(* which the expert's forwards never grew.                                 *)
FlowCrop ==
    /\ phase = "crop" /\ phase' = "flow"
    /\ pos' = IF held = "conv" THEN [pos EXCEPT !["vlm"] = Cropped("vlm", prompt)]
              ELSE pos
    /\ UNCHANGED <<caller, ntok, prompt, overflowed, layer, seen, origId, buf,
                   cap, fixed>>

(* The inference is over, or raised somewhere: its own cache is freed, what *)
(* the hooks remember stays.                                               *)
EndInference ==
    /\ phase # "idle" /\ Drop
    /\ UNCHANGED <<inf, ntok, prompt, overflowed, seen, hooks, fixed>>

Next == \/ \E i \in Inferences, b \in PromptLens, a \in Ids : Prefill(i, b, a)
        \/ Convert \/ ConversionRaises \/ Reuse \/ PassThrough
        \/ UpdateLayer \/ DecodeReturns \/ FlowReturns \/ Overflow \/ Retry
        \/ DecodeStock \/ EndGenerate \/ FlowCrop \/ EndInference

Spec == Init /\ [][Next]_vars
-----------------------------------------------------------------------------
(* Correctness.                                                             *)

(* The stock cache, at the watched layer: a forward has appended to it when *)
(* it has updated that layer.  Between an expert forward and the caller's   *)
(* crop the substitute, not the caller's cache, holds what it would.        *)
Passed == Running /\ Watch < layer
Appended == phase = "crop" \/ (phase = "flow" /\ Passed)
Home == CASE held = "conv" \/ (phase = "decode" /\ Passed) -> "vlm"
          [] held = "own" /\ Appended -> "expert"
          [] OTHER -> "own"

StockPhase == IF Appended THEN "crop" ELSE phase
StockLen == IF Home = "own" THEN dynLen ELSE pos[Home][Watch]
StockKV == IF Home = "own" THEN dyn ELSE Prefix(buf[Home][Watch], StockLen)

Eager == INSTANCE EagerSession
           WITH phase <- StockPhase, kv <- StockKV, len <- StockLen,
                seen <- seen[Watch], TurnTokens <- 2

(* With the hooks every forward attends to the rows the stock program would *)
(* attend to, in each layer, and the caller's crop means what it meant      *)
(* (integrate.py:715-756): unless, in a setup that allows it, a new cache   *)
(* gets the address of one a hook remembers.                               *)
RefinesEager == Eager!Init /\ [][setup.idsReused \/ Eager!Next]_(Eager!vars)

(* No substitute of the cache at hand runs out of room.                     *)
NoOverflow == genuine => ~overflowed

(* Each inference attends only to its own rows: "same math", and the hook   *)
(* keys its conversion on "a plain DynamicCache" arriving for the first     *)
(* time (integrate.py:10, 718-725).                                         *)
NoStaleRead == phase # "idle" => \A l \in Layers : OwnRows(inf, seen[l])

(* A stale substitute, also one a conversion that raised left behind, harms *)
(* only the inference whose cache got the address it is remembered by.      *)
ReuseIsConfined == phase # "idle" /\ genuine =>
                     \A l \in Layers : OwnRows(inf, seen[l])

(* A forward that returns has updated every layer alike, also the first one *)
(* after one that raised in the middle: the layers attended to the same     *)
(* tokens (cache.py:130-132, integrate.py:750).                             *)
LayersAgree == phase \in {"decode", "crop"} /\ ~Running /\ genuine =>
                 \A l, k \in Layers : seen[l] = seen[k]
=============================================================================
