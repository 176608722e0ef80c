---------------------------- MODULE EagerSession ----------------------------
(***************************************************************************)
(* What an inference means: the stock program, before umic.apply() touches  *)
(* it.  One DynamicCache per inference, filled by the prefill, grown by one *)
(* row per decode forward, handed to the flow expert, which appends its     *)
(* action tokens and is cropped back after every ODE step.  Every forward   *)
(* attends to exactly the rows of the cache.                               *)
(*                                                                         *)
(* umic claims to change the speed of this and nothing else ("Injects      *)
(* Triton kernels without changing the model", umic/__init__.py:3; "same    *)
(* math", umic/integrate.py:10).                                           *)
(***************************************************************************)
EXTENDS KVBuffer

CONSTANTS Inferences,  \* identities of inferences
          PromptLens,  \* prompt lengths a prefill may have
          FlowTokens,  \* action tokens the expert appends per ODE step
          TurnTokens   \* prompt tokens of a follow-up generate() on one cache

VARIABLES phase,   \* "idle", "decode" (in generate), "flow", "crop"
          inf,     \* the current or last inference
          kv,      \* rows of the cache
          len,     \* its length
          prompt,  \* its length when generate() returned
          seen     \* the rows the last forward attended to

vars == <<phase, inf, kv, len, prompt, seen>>

Text(i) == KVRow(i, i, "text")
Action(i) == KVRow(i, i, "action")

Init == /\ phase = "idle"
        /\ inf \in Inferences
        /\ kv = NoRows /\ len = 0 /\ prompt = 0
        /\ seen = NoRows

(* A new inference is prefilled into a new cache. *)
Prefill(i, b) ==
    /\ phase = "idle" /\ i # inf
    /\ phase' = "decode" /\ inf' = i
    /\ kv' = Fill(b, Text(i)) /\ len' = b
    /\ seen' = kv'
    /\ UNCHANGED prompt

Grow(n, row) == /\ kv' = Concat(kv, len, n, row)
                /\ len' = len + n
                /\ seen' = kv'

Decode == /\ phase = "decode"
          /\ Grow(1, Text(inf))
          /\ UNCHANGED <<phase, inf, prompt>>

EndGenerate == /\ phase = "decode" /\ phase' = "flow"
               /\ prompt' = len
               /\ UNCHANGED <<inf, kv, len, seen>>

(* generate() again with the cache the last one returned. *)
NextTurn == /\ phase = "flow" /\ phase' = "decode"
            /\ Grow(TurnTokens, Text(inf))
            /\ UNCHANGED <<inf, prompt>>

FlowAppend == /\ phase = "flow" /\ phase' = "crop"
              /\ Grow(FlowTokens, Action(inf))
              /\ UNCHANGED <<inf, prompt>>

FlowCrop == /\ phase = "crop" /\ phase' = "flow"
            /\ kv' = Prefix(kv, prompt) /\ len' = prompt
            /\ UNCHANGED <<inf, prompt, seen>>

(* The inference is over, or an exception ended it: its cache is dropped. *)
EndInference == /\ phase # "idle" /\ phase' = "idle"
                /\ kv' = NoRows /\ len' = 0
                /\ UNCHANGED <<inf, prompt, seen>>

Next == \/ \E i \in Inferences, b \in PromptLens : Prefill(i, b)
        \/ Decode \/ EndGenerate \/ NextTurn
        \/ FlowAppend \/ FlowCrop \/ EndInference

Spec == Init /\ [][Next]_vars
=============================================================================
