---------------------------- MODULE MCRepeatCache ----------------------------
(* Instances of RepeatCache for TLC.                                        *)
EXTENDS RepeatCache, TLC

CONSTANTS i1, i2, d1, d2, d3

Setup(vlmHook, flowGraph, idsReused, prompts, budget) ==
    [vlmHook |-> vlmHook, flowGraph |-> flowGraph, idsReused |-> idsReused,
     prompts |-> prompts, budget |-> budget]

(* The hook on the VLM, or captured flow steps with their fallback: what    *)
(* they do without is a part of what they do.  With both, a retry finds an  *)
(* adopted substitute and its failed attempt's rows (FlowSampling).         *)
SafeSetups == {Setup(TRUE, FALSE, FALSE, {1, 4}, 3),
               Setup(FALSE, TRUE, FALSE, {1, 4}, 3),
               Setup(TRUE, FALSE, TRUE, {1}, 2),
               Setup(FALSE, TRUE, TRUE, {1, 4}, 1)}

Reused == {Setup(FALSE, FALSE, TRUE, {2}, 2)}

Symmetry == Permutations(Inferences) \cup Permutations(Ids)
=============================================================================
