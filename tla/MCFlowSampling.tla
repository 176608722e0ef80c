--------------------------- MODULE MCFlowSampling ---------------------------
(* Setups of FlowSampling for TLC.                                          *)
EXTENDS FlowSampling

BothClosures == {"guided", "unguided"}

Setup(stack, cache, closures, front, back, fails) ==
    [stack |-> stack, cache |-> cache, closures |-> closures,
     front |-> front, back |-> back, fails |-> fails]

(* Adaptive steps, the captured step, the one around the other, and what a  *)
(* second apply() or the other order of installation makes of them.         *)
Installs ==
    {Setup(<<"adaptive">>, "own", BothClosures, 0, 2, FALSE),
     Setup(<<"adaptive">>, "dynamic", BothClosures, 3, 1, FALSE),
     Setup(<<"graph">>, "runner", BothClosures, 2, 2, FALSE),
     Setup(<<"adaptive", "graph">>, "runner", BothClosures, 2, 1, FALSE),
     Setup(<<"adaptive", "graph">>, "own", {"guided"}, 3, 2, TRUE),
     Setup(<<"graph", "adaptive">>, "own", {"guided"}, 2, 2, TRUE),
     Setup(<<"adaptive", "adaptive">>, "runner", {"guided"}, 2, 2, FALSE)}

(* Captured steps of two closures behind one hook: each call converts the   *)
(* cache anew, and a conversion inside a capture may run out of memory.     *)
FailingConversion == {Setup(<<"graph">>, "own", BothClosures, 2, 2, TRUE)}

(* The two setups in which memory that was captured is freed, and Schedule  *)
(* with it: two closures that take turns behind one hook, each conversion   *)
(* freeing what the other's graph reads, and a plain DynamicCache.          *)
SharedHook == {Setup(<<"graph">>, "own", BothClosures, 2, 2, FALSE)}
PlainCache == {Setup(<<"graph">>, "dynamic", {"guided"}, 2, 2, FALSE)}

(* A captured step on the runner's buffers whose capture may raise. *)
FailingCapture == {Setup(<<"graph">>, "runner", {"guided"}, 2, 2, TRUE)}
=============================================================================
