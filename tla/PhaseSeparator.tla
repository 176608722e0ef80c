--------------------------- MODULE PhaseSeparator ---------------------------
(***************************************************************************)
(* bench.py's PhaseSeparator: hooks on the vlm, on its LM trunk and on the  *)
(* flow's entry, and a wrapper of diffusion.sample, drive four CUDA timers  *)
(* through one inference after another, as scripts/run_pipeline.py measures *)
(* them: the stock model first, then the patched one.                      *)
(*                                                                         *)
(* A timer is not a number but the bag of pieces of work that ran between   *)
(* its two events: what the milliseconds would be made of.                 *)
(***************************************************************************)
EXTENDS Integers, Sequences

CONSTANTS MaxTokens,  \* bound on decode forwards in an inference
          OdeSteps,   \* bound on the network evaluations of the flow ODE
          Runs,       \* warm-up and measured runs of one measure()
          Raises      \* whether an inference may raise

ASSUME Counts == /\ MaxTokens \in Nat /\ OdeSteps \in Nat \ {0}
                 /\ Runs \in Nat \ {0} /\ Raises \in BOOLEAN

Stages == {"ve", "prefill", "decode", "flow"}

VARIABLES
  hasTrunk, \* whether find_lm_module finds the LM trunk in this model
  hasEntry, \* whether the model has action_in_proj or expert
  pc,      \* where the program is (see Next)
  label,   \* "eager" or "umic": which measure() of main() runs or ran last
  runs,    \* its inferences so far
  did,     \* history: the work this inference did
  sample,  \* diffusion.sample: the wrappers around it, outermost first
  orig,    \* what _SampleWrapHandle puts back
  hooked,  \* whether the module hooks are registered
  patched, \* "no", or what umic.apply() did: "exact" or with "adaptive" flow
  state, decodeOpen, odeStep, \* of the PhaseSeparator
  timer, stepTimer,
  steps,   \* t_decode_steps
  result   \* what collect_timing() returned last

found == <<hasTrunk, hasEntry>>
program == <<found, label, runs, sample, orig, hooked, patched>>
separator == <<state, decodeOpen, odeStep, timer, stepTimer, steps>>
vars == <<pc, did, program, separator, result>>

(* A bag of work: how many pieces of each stage. *)
Works == [Stages -> Nat]
Nothing == [s \in Stages |-> 0]
Plus(a, b) == [s \in Stages |-> a[s] + b[s]]
Piece(s) == [Nothing EXCEPT ![s] = 1]

(* since: the work after start(); ms: the part of it before stop(). *)
Timers == [since : Works, started : BOOLEAN, ms : Works, stopped : BOOLEAN]

NewTimer == [since |-> Nothing, started |-> FALSE,
             ms |-> Nothing, stopped |-> FALSE]

Start(t) == [t EXCEPT !.since = Nothing, !.started = TRUE]
Stop(t) == [t EXCEPT !.ms = t.since, !.stopped = TRUE]

(* _safe_ms(): reading a timer with an unrecorded event raises, and gives 0 *)
Read(t) == IF t.started /\ t.stopped THEN t.ms ELSE Nothing

Results == [label : {"none", "eager", "umic"}, did : Works, n : Nat,
            stage : [Stages -> Works]]

NoResult == [label |-> "none", did |-> Nothing, n |-> 0,
             stage |-> [s \in Stages |-> Nothing]]

TypeOK ==
    /\ hasTrunk \in BOOLEAN /\ hasEntry \in BOOLEAN
    /\ pc \in {"apart", "between", "ready", "ve", "trunk", "prefilled", "gen",
               "token", "sample", "ode", "end", "dead", "done"}
    /\ label \in {"eager", "umic"} /\ runs \in 0 .. Runs
    /\ sample \in Seq({"timed", "adaptive"}) /\ orig \in Seq({"adaptive"})
    /\ hooked \in BOOLEAN /\ patched \in {"no", "exact", "adaptive"}
    /\ state \in {"idle", "vision", "lm_prefill", "post_prefill", "decode"}
    /\ decodeOpen \in BOOLEAN /\ odeStep \in 0 .. OdeSteps
    /\ timer \in [Stages -> Timers] /\ stepTimer \in Timers
    /\ steps \in Seq(Works) /\ did \in Works /\ result \in Results

NewTimers == [s \in Stages |-> NewTimer]

Init == /\ hasTrunk \in BOOLEAN /\ hasEntry \in BOOLEAN
        /\ pc = "apart" /\ label = "eager" /\ runs = 0 /\ did = Nothing
        /\ sample = <<>> /\ orig = <<>> /\ hooked = FALSE /\ patched = "no"
        /\ result = NoResult
        /\ state = "idle" /\ decodeOpen = FALSE /\ odeStep = 0
        /\ timer = NewTimers /\ stepTimer = NewTimer /\ steps = <<>>

-----------------------------------------------------------------------------
(* main() and measure(). *)

(* Mutation: reset() keeps counting the ODE steps. *)
ResetKeepsOdeStep ==
    /\ state' = "idle" /\ decodeOpen' = FALSE /\ odeStep' = odeStep
    /\ timer' = NewTimers /\ stepTimer' = NewTimer /\ steps' = <<>>

(* PhaseSeparator.reset() *)
Reset ==
    /\ state' = "idle" /\ decodeOpen' = FALSE /\ odeStep' = 0
    /\ timer' = NewTimers /\ stepTimer' = NewTimer /\ steps' = <<>>

(* register_hooks() on the new separator of a measure(). *)
Register ==
    /\ pc = "apart" /\ runs = 0 /\ pc' = "between"
    /\ orig' = sample /\ sample' = <<"timed">> \o sample /\ hooked' = TRUE
    /\ Reset
    /\ UNCHANGED <<found, label, runs, did, patched, result>>

(* Mutation: the timing wrapper of diffusion.sample stays. *)
RemoveHooksOnly == hooked' = FALSE /\ UNCHANGED <<sample, orig>>

(* measure()'s finally. *)
RemoveHooks == sample' = orig /\ hooked' = FALSE /\ UNCHANGED orig

(* A measure() is over: main() applies umic and measures again, or (--mode) *)
(* ends.                                                                   *)
EndMeasure ==
    /\ pc = "between" /\ runs = Runs
    /\ RemoveHooks
    /\ pc' \in IF label = "eager" THEN {"apart", "done"} ELSE {"done"}
    /\ UNCHANGED <<found, label, runs, did, patched, separator, result>>

(* umic.apply(), after the eager measure or (--mode umic) without one. *)
Apply ==
    /\ pc = "apart" /\ label = "eager"
    /\ label' = "umic" /\ runs' = 0
    /\ \/ patched' = "exact" /\ UNCHANGED sample
       \/ patched' = "adaptive" /\ sample' = <<"adaptive">> \o sample
    /\ UNCHANGED <<pc, found, did, orig, hooked, separator, result>>

BeginInference ==
    /\ pc = "between" /\ runs < Runs /\ pc' = "ready"
    /\ Reset /\ did' = Nothing
    /\ UNCHANGED <<program, result>>

-----------------------------------------------------------------------------
(* The hooks, and what the model does between them.                         *)

(* A piece of work of stage s, while timers T go on. *)
Elapse(t, s) == [t EXCEPT !.since = Plus(@, Piece(s))]

Work(s, T) == /\ did' = Plus(did, Piece(s))
              /\ timer' = [k \in Stages |-> Elapse(T[k], s)]

(* on_vlm_pre of a forward over the prompt, then the vision encoder.        *)
VlmPrefill ==
    /\ pc = "ready" /\ pc' = "ve"
    /\ Work("ve", IF state = "idle" THEN [timer EXCEPT !["ve"] = Start(@)]
                  ELSE timer)
    /\ state' = IF state = "idle" THEN "vision" ELSE state
    /\ UNCHANGED <<program, decodeOpen, odeStep, stepTimer, steps, result>>

(* Mutation: VE is closed when the trunk returns. *)
LmPreAfterTrunk ==
    /\ pc = "ve" /\ pc' = "trunk"
    /\ did' = Plus(did, Piece("prefill"))
    /\ LET opens == hasTrunk /\ state = "vision"
           T == IF opens THEN [timer EXCEPT !["prefill"] = Start(@)] ELSE timer
           W == [k \in Stages |-> Elapse(T[k], "prefill")]
       IN /\ timer' = IF opens THEN [W EXCEPT !["ve"] = Stop(@)] ELSE W
          /\ state' = IF opens THEN "lm_prefill" ELSE state
    /\ UNCHANGED <<program, decodeOpen, odeStep, stepTimer, steps, result>>

(* on_lm_pre, then the trunk. *)
LmPre ==
    /\ pc = "ve" /\ pc' = "trunk"
    /\ LET opens == hasTrunk /\ state = "vision"
       IN /\ Work("prefill", IF opens THEN [timer EXCEPT !["ve"] = Stop(@),
                                                         !["prefill"] = Start(@)]
                             ELSE timer)
          /\ state' = IF opens THEN "lm_prefill" ELSE state
    /\ UNCHANGED <<program, decodeOpen, odeStep, stepTimer, steps, result>>

(* on_lm_post *)
LmPost ==
    /\ pc = "trunk" /\ pc' = "prefilled"
    /\ LET closes == hasTrunk /\ state = "lm_prefill"
       IN /\ timer' = IF closes THEN [timer EXCEPT !["prefill"] = Stop(@)]
                      ELSE timer
          /\ state' = IF closes THEN "post_prefill" ELSE state
    /\ UNCHANGED <<did, program, decodeOpen, odeStep, stepTimer, steps, result>>

(* on_vlm_post: in "decode" it takes the step timer. *)
VlmPost ==
    /\ pc \in {"prefilled", "token"} /\ pc' = "gen"
    /\ IF state = "decode"
       THEN steps' = Append(steps, Read(Stop(stepTimer))) /\ stepTimer' = NewTimer
       ELSE UNCHANGED <<steps, stepTimer>>
    /\ UNCHANGED <<did, program, state, decodeOpen, odeStep, timer, result>>

(* Mutation: every decode forward restarts the decode timer. *)
OpensAlways == state \in {"post_prefill", "decode"}

OpensDecode == state = "post_prefill"

(* on_vlm_pre of a single-token forward, then its work. *)
VlmToken ==
    /\ pc = "gen" /\ did["decode"] < MaxTokens /\ pc' = "token"
    /\ Work("decode", IF OpensDecode THEN [timer EXCEPT !["decode"] = Start(@)]
                      ELSE timer)
    /\ decodeOpen' = (decodeOpen \/ OpensDecode)
    /\ state' = IF OpensDecode THEN "decode" ELSE state
    /\ stepTimer' = IF state' = "decode" THEN Elapse(Start(stepTimer), "decode")
                    ELSE stepTimer
    /\ UNCHANGED <<program, odeStep, steps, result>>

(* generate() is done; diffusion.sample is called. *)
Rollout == /\ pc = "gen" /\ pc' = "sample"
           /\ UNCHANGED <<did, program, separator, result>>

(* close_decode() *)
CloseDecode(T) == IF decodeOpen THEN [T EXCEPT !["decode"] = Stop(@)] ELSE T

(* One ODE step, with _flow_start before it. *)
OdeStep ==
    /\ pc \in {"sample", "ode"} /\ did["flow"] < OdeSteps /\ pc' = "ode"
    /\ LET first == hasEntry /\ odeStep = 0
           T == IF first THEN [CloseDecode(timer) EXCEPT !["flow"] = Start(@)]
                ELSE timer
       IN /\ Work("flow", T)
          /\ decodeOpen' = (decodeOpen /\ ~first)
    /\ odeStep' = IF hasEntry THEN odeStep + 1 ELSE odeStep
    /\ UNCHANGED <<program, state, stepTimer, steps, result>>

(* diffusion.sample returns through _timed_sample. *)
SampleReturns ==
    /\ pc = "ode" /\ pc' = "end"
    /\ timer' = IF sample[1] = "timed" /\ odeStep > 0
                THEN [timer EXCEPT !["flow"] = Stop(@)] ELSE timer
    /\ UNCHANGED <<did, program, state, decodeOpen, odeStep, stepTimer,
                   steps, result>>

(* sum(steps) *)
Total(q) ==
    LET sum[k \in 0 .. Len(q)] ==
            IF k = 0 THEN Nothing ELSE Plus(sum[k - 1], q[k])
    IN  sum[Len(q)]

(* collect_timing(): without an end event the decode total is the sum of    *)
(* its steps.                                                              *)
Collect ==
    /\ pc = "end" /\ pc' = "between" /\ runs' = runs + 1
    /\ LET decode == IF timer["decode"].started /\ timer["decode"].stopped
                     THEN timer["decode"].ms ELSE Total(steps)
       IN result' = [label |-> label, did |-> did,
                     n |-> Len(steps),
                     stage |-> [s \in Stages |-> IF s = "decode" THEN decode
                                                 ELSE Read(timer[s])]]
    /\ UNCHANGED <<found, label, did, sample, orig, hooked, patched, separator>>

(* An inference raises: measure()'s finally runs and the process ends.      *)
Raise == /\ Raises /\ pc \notin {"apart", "between", "dead", "done"}
         /\ pc' = "dead" /\ RemoveHooks
         /\ UNCHANGED <<found, label, runs, did, patched, separator, result>>

(* A new process. *)
Restart == /\ pc \in {"dead", "done"} /\ pc' = "apart"
           /\ label' = "eager" /\ runs' = 0 /\ did' = Nothing /\ sample' = <<>>
           /\ orig' = <<>> /\ hooked' = FALSE /\ patched' = "no"
           /\ result' = NoResult /\ Reset /\ UNCHANGED found

Next == \/ Register \/ EndMeasure \/ Apply \/ BeginInference
        \/ VlmPrefill \/ LmPre \/ LmPost \/ VlmPost \/ VlmToken \/ Rollout
        \/ OdeStep \/ SampleReturns \/ Collect \/ Raise \/ Restart

Spec == Init /\ [][Next]_vars
-----------------------------------------------------------------------------
(* Correctness.                                                             *)

Measured == result.label # "none"

Share(s) == [Nothing EXCEPT ![s] = result.did[s]]

(* Every result attributes all the work of a stage to that stage and no     *)
(* other work, whatever inferences came before: "VE opens at the first vlm  *)
(* forward (seq > 1), closes when the LM trunk first sees seq > 1", and so  *)
(* on (bench.py:9-16).                                                     *)
StagesExact ==
    Measured /\ hasTrunk /\ hasEntry =>
        /\ result.n = result.did["decode"]
        /\ \A s \in Stages : result.stage[s] = Share(s)

(* wall_ms is a sum of stages: no piece of work is in it twice, also when   *)
(* a module to hook was not found (bench.py:221-242).                      *)
NothingTwice ==
    LET wall == Plus(Plus(result.stage["ve"], result.stage["prefill"]),
                     Plus(result.stage["decode"], result.stage["flow"]))
    IN  \A s \in Stages : wall[s] <= result.did[s]

(* Outside a measure(), also after an exception in one, the model has what  *)
(* apply() gave it and no timing hooks (run_pipeline.py:101-103, 144-157).  *)
Detached ==
    pc \in {"apart", "dead", "done"} =>
        /\ ~hooked
        /\ sample = IF patched = "adaptive" THEN <<"adaptive">> ELSE <<>>
=============================================================================
