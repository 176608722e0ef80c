---------------------------- MODULE FlowSampling ----------------------------
(***************************************************************************)
(* diffusion.sample with the wrappers umic puts around its step functions:  *)
(* AdaptiveFlowCache (diffusion.py) skips middle ODE steps, FlowStepGraph   *)
(* (graph.py) captures one step and replays it.  Both are made anew for     *)
(* every sample() call and both intercept kwargs["step_fn"] and             *)
(* kwargs["unguided_step_fn"], so they nest in the order of installation.   *)
(*                                                                         *)
(* A velocity is the ODE step whose input it was computed from, and whether *)
(* the expert saw the right rows while computing it.                       *)
(***************************************************************************)
EXTENDS Integers, Sequences, FiniteSets, FiniteSetsExt

CONSTANTS
  Closures,     \* step functions a sample() call may have
  Setups,       \* the setups to consider, see below
  WarmupSteps,  \* eager calls before a capture
  MaxSteps      \* bound on diffusion.num_inference_steps

(* A setup has the wrappers, outermost (installed first) to innermost, the  *)
(* closures of its sample() calls, n_front and n_back, whether captures may *)
(* raise, and the KV cache the expert appends to: "runner" an               *)
(* InplaceKVCache, "own" a DynamicCache behind the expert's hook, "dynamic" *)
(* a DynamicCache without a hook.                                          *)
Stacks == {<<"adaptive">>, <<"graph">>, <<"adaptive", "graph">>,
           <<"graph", "adaptive">>, <<"adaptive", "adaptive">>}

ASSUME Installed ==
    \A u \in Setups :
        /\ u.stack \in Stacks /\ u.cache \in {"runner", "own", "dynamic"}
        /\ u.closures # {} /\ u.closures \subseteq Closures
        /\ u.front \in Nat /\ u.back \in Nat /\ u.fails \in BOOLEAN

ASSUME Counts == WarmupSteps \in Nat /\ MaxSteps \in Nat \ {0}
ASSUME Names == "nobody" \notin Closures

VARIABLES
  setup,     \* what was installed before the first sample(), fixed
  numSteps,  \* diffusion.num_inference_steps
  total,     \* what it was when fuse_adaptive_flow was called
  phase,     \* "idle" or "sampling"
  step,      \* ODE step
  todo,      \* closures the sampler has not called in this step
  used,      \* velocities each closure returned, in order of steps
  wrap,      \* state of each closure's wrappers
  owner,     \* closure whose cache the expert's hook remembers
  whose,     \* closure whose cache its substitute was made from
  extra      \* whether the cache holds rows of an unfinished forward

vars == <<setup, numSteps, total, phase, step, todo, used, wrap, owner, whose,
          extra>>

Stack == setup.stack
Cache == setup.cache
Front == setup.front
Back == setup.back

NoVelocity == [of |-> -1, rows |-> "none"]

Velocities == [of : 0 .. MaxSteps - 1, rows : {"own", "extra", "other", "freed"}]

(* calls: AdaptiveFlowCache.i, FlowStepGraph.n; last: .cached, .out; graph: *)
(* "live" while the memory it was captured on is allocated; computes:       *)
(* whether an expert forward was captured.                                 *)
Wrapper == [calls : Nat, last : Velocities \cup {NoVelocity},
            graph : {"none", "live", "freed"}, computes : BOOLEAN,
            failed : BOOLEAN]

NewWrapper == [calls |-> 0, last |-> NoVelocity, graph |-> "none",
               computes |-> FALSE, failed |-> FALSE]

NewWrappers == [c \in Closures |-> [l \in DOMAIN Stack |-> NewWrapper]]

TypeOK ==
    /\ setup \in Setups
    /\ numSteps \in 1 .. MaxSteps /\ total \in 1 .. MaxSteps
    /\ phase \in {"idle", "sampling"} /\ step \in 0 .. MaxSteps
    /\ todo \subseteq Closures
    /\ used \in [Closures -> Seq(Velocities)]
    /\ wrap \in [Closures -> [DOMAIN Stack -> Wrapper]]
    /\ owner \in Closures \cup {"nobody"} /\ whose \in Closures \cup {"nobody"}
    /\ extra \in BOOLEAN

Init == /\ setup \in Setups /\ numSteps \in 1 .. MaxSteps /\ total = numSteps
        /\ phase = "idle" /\ step = 0 /\ todo = {}
        /\ used = [c \in Closures |-> <<>>] /\ wrap = NewWrappers
        /\ owner = "nobody" /\ whose = "nobody" /\ extra = FALSE

(* The pipeline is reconfigured; the wrappers keep their install-time set.  *)
SetSteps(n) ==
    /\ phase = "idle" /\ numSteps' = n
    /\ UNCHANGED <<setup, total, phase, step, todo, used, wrap, owner, whose, extra>>

Sample ==
    /\ phase = "idle" /\ phase' = "sampling" /\ step' = 0
    /\ todo' = setup.closures
    /\ used' = [c \in Closures |-> <<>>] /\ wrap' = NewWrappers
    /\ owner' = "nobody" /\ whose' = "nobody" /\ extra' = FALSE
    /\ UNCHANGED <<setup, numSteps, total>>

-----------------------------------------------------------------------------
(* A call returns [s: the state after it, v: the velocity, ran: whether it  *)
(* ran an expert forward]; the state is a record of the variables it may    *)
(* change.                                                                  *)

Freed(w) == IF w.graph = "live" THEN [w EXCEPT !.graph = "freed"] ELSE w

(* The expert's hook converts a cache other than the one it remembers; the  *)
(* old substitute, which only the hook held, is freed.                     *)
HookCache(s, c) ==
    IF Cache # "own" \/ s.owner = c THEN s
    ELSE [s EXCEPT !.owner = c, !.whose = c,
                   !.wrap = [d \in Closures |->
                               [l \in DOMAIN Stack |-> Freed(s.wrap[d][l])]]]

(* The model's step function: append, attend, crop.  A hooked cache is      *)
(* cropped back before it is appended to, an InplaceKVCache is not.        *)
StepFn(s, c, k) ==
    LET h == HookCache(s, c)
    IN [s |-> [h EXCEPT !.extra = FALSE],
        v |-> [of |-> k,
               rows |-> IF Cache = "own"
                        THEN IF h.whose = c THEN "own" ELSE "other"
                        ELSE IF s.extra THEN "extra" ELSE "own"],
        ran |-> TRUE]

(* The same, raising once a layer has appended. *)
BrokenStepFn(s, c) == [HookCache(s, c) EXCEPT !.extra = TRUE]

(* The same, its conversion raising: the hook remembers the cache by then,  *)
(* and still has the substitute of another closure's (integrate.py:745-748).*)
BrokenHook(s, c) == [s EXCEPT !.owner = c]

(* The step indices of fuse_adaptive_flow. *)
Fresh == (0 .. Front - 1) \cup (Max({0, total - Back}) .. total - 1)

(* Mutation: a velocity is reused before there is one. *)
SkipsUnseen(w) == w.calls \notin Fresh

Skips(w) == w.calls \notin Fresh /\ w.last # NoVelocity

(* AdaptiveFlowCache.__call__ of the wrapper at level l; fresh is what the  *)
(* function it wraps would return.                                         *)
Adaptive(s, c, l, fresh) ==
    LET w == s.wrap[c][l]
        r == IF Skips(w) THEN [s |-> s, v |-> w.last, ran |-> FALSE] ELSE fresh
    IN [r EXCEPT !.s.wrap[c][l].calls = @ + 1, !.s.wrap[c][l].last = r.v]

(* Mutation: the capture's inputs are not refreshed before a replay. *)
ReplayStale(w, k) ==
    IF w.computes /\ w.last = NoVelocity
    THEN [of |-> k, rows |-> IF w.graph = "live" THEN "own" ELSE "freed"]
    ELSE w.last

(* What a replay leaves in the static output.  A graph that captured no     *)
(* forward computes nothing: its output is a tensor from outside.          *)
Replayed(w, k) ==
    IF w.computes
    THEN [of |-> k, rows |-> IF w.graph = "live" THEN "own" ELSE "freed"]
    ELSE w.last

Replay(s, c, l, k) ==
    LET v == Replayed(s.wrap[c][l], k)
    IN [s |-> [s EXCEPT !.wrap[c][l].last = v], v |-> v,
        ran |-> s.wrap[c][l].computes]

(* DynamicCache concatenates out of place: the captured step reads tensors  *)
(* that only the cache held, and the step itself replaces them.            *)
Captured(r, c, l) ==
    [r.s EXCEPT !.wrap[c][l].graph = IF Cache = "dynamic" /\ r.ran
                                     THEN "freed" ELSE "live",
                !.wrap[c][l].computes = r.ran,
                !.wrap[c][l].last = IF r.ran THEN NoVelocity ELSE r.v]

(* Mutation: the graph is assigned before its capture is complete. *)
KeepsBrokenGraph(s, c, l) == [s EXCEPT !.wrap[c][l].failed = TRUE,
                                       !.wrap[c][l].graph = "live"]

MarkFailed(s, c, l) == [s EXCEPT !.wrap[c][l].failed = TRUE]

Eagerly(w) == w.failed \/ (w.graph = "none" /\ w.calls < WarmupSteps)

(* What a graph, or the inner one of two adaptive wrappers, is around. *)
Wrapped(s, c, l, k) ==
    IF l = Len(Stack) THEN StepFn(s, c, k)
    ELSE Adaptive(s, c, l + 1, StepFn(s, c, k))

(* FlowStepGraph.__call__: eager warm-up calls, then a capture of two calls *)
(* of step_fn, in which how says where an exception is raised, then replays. *)
Graph(s, c, l, k, how) ==
    LET w == s.wrap[c][l]
        r == Wrapped(s, c, l, k)
        captured == Wrapped(r.s, c, l, k)
        broken == CASE how = "convert" -> BrokenHook(s, c)
                    [] how = "warm" -> BrokenStepFn(s, c)
                    [] how = "capture" -> BrokenStepFn(r.s, c)
                    [] OTHER -> captured.s
    IN IF Eagerly(w) THEN [r EXCEPT !.s.wrap[c][l].calls = @ + 1]
       ELSE IF w.graph # "none" THEN Replay(s, c, l, k)
       ELSE IF how = "ok" THEN Replay(Captured(captured, c, l), c, l, k)
       ELSE Wrapped(MarkFailed(broken, c, l), c, l, k)

(* The patched sample functions: each wraps what the one before passes on.  *)
Invoke(s, c, k, how) ==
    IF Stack[1] = "graph" THEN Graph(s, c, 1, k, how)
    ELSE Adaptive(s, c, 1, IF Len(Stack) = 2 /\ Stack[2] = "graph"
                           THEN Graph(s, c, 2, k, how)
                           ELSE Wrapped(s, c, 1, k))

(* The outcomes a call can have: a call that does not capture has one.  An  *)
(* adaptive wrapper inside may run no forward that could raise.            *)
Outcomes == IF setup.fails THEN {"ok", "convert", "warm", "capture", "end"}
            ELSE {"ok"}

CanRaise(c, how) ==
    /\ how = "convert" => Cache = "own" /\ owner \notin {c, "nobody"}
    /\ Stack = <<"graph", "adaptive">> =>
          LET w == wrap[c][2]
          IN /\ how \in {"convert", "warm"} => ~Skips(w)
             /\ how = "capture" => w.calls + 1 \in Fresh

Evaluate(c, how) ==
    /\ phase = "sampling" /\ c \in todo /\ CanRaise(c, how)
    /\ LET r == Invoke([wrap |-> wrap, owner |-> owner, whose |-> whose,
                        extra |-> extra], c, step, how)
       IN /\ wrap' = r.s.wrap /\ owner' = r.s.owner /\ whose' = r.s.whose
          /\ extra' = r.s.extra
          /\ used' = [used EXCEPT ![c] = Append(@, r.v)]
    /\ IF todo # {c} THEN todo' = todo \ {c} /\ UNCHANGED <<step, phase>>
       ELSE IF step + 1 < numSteps
       THEN step' = step + 1 /\ todo' = setup.closures /\ UNCHANGED phase
       ELSE todo' = {} /\ phase' = "idle" /\ UNCHANGED step
    /\ UNCHANGED <<setup, numSteps, total>>

(* A step function raises out of the wrappers: the inference is lost. *)
SampleRaises ==
    /\ phase = "sampling" /\ phase' = "idle" /\ todo' = {}
    /\ extra' \in BOOLEAN
    /\ UNCHANGED <<setup, numSteps, total, step, used, wrap, owner, whose>>

Next == \/ \E n \in 1 .. MaxSteps : SetSteps(n)
        \/ Sample
        \/ \E c \in Closures, how \in Outcomes : Evaluate(c, how)
        \/ SampleRaises

Spec == Init /\ [][Next]_vars
-----------------------------------------------------------------------------
(* Correctness.                                                             *)

Adapts == \E l \in DOMAIN Stack : Stack[l] = "adaptive"

(* The step a schedule of Front fresh steps and Back fresh steps before     *)
(* step total reuses at step k.                                            *)
LastFresh(k) ==
    IF ~Adapts THEN k
    ELSE Max({0} \cup {j \in 0 .. k : \/ j < Front
                                      \/ total - Back <= j /\ j < total})

(* An adaptive wrapper inside another wrapper counts only the calls that    *)
(* one passes on, or is captured with one decision: its schedule is lost.   *)
Nested == Len(Stack) = 2 /\ Stack[2] = "adaptive"

(* Every velocity the sampler integrates is the one the installed schedule  *)
(* promises, computed on the rows of this inference's own prompt: warm-ups, *)
(* captures, replays and reuse are invisible (diffusion.py:47-52,           *)
(* graph.py:208-232), whatever num_inference_steps has become since.  Not   *)
(* so in the setups in which captured memory is freed: see the README.     *)
Schedule ==
    ~Nested => \A c \in Closures : \A n \in DOMAIN used[c] :
        used[c][n] = [of |-> LastFresh(n - 1), rows |-> "own"]

(* Whatever happens in a capture, each velocity is computed on the rows of  *)
(* its closure's prompt only: "Capture failure falls back to eager so       *)
(* correctness never breaks." (graph.py:193-194).                          *)
FallbackSound ==
    \A c \in Closures : \A n \in DOMAIN used[c] :
        used[c][n].rows \notin {"extra", "other"}

(* A capture has one outcome per sample(): its graph stays until the next,  *)
(* or its failure does, and a failed capture leaves no graph that a later   *)
(* step could replay (graph.py:212-229).                                   *)
CapturesOnce ==
    [][phase = "sampling" =>
         \A c \in Closures, l \in DOMAIN Stack :
            /\ wrap[c][l].graph # "none" => wrap'[c][l].graph # "none"
            /\ wrap[c][l].failed =>
                 wrap'[c][l].failed /\ wrap'[c][l].graph = "none"]_vars
=============================================================================
