# A verification project for UMIC

UMIC (`src/src/umic`) patches a loaded Alpamayo model in place so that it runs
faster and computes the same. This directory holds TLA+ models of the parts of
UMIC that keep state between calls, TLC configurations that check them, and
proofs checked by TLAPS.

Paths below are relative to the repository (`src/` in `PROJECT.json`): `umic/…`
stands for `src/umic/…`.

## 1. The system

One inference of Alpamayo runs the vision encoder (VE), a prefill of the LM
trunk, a loop of single-token decode forwards (`generate()`), and then the flow:
an Euler loop that calls a step function, which appends action tokens to the KV
cache of the prompt, runs the expert, and crops the cache back.
`umic.apply()` replaces forwards, library functions and wrappers of that
program; the program itself is in other packages (transformers, alpamayo1_5).

| Component | State it keeps | Operations |
|---|---|---|
| decode graph runner, `umic/graph.py` | one CUDA graph and static output per KV length; one `InplaceKVCache`; static input tensors; `in_decode`, `step`, `base_len` | `__call__` (bypass, begin, warm up, capture, replay), `finish`, the wrapper of `generate` |
| in-place KV cache, `umic/cache.py` | per layer: buffers, `_pos`, `graph_mode`, `_graph_len` | `update`, `crop`, `from_dynamic`, `enable_/disable_graph_mode`, `set_pos`, `set_graph_len` |
| repeat-cache hook, `umic/integrate.py` | `orig_id`, `converted` | a forward pre-hook, on the VLM or the expert |
| flow step graph, `umic/graph.py` | a counter, a graph with its static tensors, `failed`; new for every `sample()` | `__call__` |
| adaptive flow, `umic/diffusion.py` | a counter, the last velocity; new for every `sample()`; the set of fresh steps, from installation | `__call__` |
| vision encoder, `umic/integrate.py` | constants of the last grid, per attention block the last `cu_seqlens` and its maximum | the fused forward |
| fusions, `umic/integrate.py`, `umic/optimize.py` | overridden forwards, replaced library functions, hooks | `apply()`, `unfuse_mlps()` |
| stage timing, `umic/bench.py`, `scripts/run_pipeline.py` | the stage state machine, five CUDA timers, the hooks it registered | hooks, `reset`, `collect_timing`, `measure()`, `main()` |
| Triton kernels, `umic/kernels` | none; a launch writes its output | a grid of programs, each storing one tile |
| environment check, `scripts/check_env.py`, `scripts/run_all.sh` | failures and fixes, stdout's buffer, file descriptor 1, one environment variable that outlives `execv` | three sections of checks, repair, re-execution, advice |

How they interact: the hook and the runner both put an `InplaceKVCache` in the
place of the `DynamicCache` that transformers made; generate() carries that
cache on and the flow's step function appends to it. The step graph captures
the addresses of whichever cache that is. The timing hooks sit on modules whose
forwards the fusions replace. The check comes first: `run_all.sh` starts the
benchmark only if it exits with 0. All of it but the programs of a kernel's grid
runs in one thread and one CUDA stream order; what makes it hard is not interleaving but **state that outlives the call
it was made for**: graphs outlive buffers, buffers outlive inferences, a
remembered `id()` outlives its object, a cache key its value, a counter the
sequence it counts, a flag the exception that should have cleared it.

What each component owes, and where it is stated:

* runner, cache and hook: an inference attends to the rows it would attend to
  without UMIC, in every forward (`RefinesEager`); no graph reads memory that
  moved (`GraphsLive`); nothing is written past a buffer (`NoOverflow`); what
  goes wrong after an exception stays confined and heals (`LeakIsConfined`,
  `EagerUnlessLeaked`, `LeakHeals`, `ReuseIsConfined`), and the layers of
  a cache do not drift apart (`LayersAgree`); graphs are lost only to a prompt of
  another length (`GraphsPersist`), and captures come to an end once the prompts fit
  the buffers (`CapturesEnd`).
* step functions: the sampler integrates the velocities of the schedule that
  was installed (`Schedule`), through captures and their failures
  (`CapturesOnce`, `FallbackSound`; the second fails).
* vision encoder: every norm sees the sum it would see unfused (`EagerInputs`),
  every call the constants of its own grid (`ConstsOfGrid`).
* fusions: the same operations in the same order, whatever was applied
  (`SameMath`), fused only where asked (`OnlyAsked`), and where reported
  (`ReportTrue`, with one exception).
* timing: each piece of work is counted in its own stage and once
  (`StagesExact`, `NothingTwice`), and the measuring hooks come off (`Detached`).
* kernels: every element of the output is stored (`Covered`) by one program only
  (`NoRace`) and is made of the right elements of the input (`SameSums`).
* environment check: it ends (`Terminates`), starts over at most once
  (`StartsOverOnce`), loses no output (`OutputKept`), tells everything there is to
  do (`Told`, with exceptions), and lets the benchmark run only where all it counts
  as a failure is in order (`BenchmarkUsable`).

`PROJECT.json` lists the hazards one by one, each at its line.

## 2. The modules

| Module | Models | Composition |
|---|---|---|
| `KVBuffer` | KV memory: functions from positions to rows; append, write, prefix, copy, allocate | extended by the three modules below |
| `EagerSession` | the stock pipeline: the **abstract specification** | instantiated by the next two |
| `DecodeGraph` | runner + in-place cache + pipeline, over many inferences | refines `EagerSession` |
| `RepeatCache` | the hooks on VLM and expert + in-place caches + pipeline | refines `EagerSession` |
| `FlowSampling` | `sample()` with its stack of step-function wrappers | |
| `VisionEncoder` | the fused encoder forward, call after call | |
| `Optimize` | what a history of `apply()` and `unfuse_mlps()` leaves installed and what a pass then runs | |
| `PhaseSeparator` | timers and hooks around inferences, `measure()`, `main()` | |
| `KernelTiles` | one launch of a kernel: linear, gate/up, RMSNorm, LayerNorm, RoPE | |
| `CheckEnv` | `check_env.py` and what `run_all.sh` does around it | |
| `DecodeGraphProofs`, `RepeatCacheProofs`, `FlowSamplingProofs`, `VisionEncoderProofs`, `OptimizeProofs`, `PhaseSeparatorProofs`, `KernelTilesProofs`, `CheckEnvProofs` | lemmas and theorems | extend the modules they are about |
| `MCDecodeGraph`, `MCRepeatCache`, `MCFlowSampling`, `MCOptimize`, `MCKernelTiles` | values for TLC | extend the modules |

### KV memory

The numbers in a cache do not matter to any property; who wrote them does. A
row is a record: the inference it was written for, the inference whose rope
deltas rotated it, and whether it is a text or an action token. `Junk` is what
unwritten or foreign memory reads as. The variable `seen` holds the rows the
last forward attended to, so that "reads stale KV" is a statement about rows,
not about pointers.

### DecodeGraph

`phase` is the pipeline's program counter. `Prefill` is generate()'s first
forward, which `__call__` passes on. A single-token forward is one of
`Bypass`; `BeginReuse`, `BeginRebuild` or `BeginContinue` (the three ways
through `_begin_inference`) followed by the rest; or, when `in_decode` is set,
the rest alone: `Warmup`, `Capture`, `Replay`, or `DeviceFault` where the
unchecked `index_copy_` leaves the buffer. Beginning and running are two steps
because the capture and the model may raise between them. A graph is a record
of the address and length it bakes; a replay whose address is not the
runner's reads `Junk`. `BeginRebuild` takes a new address, since the old
buffers are still referenced while the new ones are allocated.
`AbortGenerate` is an exception out of `generate()`: `finish()` is skipped.
`RebuildRaises` is one out of `from_dynamic`, which comes after the graphs were dropped
(`NeedsRebuild`): they are gone, the old buffers and `base_len` stay. An exception in the
rest of `_begin_inference`, between the copy and `in_decode = True`, is not a step of its own:
what it leaves in the buffers is the KV the next inference overwrites.
`NextTurn` is a second `generate()` on the same cache, and is why
`_begin_inference` tests `pkv is not self.cache`.

The history variable `begun` says whether the KV of this inference was moved to
the buffers. It guards nothing.

### RepeatCache

`origId` and the substitute's `buf`, `cap`, `pos` are the state of each hook's
closure, `buf` and `pos` per layer. `id` is the address of the caller's cache
object; `Prefill` picks any address, a remembered one only if the setup says that
addresses are reused. `setup`, chosen in the initial state, is what is installed
and what it is called with: the hook on the VLM (`vlmHook`) or only the one on the
expert, a captured flow step with its eager retry (`flowGraph`), `idsReused`,
prompts and budget.

A forward on a substitute is a call of the hook, then one action per layer. The
hook is `Convert` (a cache it does not remember), `Reuse` (one it does: crop),
`PassThrough` (already a substitute), or `ConversionRaises`, after which `orig_id`
is that of the new cache and the substitute the old one's or none. `UpdateLayer`
appends to one layer; the last one ends the forward (`DecodeReturns`: generate()
adopts the substitute, `held = "conv"`; `FlowReturns`). `EndInference` may come
between any two of them, which is how a forward that raises leaves the layers at
different write pointers; `Retry` is the fallback of a captured flow step that did
the same. `seen` is per layer. The refinement looks at one layer, any of them
(`Watch`), and `LayersAgree` says that the others saw the same. `genuine` is history:
no hook remembered this cache's address when the inference started.

### FlowSampling

`setup`, chosen in the initial state, is what was installed: the stack of
wrappers, the closures of a `sample()`, the schedule, the cache, whether captures
may raise. Wrappers are functions around functions; `Invoke` composes `Adaptive`
and `Graph` around `StepFn` in the order `Stack` gives, two deep. A
velocity is the ODE step it was computed from and the rows it was computed on
(`own`, with `extra` rows, those of an`other` closure, or `freed` memory). A
capture calls the inner function twice; its outcome is `ok`, or an exception in
the conversion of the expert's hook (`convert`), in the warm-up call (`warm`), in
the captured one (`capture`) or after both (`end`). The hook remembers a closure's
cache (`owner`) and holds a substitute made from one (`whose`); they differ after
a conversion that raised. What the cache
under the step function is decides what these do to it: a runner's or hook's
in-place cache, a cache behind the hook (which two closures share), a plain
`DynamicCache`.

### VisionEncoder

The residual stream is a bag of block outputs: a function that counts how
often each was added. `pending` is the output still to be added. Constants are
represented by the grid they were computed from. `ConstsRaise`, `AttnRaises` and
`Raise` end a call at the points where an exception leaves a cache half-filled,
or anywhere else; the history variable `torn` remembers the former until the
constants are computed anew.

### Optimize

`installed` counts each patch. A forward pass is the sequence of
(operation, implementation) pairs it runs. Models are sets of motifs, so that
absent motifs are part of the state space, and so is whether Triton is there. The encoder has one block here;
`VisionEncoder` has the others.

### PhaseSeparator

A timer counts the pieces of work of each stage that ran between its events,
which is what its milliseconds would be made of. Whether the model has the modules to hook
(`hasTrunk`, `hasEntry`) is chosen in the initial state. `main()` and `measure()` are included, as the
hooks must come off when an inference raises and before `apply()` patches the
same functions.

### KernelTiles

A launch has a kind, a shape and block sizes. `Programs` is its grid, `Grouped` the
numbering of the linear kernel's tiles, `RowsOf` and `ColumnsOf` the lanes of a
program after its masks. `Run` lets any program that has not run store its tile.
`mem` maps an address to the sum the storing lane held. A sum is a set of
`<<how, a, b>>`, the element at address `a` of the input times that at `b` of the other
operand: of a product, `x[row, k]` and `w[k, column]`, with the loop's iteration
(`Reached`, and the masks `LoadsX` and `LoadsW` of the two loads); of a norm's variance the
element and itself; of RoPE the table of cosines or sines, with the sign. Rows and columns
are the offsets of the program and the lane, for loads and stores alike. A lane that reads
past a row adds an element of the next row, one that writes past a row stores into
it, and a LayerNorm's padding lane, loaded as 0, adds the mean's square (`Nothing`) unless
`tl.where` drops it (`Kept`). Programs read only the inputs, hence one step each. The
model takes rows as contiguous and, for RoPE, the heads of a position as adjacent,
which is what the callers in `integrate.py` pass. One sum stands for the two
accumulators of the gate kernel, which load at the same offsets, and one output for the
two of `_add_rmsnorm_kernel` and `_add_layernorm_kernel`, which store at the same offsets
under the same mask; a norm's mean and its weights, of the loaded lanes only, are left out.

### CheckEnv

`world` is the machine: any combination of what the checks look for, and two things they
do not count: a package that cannot be imported (`absent`) and a kernel that the smoke
test leaves out (`unsmoked`: RoPE, `add_layernorm`, the GELU epilogue). `exit` says how the
process ended: `"0"`, `"1"`, or with status 1 by an uncaught exception, `"timeout"` if it was
pip's, `"traceback"` otherwise. `pc` goes
through one process image; `ReExecute` starts the next. `buffer` is Python's own
buffer of stdout, `screen` what has left it for the terminal or the pipe, `fd1`
where descriptor 1 points (the smoke test lets the compiler write to a log);
`Spill` is the buffer being written out because it is full. `RedirectFails` and `RestoreRaises` are exceptions before
and after the section, `SmokeRaises` inside it. A repair may succeed,
change nothing, fail or time out. `LockClocks` and `AfterCheck` are the lines of
`run_all.sh` before and after.

## 3. What TLC checks

`tlc -config X.cfg M` for each run in `PROJECT.json`; each takes less than two
minutes. Every property of a passing run is also violated by a mutant of
a modelled definition (`(* Mutation: ... *)` in the modules), so none holds by
the shape of the model.

| Run | Instance | Shows |
|---|---|---|
| `DecodeGraph_session` | 2 inferences, prompts of 2 and 3, padded prompts, follow-up turns, no exception | buffers rebuilt, reused and continued on: no overflow, refinement of `EagerSession` and so no stale read |
| `DecodeGraph_aborts` | prompts of 2 and 3, headroom too small, exceptions in generate() and in rebuilds, fair | an exception changes only the decode of an inference that finds the leaked flag, and only that one reads foreign rows; graphs stay live and are lost only to another prompt length; the flag is cleared unless the device has faulted; captures end once the prompts fit the buffers |
| `RepeatCache_hooked` | 2 layers; the VLM's hook, or retried flow steps; addresses reused or not; conversions and forwards that raise | types, room, staleness confined, layers agree, refinement of `EagerSession` unless an address is reused |
| `FlowSampling_setups` | adaptive alone, graph alone, graph inside adaptive, and both nested wrongly; 1 to 7 steps, changed after installation; failing captures | schedule, one outcome per capture |
| `PhaseSeparator_stages` | 3 tokens, 3 ODE steps, 2 runs per measurement, modules missing, exceptions, restarts | stages exact, nothing twice, hooks removed |
| `VisionEncoder_fused` | 4 blocks, 2 adjacent taps, 3 grids, exceptions everywhere | sums, taps, constants |
| `Optimize_fused` | 3 models, 5 configurations, 3 applications, Triton or not | same math, as asked, as reported |
| `KernelTiles_grids` | 15 launches: five rows of tiles in groups of 1 to 5 and 32, blocks that divide the shape and that do not | covered, no race, right sums |
| `CheckEnv_repairs` | every machine, terminal or pipe, `--no-fix`, inherited variable, fair | ends, starts over once, loses nothing, tells all, guards the benchmark |

Bounds. Two inferences are enough for staleness, since a row tells only its own
inference from others, and the buffers are reused again and again by the two in
turn. Two addresses are enough since a new buffer only has to differ from the
one it replaces. Prompt lengths, budgets and headroom are small but ordered as
in the code (prompt > 1, room for the budget, the flow and one follow-up turn,
a margin). `aborts` makes the headroom one row too small on purpose: the flow may overflow the
buffers, and the longer prompt, on those of the shorter one, writes past them when
the flag has leaked. `WarmupSteps` is 1, and `step` saturates there, above which it is not
read. `MaxKV` bounds a conversation on a stock cache. Three grids and four
blocks give first, last, tapped and untapped neighbours in every order that
matters. `RepeatCache_hooked` has 2 layers, since all properties compare a layer
with another or look at one; prompts of 1 and 4 differ by more than hint and margin
(1 and 2), so that a stale substitute can be too small and an adopted one is at its
limit (698,776 states). `CheckEnv` has no constants: the run visits every machine, and
what it bounds is the number of process images it can tell apart, 3, one more than
there may be (261,432 states). `KernelTiles` has 6,724 states,
`DecodeGraph_session` 1,983,143, `DecodeGraph_aborts` 1,055,028. `MaxSteps` 7 exceeds front + back + warm-up. `MaxTokens`, `OdeSteps`,
`Runs` and `MaxApplies` bound loops whose third iteration is like the second.
Symmetry of inferences and addresses is used in safety and refinement checks
only, never in a run with fairness.

Deadlock is checked except where the program may stop: after a device fault
(`aborts`, `stale`), when the bound on applications is used up (`Optimize`), and
where the program ends: a grid whose programs have all run (`KernelTiles`) and
`run_all.sh` (`CheckEnv`).

### Fairness

`DecodeGraph!FairSpec`: the vehicle keeps starting inferences (weak fairness of
`Prefill`), a forward that was entered is executed (weak fairness of
`DecodeForward`: it is synchronous code), and a `generate()` that can return
does so again and again (strong fairness of `EndGenerate`): generation has a
budget, and exceptions do not end every one of them for ever. Without the last
the leaked flag would never be cleared, and nothing in the code would clear it.

`CheckEnv!FairSpec`: a step of the scripts that can be taken is taken (weak
fairness of all of them together). Each command they run has a time limit
(`subprocess.run(..., timeout=)`, `sudo -n`) or ends by itself.

### Where the code does not do what it says

Each of these runs has one property, a sentence of the repository, and TLC
finds a behaviour of the code that breaks it. `PROJECT.json` ("findings") quotes
the sentences.

| Run | What happens |
|---|---|
| `DecodeGraph_stale` | after an exception in `generate()`, the next inference decodes on the last one's KV |
| `RepeatCache_stale` | a new cache at a freed cache's address is served the old substitute |
| `FlowSampling_fallback` | after a failed capture the eager step sees rows the capture appended |

The sentence of `FlowSampling_fallback` is broken in a second way: a capture in which the expert's hook
runs out of memory while it converts leaves the hook with the new cache's address
and another closure's substitute, and the eager retry runs on that
(`umic/integrate.py:745-748`; `Setups <- FailingConversion` in that run's cfg).

Other differences between the code and its documentation that the models show,
by the exception a property makes for them or by a definition, without a run of
their own:

* Captured memory is freed in two setups that `Installed` allows and `FlowSampling_setups`
  leaves out. Two step closures that take turns behind the expert's hook make it convert
  at every turn, and each conversion frees the buffers that the other closure's graph
  replays on (`umic/integrate.py:748`); over a plain `DynamicCache` each step allocates a
  new prefix and frees the captured one. "The buffer addresses the kernels touch are
  identical each step" (`umic/graph.py:185-186`) is true of neither, and `Schedule` fails:
  `Setups <- SharedHook` or `PlainCache`, with `Schedule`, in the cfg of
  `FlowSampling_fallback`.
* The bf16 cast of the residual stream is reported as fused, but the encoder forward that
  the same `apply()` installs does not call the block the cast hooks
  (`umic/integrate.py:709`), against `umic/optimize.py:46-48`, which lists both: `Bypassed`
  in `ReportTrue`.
* pip's time limit ends the check by an exception that nothing catches, before the manual
  fixes are printed (`check_env.py:365`), although "one run of this script tells you
  everything you have to do" (`:35-36`): the exception `"timeout"` in `Told`.
* The smoke test runs neither RoPE nor `add_layernorm` nor the GELU epilogue
  (`check_env.py:230`), although it is said to run "every UMIC Triton kernel" (`:7`), and
  exit code 0 to mean "all available kernels correct" (`:12`): `"unsmoked"` in `Usable`.
* `max_new_tokens` equal to generate()'s budget, which `umic/optimize.py:59` allows
  (">= generate() budget"), is not enough: the buffers must also hold the flow's
  action tokens (`umic/graph.py:101`; `Headroom` in `DecodeGraphProofs`).
* The first `warmup_steps` lengths of the first inference have no graph
  afterwards and are captured by the second, so not "every later inference is
  pure replay" (`umic/graph.py:18-19`). `CapturesEnd` is what does hold.
* `fuse_flow_graph` before `fuse_adaptive_flow` captures one decision of the
  adaptive wrapper and replays it at every later step; `apply()` twice with
  `adaptive_flow` nests two wrappers, the inner of which counts only the calls
  the outer passes on. In neither case are the last `n_back` steps fresh
  (`umic/diffusion.py:11-12`): `Nested` in `FlowSampling`.
* Without the LM trunk not only VE and prefill (`umic/bench.py:180`) but decode is
  not timed either: `OpensDecode` is never true, and `StagesExact` asks for
  `hasTrunk`.
* The grid key is stored before the constants (`umic/integrate.py:557`): a copy
  that raises leaves the old constants under the new key: `torn`.
* Without Triton the norm, linear and encoder forwards import kernels that are
  not defined, and die, although "every fusion has an eager fallback"
  (`umic/__init__.py:7-8`): `died` in `Optimize!Forward`.
* The expert's norms are fused only with `flow_cache`, not with `norm_fusion`
  alone (`umic/optimize.py:42`): `WantsSite`.
* "Only pinned pip installs of packages that are already present qualify"
  (`check_env.py:355`), but a triton that is missing is installed (`:126`), and
  `:153` pins no version (`>=3.7.1`).
* With `--no-fix`, or when the environment variable was inherited, commands
  of automatic fixes are neither run nor printed, unlike `check_env.py:34-36`:
  the other two exceptions in `Told`.
  A missing torch ends the check without a fix.
* A machine where `alpamayo1_5` cannot be imported passes the check (`check_env.py:187-191`),
  and `run_all.sh` starts the benchmark that needs it. The check says it is "informational"
  (`:5-6`): `Usable` does not ask for it.

`fuse_flow_graph` is not called by `apply()`; what is said of it concerns a caller
that installs it. The comments at `umic/cache.py:41-45` and `:137` still
describe the single padded graph: `update` returns the exact-length prefix,
which is what the model has.

## 4. What is proved

TLAPS proves for every value of the constants that satisfies the modules'
assumptions (`Lengths`, `Memory`, `Shape`, `Installed`, `LaunchesType`, …) what TLC
checks on small ones:

| Theorem | Statement |
|---|---|
| `TypeCorrect`, `GraphsAlwaysLive`, `GraphsPersistent` | `TypeOK`, `GraphsLive`, `GraphsPersist`, with exceptions or without: also a rebuild that raises loses graphs only to a prompt of another length |
| `LeakConfined` | `LeakIsConfined`, with exceptions |
| `SpoilsOneInference` | `EagerUnlessLeaked`: with exceptions or without, every step is one of `EagerSession` or a stutter, but for decode forwards where `Leaked`: the inference at hand found the decode mode of one that raised |
| `Refinement`, `NoStaleReads` | `RefinesEager`, `NoStaleRead`, of every execution with `[]~Leaked` |
| `MovedNeverOverflow` | `MovedFits`: an inference whose KV was moved does not overflow the buffers, with exceptions or without, if `Headroom`: they have room for the budget and the flow's tokens; no run checks it, as the run with exceptions has less |
| `NeverOverflows` | `NoOverflow`, of every execution with `[]~Leaked`, if `Headroom` |
| `OnlyAbortsLeak` | `[]~Leaked`, if `generate()` does not raise |
| `RepeatTypeCorrect`, `ReuseConfined` | `TypeOK`, `ReuseIsConfined`, however addresses are reused and whatever raises |
| `LayersAlwaysAgree` | `LayersAgree`, of every execution that is `Spared` |
| `SubstitutesFit` | `NoOverflow`, of every execution that is `Spared`, if `Room`: with the VLM's hook, hint and margin cover the budget and the flow's tokens |
| `HookedRefinement` | `RefinesEager`, of every execution that is `Spared` |
| `HookedImplements` | the specification `EagerSession!Spec`, of every execution that is `Spared` and in which the current cache's address is never a remembered one (`[]genuine`) |
| `SparedSetups`, `GenuineSetups` | `Spared`, if no setup has both the VLM's hook and the captured flow step; `[]genuine`, if no setup reuses addresses |
| `ScheduleKept` | `Schedule`, for every setup that is `Sound` |
| `VelocitiesTyped`, `OutcomesLast` | `TypeOK`, `CapturesOnce`, for every setup, nested either way, and whatever raises |
| `FallbackContained` | `FallbackSound` for every setup that is `Contained` |
| `EncoderTypeCorrect`, `FusedResiduals`, `TapsFed` | `TypeOK`, `EagerInputs`, `AllTaps`, whatever raises |
| `ConstsCorrect` | `ConstsOfGrid`: the constants of another grid are used only while `torn` |
| `OptimizeTypeCorrect`, `FusedOnlyAsked`, `AlwaysSameMath`, `ReportsAreTrue` | `TypeOK`, `OnlyAsked`, `SameMath`, `ReportTrue`, for any models, configurations and number of applications; `ReportTrue` is an equivalence for the cast: it runs exactly where no fused encoder is reported |
| `AlwaysTyped`, `AlwaysExact`, `AlwaysOnce`, `AlwaysDetached` | `TypeOK`, `StagesExact`, `NothingTwice`, `Detached`, for any number of tokens, ODE steps and runs, wherever a run raises |
| `KernelTypeCorrect`, `KernelNoRace`, `KernelCovered`, `KernelSameSums` | `TypeOK`, `NoRace`, `Covered`, `SameSums`, for any shape, blocks and group size |
| `CheckTypeCorrect`, `OnlyUsableBenchmarks`, `NoOutputLost`, `OneRestart`, `NothingConcealed` | `TypeOK`, `BenchmarkUsable`, `OutputKept`, `StartsOverOnce`, `Told`, for every machine, terminal or pipe, flag and inherited variable; `Told` of every end with status 1, its manual half but for pip's time limit |

The premises are not conveniences. Without `[]~Leaked` `DecodeGraph_stale`
and without fresh addresses `RepeatCache_stale` are counterexamples; the setups of
`FlowSampling_fallback` are the ones `Sound` and `Contained` exclude. `Spared` says
that no step is an `AdoptedRetry`, the one interleaving the hook cannot mend:
generate() has adopted the VLM hook's substitute, a captured flow step fails on it and
is tried again, no crop comes before the retry, and it attends to the failed attempt's
rows. Setups with the hook and the captured step are not excluded, only their
executions in which that happens; `SparedSetups` covers all the setups of the runs.

**DecodeGraph.** `Structure` (types, graphs live, pointer within the buffer
outside a fault) is inductive alone and gives the first three. `LeakIsConfined`
is not inductive: it needs to know that the buffers' prefix up to the write
pointer is the current inference's own once it `begun`, that the static rope
deltas are too, that the position generate() asks for is the pointer while
decoding, and that graph mode is on exactly while `in_decode` is set. `Session` adds
these; `IInv` is their conjunction and is proved action by action. `EagerStep`
uses it to map each step to a step of `EagerSession` or to a stutter: entering
decode copies the rows, so the abstract cache does not change; a warm-up, a
capture and a replay all are one `Decode`. Only those forwards need that the buffers are
the inference's own, so an exception in generate() costs the refinement the decode
forwards of the inference that finds its decode mode (`Leaked`), and no other step: not
those of that inference's flow, not those of the next one after a generate() that
returns. `[]~Leaked`
then gives the refinement itself; that no exception is raised implies it
(`OnlyAbortsLeak`) but is more than is needed. `Reserved` is the arithmetic of
the headroom, of an inference that is `Proper`: it uses the buffers only after its KV
was moved there. The overflow and the device fault are then only possible for
one that is not (`ProperFits`), from which `MovedFits` follows without a premise
on exceptions.

**RepeatCache.** `RInv` says that a hook which remembers the current cache, when
that memory is genuine, holds a substitute whose prefix up to the caller's
length is, in every layer, the caller's rows; this is what makes
crop-then-append equal to concatenation. `Aligned` says that all layers hold the
same rows in a running forward, those below the layer at hand with the new
tokens appended and the others without, and between two forwards on an adopted
substitute. `Fits` is the arithmetic of hint and margin. The invariant has a parameter:
`RInv(FALSE)` holds of every execution and gives `TypeOK` and `ReuseIsConfined`;
`RInv(TRUE)`, with `Aligned`, `Agree` and `Fits` also on adopted substitutes, is
inductive for steps that are not an `AdoptedRetry` and gives the rest.

**FlowSampling.** A setup never changes, so the invariant is `Sound(setup) => Core`.
`Sound` is: adaptive alone on any cache; a step graph, alone or inside the
adaptive wrapper, on the runner's cache with captures that do not raise, or on a
hooked cache with one closure, where they may. `Good` says that live graphs have captured
a forward and that the hook will free nothing. The lemmas go from the inside out:
`StepFnResult`, `GraphResult` (warm-up, capture, failed capture and replay all
answer with the velocity of the step at hand), `AdaptiveResult`, `InvokeResult`.
`Core` adds that an adaptive wrapper has counted its closure's calls and
remembers the last answer; `LastFreshFresh` and `LastFreshKept` are the induction on the
schedule.

What does not depend on the schedule is proved without `Sound`, by `Lasting`. Its part
`Fit` says of each wrapper that a failed capture left no graph and that a graph which
captured no forward has a velocity in its static output (what an adaptive wrapper
inside answered); without the second a replay could answer with nothing, so `TypeOK`
alone is not inductive. A call ages the other wrappers (`Aged`: the hook may free
what they captured) and changes its own for good (`Later`, which is `CapturesOnce`); the
lemmas `HookFit` to `InvokeFit` go from the inside out again, for every stack.
`Contained` is no graph, or no capture that raises, or one closure behind the expert's
hook: then `Tidy` holds, the hook's substitute is that of the cache it remembers, and no
other cache holds rows of an unfinished forward. `Contained` is more than `Sound`: it
has both nestings and the plain `DynamicCache`. Where it fails, TLC finds the
counterexample of `FlowSampling_fallback`.

**VisionEncoder.** `VInv` describes the stream by program counter: `hidden` plus
`pending` is the unfused sum. The constants need `Keyed`: the key and the
constants are of one grid and every block in `seen` has its maximum from it,
unless `torn`.

**Optimize.** `SitesAsked`: an override is installed only if a configuration that
asks for it was applied since the overrides were last deleted. The rest of
`OInv` says that a pass runs only what the overrides then allow, operation by
operation. For `AlwaysSameMath`, `Math(ops)` is the sequence of a pass's operations without
their implementations. A forward is put together from pieces, each stock or fused:
`NormMath`, `MlpMath`, `SelfAttnMath`, … say that either has the same operations, the
`…Concat` lemmas that the whole then has those of the stock forward. `Reported` is what
`ReportsAreTrue` needs: what `report` names is still installed, an override, the RoPE
patch of its function, or the cast, as `apply()` only adds to them and `unfuse_mlps()`
clears the report; `DecoderShows` and `EncoderShows` find its operation in the pass, and
`EncoderHidesCast` does not find the cast where the fused encoder runs.

**PhaseSeparator.** `HInv`: outside a measurement no hook is registered and
`diffusion.sample` is as `apply()` left it, or stock; inside one that is what the
handle remembers, as nothing is patched while the stock model is measured.
`TimedInv` gives the other three. By program counter it says which of the state
machine's states go with which moment of the inference (`Phase`), and what each
timer holds then, as an amount of work of one stage: a timer that runs has counted
its own stage's work since it started and nothing else, one that has stopped all of it
(`VeTimer` … `FlowTimer`). `OwnWork` says of a result that a stage holds its own work,
or nothing where a module to hook was missing. The decode steps are a sum over a list,
the one place where a recursive function is summed: `TotalCounts` needs induction over
its length, and the library's theorems for that take a property as an operator. Here
the property is a set of numbers (`SetInduction`, from the well-foundedness of `<`), which
the provers can instantiate.

**KernelTiles.** Division with remainder is done once (`DivMod`, `Digits`,
`CdivCovers`): a program's number has one pair of tile coordinates and each pair
one number, also in the last, smaller group (`ProgramOfTile`, `TileOnce`,
`TileExists`). Tiles and masks then partition the cells (`CellOnce`, `CellOwned`), an
address is one cell's (`AddressOfCell`), so the lane that stores there is the one at the
cell's offsets (`LaneOfCell`). What that lane has added up is then compared with the
eager sum: the blocks of the loop over K reach each element of the row once
(`LoopReaches`, `LoopExact`), the padded norm squares the row's elements and no padding
lane (`NormExact`), the rotation takes the partner from the other half of the same head
(`RopeExact`).
`KInv` says that `mem` is what the programs that have run store.

**CheckEnv.** The module has no constants and its states are finitely many but for the
lines printed, which the run bounds at two process images; the proof is of the
module as it stands, shows that a third image never starts, so that the bound cuts
nothing off, and says why each property holds. `CInv` goes by the script's
program counter. `Control`: the shell waits for the script, and a repair is only reached
without the mark of a retry. `Outputs`: nothing is buffered while descriptor 1 points at
the log, so the flush before it is restored writes nothing there (`FlushKeeps`,
`SayKeeps`, `EndsKeeps`). `Findings`: once a section has reported, what is wrong with the
part of the machine it looked at is in `failed`; the repair, which changes the machine,
comes after the last look of an image, and the next image looks again. `Notices`: of the
failures only triton's has an automatic fix, so that a repair command shown in
one image speaks for the next, and what was printed stays printed (`MentionKept`).

The facts about `Concat`, `Prefix`, `WriteSlice`, `CopyPrefix` and `Allocate` that the
two cache modules need open `DecodeGraphProofs` and `RepeatCacheProofs`, each for its own rows.

Only model-checked:

* liveness (`LeakHeals`, `CapturesEnd`, `Terminates`), which is beyond the prover: every
  other property of the passing runs is a theorem;
* `EagerSession` is a specification, with nothing to prove of it but that others
  implement it.

## 5. What is not modelled

* Numbers: floating-point arithmetic, dtypes, epilogues, timings in ms, judging and
  tables. `KernelTiles` has which elements a kernel adds, not what they add up to.
* Strides other than contiguous, and the fallback of `make_text_rope` when
  a shape does not suit the RoPE kernel: it is the stock expression.
* CUDA streams and events as an asynchronous machine: every launch is in
  program order on one stream, and the code synchronises where it reads back.
* Structural matchers: whether a motif is found is a choice of the model.
* In `DecodeGraph` the layers of the cache move in lock step, and a forward that
  raises in the middle has appended to none or to all. `RepeatCache` has them
  one by one.
* What a probe of `check_env.py` prints in detail, the versions it compares, and
  the contents of the compiler's log.
* `const_kwargs` of the runner: they are those of transformers' generate(), and
  nothing in this repository says which of them may change.
* `fuse_gelu_mlps`, which `apply()` never calls; model and data loading; clock
  state and result judging; `setup_thor.sh` and configuration files.

## 6. Plan

Done: the modules of section 2. What would come next:

1. Runner and hook together: `apply()` installs the runner on the VLM and the
   hook on the expert at once, and the hook must let the runner's cache pass.
   Both halves are in `DecodeGraph` and `RepeatCache` (`PassThrough`); their
   composition is not a module.
   With it, `RefinesEager` for the pair would say what `apply()` promises as a whole.
2. The hazards without a property: which keyword arguments of a decode call may
   change (`graph.py:112`) needs a model of the caller, which is not in this repository.
