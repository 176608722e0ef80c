------------------------ MODULE PhaseSeparatorProofs ------------------------
(* Theorems about PhaseSeparator: what a measurement leaves on the model,   *)
(* for any number of tokens, ODE steps and runs, and wherever one raises.   *)
EXTENDS PhaseSeparator, WellFoundedInduction, TLAPS

(* diffusion.sample as apply() left it. *)
Bare == IF patched = "adaptive" THEN <<"adaptive">> ELSE <<>>

Outside == {"apart", "dead", "done"}

(* During a measure() the handle knows what to put back, which is what      *)
(* apply() left; before apply() nothing is patched.                         *)
HInv ==
  /\ pc \in Outside => ~hooked /\ sample = Bare
  /\ pc \notin Outside => orig = Bare
  /\ label = "eager" => patched = "no"

(* A new process has a stock model and no hooks.                            *)
LEMMA HInvInit == Init => HInv
  BY DEF Init, HInv, Outside, Bare

(* The steps that measure an inference touch neither hooks nor patches.     *)
LEMMA MeasuringStep ==
  ASSUME HInv, pc \notin Outside, pc' \notin Outside, UNCHANGED program
  PROVE  HInv'
  BY DEF HInv, Bare, program

(* No step leaves a hook on a model that is not being measured              *)
(* (bench.py:153-160, run_pipeline.py:82-104, 137-155).                    *)
THEOREM HInvStep == HInv /\ [Next]_vars => HInv'
<1> SUFFICES ASSUME HInv, [Next]_vars PROVE HInv'
  OBVIOUS
<1>1. CASE Register
  BY <1>1 DEF Register, HInv, Outside, Bare
<1>2. CASE EndMeasure
  <2>1. pc \notin Outside /\ pc' \in Outside
    BY <1>2 DEF EndMeasure, Outside
  <2> QED
    BY <1>2, <2>1 DEF EndMeasure, RemoveHooks, HInv, Bare
<1>3. CASE Apply
  <2>1. /\ pc = "apart" /\ pc' = "apart" /\ label = "eager" /\ label' = "umic"
        /\ UNCHANGED hooked /\ patched = "no" /\ sample = <<>> /\ ~hooked
    BY <1>3 DEF Apply, HInv, Outside, Bare
  <2>2. CASE patched' = "exact" /\ sample' = sample
    BY <2>1, <2>2 DEF HInv, Outside, Bare
  <2>3. CASE patched' = "adaptive" /\ sample' = <<"adaptive">> \o sample
    <3>1. sample' = <<"adaptive">>
      BY <2>1, <2>3
    <3> QED
      BY <2>1, <2>3, <3>1 DEF HInv, Outside, Bare
  <2> QED
    BY <1>3, <2>2, <2>3 DEF Apply
<1>4. CASE BeginInference
  BY <1>4, MeasuringStep DEF BeginInference, Outside
<1>5. CASE VlmPrefill \/ LmPre \/ LmPost \/ VlmPost \/ VlmToken \/ Rollout
  BY <1>5, MeasuringStep
     DEF VlmPrefill, LmPre, LmPost, VlmPost, VlmToken, Rollout, Outside
<1>6. CASE OdeStep \/ SampleReturns
  BY <1>6, MeasuringStep DEF OdeStep, SampleReturns, Outside
<1>7. CASE Collect
  <2>1. /\ pc \notin Outside /\ pc' \notin Outside
        /\ UNCHANGED <<label, sample, orig, hooked, patched>>
    BY <1>7 DEF Collect, Outside
  <2> QED
    BY <2>1 DEF HInv, Bare
<1>8. CASE Raise
  <2>1. pc \notin Outside /\ pc' \in Outside
    BY <1>8 DEF Raise, Outside, HInv
  <2> QED
    BY <1>8, <2>1 DEF Raise, RemoveHooks, HInv, Bare
<1>9. CASE Restart
  BY <1>9 DEF Restart, HInv, Outside, Bare
<1>10. CASE UNCHANGED vars
  BY <1>10 DEF vars, program, HInv, Bare
<1> QED
  BY <1>1, <1>2, <1>3, <1>4, <1>5, <1>6, <1>7, <1>8, <1>9, <1>10 DEF Next

(* Outside a measure(), also after an exception in one, no timing hook and  *)
(* no timing wrapper is left on the model (bench.py:155-170,               *)
(* run_pipeline.py:101-104).                                               *)
THEOREM AlwaysDetached == Spec => []Detached
<1>1. HInv => Detached
  BY DEF HInv, Detached, Outside, Bare
<1> QED
  BY <1>1, HInvInit, HInvStep, PTL DEF Spec

-----------------------------------------------------------------------------
(***************************************************************************)
(* The inductive invariant: what the timers, the separator and the work     *)
(* done say about each other at every point of an inference.                *)
(***************************************************************************)
Inside == {"ready", "ve", "trunk", "prefilled", "gen", "token", "sample",
           "ode", "end"}

Amount(s, n) == [Nothing EXCEPT ![s] = n]

Unused(t) == ~t.started /\ ~t.stopped
Running(t, w) == t.started /\ ~t.stopped /\ t.since = w
Stopped(t, w) == t.started /\ t.stopped /\ t.ms = w

(* What generate() and diffusion.sample have done by now. *)
Progress ==
  /\ did["ve"] = IF pc = "ready" THEN 0 ELSE 1
  /\ did["prefill"] = IF pc \in {"ready", "ve"} THEN 0 ELSE 1
  /\ pc \in {"ready", "ve", "trunk", "prefilled"} => did["decode"] = 0
  /\ pc = "token" => did["decode"] > 0
  /\ pc \notin {"ode", "end"} => did["flow"] = 0
  /\ pc \in {"ode", "end"} => did["flow"] > 0
  /\ did["flow"] <= OdeSteps
  /\ odeStep = IF hasEntry THEN did["flow"] ELSE 0

(* Without an LM trunk the separator never leaves "vision". *)
Phase ==
  state = IF pc = "ready" THEN "idle"
          ELSE IF pc = "ve" \/ ~hasTrunk THEN "vision"
          ELSE IF pc = "trunk" THEN "lm_prefill"
          ELSE IF did["decode"] = 0 THEN "post_prefill" ELSE "decode"

VeTimer(t) ==
  IF pc = "ready" THEN Unused(t)
  ELSE IF pc = "ve" THEN Running(t, Amount("ve", 1))
  ELSE IF hasTrunk THEN Stopped(t, Amount("ve", 1)) ELSE ~t.stopped

PrefillTimer(t) ==
  IF pc \in {"ready", "ve"} \/ ~hasTrunk THEN Unused(t)
  ELSE IF pc = "trunk" THEN Running(t, Amount("prefill", 1))
  ELSE Stopped(t, Amount("prefill", 1))

(* Without a flow entry nothing closes the decode timer. *)
DecodeTimer(t) ==
  IF ~hasTrunk \/ did["decode"] = 0 THEN Unused(t) /\ ~decodeOpen
  ELSE IF did["flow"] = 0
    THEN Running(t, Amount("decode", did["decode"])) /\ decodeOpen
  ELSE IF hasEntry
    THEN Stopped(t, Amount("decode", did["decode"])) /\ ~decodeOpen
  ELSE ~t.stopped /\ decodeOpen

FlowTimer(t) ==
  IF did["flow"] = 0 \/ ~hasEntry THEN Unused(t)
  ELSE IF pc = "end" THEN Stopped(t, Amount("flow", did["flow"]))
  ELSE Running(t, Amount("flow", did["flow"]))

(* Every decode forward that returned is one step of t_decode_steps. *)
StepTimes ==
  /\ \A k \in DOMAIN steps : steps[k] = Amount("decode", 1)
  /\ Len(steps) = IF ~hasTrunk THEN 0
                  ELSE IF pc = "token" THEN did["decode"] - 1 ELSE did["decode"]
  /\ (pc = "token" /\ hasTrunk) =>
        stepTimer.started /\ stepTimer.since = Amount("decode", 1)

Attributed ==
  pc \in Inside =>
    /\ Progress /\ Phase /\ StepTimes
    /\ VeTimer(timer["ve"]) /\ PrefillTimer(timer["prefill"])
    /\ DecodeTimer(timer["decode"]) /\ FlowTimer(timer["flow"])

(* The handle of the wrapper, and the bound on the runs. *)
Measuring ==
  pc \in Inside \cup {"between"} =>
    /\ sample = <<"timed">> \o orig
    /\ pc # "between" => runs < Runs

(* A stage of a result holds its own work, or nothing when a module to hook *)
(* was not found.                                                          *)
OwnWork ==
  /\ \A s \in Stages : result.stage[s] \in {Nothing, Share(s)}
  /\ (result.label # "none" /\ hasTrunk /\ hasEntry) =>
        /\ result.n = result.did["decode"]
        /\ \A s \in Stages : result.stage[s] = Share(s)

TimedInv == TypeOK /\ Attributed /\ Measuring /\ OwnWork

-----------------------------------------------------------------------------
(* Induction over the naturals, from the library's theorem that < is well   *)
(* founded there, for a set in place of a property.                         *)

Before == OpToRel(<, Nat)

(* The relation of the library's theorem is <. *)
LEMMA BeforeIsLess == \A x, y \in Nat : <<y, x>> \in Before <=> y < x
  BY DEF OpToRel, Before

(* The naturals are well founded under it. *)
LEMMA BeforeWellFounded == IsWellFoundedOn(Before, Nat)
  BY NatLessThanWellFounded DEF Before

(* A set of naturals has a least element. *)
LEMMA LeastNumber ==
  ASSUME NEW T, T \subseteq Nat, T # {}
  PROVE  \E x \in T : \A y \in T : x <= y
<1>1. PICK x \in T : \A y \in T : ~(<<y, x>> \in Before)
  BY BeforeWellFounded, WFMin
<1>2. ASSUME NEW y \in T PROVE x <= y
  <2>1. x \in Nat /\ y \in Nat /\ ~(<<y, x>> \in Before)
    BY <1>1
  <2>2. ~(y < x)
    BY <2>1, BeforeIsLess, Zenon
  <2> QED
    BY <2>1, <2>2
<1> QED
  BY <1>2

(* A set that has 0 and, with each natural, the next one has them all. *)
LEMMA SetInduction ==
  ASSUME NEW S, 0 \in S, \A n \in Nat : n \in S => n + 1 \in S
  PROVE  Nat \subseteq S
<1> SUFFICES ASSUME Nat \ S # {} PROVE FALSE
  OBVIOUS
<1>1. PICK x \in Nat \ S : \A y \in Nat \ S : x <= y
  BY LeastNumber
<1>2. x - 1 \in Nat /\ x - 1 \in S
  BY <1>1
<1> QED
  BY <1>1, <1>2
-----------------------------------------------------------------------------
(* Bags of work, timers, and the sum of the steps.                          *)

(* The empty bag. *)
LEMMA NothingIsWork == Nothing \in Works /\ \A s \in Stages : Nothing[s] = 0
  BY DEF Nothing, Works

(* A number of pieces of one stage is a bag of work. *)
LEMMA AmountIs ==
  ASSUME NEW s \in Stages, NEW n \in Nat
  PROVE  /\ Amount(s, n) \in Works
         /\ \A t \in Stages : Amount(s, n)[t] = IF t = s THEN n ELSE 0
  BY DEF Amount, Nothing, Works

(* Bags with the same counts are one. *)
LEMMA SameWork ==
  ASSUME NEW a \in Works, NEW b \in Works, \A s \in Stages : a[s] = b[s]
  PROVE  a = b
  BY DEF Works

(* Adding bags adds counts. *)
LEMMA PlusIs ==
  ASSUME NEW a \in Works, NEW b \in Works
  PROVE  /\ Plus(a, b) \in Works
         /\ \A s \in Stages : Plus(a, b)[s] = a[s] + b[s]
  BY DEF Plus, Works

(* No pieces are nothing. *)
LEMMA NoAmount == \A s \in Stages : Amount(s, 0) = Nothing
  BY AmountIs, NothingIsWork, SameWork

(* A piece is one piece. *)
LEMMA OnePiece == \A s \in Stages : Piece(s) = Amount(s, 1)
  BY DEF Piece, Amount

(* One more piece of a stage's work. *)
LEMMA OneMore ==
  ASSUME NEW s \in Stages, NEW n \in Nat
  PROVE  Plus(Amount(s, n), Piece(s)) = Amount(s, n + 1)
<1>1. Amount(s, n) \in Works /\ Piece(s) \in Works /\ Amount(s, n + 1) \in Works
  BY AmountIs, OnePiece
<1>2. Plus(Amount(s, n), Piece(s)) \in Works
  BY <1>1, PlusIs
<1>3. \A t \in Stages : Plus(Amount(s, n), Piece(s))[t] = Amount(s, n + 1)[t]
  BY <1>1, PlusIs, AmountIs, OnePiece
<1> QED
  BY <1>1, <1>2, <1>3, SameWork

(* The first piece of a stage. *)
LEMMA FirstPiece == \A s \in Stages : Plus(Nothing, Piece(s)) = Amount(s, 1)
  BY NoAmount, OneMore

(* What start() leaves in a timer. *)
LEMMA Started ==
  ASSUME NEW t \in Timers
  PROVE  /\ Start(t) \in Timers /\ Start(t).started
         /\ Start(t).since = Nothing /\ Start(t).stopped = t.stopped
  BY NothingIsWork DEF Start, Timers

(* What stop() leaves in a timer. *)
LEMMA StoppedIs ==
  ASSUME NEW t \in Timers
  PROVE  /\ Stop(t) \in Timers /\ Stop(t).started = t.started
         /\ Stop(t).stopped /\ Stop(t).ms = t.since
  BY DEF Stop, Timers

(* What a piece of work adds to a timer. *)
LEMMA Elapsed ==
  ASSUME NEW t \in Timers, NEW s \in Stages
  PROVE  /\ Elapse(t, s) \in Timers /\ Elapse(t, s).started = t.started
         /\ Elapse(t, s).since = Plus(t.since, Piece(s))
         /\ Elapse(t, s).stopped = t.stopped /\ Elapse(t, s).ms = t.ms
<1>1. Plus(t.since, Piece(s)) \in Works
  BY PlusIs, AmountIs, OnePiece DEF Timers
<1> HIDE DEF Plus, Piece, Works
<1> QED
  BY <1>1 DEF Elapse, Timers

(* A new timer is one that has not been used. *)
LEMMA NewTimerIs == NewTimer \in Timers /\ Unused(NewTimer)
  BY NothingIsWork DEF NewTimer, Timers, Unused


(* The recursion Total() is computed by. *)
IsSum(sum, q) ==
  sum = [k \in 0 .. Len(q) |-> IF k = 0 THEN Nothing ELSE Plus(sum[k - 1], q[k])]

(* Over steps of one decode forward each, it counts them. *)
LEMMA SumCounts ==
  ASSUME NEW q \in Seq(Works), \A k \in DOMAIN q : q[k] = Amount("decode", 1),
         NEW sum, IsSum(sum, q)
  PROVE  sum[Len(q)] = Amount("decode", Len(q))
<1> DEFINE S == {n \in Nat : n <= Len(q) => sum[n] = Amount("decode", n)}
<1>1. 0 \in S
  BY NoAmount DEF IsSum, Stages
<1>2. ASSUME NEW n \in Nat, n \in S PROVE n + 1 \in S
  <2> SUFFICES ASSUME n + 1 <= Len(q)
               PROVE  sum[n + 1] = Amount("decode", n + 1)
    OBVIOUS
  <2>1. /\ n + 1 \in 0 .. Len(q) /\ n + 1 # 0 /\ n + 1 \in DOMAIN q
        /\ (n + 1) - 1 = n
    OBVIOUS
  <2>2. sum[n + 1] = Plus(sum[(n + 1) - 1], q[n + 1])
    <3> HIDE DEF Plus
    <3> QED
      BY <2>1 DEF IsSum
  <2>3. q[n + 1] = Piece("decode")
    BY <2>1, OnePiece DEF Stages
  <2>4. sum[n] = Amount("decode", n)
    BY <1>2
  <2>5. sum[n + 1] = Plus(Amount("decode", n), Piece("decode"))
    BY <2>1, <2>2, <2>3, <2>4, Zenon
  <2> QED
    BY <2>5, OneMore DEF Stages
<1>3. Len(q) \in S
  <2> HIDE DEF S
  <2> QED
    BY <1>1, <1>2, SetInduction
<1> QED
  BY <1>3

(* The partial sums of a list of single decode steps. *)
LEMMA SumExists ==
  ASSUME NEW q \in Seq(Works), \A k \in DOMAIN q : q[k] = Amount("decode", 1)
  PROVE  IsSum([k \in 0 .. Len(q) |-> Amount("decode", k)], q)
<1> DEFINE sum == [k \in 0 .. Len(q) |-> Amount("decode", k)]
           next(k) == IF k = 0 THEN Nothing ELSE Plus(sum[k - 1], q[k])
<1>1. ASSUME NEW k \in 0 .. Len(q) PROVE Amount("decode", k) = next(k)
  <2>1. CASE k = 0
    BY <2>1, NoAmount DEF Stages
  <2>2. CASE k # 0
    <3>1. /\ k - 1 \in 0 .. Len(q) /\ k - 1 \in Nat /\ (k - 1) + 1 = k
          /\ k \in DOMAIN q
      BY <2>2
    <3>2. sum[k - 1] = Amount("decode", k - 1) /\ q[k] = Piece("decode")
      BY <3>1, OnePiece DEF Stages
    <3>3. Plus(Amount("decode", k - 1), Piece("decode"))
            = Amount("decode", (k - 1) + 1)
      BY <3>1, OneMore DEF Stages
    <3> HIDE DEF sum
    <3> QED
      BY <2>2, <3>1, <3>2, <3>3, Zenon
  <2> QED
    BY <2>1, <2>2
<1>2. sum = [k \in 0 .. Len(q) |-> next(k)]
  <2> HIDE DEF next
  <2> QED
    BY <1>1
<1> QED
  BY <1>2 DEF IsSum

(* The decode total of collect_timing() without an end event.               *)
LEMMA TotalCounts ==
  ASSUME NEW q \in Seq(Works), \A k \in DOMAIN q : q[k] = Amount("decode", 1)
  PROVE  Total(q) = Amount("decode", Len(q))
<1> DEFINE sum == CHOOSE f : IsSum(f, q)
<1>1. IsSum(sum, q)
  BY SumExists, Zenon
<1>2. Total(q) = sum[Len(q)]
  BY DEF Total, IsSum
<1> HIDE DEF sum
<1> QED
  BY <1>1, <1>2, SumCounts
-----------------------------------------------------------------------------

(* What every measuring step has in common.                                 *)

(* A stage worked, with timers T going. *)
LEMMA WorkIs ==
  ASSUME TypeOK, NEW s \in Stages, NEW T \in [Stages -> Timers], Work(s, T)
  PROVE  /\ did' \in Works /\ timer' \in [Stages -> Timers]
         /\ \A t \in Stages : did'[t] = did[t] + (IF t = s THEN 1 ELSE 0)
         /\ \A k \in Stages : /\ timer'[k].started = T[k].started
                              /\ timer'[k].stopped = T[k].stopped
                              /\ timer'[k].ms = T[k].ms
                              /\ timer'[k].since = Plus(T[k].since, Piece(s))
<1>1. did \in Works /\ Piece(s) \in Works
  BY AmountIs, OnePiece DEF TypeOK
<1>2. \A t \in Stages : Piece(s)[t] = IF t = s THEN 1 ELSE 0
  BY AmountIs, OnePiece
<1>3. did' = Plus(did, Piece(s)) /\ timer' = [k \in Stages |-> Elapse(T[k], s)]
  BY DEF Work
<1>4. did' \in Works /\ \A t \in Stages : did'[t] = did[t] + Piece(s)[t]
  BY <1>1, <1>3, PlusIs, Zenon
<1>5. \A k \in Stages : T[k] \in Timers
  OBVIOUS
<1>6. timer' \in [Stages -> Timers]
  <2> HIDE DEF Elapse, Timers
  <2> QED
    BY <1>3, <1>5, Elapsed
<1>7. \A k \in Stages : timer'[k] = Elapse(T[k], s)
  BY <1>3
<1> QED
  BY <1>2, <1>4, <1>5, <1>6, <1>7, Elapsed

(* The part of the state that a measuring step leaves alone. *)
LEMMA MeasuringKept ==
  ASSUME Measuring, OwnWork, pc \in Inside, pc' \in Inside,
         UNCHANGED <<program, result>>
  PROVE  Measuring' /\ OwnWork'
<1>1. UNCHANGED <<hasTrunk, hasEntry, runs, sample, orig, result>>
  BY DEF program, found
<1>2. Measuring'
  BY <1>1 DEF Measuring, Inside
<1>3. OwnWork'
  BY <1>1 DEF OwnWork, Share
<1> QED
  BY <1>2, <1>3

(* Types of the program's variables. *)
LEMMA ProgramKept ==
  ASSUME TypeOK, UNCHANGED program,
         pc' \in Inside, did' \in Works, timer' \in [Stages -> Timers],
         stepTimer' \in Timers, steps' \in Seq(Works), UNCHANGED result,
         state' \in {"idle", "vision", "lm_prefill", "post_prefill", "decode"},
         decodeOpen' \in BOOLEAN, odeStep' \in 0 .. OdeSteps
  PROVE  TypeOK'
<1> USE DEF TypeOK, program, found, Inside
<1> HIDE DEF Works, Timers, Results
<1> QED
  OBVIOUS

-----------------------------------------------------------------------------
(* One inference, hook by hook.                                             *)

(* The first forward of the vlm opens VE. *)
LEMMA VlmPrefillStep == TimedInv /\ VlmPrefill => TimedInv'
<1> SUFFICES ASSUME TimedInv, VlmPrefill PROVE TimedInv'
  OBVIOUS
<1> DEFINE T == [timer EXCEPT !["ve"] = Start(@)]
<1>1. /\ TypeOK /\ Attributed /\ pc = "ready" /\ pc' = "ve"
      /\ UNCHANGED <<program, decodeOpen, odeStep, stepTimer, steps, result>>
      /\ UNCHANGED <<hasTrunk, hasEntry>>
  BY DEF TimedInv, VlmPrefill, program, found
<1>2. /\ Progress /\ Phase /\ StepTimes
      /\ VeTimer(timer["ve"]) /\ PrefillTimer(timer["prefill"])
      /\ DecodeTimer(timer["decode"]) /\ FlowTimer(timer["flow"])
  BY <1>1 DEF Attributed, Inside
<1>3. state = "idle" /\ Work("ve", T) /\ state' = "vision"
  BY <1>1, <1>2 DEF Phase, VlmPrefill
<1>4. timer \in [Stages -> Timers] /\ did \in Works
  BY <1>1 DEF TypeOK
<1>5. /\ T \in [Stages -> Timers] /\ T["ve"] = Start(timer["ve"])
      /\ \A k \in Stages \ {"ve"} : T[k] = timer[k]
  BY <1>4, Started DEF Stages
<1>6. /\ did' \in Works /\ timer' \in [Stages -> Timers]
      /\ \A t \in Stages : did'[t] = did[t] + (IF t = "ve" THEN 1 ELSE 0)
      /\ \A k \in Stages : /\ timer'[k].started = T[k].started
                           /\ timer'[k].stopped = T[k].stopped
                           /\ timer'[k].ms = T[k].ms
                           /\ timer'[k].since = Plus(T[k].since, Piece("ve"))
  <2> HIDE DEF T
  <2> QED
    BY <1>1, <1>3, <1>5, WorkIs DEF Stages
<1> HIDE DEF T
<1>7. /\ did'["ve"] = 1 /\ did'["prefill"] = 0 /\ did'["decode"] = 0
      /\ did'["flow"] = 0
  BY <1>1, <1>2, <1>4, <1>6 DEF Progress, Stages, Works
<1>8. Running(timer["ve"], Amount("ve", 1))'
  <2>1. T["ve"].started /\ ~T["ve"].stopped /\ T["ve"].since = Nothing
    BY <1>1, <1>2, <1>4, <1>5, Started DEF VeTimer, Unused, Stages
  <2>2. timer'["ve"].since = Amount("ve", 1)
    BY <2>1, <1>6, FirstPiece DEF Stages
  <2> QED
    BY <1>6, <2>1, <2>2 DEF Running, Stages
<1>9. /\ Unused(timer["prefill"])' /\ Unused(timer["decode"])'
      /\ Unused(timer["flow"])'
  <2>1. /\ Unused(timer["prefill"]) /\ Unused(timer["decode"])
        /\ Unused(timer["flow"])
    BY <1>1, <1>2 DEF PrefillTimer, DecodeTimer, FlowTimer, Progress
  <2> QED
    BY <2>1, <1>5, <1>6 DEF Unused, Stages
<1>10. TypeOK'
  BY <1>1, <1>3, <1>6, ProgramKept DEF TypeOK, Inside
<1>11. Attributed'
  <2>1. Progress' /\ Phase' /\ StepTimes'
    BY <1>1, <1>2, <1>3, <1>7 DEF Progress, Phase, StepTimes
  <2>2. /\ VeTimer(timer["ve"])' /\ PrefillTimer(timer["prefill"])'
        /\ DecodeTimer(timer["decode"])' /\ FlowTimer(timer["flow"])'
    BY <1>1, <1>2, <1>7, <1>8, <1>9
       DEF VeTimer, PrefillTimer, DecodeTimer, FlowTimer, Progress
  <2> QED
    BY <2>1, <2>2 DEF Attributed
<1> QED
  BY <1>1, <1>10, <1>11, MeasuringKept DEF TimedInv, Inside

(* The trunk's first forward closes VE and opens prefill. *)
LEMMA LmPreStep == TimedInv /\ LmPre => TimedInv'
<1> SUFFICES ASSUME TimedInv, LmPre PROVE TimedInv'
  OBVIOUS
<1> DEFINE T == IF hasTrunk
                THEN [timer EXCEPT !["ve"] = Stop(@), !["prefill"] = Start(@)]
                ELSE timer
<1>1. /\ TypeOK /\ Attributed /\ pc = "ve" /\ pc' = "trunk"
      /\ UNCHANGED <<program, decodeOpen, odeStep, stepTimer, steps, result>>
      /\ UNCHANGED <<hasTrunk, hasEntry>>
  BY DEF TimedInv, LmPre, program, found
<1>2. /\ Progress /\ Phase /\ StepTimes
      /\ VeTimer(timer["ve"]) /\ PrefillTimer(timer["prefill"])
      /\ DecodeTimer(timer["decode"]) /\ FlowTimer(timer["flow"])
  BY <1>1 DEF Attributed, Inside
<1>3. /\ Work("prefill", T)
      /\ state' = IF hasTrunk THEN "lm_prefill" ELSE "vision"
  BY <1>1, <1>2 DEF Phase, LmPre
<1>4. timer \in [Stages -> Timers] /\ did \in Works
  BY <1>1 DEF TypeOK
<1>5. /\ T \in [Stages -> Timers]
      /\ T["ve"] = IF hasTrunk THEN Stop(timer["ve"]) ELSE timer["ve"]
      /\ T["prefill"] = IF hasTrunk THEN Start(timer["prefill"])
                        ELSE timer["prefill"]
      /\ \A k \in {"decode", "flow"} : T[k] = timer[k]
  BY <1>4, Started, StoppedIs DEF Stages
<1>6. /\ did' \in Works /\ timer' \in [Stages -> Timers]
      /\ \A t \in Stages : did'[t] = did[t] + (IF t = "prefill" THEN 1 ELSE 0)
      /\ \A k \in Stages : /\ timer'[k].started = T[k].started
                           /\ timer'[k].stopped = T[k].stopped
                           /\ timer'[k].ms = T[k].ms
                           /\ timer'[k].since = Plus(T[k].since, Piece("prefill"))
  <2> HIDE DEF T
  <2> QED
    BY <1>1, <1>3, <1>5, WorkIs DEF Stages
<1> HIDE DEF T
<1>7. /\ did'["ve"] = 1 /\ did'["prefill"] = 1 /\ did'["decode"] = 0
      /\ did'["flow"] = 0
  BY <1>1, <1>2, <1>4, <1>6 DEF Progress, Stages, Works
<1>8. IF hasTrunk THEN Stopped(timer["ve"], Amount("ve", 1))'
                  ELSE ~timer'["ve"].stopped
  <2>1. Running(timer["ve"], Amount("ve", 1)) /\ timer["ve"] \in Timers
    BY <1>1, <1>2, <1>4 DEF VeTimer, Stages
  <2> QED
    BY <2>1, <1>5, <1>6, StoppedIs DEF Running, Stopped, Stages
<1>9. IF hasTrunk THEN Running(timer["prefill"], Amount("prefill", 1))'
                  ELSE Unused(timer["prefill"])'
  <2>1. Unused(timer["prefill"]) /\ timer["prefill"] \in Timers
    BY <1>1, <1>2, <1>4 DEF PrefillTimer, Stages
  <2>2. hasTrunk => timer'["prefill"].since = Amount("prefill", 1)
    BY <2>1, <1>5, <1>6, Started, FirstPiece DEF Stages
  <2> QED
    BY <2>1, <2>2, <1>5, <1>6, Started DEF Running, Unused, Stages
<1>10. Unused(timer["decode"])' /\ Unused(timer["flow"])'
  <2>1. Unused(timer["decode"]) /\ Unused(timer["flow"])
    BY <1>1, <1>2 DEF DecodeTimer, FlowTimer, Progress
  <2> QED
    BY <2>1, <1>5, <1>6 DEF Unused, Stages
<1>11. TypeOK'
  BY <1>1, <1>3, <1>6, ProgramKept DEF TypeOK, Inside
<1>12. Attributed'
  <2>1. Progress' /\ Phase' /\ StepTimes'
    BY <1>1, <1>2, <1>3, <1>7 DEF Progress, Phase, StepTimes
  <2>2. /\ VeTimer(timer["ve"])' /\ PrefillTimer(timer["prefill"])'
        /\ DecodeTimer(timer["decode"])' /\ FlowTimer(timer["flow"])'
    BY <1>1, <1>2, <1>7, <1>8, <1>9, <1>10
       DEF VeTimer, PrefillTimer, DecodeTimer, FlowTimer, Progress
  <2> QED
    BY <2>1, <2>2 DEF Attributed
<1> QED
  BY <1>1, <1>11, <1>12, MeasuringKept DEF TimedInv, Inside

(* The trunk returns and prefill closes. *)
LEMMA LmPostStep == TimedInv /\ LmPost => TimedInv'
<1> SUFFICES ASSUME TimedInv, LmPost PROVE TimedInv'
  OBVIOUS
<1>1. /\ TypeOK /\ Attributed /\ pc = "trunk" /\ pc' = "prefilled"
      /\ UNCHANGED <<did, program, decodeOpen, odeStep, stepTimer, steps, result>>
      /\ UNCHANGED <<hasTrunk, hasEntry>>
  BY DEF TimedInv, LmPost, program, found
<1>2. /\ Progress /\ Phase /\ StepTimes
      /\ VeTimer(timer["ve"]) /\ PrefillTimer(timer["prefill"])
      /\ DecodeTimer(timer["decode"]) /\ FlowTimer(timer["flow"])
  BY <1>1 DEF Attributed, Inside
<1>3. /\ timer' = IF hasTrunk THEN [timer EXCEPT !["prefill"] = Stop(@)]
                  ELSE timer
      /\ state' = IF hasTrunk THEN "post_prefill" ELSE "vision"
  BY <1>1, <1>2 DEF Phase, LmPost
<1>4. timer \in [Stages -> Timers] /\ did \in Works
  BY <1>1 DEF TypeOK
<1>5. /\ timer' \in [Stages -> Timers]
      /\ timer'["prefill"] = IF hasTrunk THEN Stop(timer["prefill"])
                             ELSE timer["prefill"]
      /\ \A k \in Stages \ {"prefill"} : timer'[k] = timer[k]
  BY <1>3, <1>4, StoppedIs DEF Stages
<1>6. IF hasTrunk THEN Stopped(timer["prefill"], Amount("prefill", 1))'
                  ELSE Unused(timer["prefill"])'
  <2>1. timer["prefill"] \in Timers
    BY <1>4 DEF Stages
  <2> QED
    BY <2>1, <1>1, <1>2, <1>5, StoppedIs
       DEF PrefillTimer, Running, Stopped, Unused
<1>7. TypeOK'
  BY <1>1, <1>3, <1>5, ProgramKept DEF TypeOK, Inside
<1>8. Attributed'
  <2>1. Progress' /\ Phase' /\ StepTimes'
    BY <1>1, <1>2, <1>3 DEF Progress, Phase, StepTimes
  <2>2. /\ timer'["ve"] = timer["ve"] /\ timer'["decode"] = timer["decode"]
        /\ timer'["flow"] = timer["flow"]
    BY <1>5 DEF Stages
  <2>3. /\ VeTimer(timer["ve"])' /\ PrefillTimer(timer["prefill"])'
        /\ DecodeTimer(timer["decode"])' /\ FlowTimer(timer["flow"])'
    BY <1>1, <1>2, <1>6, <2>2
       DEF VeTimer, PrefillTimer, DecodeTimer, FlowTimer, Progress
  <2> QED
    BY <2>1, <2>3 DEF Attributed
<1> QED
  BY <1>1, <1>7, <1>8, MeasuringKept DEF TimedInv, Inside

(* A vlm forward returns; a decode step's time is taken. *)
LEMMA VlmPostStep == TimedInv /\ VlmPost => TimedInv'
<1> SUFFICES ASSUME TimedInv, VlmPost PROVE TimedInv'
  OBVIOUS
<1>1. /\ TypeOK /\ Attributed /\ pc \in {"prefilled", "token"} /\ pc' = "gen"
      /\ UNCHANGED <<did, program, state, decodeOpen, odeStep, timer, result>>
      /\ UNCHANGED <<hasTrunk, hasEntry>>
  BY DEF TimedInv, VlmPost, program, found
<1>2. /\ Progress /\ Phase /\ StepTimes
      /\ VeTimer(timer["ve"]) /\ PrefillTimer(timer["prefill"])
      /\ DecodeTimer(timer["decode"]) /\ FlowTimer(timer["flow"])
  BY <1>1 DEF Attributed, Inside
<1>3. /\ timer \in [Stages -> Timers] /\ did \in Works
      /\ stepTimer \in Timers /\ steps \in Seq(Works)
  BY <1>1 DEF TypeOK
<1>4. state = "decode" <=> (pc = "token" /\ hasTrunk)
  BY <1>1, <1>2, <1>3 DEF Phase, Progress, Works, Stages
<1>5. stepTimer' \in Timers /\ steps' \in Seq(Works) /\ StepTimes'
  <2>1. CASE pc = "token" /\ hasTrunk
    <3>1. Read(Stop(stepTimer)) = Amount("decode", 1)
      BY <1>2, <1>3, <2>1, StoppedIs DEF StepTimes, Read
    <3>2. steps' = Append(steps, Amount("decode", 1)) /\ stepTimer' = NewTimer
      BY <1>4, <2>1, <3>1 DEF VlmPost
    <3>3. Amount("decode", 1) \in Works
      BY AmountIs DEF Stages
    <3>4. steps' \in Seq(Works) /\ Len(steps') = Len(steps) + 1
      BY <1>3, <3>2, <3>3
    <3>5. \A k \in DOMAIN steps' : steps'[k] = Amount("decode", 1)
      BY <1>2, <1>3, <3>2, <3>3 DEF StepTimes
    <3>6. Len(steps) = did["decode"] - 1 /\ did["decode"] \in Nat
      BY <1>2, <1>3, <2>1 DEF StepTimes, Works, Stages
    <3> QED
      BY <1>1, <2>1, <3>2, <3>4, <3>5, <3>6, NewTimerIs DEF StepTimes
  <2>2. CASE ~(pc = "token" /\ hasTrunk)
    <3>1. UNCHANGED <<steps, stepTimer>>
      BY <1>4, <2>2 DEF VlmPost
    <3> QED
      BY <1>1, <1>2, <1>3, <2>2, <3>1 DEF StepTimes
  <2> QED
    BY <2>1, <2>2
<1>6. TypeOK'
  BY <1>1, <1>3, <1>5, ProgramKept DEF TypeOK, Inside
<1>7. Attributed'
  <2>1. Progress' /\ Phase'
    BY <1>1, <1>2, <1>3 DEF Progress, Phase
  <2>2. /\ VeTimer(timer["ve"])' /\ PrefillTimer(timer["prefill"])'
        /\ DecodeTimer(timer["decode"])' /\ FlowTimer(timer["flow"])'
    BY <1>1, <1>2
       DEF VeTimer, PrefillTimer, DecodeTimer, FlowTimer, Progress
  <2> QED
    BY <1>5, <2>1, <2>2 DEF Attributed
<1> QED
  BY <1>1, <1>6, <1>7, MeasuringKept DEF TimedInv, Inside

(* A decode forward opens decode, if it is the first, and a step's timer. *)
LEMMA VlmTokenStep == TimedInv /\ VlmToken => TimedInv'
<1> SUFFICES ASSUME TimedInv, VlmToken PROVE TimedInv'
  OBVIOUS
<1> DEFINE T == IF OpensDecode THEN [timer EXCEPT !["decode"] = Start(@)]
                ELSE timer
           d == did["decode"]
<1>1. /\ TypeOK /\ Attributed /\ pc = "gen" /\ pc' = "token"
      /\ Work("decode", T) /\ decodeOpen' = (decodeOpen \/ OpensDecode)
      /\ UNCHANGED <<program, odeStep, steps, result>>
      /\ UNCHANGED <<hasTrunk, hasEntry>>
  BY DEF TimedInv, VlmToken, program, found
<1>2. /\ Progress /\ Phase /\ StepTimes
      /\ VeTimer(timer["ve"]) /\ PrefillTimer(timer["prefill"])
      /\ DecodeTimer(timer["decode"]) /\ FlowTimer(timer["flow"])
  BY <1>1 DEF Attributed, Inside
<1>3. /\ timer \in [Stages -> Timers] /\ did \in Works /\ d \in Nat
      /\ stepTimer \in Timers /\ decodeOpen \in BOOLEAN
      /\ hasTrunk \in BOOLEAN
  BY <1>1 DEF TypeOK, Works, Stages
<1>4. /\ OpensDecode <=> (hasTrunk /\ d = 0)
      /\ state' = IF hasTrunk THEN "decode" ELSE "vision"
      /\ stepTimer' = IF hasTrunk THEN Elapse(Start(stepTimer), "decode")
                      ELSE stepTimer
  BY <1>1, <1>2 DEF Phase, OpensDecode, VlmToken
<1>5. /\ T \in [Stages -> Timers]
      /\ T["decode"] = IF hasTrunk /\ d = 0 THEN Start(timer["decode"])
                       ELSE timer["decode"]
      /\ \A k \in Stages \ {"decode"} : T[k] = timer[k]
  <2> HIDE DEF d
  <2> QED
    BY <1>3, <1>4, Started DEF Stages
<1>6. /\ did' \in Works /\ timer' \in [Stages -> Timers]
      /\ \A t \in Stages : did'[t] = did[t] + (IF t = "decode" THEN 1 ELSE 0)
      /\ \A k \in Stages : /\ timer'[k].started = T[k].started
                           /\ timer'[k].stopped = T[k].stopped
                           /\ timer'[k].ms = T[k].ms
                           /\ timer'[k].since = Plus(T[k].since, Piece("decode"))
  <2> HIDE DEF T
  <2> QED
    BY <1>1, <1>5, WorkIs DEF Stages
<1> HIDE DEF T
<1>7. /\ did'["ve"] = 1 /\ did'["prefill"] = 1 /\ did'["decode"] = d + 1
      /\ did'["flow"] = 0 /\ did["flow"] = 0
  BY <1>1, <1>2, <1>3, <1>6 DEF Progress, Stages, Works
<1>8. /\ stepTimer' \in Timers
      /\ hasTrunk => /\ stepTimer'.started
                     /\ stepTimer'.since = Amount("decode", 1)
  <2>1. Start(stepTimer) \in Timers /\ "decode" \in Stages
    BY <1>3, Started DEF Stages
  <2> QED
    BY <2>1, <1>3, <1>4, Started, Elapsed, FirstPiece
<1>9. IF hasTrunk THEN Running(timer'["decode"], Amount("decode", d + 1))
                  ELSE Unused(timer'["decode"])
  <2>1. timer["decode"] \in Timers /\ "decode" \in Stages
    BY <1>3 DEF Stages
  <2>2. CASE hasTrunk /\ d = 0
    <3>1. Unused(timer["decode"])
      BY <1>2, <2>2 DEF DecodeTimer
    <3>2. timer'["decode"].since = Amount("decode", 1) /\ d + 1 = 1
      BY <2>1, <2>2, <1>5, <1>6, Started, FirstPiece
    <3> QED
      BY <3>1, <3>2, <2>1, <2>2, <1>5, <1>6, Started DEF Running, Unused
  <2>3. CASE hasTrunk /\ d # 0
    <3>1. Running(timer["decode"], Amount("decode", d))
      BY <1>2, <1>7, <2>3 DEF DecodeTimer
    <3>2. timer'["decode"].since = Amount("decode", d + 1)
      BY <3>1, <2>1, <2>3, <1>3, <1>5, <1>6, OneMore DEF Running
    <3> QED
      BY <3>1, <3>2, <2>1, <2>3, <1>5, <1>6 DEF Running
  <2>4. CASE ~hasTrunk
    BY <2>1, <2>4, <1>2, <1>5, <1>6 DEF DecodeTimer, Unused
  <2> QED
    BY <2>2, <2>3, <2>4
<1>10. decodeOpen' = hasTrunk
  <2>1. decodeOpen = (hasTrunk /\ d # 0)
    BY <1>2, <1>3, <1>7 DEF DecodeTimer
  <2> QED
    BY <2>1, <1>1, <1>3, <1>4
<1>11. IF hasTrunk THEN /\ Stopped(timer["ve"], Amount("ve", 1))'
                        /\ Stopped(timer["prefill"], Amount("prefill", 1))'
                   ELSE ~timer'["ve"].stopped /\ Unused(timer["prefill"])'
  <2>1. IF hasTrunk THEN /\ Stopped(timer["ve"], Amount("ve", 1))
                         /\ Stopped(timer["prefill"], Amount("prefill", 1))
                    ELSE ~timer["ve"].stopped /\ Unused(timer["prefill"])
    BY <1>1, <1>2 DEF VeTimer, PrefillTimer
  <2> QED
    BY <2>1, <1>5, <1>6 DEF Stopped, Unused, Stages
<1>12. Unused(timer["flow"])'
  <2>1. Unused(timer["flow"])
    BY <1>2, <1>7 DEF FlowTimer
  <2> QED
    BY <2>1, <1>5, <1>6 DEF Unused, Stages
<1>13. TypeOK'
  BY <1>1, <1>3, <1>4, <1>6, <1>8, ProgramKept DEF TypeOK, Inside
<1>14. Attributed'
  <2>1. Progress' /\ Phase'
    BY <1>1, <1>2, <1>3, <1>4, <1>7 DEF Progress, Phase
  <2>2. StepTimes'
    BY <1>1, <1>2, <1>3, <1>7, <1>8 DEF StepTimes
  <2>3. /\ VeTimer(timer["ve"])' /\ PrefillTimer(timer["prefill"])'
        /\ DecodeTimer(timer["decode"])' /\ FlowTimer(timer["flow"])'
    <3> HIDE DEF d
    <3> QED
      BY <1>1, <1>3, <1>7, <1>9, <1>10, <1>11, <1>12
         DEF VeTimer, PrefillTimer, DecodeTimer, FlowTimer
  <2> QED
    BY <2>1, <2>2, <2>3 DEF Attributed
<1> QED
  BY <1>1, <1>13, <1>14, MeasuringKept DEF TimedInv, Inside

(* generate() returns. *)
LEMMA RolloutStep == TimedInv /\ Rollout => TimedInv'
<1> SUFFICES ASSUME TimedInv, Rollout PROVE TimedInv'
  OBVIOUS
<1>1. /\ TypeOK /\ Attributed /\ pc = "gen" /\ pc' = "sample"
      /\ UNCHANGED <<did, program, separator, result>>
      /\ UNCHANGED <<hasTrunk, hasEntry, state, decodeOpen, odeStep, timer,
                     stepTimer, steps>>
  BY DEF TimedInv, Rollout, program, found, separator
<1>2. /\ Progress /\ Phase /\ StepTimes
      /\ VeTimer(timer["ve"]) /\ PrefillTimer(timer["prefill"])
      /\ DecodeTimer(timer["decode"]) /\ FlowTimer(timer["flow"])
  BY <1>1 DEF Attributed, Inside
<1>3. TypeOK'
  BY <1>1, ProgramKept DEF TypeOK, Inside
<1>4. Attributed'
  <2>1. Progress' /\ Phase' /\ StepTimes'
    BY <1>1, <1>2 DEF Progress, Phase, StepTimes
  <2>2. /\ VeTimer(timer["ve"])' /\ PrefillTimer(timer["prefill"])'
        /\ DecodeTimer(timer["decode"])' /\ FlowTimer(timer["flow"])'
    BY <1>1, <1>2
       DEF VeTimer, PrefillTimer, DecodeTimer, FlowTimer, Progress
  <2> QED
    BY <2>1, <2>2 DEF Attributed
<1> QED
  BY <1>1, <1>3, <1>4, MeasuringKept DEF TimedInv, Inside

(* A network evaluation of the flow; the first opens its timer. *)
LEMMA OdeStepStep == TimedInv /\ OdeStep => TimedInv'
<1> SUFFICES ASSUME TimedInv, OdeStep PROVE TimedInv'
  OBVIOUS
<1> DEFINE f == did["flow"]
           first == hasEntry /\ odeStep = 0
           T == IF first THEN [CloseDecode(timer) EXCEPT !["flow"] = Start(@)]
                ELSE timer
<1>1. /\ TypeOK /\ Attributed /\ pc \in {"sample", "ode"} /\ pc' = "ode"
      /\ Work("flow", T) /\ f < OdeSteps
      /\ odeStep' = IF hasEntry THEN odeStep + 1 ELSE odeStep
      /\ decodeOpen' = (decodeOpen /\ ~first)
      /\ UNCHANGED <<program, state, stepTimer, steps, result>>
      /\ UNCHANGED <<hasTrunk, hasEntry>>
  BY DEF TimedInv, OdeStep, program, found
<1>2. /\ Progress /\ Phase /\ StepTimes
      /\ VeTimer(timer["ve"]) /\ PrefillTimer(timer["prefill"])
      /\ DecodeTimer(timer["decode"]) /\ FlowTimer(timer["flow"])
  BY <1>1 DEF Attributed, Inside
<1>3. /\ timer \in [Stages -> Timers] /\ did \in Works /\ f \in Nat
      /\ did["decode"] \in Nat /\ decodeOpen \in BOOLEAN
      /\ OdeSteps \in Nat /\ odeStep \in Nat
  BY <1>1, Counts DEF TypeOK, Works, Stages
<1>4. first <=> (hasEntry /\ f = 0)
  BY <1>2, <1>3 DEF Progress
<1>5. /\ T \in [Stages -> Timers]
      /\ T["flow"] = IF first THEN Start(timer["flow"]) ELSE timer["flow"]
      /\ T["decode"] = IF first /\ decodeOpen THEN Stop(timer["decode"])
                       ELSE timer["decode"]
      /\ T["ve"] = timer["ve"] /\ T["prefill"] = timer["prefill"]
  <2> HIDE DEF f, first
  <2> QED
    BY <1>3, Started, StoppedIs DEF Stages, CloseDecode
<1>6. /\ did' \in Works /\ timer' \in [Stages -> Timers]
      /\ \A t \in Stages : did'[t] = did[t] + (IF t = "flow" THEN 1 ELSE 0)
      /\ \A k \in Stages : /\ timer'[k].started = T[k].started
                           /\ timer'[k].stopped = T[k].stopped
                           /\ timer'[k].ms = T[k].ms
                           /\ timer'[k].since = Plus(T[k].since, Piece("flow"))
  <2> HIDE DEF T
  <2> QED
    BY <1>1, <1>5, WorkIs DEF Stages
<1> HIDE DEF T, first
<1>7. /\ did'["ve"] = 1 /\ did'["prefill"] = 1
      /\ did'["decode"] = did["decode"] /\ did'["flow"] = f + 1
  BY <1>1, <1>2, <1>3, <1>6 DEF Progress, Stages, Works
<1>8. IF hasEntry THEN Running(timer'["flow"], Amount("flow", f + 1))
                  ELSE Unused(timer'["flow"])
  <2>1. timer["flow"] \in Timers /\ "flow" \in Stages
    BY <1>3 DEF Stages
  <2>2. CASE hasEntry /\ f = 0
    <3>1. Unused(timer["flow"])
      BY <1>2, <2>2 DEF FlowTimer
    <3>2. timer'["flow"].since = Amount("flow", 1) /\ f + 1 = 1
      BY <2>1, <2>2, <1>4, <1>5, <1>6, Started, FirstPiece
    <3> QED
      BY <3>1, <3>2, <2>1, <2>2, <1>4, <1>5, <1>6, Started DEF Running, Unused
  <2>3. CASE hasEntry /\ f # 0
    <3>1. Running(timer["flow"], Amount("flow", f))
      BY <1>1, <1>2, <2>3 DEF FlowTimer
    <3>2. timer'["flow"].since = Amount("flow", f + 1)
      BY <3>1, <2>1, <2>3, <1>3, <1>4, <1>5, <1>6, OneMore DEF Running
    <3> QED
      BY <3>1, <3>2, <2>1, <2>3, <1>4, <1>5, <1>6 DEF Running
  <2>4. CASE ~hasEntry
    BY <2>1, <2>4, <1>2, <1>4, <1>5, <1>6 DEF FlowTimer, Unused
  <2> QED
    BY <2>2, <2>3, <2>4
<1>9. DecodeTimer(timer["decode"])'
  <2>1. timer["decode"] \in Timers /\ "decode" \in Stages
    BY <1>3 DEF Stages
  <2>2. /\ did'["flow"] # 0
        /\ timer'["decode"].started = T["decode"].started
        /\ timer'["decode"].stopped = T["decode"].stopped
        /\ timer'["decode"].ms = T["decode"].ms
    BY <2>1, <1>3, <1>6, <1>7
  <2>3. CASE ~hasTrunk \/ did["decode"] = 0
    <3>1. Unused(timer["decode"]) /\ ~decodeOpen
      BY <1>2, <2>3 DEF DecodeTimer
    <3> QED
      BY <3>1, <2>2, <2>3, <1>1, <1>5, <1>7 DEF DecodeTimer, Unused
  <2>4. CASE hasTrunk /\ did["decode"] # 0 /\ hasEntry /\ f = 0
    <3>1. Running(timer["decode"], Amount("decode", did["decode"])) /\ decodeOpen
      BY <1>2, <2>4 DEF DecodeTimer
    <3> QED
      BY <3>1, <2>1, <2>2, <2>4, <1>1, <1>4, <1>5, <1>7, StoppedIs
         DEF DecodeTimer, Running, Stopped
  <2>5. CASE hasTrunk /\ did["decode"] # 0 /\ hasEntry /\ f # 0
    <3>1. /\ Stopped(timer["decode"], Amount("decode", did["decode"]))
          /\ ~decodeOpen
      BY <1>2, <2>5 DEF DecodeTimer
    <3> QED
      BY <3>1, <2>1, <2>2, <2>5, <1>1, <1>4, <1>5, <1>7
         DEF DecodeTimer, Stopped
  <2>6. CASE hasTrunk /\ did["decode"] # 0 /\ ~hasEntry
    <3>1. ~timer["decode"].stopped /\ decodeOpen
      BY <1>2, <2>6 DEF DecodeTimer, Running
    <3> QED
      BY <3>1, <2>2, <2>6, <1>1, <1>4, <1>5, <1>7 DEF DecodeTimer
  <2> QED
    BY <2>3, <2>4, <2>5, <2>6
<1>10. VeTimer(timer["ve"])' /\ PrefillTimer(timer["prefill"])'
  <2>1. IF hasTrunk THEN /\ Stopped(timer["ve"], Amount("ve", 1))
                         /\ Stopped(timer["prefill"], Amount("prefill", 1))
                    ELSE ~timer["ve"].stopped /\ Unused(timer["prefill"])
    BY <1>1, <1>2 DEF VeTimer, PrefillTimer
  <2>2. IF hasTrunk THEN /\ Stopped(timer["ve"], Amount("ve", 1))'
                         /\ Stopped(timer["prefill"], Amount("prefill", 1))'
                    ELSE ~timer'["ve"].stopped /\ Unused(timer["prefill"])'
    BY <2>1, <1>5, <1>6 DEF Stopped, Unused, Stages
  <2> QED
    BY <2>2, <1>1 DEF VeTimer, PrefillTimer
<1>11. /\ odeStep' = IF hasEntry THEN f + 1 ELSE 0
       /\ odeStep' \in 0 .. OdeSteps /\ f + 1 <= OdeSteps
  BY <1>1, <1>2, <1>3 DEF Progress
<1>12. TypeOK'
  BY <1>1, <1>3, <1>6, <1>11, ProgramKept DEF TypeOK, Inside
<1>13. Attributed'
  <2>1. Progress' /\ Phase' /\ StepTimes'
    <3> HIDE DEF f
    <3> QED
      BY <1>1, <1>2, <1>3, <1>7, <1>11 DEF Progress, Phase, StepTimes
  <2>2. FlowTimer(timer["flow"])'
    <3> HIDE DEF f
    <3> QED
      BY <1>1, <1>3, <1>7, <1>8 DEF FlowTimer
  <2> QED
    BY <2>1, <2>2, <1>9, <1>10 DEF Attributed
<1> QED
  BY <1>1, <1>12, <1>13, MeasuringKept DEF TimedInv, Inside

(* sample() returns and the flow closes. *)
LEMMA SampleReturnsStep == TimedInv /\ SampleReturns => TimedInv'
<1> SUFFICES ASSUME TimedInv, SampleReturns PROVE TimedInv'
  OBVIOUS
<1>1. /\ TypeOK /\ Attributed /\ Measuring /\ pc = "ode" /\ pc' = "end"
      /\ UNCHANGED <<did, program, state, decodeOpen, odeStep, stepTimer,
                     steps, result>>
      /\ UNCHANGED <<hasTrunk, hasEntry>>
  BY DEF TimedInv, SampleReturns, program, found
<1>2. /\ Progress /\ Phase /\ StepTimes
      /\ VeTimer(timer["ve"]) /\ PrefillTimer(timer["prefill"])
      /\ DecodeTimer(timer["decode"]) /\ FlowTimer(timer["flow"])
  BY <1>1 DEF Attributed, Inside
<1>3. /\ timer \in [Stages -> Timers] /\ did \in Works /\ odeStep \in Nat
      /\ orig \in Seq({"adaptive"})
  BY <1>1, Counts DEF TypeOK
<1>4. sample[1] = "timed"
  BY <1>1, <1>3 DEF Measuring, Inside
<1>5. odeStep > 0 <=> hasEntry
  BY <1>1, <1>2, <1>3 DEF Progress, Works, Stages
<1>6. timer' = IF hasEntry THEN [timer EXCEPT !["flow"] = Stop(@)] ELSE timer
  BY <1>4, <1>5 DEF SampleReturns
<1>7. /\ timer' \in [Stages -> Timers]
      /\ timer'["flow"] = IF hasEntry THEN Stop(timer["flow"]) ELSE timer["flow"]
      /\ \A k \in Stages \ {"flow"} : timer'[k] = timer[k]
  BY <1>3, <1>6, StoppedIs DEF Stages
<1>8. FlowTimer(timer["flow"])'
  <2>1. timer["flow"] \in Timers /\ did["flow"] # 0
    BY <1>1, <1>2, <1>3 DEF Progress, Works, Stages
  <2>2. CASE hasEntry
    <3>1. Running(timer["flow"], Amount("flow", did["flow"]))
      BY <1>1, <1>2, <2>1, <2>2 DEF FlowTimer
    <3> QED
      BY <3>1, <2>1, <2>2, <1>1, <1>7, StoppedIs DEF FlowTimer, Running, Stopped
  <2>3. CASE ~hasEntry
    BY <2>3, <1>1, <1>2, <1>7 DEF FlowTimer
  <2> QED
    BY <2>2, <2>3
<1>9. TypeOK'
  BY <1>1, <1>7, ProgramKept DEF TypeOK, Inside
<1>10. Attributed'
  <2>1. Progress' /\ Phase' /\ StepTimes'
    BY <1>1, <1>2 DEF Progress, Phase, StepTimes
  <2>2. /\ timer'["ve"] = timer["ve"] /\ timer'["prefill"] = timer["prefill"]
        /\ timer'["decode"] = timer["decode"]
    BY <1>7 DEF Stages
  <2>3. /\ VeTimer(timer["ve"])' /\ PrefillTimer(timer["prefill"])'
        /\ DecodeTimer(timer["decode"])'
    BY <1>1, <1>2, <2>2 DEF VeTimer, PrefillTimer, DecodeTimer
  <2> QED
    BY <1>8, <2>1, <2>3 DEF Attributed
<1> QED
  BY <1>1, <1>9, <1>10, MeasuringKept DEF TimedInv, Inside

(* What collect_timing() reads at the end of an inference.                  *)
LEMMA CollectStep == TimedInv /\ Collect => TimedInv'
<1> SUFFICES ASSUME TimedInv, Collect PROVE TimedInv'
  OBVIOUS
<1> DEFINE decode == IF timer["decode"].started /\ timer["decode"].stopped
                     THEN timer["decode"].ms ELSE Total(steps)
           stage == [s \in Stages |-> IF s = "decode" THEN decode
                                      ELSE Read(timer[s])]
<1>1. /\ TypeOK /\ Attributed /\ Measuring
      /\ pc = "end" /\ pc' = "between" /\ runs' = runs + 1
      /\ UNCHANGED <<hasTrunk, hasEntry, label, did, sample, orig, hooked,
                     patched, state, decodeOpen, odeStep, timer, stepTimer, steps>>
      /\ result' = [label |-> label, did |-> did, n |-> Len(steps),
                    stage |-> stage]
  BY DEF TimedInv, Collect, found, separator
<1>2. /\ Progress /\ Phase /\ StepTimes
      /\ VeTimer(timer["ve"]) /\ PrefillTimer(timer["prefill"])
      /\ DecodeTimer(timer["decode"]) /\ FlowTimer(timer["flow"])
  BY <1>1 DEF Attributed, Inside
<1>3. /\ timer \in [Stages -> Timers] /\ did \in Works /\ steps \in Seq(Works)
      /\ label \in {"eager", "umic"} /\ runs \in 0 .. Runs
      /\ did["decode"] \in Nat /\ did["flow"] \in Nat /\ Len(steps) \in Nat
  BY <1>1 DEF TypeOK, Works, Stages
<1> DEFINE Own(s) == Amount(s, did[s])
<1>4. did["ve"] = 1 /\ did["prefill"] = 1 /\ did["flow"] # 0
  BY <1>1, <1>2, <1>3 DEF Progress
<1>5. Read(timer["ve"]) = IF hasTrunk THEN Own("ve") ELSE Nothing
  BY <1>1, <1>2, <1>4 DEF VeTimer, Stopped, Read
<1>6. Read(timer["prefill"]) = IF hasTrunk THEN Own("prefill") ELSE Nothing
  BY <1>1, <1>2, <1>4 DEF PrefillTimer, Stopped, Unused, Read
<1>7. Read(timer["flow"]) = IF hasEntry THEN Own("flow") ELSE Nothing
  BY <1>1, <1>2, <1>4 DEF FlowTimer, Stopped, Unused, Read
<1>8. Total(steps) = Amount("decode", Len(steps))
  BY <1>2, <1>3, TotalCounts DEF StepTimes
<1>9. Len(steps) = IF hasTrunk THEN did["decode"] ELSE 0
  BY <1>1, <1>2 DEF StepTimes
<1>10. decode = IF hasTrunk THEN Own("decode") ELSE Nothing
  <2>1. CASE ~hasTrunk
    <3>1. Unused(timer["decode"])
      BY <1>2, <2>1 DEF DecodeTimer
    <3>2. Total(steps) = Nothing
      BY <1>8, <1>9, <2>1, NoAmount DEF Stages
    <3> QED
      BY <3>1, <3>2, <2>1 DEF Unused
  <2>2. CASE hasTrunk
    <3>1. Total(steps) = Own("decode")
      BY <1>8, <1>9, <2>2
    <3>2. \/ ~timer["decode"].stopped
          \/ Stopped(timer["decode"], Own("decode"))
      BY <1>2, <1>4, <2>2 DEF DecodeTimer, Unused
    <3> QED
      BY <3>1, <3>2, <2>2 DEF Stopped
  <2> QED
    BY <2>1, <2>2
<1>11. \A s \in Stages : Own(s) \in Works
  <2>1. \A s \in Stages : did[s] \in Nat
    BY <1>3 DEF Works
  <2> QED
    BY <2>1, AmountIs
<1> HIDE DEF decode, Own
<1>12. /\ stage["ve"] = IF hasTrunk THEN Own("ve") ELSE Nothing
       /\ stage["prefill"] = IF hasTrunk THEN Own("prefill") ELSE Nothing
       /\ stage["decode"] = IF hasTrunk THEN Own("decode") ELSE Nothing
       /\ stage["flow"] = IF hasEntry THEN Own("flow") ELSE Nothing
  BY <1>5, <1>6, <1>7, <1>10 DEF Stages
<1>13. stage \in [Stages -> Works]
  <2>1. \A s \in Stages : stage[s] \in {Nothing, Own(s)}
    BY <1>12 DEF Stages
  <2>2. \A s \in Stages : stage[s] \in Works
    BY <2>1, <1>11, NothingIsWork
  <2> QED
    BY <2>2
<1> HIDE DEF stage
<1>14. /\ result'.label = label /\ result'.did = did /\ result'.n = Len(steps)
       /\ result'.stage = stage /\ result' \in Results
  BY <1>1, <1>3, <1>13 DEF Results
<1>15. \A s \in Stages : Share(s)' = Own(s)
  BY <1>14 DEF Share, Own, Amount
<1>16. OwnWork'
  <2>1. \A s \in Stages : result'.stage[s] \in {Nothing, Share(s)'}
    BY <1>12, <1>14, <1>15 DEF Stages
  <2>2. hasTrunk /\ hasEntry =>
          /\ result'.n = result'.did["decode"]
          /\ \A s \in Stages : result'.stage[s] = Share(s)'
    BY <1>9, <1>12, <1>14, <1>15 DEF Stages
  <2> QED
    BY <1>1, <2>1, <2>2 DEF OwnWork
<1>17. runs < Runs /\ runs' \in 0 .. Runs
  BY <1>1, <1>3, Counts DEF Measuring, Inside
<1>18. TypeOK'
  <2> HIDE DEF Works, Timers, Results
  <2> QED
    BY <1>1, <1>14, <1>17 DEF TypeOK
<1>19. Attributed' /\ Measuring'
  BY <1>1 DEF Attributed, Measuring, Inside
<1> QED
  BY <1>16, <1>18, <1>19 DEF TimedInv

-----------------------------------------------------------------------------
(* Around the inferences.                                                   *)

(* What reset() leaves of the separator. *)
LEMMA ResetIs ==
  ASSUME Reset
  PROVE  /\ state' = "idle" /\ decodeOpen' = FALSE /\ odeStep' = 0
         /\ odeStep' \in 0 .. OdeSteps
         /\ timer' \in [Stages -> Timers] /\ stepTimer' \in Timers
         /\ \A k \in Stages : Unused(timer'[k])
         /\ steps' = <<>> /\ steps' \in Seq(Works)
  BY NewTimerIs, Counts DEF Reset, NewTimers

(* A result does not change until the next one. *)
LEMMA OwnWorkKept ==
  ASSUME OwnWork, UNCHANGED <<found, result>>
  PROVE  OwnWork'
  BY DEF OwnWork, Share, found

(* Without a result there is nothing to say of it. *)
LEMMA OwnWorkNone == result = NoResult => OwnWork
  BY DEF OwnWork, NoResult

(* The result before the first measurement. *)
LEMMA NoResultType == NoResult \in Results
<1>1. [s \in Stages |-> Nothing] \in [Stages -> Works]
  BY NothingIsWork
<1> HIDE DEF Works, Nothing
<1> QED
  BY <1>1, NothingIsWork DEF NoResult, Results

(* The empty list is one of anything. *)
LEMMA EmptySeqs == \A S : <<>> \in Seq(S)
  OBVIOUS

(* TimedInv holds at the start. *)
LEMMA TimedInit == Init => TimedInv
<1> SUFFICES ASSUME Init PROVE TimedInv
  OBVIOUS
<1>1. TypeOK
  <2>1. NewTimers \in [Stages -> Timers]
    BY NewTimerIs DEF NewTimers
  <2>2. odeStep \in 0 .. OdeSteps /\ runs \in 0 .. Runs
    BY Counts DEF Init
  <2>3. /\ sample \in Seq({"timed", "adaptive"}) /\ orig \in Seq({"adaptive"})
        /\ steps \in Seq(Works)
    BY EmptySeqs DEF Init
  <2>4. /\ timer \in [Stages -> Timers] /\ stepTimer \in Timers
        /\ did \in Works /\ result \in Results
    BY <2>1, NewTimerIs, NothingIsWork, NoResultType DEF Init
  <2> HIDE DEF Works, Timers, Results, NewTimers, NewTimer, Nothing, NoResult
  <2> QED
    BY <2>2, <2>3, <2>4 DEF Init, TypeOK
<1>2. Attributed /\ Measuring
  BY DEF Init, Attributed, Measuring, Inside
<1>3. OwnWork
  BY OwnWorkNone DEF Init
<1> QED
  BY <1>1, <1>2, <1>3 DEF TimedInv

(* register_hooks() wraps sample() and resets the separator. *)
LEMMA RegisterStep == TimedInv /\ HInv /\ Register => TimedInv'
<1> SUFFICES ASSUME TimedInv, HInv, Register PROVE TimedInv'
  OBVIOUS
<1>1. /\ TypeOK /\ OwnWork /\ pc = "apart" /\ pc' = "between" /\ runs = 0
      /\ orig' = sample /\ sample' = <<"timed">> \o sample /\ hooked' = TRUE
      /\ Reset
      /\ UNCHANGED <<hasTrunk, hasEntry, label, runs, did, patched, result>>
  BY DEF TimedInv, Register, found
<1>2. orig' \in Seq({"adaptive"})
  <2>1. sample = <<>> \/ sample = <<"adaptive">>
    BY <1>1 DEF HInv, Outside, Bare
  <2>2. <<"adaptive">> \in Seq({"adaptive"})
    OBVIOUS
  <2> QED
    BY <2>1, <2>2, <1>1, EmptySeqs
<1>3. sample' \in Seq({"timed", "adaptive"})
  BY <1>1 DEF TypeOK
<1>4. TypeOK'
  <2> HIDE DEF Works, Timers, Results
  <2> QED
    BY <1>1, <1>2, <1>3, ResetIs DEF TypeOK
<1>5. Attributed' /\ Measuring'
  BY <1>1 DEF Attributed, Measuring, Inside
<1> QED
  BY <1>1, <1>4, <1>5, OwnWorkKept DEF TimedInv, found

(* apply() patches the model between two measurements. *)
LEMMA ApplyStep == TimedInv /\ Apply => TimedInv'
<1> SUFFICES ASSUME TimedInv, Apply PROVE TimedInv'
  OBVIOUS
<1>1. /\ TypeOK /\ OwnWork /\ pc = "apart" /\ label' = "umic" /\ runs' = 0
      /\ UNCHANGED <<pc, hasTrunk, hasEntry, did, orig, hooked, state,
                     decodeOpen, odeStep, timer, stepTimer, steps, result>>
  BY DEF TimedInv, Apply, found, separator
<1>2. /\ patched' \in {"no", "exact", "adaptive"}
      /\ sample' \in Seq({"timed", "adaptive"})
  <2>1. sample \in Seq({"timed", "adaptive"})
    BY <1>1 DEF TypeOK
  <2>2. <<"adaptive">> \o sample \in Seq({"timed", "adaptive"})
    BY <2>1
  <2> QED
    BY <2>1, <2>2 DEF Apply
<1>3. runs' \in 0 .. Runs
  BY <1>1, Counts
<1>4. TypeOK'
  <2> HIDE DEF Works, Timers, Results
  <2> QED
    BY <1>1, <1>2, <1>3 DEF TypeOK
<1>5. Attributed' /\ Measuring'
  BY <1>1 DEF Attributed, Measuring, Inside
<1> QED
  BY <1>1, <1>4, <1>5, OwnWorkKept DEF TimedInv, found

(* An inference starts with a separator that is reset. *)
LEMMA BeginInferenceStep == TimedInv /\ BeginInference => TimedInv'
<1> SUFFICES ASSUME TimedInv, BeginInference PROVE TimedInv'
  OBVIOUS
<1>1. /\ TypeOK /\ OwnWork /\ Measuring
      /\ pc = "between" /\ runs < Runs /\ pc' = "ready"
      /\ Reset /\ did' = Nothing
      /\ UNCHANGED <<hasTrunk, hasEntry, label, runs, sample, orig, hooked,
                     patched, result>>
  BY DEF TimedInv, BeginInference, program, found
<1>2. TypeOK'
  <2> HIDE DEF Works, Timers, Results
  <2> QED
    BY <1>1, ResetIs, NothingIsWork DEF TypeOK
<1>3. Attributed'
  <2>1. /\ did'["ve"] = 0 /\ did'["prefill"] = 0 /\ did'["decode"] = 0
        /\ did'["flow"] = 0
    BY <1>1, NothingIsWork DEF Stages
  <2>2. Progress' /\ Phase' /\ StepTimes'
    BY <1>1, <2>1, ResetIs, Counts DEF Progress, Phase, StepTimes
  <2>3. /\ VeTimer(timer["ve"])' /\ PrefillTimer(timer["prefill"])'
        /\ DecodeTimer(timer["decode"])' /\ FlowTimer(timer["flow"])'
    BY <1>1, <2>1, ResetIs
       DEF VeTimer, PrefillTimer, DecodeTimer, FlowTimer, Stages
  <2> QED
    BY <2>2, <2>3 DEF Attributed
<1>4. Measuring'
  BY <1>1 DEF Measuring, Inside
<1> QED
  BY <1>1, <1>2, <1>3, <1>4, OwnWorkKept DEF TimedInv, found

(* measure() ends, or an inference raises out of it. *)
LEMMA LeavingStep == TimedInv /\ (EndMeasure \/ Raise) => TimedInv'
<1> SUFFICES ASSUME TimedInv, EndMeasure \/ Raise PROVE TimedInv'
  OBVIOUS
<1>1. /\ TypeOK /\ OwnWork /\ pc' \in {"apart", "done", "dead"} /\ RemoveHooks
      /\ UNCHANGED <<hasTrunk, hasEntry, label, runs, did, patched, state,
                     decodeOpen, odeStep, timer, stepTimer, steps, result>>
  BY DEF TimedInv, EndMeasure, Raise, found, separator
<1>2. sample' \in Seq({"timed", "adaptive"})
  BY <1>1 DEF TypeOK, RemoveHooks
<1>3. TypeOK'
  <2> HIDE DEF Works, Timers, Results
  <2> QED
    BY <1>1, <1>2 DEF TypeOK, RemoveHooks
<1>4. Attributed' /\ Measuring'
  BY <1>1 DEF Attributed, Measuring, Inside
<1> QED
  BY <1>1, <1>3, <1>4, OwnWorkKept DEF TimedInv, found

(* The program is started again. *)
LEMMA RestartStep == TimedInv /\ Restart => TimedInv'
<1> SUFFICES ASSUME TimedInv, Restart PROVE TimedInv'
  OBVIOUS
<1>1. /\ TypeOK /\ pc' = "apart" /\ label' = "eager" /\ runs' = 0
      /\ did' = Nothing /\ sample' = <<>> /\ orig' = <<>> /\ hooked' = FALSE
      /\ patched' = "no" /\ result' = NoResult /\ Reset
      /\ UNCHANGED <<hasTrunk, hasEntry>>
  BY DEF TimedInv, Restart, found
<1>2. TypeOK'
  <2>1. runs' \in 0 .. Runs
    BY <1>1, Counts
  <2>2. /\ sample' \in Seq({"timed", "adaptive"}) /\ orig' \in Seq({"adaptive"})
    BY <1>1, EmptySeqs
  <2>3. did' \in Works /\ result' \in Results
    BY <1>1, NothingIsWork, NoResultType
  <2> HIDE DEF Works, Timers, Results, Nothing, NoResult
  <2> QED
    BY <2>1, <2>2, <2>3, <1>1, ResetIs DEF TypeOK
<1>3. Attributed' /\ Measuring'
  BY <1>1 DEF Attributed, Measuring, Inside
<1>4. OwnWork'
  BY <1>1 DEF OwnWork, NoResult
<1> QED
  BY <1>2, <1>3, <1>4 DEF TimedInv

(* Nothing happens. *)
LEMMA TimedStutter == TimedInv /\ UNCHANGED vars => TimedInv'
<1> SUFFICES ASSUME TimedInv, UNCHANGED vars PROVE TimedInv'
  OBVIOUS
<1>1. /\ TypeOK /\ Attributed /\ Measuring /\ OwnWork
      /\ UNCHANGED <<hasTrunk, hasEntry, pc, label, runs, did, sample, orig,
                     hooked, patched, state, decodeOpen, odeStep, timer,
                     stepTimer, steps, result>>
      /\ UNCHANGED <<found, program>>
  BY DEF TimedInv, vars, program, separator, found
<1>2. TypeOK'
  <2> HIDE DEF Works, Timers, Results
  <2> QED
    BY <1>1 DEF TypeOK
<1>3. Attributed'
  BY <1>1 DEF Attributed, Progress, Phase, StepTimes, VeTimer, PrefillTimer,
              DecodeTimer, FlowTimer
<1>4. Measuring'
  BY <1>1 DEF Measuring
<1> QED
  BY <1>1, <1>2, <1>3, <1>4, OwnWorkKept DEF TimedInv

(* Whatever the hooks are called around, the timers of an inference hold    *)
(* the work their stage did and no other (bench.py:103-151, 182-207).       *)
THEOREM TimedStep == TimedInv /\ HInv /\ [Next]_vars => TimedInv'
  BY RegisterStep, LeavingStep, ApplyStep, BeginInferenceStep, VlmPrefillStep,
     LmPreStep, LmPostStep, VlmPostStep, VlmTokenStep, RolloutStep, OdeStepStep,
     SampleReturnsStep, CollectStep, RestartStep, TimedStutter DEF Next

(* TimedInv holds always. *)
LEMMA AlwaysTimed == Spec => []TimedInv
  BY TimedInit, TimedStep, HInvInit, HInvStep, PTL DEF Spec

(* The separator's state, its timers and its results stay in their types:   *)
(* never more ODE steps or runs than there are (bench.py:72-100).           *)
THEOREM AlwaysTyped == Spec => []TypeOK
<1>1. TimedInv => TypeOK
  BY DEF TimedInv
<1> QED
  BY <1>1, AlwaysTimed, PTL

(* Every result attributes all the work of a stage to that stage and no     *)
(* other work, for any number of tokens, ODE steps and runs, and after any  *)
(* earlier inference (bench.py:9-16, 103-151, 221-234).                     *)
THEOREM AlwaysExact == Spec => []StagesExact
<1>1. TimedInv => StagesExact
  BY DEF TimedInv, OwnWork, StagesExact, Measured
<1> QED
  BY <1>1, AlwaysTimed, PTL

(* No piece of work is in wall_ms twice, also where find_lm_module or the   *)
(* search for the flow's entry found nothing (bench.py:173-198, 221-242).   *)
THEOREM AlwaysOnce == Spec => []NothingTwice
<1>1. TimedInv => NothingTwice
  <2> SUFFICES ASSUME TimedInv PROVE NothingTwice
    OBVIOUS
  <2> DEFINE own(s) == result.stage[s]
             wall == Plus(Plus(own("ve"), own("prefill")),
                          Plus(own("decode"), own("flow")))
  <2>1. /\ result.did \in Works
        /\ \A s \in Stages : own(s) \in Works /\ own(s) \in {Nothing, Share(s)}
    BY DEF TimedInv, TypeOK, OwnWork, Results
  <2>2. \A s \in Stages : result.did[s] \in Nat /\ Share(s) = Amount(s, result.did[s])
    BY <2>1 DEF Works, Share, Amount
  <2>3. \A s, t \in Stages : /\ own(s)[t] \in Nat
                             /\ own(s)[t] <= result.did[t]
                             /\ s # t => own(s)[t] = 0
    BY <2>1, <2>2, NothingIsWork, AmountIs
  <2>4. \A s \in Stages : wall[s] = (own("ve")[s] + own("prefill")[s])
                                    + (own("decode")[s] + own("flow")[s])
    <3>1. own("ve") \in Works /\ own("prefill") \in Works
      BY <2>1 DEF Stages
    <3>2. own("decode") \in Works /\ own("flow") \in Works
      BY <2>1 DEF Stages
    <3> HIDE DEF own
    <3> QED
      BY <3>1, <3>2, PlusIs
  <2> HIDE DEF own, wall
  <2>5. \A s \in Stages : wall[s] <= result.did[s]
    BY <2>2, <2>3, <2>4 DEF Stages
  <2> QED
    BY <2>5 DEF NothingTwice, own, wall
<1> QED
  BY <1>1, AlwaysTimed, PTL
=============================================================================
