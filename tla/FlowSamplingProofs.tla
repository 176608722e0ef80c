-------------------------- MODULE FlowSamplingProofs --------------------------
(* Theorems about FlowSampling: one adaptive wrapper, one step graph, or the *)
(* graph inside the adaptive wrapper give the sampler the velocities of the  *)
(* schedule, for every schedule, number of steps and number of samples.      *)
(* And for every setup, failing captures and every nesting included: the    *)
(* variables keep their types, a capture has one outcome per sample(), and  *)
(* where the fallback to eager is sound.                                    *)
EXTENDS FlowSampling, TLAPS

(* What the theorems are about.  A step graph needs the cache of the decode  *)
(* runner and captures that do not raise, or one closure behind the expert's *)
(* hook, which restores the cache also where a capture raised.               *)
Sound(u) ==
    /\ u.stack \in {<<"adaptive">>, <<"graph">>, <<"adaptive", "graph">>}
    /\ u.stack # <<"adaptive">> =>
         \/ u.cache = "runner" /\ ~u.fails
         \/ u.cache = "own" /\ \A c, d \in u.closures : c = d

Own(k) == [of |-> k, rows |-> "own"]
Velocity == [of : Int, rows : {"own", "none"}]
WrapState == [calls : Nat, last : Velocity, graph : {"none", "live"},
              computes : BOOLEAN, failed : BOOLEAN]
State == [wrap : [Closures -> [DOMAIN Stack -> WrapState]],
          owner : Closures \cup {"nobody"}, whose : Closures \cup {"nobody"},
          extra : BOOLEAN]
Answer == [s : State, v : Velocity, ran : BOOLEAN]

NoGraphs(s) == \A d \in Closures, l \in DOMAIN Stack : s.wrap[d][l].graph = "none"

(* What the step function and the wrappers leave between two calls: live    *)
(* graphs have captured a forward, and a hook has nothing to free.          *)
Good(s) ==
    /\ s \in State
    /\ \A d \in Closures, l \in DOMAIN Stack :
          s.wrap[d][l].graph = "live" => s.wrap[d][l].computes /\ ~s.wrap[d][l].failed
    /\ Stack = <<"adaptive">> => NoGraphs(s)
    /\ Cache = "own" => /\ s.whose = s.owner
                        /\ s.owner \in setup.closures \cup {"nobody"}
                        /\ s.owner = "nobody" => NoGraphs(s)
    /\ Cache # "own" => ~s.extra

After(s, c) == [wrap |-> s.wrap, owner |-> IF Cache = "own" THEN c ELSE s.owner,
                whose |-> IF Cache = "own" THEN c ELSE s.whose, extra |-> FALSE]

(* A state is its fields. *)
LEMMA StateFields ==
  ASSUME NEW s, s \in State
  PROVE  s = [wrap |-> s.wrap, owner |-> s.owner, whose |-> s.whose, extra |-> s.extra]
  BY DEF State

(* Two states with the same fields are one. *)
LEMMA SameState ==
  ASSUME NEW s \in State, NEW t \in State, s.wrap = t.wrap, s.owner = t.owner,
         s.whose = t.whose, s.extra = t.extra
  PROVE  s = t
  BY StateFields

(* A step leaves a state. *)
LEMMA AfterState ==
  ASSUME NEW s, s \in State, NEW c \in Closures
  PROVE  After(s, c) \in State
  BY DEF After, State

(* The hook of the closure at hand frees no graph's memory.                 *)
LEMMA HookFreesNothing ==
  ASSUME setup \in Setups, Sound(setup), NEW s, Good(s), NEW c \in setup.closures
  PROVE  /\ HookCache(s, c) \in State
         /\ HookCache(s, c).wrap = s.wrap /\ HookCache(s, c).extra = s.extra
         /\ HookCache(s, c).owner = After(s, c).owner
         /\ HookCache(s, c).whose = After(s, c).whose
<1>1. c \in Closures /\ s \in State
  BY Installed DEF Good
<1>2. CASE Cache # "own"
  BY <1>1, <1>2 DEF HookCache, After
<1>3. CASE Cache = "own" /\ s.owner = c
  BY <1>1, <1>3 DEF HookCache, After, Good
<1>4. CASE Cache = "own" /\ s.owner # c
  <2>1. NoGraphs(s)
    <3>1. CASE Stack = <<"adaptive">>
      BY <3>1 DEF Good
    <3>2. CASE Stack # <<"adaptive">>
      BY <1>4, <3>2 DEF Good, Sound, Stack, Cache
    <3> QED
      BY <3>1, <3>2
  <2>2. \A d \in Closures, l \in DOMAIN Stack : Freed(s.wrap[d][l]) = s.wrap[d][l]
    BY <2>1 DEF NoGraphs, Freed
  <2>3. [d \in Closures |-> [l \in DOMAIN Stack |-> Freed(s.wrap[d][l])]] = s.wrap
    <3>1. \A d \in Closures : [l \in DOMAIN Stack |-> Freed(s.wrap[d][l])] = s.wrap[d]
      BY <1>1, <2>2 DEF State
    <3> QED
      BY <1>1, <3>1 DEF State
  <2>4. HookCache(s, c) = [s EXCEPT !.owner = c, !.whose = c, !.wrap = s.wrap]
    BY <1>4, <2>3 DEF HookCache
  <2> QED
    BY <1>1, <1>4, <2>4 DEF After, State
<1> QED
  BY <1>2, <1>3, <1>4

(* A step that does not raise. *)
LEMMA StepFnResult ==
  ASSUME setup \in Setups, Sound(setup), NEW s, Good(s), NEW c \in setup.closures, NEW k \in Int
  PROVE  /\ StepFn(s, c, k) = [s |-> After(s, c), v |-> Own(k), ran |-> TRUE]
         /\ Good(After(s, c))
<1>1. c \in Closures /\ s \in State
  BY Installed DEF Good
<1> DEFINE h == HookCache(s, c)
           r == [h EXCEPT !.extra = FALSE]
<1>2. /\ h \in State /\ h.wrap = s.wrap /\ h.extra = s.extra
      /\ h.owner = After(s, c).owner /\ h.whose = After(s, c).whose
  BY HookFreesNothing
<1>3. After(s, c) \in State
  BY <1>1, AfterState
<1>4. r = After(s, c)
  <2> HIDE DEF h
  <2>1. r \in State /\ r.wrap = h.wrap /\ r.owner = h.owner /\ r.whose = h.whose /\ r.extra = FALSE
    BY <1>2 DEF State
  <2> HIDE DEF r
  <2>2. After(s, c).wrap = s.wrap /\ After(s, c).extra = FALSE
    BY DEF After
  <2> HIDE DEF h
  <2> QED
    BY <1>2, <1>3, <2>1, <2>2, SameState
<1>5. (IF Cache = "own" THEN IF h.whose = c THEN "own" ELSE "other"
                        ELSE IF s.extra THEN "extra" ELSE "own") = "own"
  BY <1>2 DEF After, Good
<1>6. StepFn(s, c, k) = [s |-> After(s, c), v |-> Own(k), ran |-> TRUE]
  BY <1>4, <1>5 DEF StepFn, Own
<1>7. Good(After(s, c))
  BY <1>1, <1>3, Names DEF Good, After, NoGraphs
<1> QED
  BY <1>6, <1>7

(* What a graph can be given: a live one has captured a forward, behind a    *)
(* hook that has a cache.                                                   *)
Keeps(s, w) ==
    w.graph = "live" => /\ w.computes /\ ~w.failed /\ Stack # <<"adaptive">>
                        /\ Cache = "own" => s.owner # "nobody"

(* A good state stays good when a wrapper changes and keeps it. *)
LEMMA SetWrapper ==
  ASSUME NEW s, Good(s), NEW c \in Closures, NEW l \in DOMAIN Stack,
         NEW w \in WrapState, Keeps(s, w)
  PROVE  /\ Good([s EXCEPT !.wrap[c][l] = w])
         /\ [s EXCEPT !.wrap[c][l] = w].wrap[c][l] = w
         /\ \A d \in Closures, m \in DOMAIN Stack :
               d # c \/ m # l => [s EXCEPT !.wrap[c][l] = w].wrap[d][m] = s.wrap[d][m]
<1> DEFINE t == [s EXCEPT !.wrap[c][l] = w]
<1>1. s \in State
  BY DEF Good
<1>2. /\ t \in State /\ t.wrap = [s.wrap EXCEPT ![c][l] = w]
      /\ t.owner = s.owner /\ t.whose = s.whose /\ t.extra = s.extra
  BY <1>1 DEF State
<1> HIDE DEF t
<1>3. t.wrap[c][l] = w
  BY <1>1, <1>2 DEF State
<1>4. \A d \in Closures, m \in DOMAIN Stack : d # c \/ m # l => t.wrap[d][m] = s.wrap[d][m]
  BY <1>1, <1>2 DEF State
<1>5. \A d \in Closures, m \in DOMAIN Stack :
         t.wrap[d][m].graph = "live" => t.wrap[d][m].computes /\ ~t.wrap[d][m].failed
  BY <1>3, <1>4 DEF Good, Keeps
<1>6. NoGraphs(s) /\ w.graph # "live" => NoGraphs(t)
  BY <1>3, <1>4 DEF NoGraphs, WrapState
<1>7. Stack = <<"adaptive">> => NoGraphs(t)
  BY <1>6 DEF Good, Keeps
<1>8. Cache = "own" => /\ t.whose = t.owner /\ t.owner \in setup.closures \cup {"nobody"}
                       /\ t.owner = "nobody" => NoGraphs(t)
  BY <1>2, <1>6 DEF Good, Keeps
<1>9. Good(t)
  BY <1>2, <1>5, <1>7, <1>8 DEF Good
<1> QED
  BY <1>3, <1>4, <1>9 DEF t

(* A replay of a live graph computes the step at hand. *)
LEMMA ReplayResult ==
  ASSUME NEW s, Good(s), NEW c \in Closures, NEW l \in DOMAIN Stack, NEW k \in Int,
         s.wrap[c][l].graph = "live"
  PROVE  LET r == Replay(s, c, l, k)
         IN /\ r \in Answer /\ r.v = Own(k)
            /\ Good(r.s)
            /\ \A d \in Closures, m \in DOMAIN Stack : m # l => r.s.wrap[d][m] = s.wrap[d][m]
<1> DEFINE w == s.wrap[c][l]
           n == [w EXCEPT !.last = Own(k)]
           t == [s EXCEPT !.wrap[c][l] = n]
           r == [s |-> t, v |-> Own(k), ran |-> w.computes]
<1>1. s \in State /\ w \in WrapState /\ w.computes /\ ~w.failed
  BY DEF Good, State
<1>2. Own(k) \in Velocity
  BY DEF Own, Velocity
<1>3. Replayed(w, k) = Own(k)
  BY <1>1 DEF Replayed, Own
<1>4. n \in WrapState /\ Keeps(s, n)
  BY <1>1, <1>2, Names DEF Keeps, Good, WrapState, NoGraphs
<1>5. Replay(s, c, l, k) = r
  BY <1>3 DEF Replay
<1> HIDE DEF n
<1>6. Good(t) /\ \A d \in Closures, m \in DOMAIN Stack : m # l => t.wrap[d][m] = s.wrap[d][m]
  BY <1>4, SetWrapper
<1> HIDE DEF t, w
<1>7. r \in Answer /\ r.v = Own(k) /\ r.s = t
  BY <1>1, <1>2, <1>6 DEF Answer, Good, WrapState
<1> HIDE DEF r
<1> QED
  BY <1>5, <1>6, <1>7

(* The call that is being captured: a raise leaves the hook's cache to the   *)
(* closure at hand.                                                         *)
MayRaise(s, c, how) ==
    /\ how \in Outcomes
    /\ how = "convert" => Cache = "own" /\ s.owner \notin {c, "nobody"}

(* A step that raises once a layer has appended. *)
LEMMA BrokenStep ==
  ASSUME setup \in Setups, Sound(setup), Cache = "own", NEW s, Good(s), NEW c \in setup.closures
  PROVE  /\ Good(BrokenStepFn(s, c))
         /\ BrokenStepFn(s, c).wrap = s.wrap /\ BrokenStepFn(s, c).owner = c
<1>1. c \in Closures /\ s \in State
  BY Installed DEF Good
<1> DEFINE h == HookCache(s, c)
           r == [h EXCEPT !.extra = TRUE]
<1>2. /\ h \in State /\ h.wrap = s.wrap /\ h.owner = c /\ h.whose = c
  BY HookFreesNothing DEF After
<1>3. r \in State /\ r.wrap = s.wrap /\ r.owner = c /\ r.whose = c
  <2> HIDE DEF h
  <2> QED
    BY <1>2 DEF State
<1>4. r = BrokenStepFn(s, c)
  BY DEF BrokenStepFn
<1> HIDE DEF r
<1>5. Good(r)
  BY <1>1, <1>3, Names DEF Good, NoGraphs
<1> QED
  BY <1>3, <1>4, <1>5

(* A step graph, at the innermost level, answers with the velocity of the    *)
(* step at hand whether it warms up, captures, replays or has failed.        *)
LEMMA GraphResult ==
  ASSUME setup \in Setups, Sound(setup), Stack # <<"adaptive">>, NEW s, Good(s),
         NEW c \in setup.closures, NEW k \in Int, NEW how, MayRaise(s, c, how),
         NEW l, l = Len(Stack)
  PROVE  LET r == Graph(s, c, l, k, how)
         IN /\ r \in Answer /\ r.v = Own(k)
            /\ Good(r.s)
            /\ \A d \in Closures, m \in DOMAIN Stack : m # l => r.s.wrap[d][m] = s.wrap[d][m]
<1> DEFINE w == s.wrap[c][l]
           a == After(s, c)
           Fine(r) == /\ r \in Answer /\ r.v = Own(k)
                      /\ Good(r.s)
                      /\ \A d \in Closures, m \in DOMAIN Stack :
                            m # l => r.s.wrap[d][m] = s.wrap[d][m]
           Step == [s |-> a, v |-> Own(k), ran |-> TRUE]
<1>1. c \in Closures /\ s \in State /\ l \in DOMAIN Stack
  <2>1. Stack = <<"graph">> \/ Stack = <<"adaptive", "graph">>
    BY DEF Sound, Stack
  <2>2. l \in DOMAIN Stack
    BY <2>1
  <2> QED
    BY <2>2, Installed DEF Good
<1>2. w \in WrapState
  BY <1>1 DEF State
<1>3. Good(a) /\ \A j \in Int : StepFn(s, c, j) = [s |-> a, v |-> Own(j), ran |-> TRUE]
  BY StepFnResult
<1>4. a.wrap = s.wrap /\ (Cache = "own" => a.owner = c)
  BY DEF After
<1>5. Wrapped(s, c, l, k) = Step
  BY <1>3 DEF Wrapped
<1>6. Wrapped(a, c, l, k) = Step
  <2>1. After(a, c) = a
    BY DEF After
  <2>2. StepFn(a, c, k) = [s |-> After(a, c), v |-> Own(k), ran |-> TRUE]
    BY <1>3, StepFnResult
  <2> QED
    BY <2>1, <2>2 DEF Wrapped
<1>7. Own(k) \in Velocity
  BY DEF Own, Velocity
<1> HIDE DEF a
<1>8. CASE Eagerly(w)
  <2> DEFINE n == [w EXCEPT !.calls = @ + 1]
             t == [a EXCEPT !.wrap[c][l] = n]
  <2>1. n \in WrapState /\ Keeps(a, n)
    BY <1>1, <1>2, <1>3, <1>4, Names DEF Keeps, Good, WrapState
  <2>2. Good(t) /\ \A d \in Closures, m \in DOMAIN Stack : m # l => t.wrap[d][m] = s.wrap[d][m]
    <3> HIDE DEF n
    <3> QED
      BY <1>1, <1>3, <1>4, <2>1, SetWrapper
  <2> DEFINE r == [Step EXCEPT !.s = t]
  <2>3. r \in Answer /\ r.v = Own(k) /\ r.s = t
    <3> HIDE DEF t
    <3> QED
      BY <1>7, <2>2 DEF Answer, Good
  <2>4. Graph(s, c, l, k, how) = [Step EXCEPT !.s.wrap[c][l].calls = @ + 1]
    BY <1>5, <1>8 DEF Graph
  <2>5. [Step EXCEPT !.s.wrap[c][l].calls = @ + 1] = r
    BY <1>4
  <2>6. Graph(s, c, l, k, how) = r
    BY <2>4, <2>5
  <2> HIDE DEF t, r, n
  <2> SUFFICES Fine(Graph(s, c, l, k, how))
    OBVIOUS
  <2> QED
    BY <2>2, <2>3, <2>6
<1>9. CASE ~Eagerly(w) /\ w.graph # "none"
  <2>1. w.graph = "live"
    BY <1>2, <1>9 DEF WrapState
  <2>2. Graph(s, c, l, k, how) = Replay(s, c, l, k)
    BY <1>9 DEF Graph
  <2> QED
    BY <1>1, <2>1, <2>2, ReplayResult
<1>10. CASE ~Eagerly(w) /\ w.graph = "none" /\ how = "ok"
  <2> DEFINE n == [w EXCEPT !.graph = "live", !.computes = TRUE, !.last = NoVelocity]
             t == [a EXCEPT !.wrap[c][l] = n]
  <2>1. Cache # "dynamic"
    BY DEF Sound, Stack, Cache
  <2>2. Captured(Step, c, l) = t
    <3> DEFINE q == [a EXCEPT !.wrap[c][l].graph = "live",
                              !.wrap[c][l].computes = TRUE,
                              !.wrap[c][l].last = NoVelocity]
               x == [a.wrap EXCEPT ![c][l].graph = "live", ![c][l].computes = TRUE,
                                   ![c][l].last = NoVelocity]
    <3>1. Captured(Step, c, l) = q
      BY <2>1 DEF Captured
    <3>2. x = [a.wrap EXCEPT ![c][l] = n]
      BY <1>1, <1>2, <1>4 DEF State, WrapState
    <3>3. q = [a EXCEPT !.wrap = x]
      BY <1>1, <1>3 DEF State, Good
    <3>4. t = [a EXCEPT !.wrap = [a.wrap EXCEPT ![c][l] = n]]
      BY <1>1, <1>3 DEF State, Good
    <3> QED
      BY <3>1, <3>2, <3>3, <3>4
  <2>3. n \in WrapState /\ Keeps(a, n)
    <3>1. NoVelocity \in Velocity
      BY DEF NoVelocity, Velocity
    <3>2. ~w.failed
      BY <1>10 DEF Eagerly
    <3>3. n \in WrapState /\ n.computes /\ n.failed = w.failed
      BY <1>2, <3>1 DEF WrapState
    <3> QED
      BY <1>1, <1>4, <3>2, <3>3, Names DEF Keeps
  <2>4. n.graph = "live"
    BY <1>2 DEF WrapState
  <2>5. Graph(s, c, l, k, how) = Replay(t, c, l, k)
    <3>1. Step.s = a
      OBVIOUS
    <3> HIDE DEF Step, t
    <3> QED
      BY <1>5, <1>6, <1>10, <2>2, <3>1 DEF Graph
  <2> HIDE DEF n
  <2>6. /\ Good(t) /\ t.wrap[c][l] = n
        /\ \A d \in Closures, m \in DOMAIN Stack : m # l => t.wrap[d][m] = s.wrap[d][m]
    BY <1>1, <1>3, <1>4, <2>3, SetWrapper
  <2> HIDE DEF t
  <2> QED
    BY <1>1, <2>4, <2>5, <2>6, ReplayResult
<1>11. CASE ~Eagerly(w) /\ w.graph = "none" /\ how # "ok"
  <2> DEFINE broken == CASE how = "convert" -> BrokenHook(s, c)
                         [] how = "warm" -> BrokenStepFn(s, c)
                         [] how = "capture" -> BrokenStepFn(a, c)
                         [] OTHER -> a
             n == [w EXCEPT !.failed = TRUE]
             t == [broken EXCEPT !.wrap[c][l] = n]
  <2>1. Cache = "own" /\ s.owner \in {c, "nobody"}
    BY <1>11, Installed DEF Sound, MayRaise, Outcomes, Good, Stack, Cache
  <2>2. how # "convert"
    BY <2>1 DEF MayRaise
  <2>3. Good(broken) /\ broken.wrap = s.wrap /\ broken.owner = c
    BY <1>3, <1>4, <2>1, <2>2, BrokenStep
  <2>4. MarkFailed(broken, c, l) = t
    BY <2>3 DEF MarkFailed
  <2>5. Graph(s, c, l, k, how) = Wrapped(t, c, l, k)
    BY <1>5, <1>6, <1>11, <2>4 DEF Graph
  <2> HIDE DEF broken
  <2>6. n \in WrapState /\ Keeps(broken, n)
    BY <1>2, <1>11 DEF WrapState, Keeps
  <2> HIDE DEF n
  <2>7. /\ Good(t)
        /\ \A d \in Closures, m \in DOMAIN Stack : m # l => t.wrap[d][m] = s.wrap[d][m]
    BY <1>1, <2>3, <2>6, SetWrapper
  <2> HIDE DEF t
  <2> DEFINE e == After(t, c)
  <2>8. StepFn(t, c, k) = [s |-> e, v |-> Own(k), ran |-> TRUE] /\ Good(e)
    BY <2>7, StepFnResult
  <2>9. e.wrap = t.wrap
    BY DEF After
  <2>10. Wrapped(t, c, l, k) = [s |-> e, v |-> Own(k), ran |-> TRUE]
    BY <2>8 DEF Wrapped
  <2> HIDE DEF e
  <2> SUFFICES Fine(Wrapped(t, c, l, k))
    BY <2>5
  <2> QED
    BY <1>7, <2>7, <2>8, <2>9, <2>10 DEF Answer, Good
<1> QED
  BY <1>8, <1>9, <1>10, <1>11

(* The adaptive wrapper, at the outermost level, answers with its last       *)
(* velocity or passes the fresh one on, counts the call and keeps the answer.*)
LEMMA AdaptiveResult ==
  ASSUME NEW s, Good(s), NEW c \in Closures, NEW k \in Int, 1 \in DOMAIN Stack,
         NEW fresh, fresh \in Answer, fresh.v = Own(k), Good(fresh.s),
         \A d \in Closures : fresh.s.wrap[d][1] = s.wrap[d][1]
  PROVE  LET r == Adaptive(s, c, 1, fresh)
             w == s.wrap[c][1]
         IN /\ Good(r.s)
            /\ r.v = IF Skips(w) THEN w.last ELSE Own(k)
            /\ r.s.wrap[c][1].calls = w.calls + 1
            /\ r.s.wrap[c][1].last = r.v
            /\ \A d \in Closures \ {c} : r.s.wrap[d][1] = s.wrap[d][1]
<1> DEFINE w == s.wrap[c][1]
           g == IF Skips(w) THEN [s |-> s, v |-> w.last, ran |-> FALSE] ELSE fresh
<1>1. s \in State /\ w \in WrapState
  BY DEF Good, State
<1>2. /\ g \in Answer /\ Good(g.s) /\ g.v = IF Skips(w) THEN w.last ELSE Own(k)
      /\ \A d \in Closures : g.s.wrap[d][1] = s.wrap[d][1]
  <2>1. CASE Skips(w)
    <3>1. g = [s |-> s, v |-> w.last, ran |-> FALSE] /\ w.last \in Velocity
      BY <1>1, <2>1 DEF WrapState
    <3> HIDE DEF w
    <3> QED
      BY <1>1, <2>1, <3>1 DEF Answer
  <2>2. CASE ~Skips(w)
    BY <2>2
  <2> QED
    BY <2>1, <2>2
<1>3. Adaptive(s, c, 1, fresh)
        = [g EXCEPT !.s.wrap[c][1].calls = @ + 1, !.s.wrap[c][1].last = g.v]
  BY DEF Adaptive
<1> HIDE DEF g
<1> DEFINE f == g.s
           n == [w EXCEPT !.calls = @ + 1, !.last = g.v]
           t == [f EXCEPT !.wrap[c][1] = n]
           x == [f.wrap EXCEPT ![c][1].calls = @ + 1, ![c][1].last = g.v]
           r == [g EXCEPT !.s = t]
<1>4. f \in State /\ f.wrap[c][1] = w /\ g.v \in Velocity
  BY <1>2 DEF Good, Answer
<1>5. n \in WrapState /\ n.calls = w.calls + 1 /\ n.last = g.v /\ Keeps(f, n)
  <2>1. /\ n \in WrapState /\ n.calls = w.calls + 1 /\ n.last = g.v
        /\ n.graph = w.graph /\ n.computes = w.computes /\ n.failed = w.failed
    <3>1. w.calls + 1 \in Nat
      BY <1>1 DEF WrapState
    <3> HIDE DEF w, f
    <3>2. n \in WrapState
      BY <1>1, <1>4, <3>1 DEF WrapState
    <3>3. n.calls = w.calls + 1 /\ n.last = g.v
      BY <1>1 DEF WrapState
    <3>4. n.graph = w.graph /\ n.computes = w.computes /\ n.failed = w.failed
      BY <1>1 DEF WrapState
    <3> QED
      BY <3>2, <3>3, <3>4
  <2>2. Keeps(f, f.wrap[c][1])
    <3> HIDE DEF f
    <3>1. Good(f)
      BY <1>2 DEF f
    <3> QED
      BY <3>1 DEF Keeps, Good, NoGraphs
  <2> HIDE DEF n, w, f
  <2> QED
    BY <1>4, <2>1, <2>2 DEF Keeps
<1>6. [g EXCEPT !.s.wrap[c][1].calls = @ + 1, !.s.wrap[c][1].last = g.v] = r
  <2>1. x = [f.wrap EXCEPT ![c][1] = n]
    BY <1>1, <1>4 DEF State, WrapState
  <2>2. t = [f EXCEPT !.wrap = [f.wrap EXCEPT ![c][1] = n]]
    OBVIOUS
  <2>3. [g EXCEPT !.s.wrap[c][1].calls = @ + 1, !.s.wrap[c][1].last = g.v]
          = [g EXCEPT !.s = [f EXCEPT !.wrap = x]]
    <3>1. PICK m : m = g.s.wrap[c][1].calls + 1
      OBVIOUS
    <3> DEFINE w1 == [g.s.wrap EXCEPT ![c][1].calls = m]
               s1 == [g.s EXCEPT !.wrap = w1]
               g1 == [g EXCEPT !.s.wrap[c][1].calls = m]
    <3>2. g \in [s : [wrap : [Closures -> [DOMAIN Stack -> WrapState]],
                      owner : Closures \cup {"nobody"},
                      whose : Closures \cup {"nobody"}, extra : BOOLEAN],
                 v : Velocity, ran : BOOLEAN]
      BY <1>2 DEF Answer, State
    <3> HIDE DEF w, n, t, r
    <3>3. g1 = [g EXCEPT !.s = s1]
      BY <3>2
    <3>4. g1.s = s1 /\ s1.wrap = w1
      BY <3>2, <3>3
    <3>5. [g1 EXCEPT !.s.wrap[c][1].last = g.v]
            = [g EXCEPT !.s = [s1 EXCEPT !.wrap = [w1 EXCEPT ![c][1].last = g.v]]]
      <4> HIDE DEF g1, w1
      <4> QED
        BY <3>3, <3>4
    <3>6. [s1 EXCEPT !.wrap = [w1 EXCEPT ![c][1].last = g.v]]
            = [g.s EXCEPT !.wrap = [w1 EXCEPT ![c][1].last = g.v]]
      <4> HIDE DEF w1
      <4> QED
        BY <3>2
    <3>7. x = [w1 EXCEPT ![c][1].last = g.v]
      BY <3>1
    <3>8. [g EXCEPT !.s.wrap[c][1].calls = @ + 1, !.s.wrap[c][1].last = g.v]
            = [g1 EXCEPT !.s.wrap[c][1].last = g.v]
      BY <3>1
    <3> QED
      <4> HIDE DEF x, w1, s1, g1
      <4> QED
        BY <3>5, <3>6, <3>7, <3>8
  <2> HIDE DEF x, t
  <2>4. t = [f EXCEPT !.wrap = x]
    BY <2>1, <2>2
  <2> QED
    BY <2>3, <2>4
<1> HIDE DEF n, f
<1>7. /\ Good(t) /\ t.wrap[c][1] = n
      /\ \A d \in Closures \ {c} : t.wrap[d][1] = f.wrap[d][1]
  BY <1>2, <1>5, SetWrapper DEF f
<1> HIDE DEF t
<1>8. r.s = t /\ r.v = g.v
  BY <1>2 DEF Answer
<1> HIDE DEF r
<1> DEFINE z == Adaptive(s, c, 1, fresh)
<1>9. z.s = t /\ z.v = g.v
  BY <1>3, <1>6, <1>8
<1> HIDE DEF z
<1> SUFFICES /\ Good(z.s)
             /\ z.v = IF Skips(w) THEN w.last ELSE Own(k)
             /\ z.s.wrap[c][1].calls = w.calls + 1
             /\ z.s.wrap[c][1].last = z.v
             /\ \A d \in Closures \ {c} : z.s.wrap[d][1] = s.wrap[d][1]
  BY DEF z
<1> QED
  BY <1>2, <1>5, <1>7, <1>9 DEF f

(* A call of a closure's step function, through all the wrappers.            *)
LEMMA InvokeResult ==
  ASSUME setup \in Setups, Sound(setup), NEW s, Good(s), NEW c \in setup.closures,
         NEW k \in Int, NEW how, MayRaise(s, c, how)
  PROVE  LET r == Invoke(s, c, k, how)
             w == s.wrap[c][1]
         IN /\ Good(r.s)
            /\ ~Adapts => r.v = Own(k)
            /\ Adapts =>
                 /\ r.v = IF Skips(w) THEN w.last ELSE Own(k)
                 /\ r.s.wrap[c][1].calls = w.calls + 1
                 /\ r.s.wrap[c][1].last = r.v
                 /\ \A d \in Closures \ {c} : r.s.wrap[d][1] = s.wrap[d][1]
<1>1. c \in Closures /\ s \in State
  BY Installed DEF Good
<1>2. CASE Stack = <<"graph">>
  <2>1. ~Adapts /\ Stack[1] = "graph" /\ Len(Stack) = 1 /\ Stack # <<"adaptive">>
    BY <1>2 DEF Adapts
  <2>2. Invoke(s, c, k, how) = Graph(s, c, 1, k, how)
    BY <2>1 DEF Invoke
  <2> QED
    BY <2>1, <2>2, GraphResult
<1>3. CASE Stack = <<"adaptive">>
  <2>1. /\ Adapts /\ Stack[1] = "adaptive" /\ Len(Stack) = 1 /\ 1 \in DOMAIN Stack
    BY <1>3 DEF Adapts
  <2> DEFINE a == After(s, c)
             fresh == [s |-> a, v |-> Own(k), ran |-> TRUE]
  <2>2. StepFn(s, c, k) = fresh /\ Good(a) /\ a.wrap = s.wrap
    BY StepFnResult DEF After
  <2>3. Invoke(s, c, k, how) = Adaptive(s, c, 1, fresh)
    BY <2>1, <2>2 DEF Invoke, Wrapped
  <2> HIDE DEF a
  <2>4. fresh \in Answer /\ fresh.v = Own(k) /\ fresh.s = a
    BY <2>2 DEF Answer, Good, Own, Velocity
  <2> HIDE DEF fresh
  <2> QED
    BY <1>1, <2>1, <2>2, <2>3, <2>4, AdaptiveResult
<1>4. CASE Stack = <<"adaptive", "graph">>
  <2>1. /\ Adapts /\ Stack[1] = "adaptive" /\ Len(Stack) = 2 /\ Stack[2] = "graph"
        /\ 1 \in DOMAIN Stack /\ Stack # <<"adaptive">>
    BY <1>4 DEF Adapts
  <2> DEFINE fresh == Graph(s, c, 2, k, how)
  <2>2. Invoke(s, c, k, how) = Adaptive(s, c, 1, fresh)
    BY <2>1 DEF Invoke
  <2>3. /\ fresh \in Answer /\ fresh.v = Own(k) /\ Good(fresh.s)
        /\ \A d \in Closures : fresh.s.wrap[d][1] = s.wrap[d][1]
    BY <2>1, GraphResult
  <2> HIDE DEF fresh
  <2> QED
    BY <1>1, <2>1, <2>2, <2>3, AdaptiveResult
<1> QED
  BY <1>2, <1>3, <1>4 DEF Sound, Stack

-----------------------------------------------------------------------------
(* The greatest element of a set. *)
LEMMA MaxIs ==
  ASSUME NEW S, S \subseteq Int, NEW k \in S, \A y \in S : k >= y
  PROVE  Max(S) = k
<1>1. Max(S) \in S /\ \A y \in S : Max(S) >= y
  BY DEF Max
<1>2. Max(S) \in Int /\ k \in Int /\ k >= Max(S) /\ Max(S) >= k
  BY <1>1
<1> QED
  BY <1>2

(* The step indices of fuse_adaptive_flow, by their bounds. *)
LEMMA FreshSteps ==
  ASSUME setup \in Setups, total \in Nat, NEW k \in Nat
  PROVE  /\ Front \in Nat /\ Back \in Nat
         /\ k \in Fresh <=> (k < Front \/ (total - Back <= k /\ k < total))
<1>1. Front \in Nat /\ Back \in Nat
  BY Installed DEF Front, Back
<1> DEFINE b == total - Back
<1>2. b \in Int
  BY <1>1
<1> HIDE DEF b
<1>3. Max({0, b}) = IF b >= 0 THEN b ELSE 0
  <2>1. CASE b >= 0
    BY <1>2, <2>1, MaxIs
  <2>2. CASE ~(b >= 0)
    BY <1>2, <2>2, MaxIs
  <2> QED
    BY <2>1, <2>2
<1>4. Max({0, total - Back}) = IF total - Back >= 0 THEN total - Back ELSE 0
  BY <1>3 DEF b
<1>5. Fresh = (0 .. Front - 1) \cup ((IF total - Back >= 0 THEN total - Back ELSE 0) .. total - 1)
  BY <1>4 DEF Fresh
<1> QED
  BY <1>1, <1>5

(* A step that is fresh, or the first, is its own last fresh step.           *)
LEMMA LastFreshFresh ==
  ASSUME setup \in Setups, total \in Nat, NEW k \in Nat, Adapts => k \in Fresh \/ k = 0
  PROVE  LastFresh(k) = k
<1> DEFINE S == {0} \cup {j \in 0 .. k : j < Front \/ (total - Back <= j /\ j < total)}
<1>1. CASE Adapts
  <2>1. k \in S
    BY <1>1, FreshSteps
  <2>2. S \subseteq Int /\ \A y \in S : k >= y
    OBVIOUS
  <2> HIDE DEF S
  <2>3. Max(S) = k
    BY <2>1, <2>2, MaxIs
  <2> QED
    BY <1>1, <2>3 DEF LastFresh, S
<1>2. CASE ~Adapts
  BY <1>2 DEF LastFresh
<1> QED
  BY <1>1, <1>2

(* A reused step has the last fresh step of the one before. *)
LEMMA LastFreshKept ==
  ASSUME setup \in Setups, total \in Nat, Adapts, NEW k \in Nat \ {0}, k \notin Fresh
  PROVE  LastFresh(k) = LastFresh(k - 1)
<1>1. Front \in Nat /\ Back \in Nat
  BY FreshSteps
<1>2. ~(k < Front) /\ ~(total - Back <= k /\ k < total)
  BY FreshSteps
<1>3. {j \in 0 .. k : j < Front \/ (total - Back <= j /\ j < total)}
        = {j \in 0 .. k - 1 : j < Front \/ (total - Back <= j /\ j < total)}
  BY <1>1, <1>2
<1> QED
  BY <1>3 DEF LastFresh

-----------------------------------------------------------------------------
(* Calls a closure has answered in this sample(). *)
Done(c) == IF c \in todo THEN step ELSE IF c \in setup.closures THEN step + 1 ELSE 0

Now == [wrap |-> wrap, owner |-> owner, whose |-> whose, extra |-> extra]

(* A velocity list is the schedule's so far. *)
OnSchedule == \A c \in Closures : \A n \in DOMAIN used[c] : used[c][n] = Own(LastFresh(n - 1))

(* While sampling, each adaptive wrapper has counted its closure's calls and *)
(* remembers the last answer.                                               *)
Counted ==
    Adapts => \A c \in setup.closures :
        /\ wrap[c][1].calls = Done(c)
        /\ wrap[c][1].last = IF Done(c) = 0 THEN NoVelocity ELSE Own(LastFresh(Done(c) - 1))

Sampling ==
    /\ step \in Nat /\ step < numSteps /\ todo \subseteq setup.closures
    /\ \A c \in Closures : Len(used[c]) = Done(c)
    /\ Good(Now) /\ Counted

Core ==
    /\ setup \in Setups /\ total \in 1 .. MaxSteps /\ numSteps \in 1 .. MaxSteps
    /\ used \in [Closures -> Seq(Velocity)] /\ OnSchedule
    /\ phase = "sampling" => Sampling

(* New wrappers and hooks are in a good state. *)
LEMMA GoodAtFirst ==
  ASSUME setup \in Setups, Sound(setup),
         NEW s, s = [wrap |-> NewWrappers, owner |-> "nobody", whose |-> "nobody", extra |-> FALSE]
  PROVE  /\ Good(s)
         /\ Adapts => \A c \in Closures : s.wrap[c][1].calls = 0 /\ s.wrap[c][1].last = NoVelocity
<1>1. NewWrapper \in WrapState /\ NewWrapper.graph = "none"
      /\ NewWrapper.calls = 0 /\ NewWrapper.last = NoVelocity
  BY DEF NewWrapper, WrapState, Velocity, NoVelocity
<1> HIDE DEF NewWrapper
<1>2. \A d \in Closures, l \in DOMAIN Stack : NewWrappers[d][l] = NewWrapper
  BY DEF NewWrappers
<1>3. NewWrappers \in [Closures -> [DOMAIN Stack -> WrapState]]
  BY <1>1 DEF NewWrappers
<1>4. s \in State /\ s.wrap = NewWrappers /\ s.owner = "nobody" /\ s.whose = "nobody"
      /\ s.extra = FALSE
  BY <1>3 DEF State
<1>5. NoGraphs(s)
  BY <1>1, <1>2, <1>4 DEF NoGraphs
<1>6. Good(s)
  BY <1>4, <1>5 DEF Good, NoGraphs
<1>7. Adapts => 1 \in DOMAIN Stack
  BY DEF Adapts, Sound, Stack
<1> QED
  BY <1>1, <1>2, <1>4, <1>6, <1>7

(* Core holds at the start. *)
LEMMA CoreInit ==
  ASSUME Sound(setup), Init
  PROVE  Core
<1>1. \A c \in Closures : used[c] = <<>>
  BY DEF Init
<1> QED
  BY <1>1, Counts DEF Init, Core, OnSchedule

(* What the velocities of the schedule depend on does not change. *)
LEMMA SameSchedule ==
  ASSUME setup' = setup, total' = total
  PROVE  /\ \A n : LastFresh(n)' = LastFresh(n)
         /\ Adapts' <=> Adapts
  BY DEF LastFresh, Adapts, Stack, Front, Back

(* What makes a state good depends on the setup alone. *)
LEMMA SameGood ==
  ASSUME setup' = setup
  PROVE  Good(Now)' <=> Good(Now')
  BY DEF Good, State, NoGraphs, Stack, Cache

(* A stuttering step keeps Core. *)
LEMMA CoreStays ==
  ASSUME Sound(setup), Core, UNCHANGED vars
  PROVE  Core'
<1>1. Good(Now)' <=> Good(Now)
  BY DEF Good, Now, State, NoGraphs, Stack, Cache, vars
<1>2. \A c : Done(c)' = Done(c)
  BY DEF Done, vars
<1> QED
  BY <1>1, <1>2, SameSchedule DEF Core, Sampling, Counted, OnSchedule, vars

(* Reconfiguring the pipeline between two samples keeps Core. *)
LEMMA CoreSetSteps ==
  ASSUME Sound(setup), Core, NEW n \in 1 .. MaxSteps, SetSteps(n)
  PROVE  Core'
BY SameSchedule DEF Core, OnSchedule, SetSteps

(* An inference that is lost keeps Core. *)
LEMMA CoreRaises ==
  ASSUME Sound(setup), Core, SampleRaises
  PROVE  Core'
BY SameSchedule DEF Core, OnSchedule, SampleRaises

(* A new sample() starts with new wrappers and hooks. *)
LEMMA CoreSample ==
  ASSUME Sound(setup), Core, Sample
  PROVE  Core'
<1>1. setup' = setup /\ total' = total /\ numSteps' = numSteps
  BY DEF Sample
<1>2. /\ Good(Now)'
      /\ (Adapts => \A c \in Closures : wrap[c][1].calls = 0 /\ wrap[c][1].last = NoVelocity)'
  <2>1. Now' = [wrap |-> NewWrappers, owner |-> "nobody", whose |-> "nobody", extra |-> FALSE]
    BY DEF Now, Sample
  <2>2. Good(Now')
    BY <2>1, GoodAtFirst DEF Core
  <2>3. Adapts => \A c \in Closures : wrap'[c][1].calls = 0 /\ wrap'[c][1].last = NoVelocity
    BY <2>1, GoodAtFirst DEF Core, Now
  <2> QED
    BY <1>1, <2>2, <2>3, SameGood, SameSchedule
<1>3. \A c \in Closures : used'[c] = <<>>
  BY DEF Sample
<1>4. used' \in [Closures -> Seq(Velocity)] /\ OnSchedule'
  BY <1>3 DEF Sample, OnSchedule
<1>5. \A c \in Closures : Done(c)' = 0
  BY <1>1 DEF Sample, Done
<1>6. todo' \subseteq setup' .closures /\ step' = 0 /\ setup.closures \subseteq Closures
  BY <1>1, Installed DEF Core, Sample
<1>7. Counted'
  BY <1>1, <1>2, <1>5, <1>6 DEF Counted
<1>8. step' < numSteps'
  BY <1>1, <1>6 DEF Core
<1>9. \A c \in Closures : Len(used'[c]) = Done(c)'
  BY <1>3, <1>5
<1>10. Sampling'
  BY <1>2, <1>6, <1>7, <1>8, <1>9 DEF Sampling
<1> QED
  BY <1>1, <1>4, <1>10 DEF Core

(* A call adds the velocity of its step, and the state stays good. *)
LEMMA CoreEvaluate ==
  ASSUME Sound(setup), Core, NEW c \in Closures, NEW how \in Outcomes, Evaluate(c, how)
  PROVE  Core'
<1> DEFINE r == Invoke(Now, c, step, how)
           w == wrap[c][1]
<1>1. /\ setup' = setup /\ total' = total /\ numSteps' = numSteps /\ phase = "sampling"
      /\ c \in todo /\ wrap' = r.s.wrap /\ owner' = r.s.owner /\ whose' = r.s.whose
      /\ extra' = r.s.extra /\ used' = [used EXCEPT ![c] = Append(@, r.v)]
  BY DEF Evaluate, Now
<1>2. /\ setup \in Setups /\ Sound(setup) /\ Sampling /\ OnSchedule /\ Good(Now)
      /\ c \in setup.closures /\ step \in Nat /\ total \in Nat /\ Done(c) = step
  BY <1>1 DEF Core, Sampling, Done
<1>3. MayRaise(Now, c, how)
  BY <1>1 DEF Evaluate, CanRaise, MayRaise, Now
<1>4. /\ Good(r.s)
      /\ ~Adapts => r.v = Own(step)
      /\ Adapts => /\ r.v = IF Skips(w) THEN w.last ELSE Own(step)
                   /\ r.s.wrap[c][1].calls = w.calls + 1
                   /\ r.s.wrap[c][1].last = r.v
                   /\ \A d \in Closures \ {c} : r.s.wrap[d][1] = wrap[d][1]
  BY <1>2, <1>3, InvokeResult DEF Now
<1> HIDE DEF r
<1>5. r.v = Own(LastFresh(step))
  <2>1. CASE ~Adapts
    BY <1>4, <2>1 DEF LastFresh
  <2>2. CASE Adapts
    <3>1. /\ w.calls = step
          /\ w.last = IF step = 0 THEN NoVelocity ELSE Own(LastFresh(step - 1))
      BY <1>2, <2>2 DEF Sampling, Counted
    <3>2. CASE step \in Fresh \/ step = 0
      <4>1. LastFresh(step) = step
        BY <1>2, <3>2, LastFreshFresh
      <4>2. ~Skips(w)
        BY <3>1, <3>2 DEF Skips
      <4> QED
        BY <1>4, <2>2, <4>1, <4>2
    <3>3. CASE step \notin Fresh /\ step # 0
      <4>1. LastFresh(step) = LastFresh(step - 1)
        BY <1>2, <2>2, <3>3, LastFreshKept
      <4>2. w.last # NoVelocity
        BY <3>1, <3>3 DEF Own, NoVelocity
      <4> QED
        BY <1>4, <2>2, <3>1, <3>3, <4>1, <4>2 DEF Skips
    <3> QED
      BY <3>2, <3>3
  <2> QED
    BY <2>1, <2>2
<1>6. r.v \in Velocity
  <2>1. Own(step) \in Velocity
    BY <1>2 DEF Own, Velocity
  <2>2. ASSUME Adapts PROVE w.last \in Velocity
    <3>1. 1 \in DOMAIN Stack
      BY <1>2, <2>2 DEF Adapts, Sound, Stack
    <3>2. Now \in State /\ Now.wrap = wrap
      BY <1>2 DEF Good, Now
    <3> QED
      BY <3>1, <3>2 DEF State, WrapState
  <2> QED
    BY <1>4, <2>1, <2>2
<1>7. /\ used' \in [Closures -> Seq(Velocity)]
      /\ Len(used'[c]) = step + 1
      /\ \A n \in DOMAIN used'[c] : used'[c][n] = Own(LastFresh(n - 1))
      /\ \A d \in Closures \ {c} : used'[d] = used[d]
  <2>1. used[c] \in Seq(Velocity) /\ Len(used[c]) = step
    BY <1>2 DEF Core, Sampling
  <2>2. used'[c] = Append(used[c], r.v) /\ \A d \in Closures \ {c} : used'[d] = used[d]
    BY <1>1 DEF Core
  <2>3. /\ used'[c] \in Seq(Velocity) /\ DOMAIN used'[c] = 1 .. step + 1
        /\ Len(used'[c]) = step + 1 /\ used'[c][step + 1] = r.v
        /\ \A n \in 1 .. step : used'[c][n] = used[c][n]
    BY <1>2, <1>6, <2>1, <2>2
  <2>4. \A n \in 1 .. step : used[c][n] = Own(LastFresh(n - 1))
    BY <1>2, <2>1 DEF OnSchedule
  <2>5. \A n \in 1 .. step + 1 : n \in 1 .. step \/ n = step + 1
    BY <1>2
  <2>6. used' \in [Closures -> Seq(Velocity)]
    BY <1>1, <2>2, <2>3 DEF Core
  <2>7. \A n \in DOMAIN used'[c] : used'[c][n] = Own(LastFresh(n - 1))
    <3> SUFFICES ASSUME NEW n \in 1 .. step + 1
                 PROVE  used'[c][n] = Own(LastFresh(n - 1))
      BY <2>3
    <3>1. CASE n \in 1 .. step
      BY <2>3, <2>4, <3>1
    <3>2. CASE n = step + 1
      <4>1. n - 1 = step
        BY <1>2, <3>2
      <4>2. used'[c][n] = Own(LastFresh(step))
        BY <1>5, <2>3, <3>2
      <4> QED
        BY <4>1, <4>2, Zenon
    <3> QED
      BY <2>5, <3>1, <3>2
  <2> QED
    BY <2>2, <2>3, <2>6, <2>7
<1>8. OnSchedule'
  BY <1>1, <1>7, <1>2, SameSchedule DEF OnSchedule
<1>9. Good(Now)'
  <2>1. Now' = r.s
    BY <1>1, <1>4, StateFields DEF Now, Good
  <2> QED
    BY <1>1, <1>4, <2>1, SameGood
<1>10. CASE phase' = "idle"
  BY <1>1, <1>2, <1>7, <1>8, <1>10 DEF Core
<1>11. CASE phase' = "sampling"
  <2>1. /\ step' \in Nat /\ step' < numSteps' /\ todo' \subseteq setup.closures
        /\ \A d \in Closures : Done(d)' = IF d = c THEN step + 1 ELSE Done(d)
    <3>1. CASE todo # {c}
      <4>1. todo' = todo \ {c} /\ step' = step
        BY <3>1 DEF Evaluate
      <4> QED
        BY <1>1, <1>2, <4>1 DEF Done, Sampling
    <3>2. CASE todo = {c}
      <4>1. step + 1 < numSteps /\ step' = step + 1 /\ todo' = setup.closures
        BY <1>11, <3>2 DEF Evaluate
      <4> QED
        BY <1>1, <1>2, <3>2, <4>1 DEF Done, Sampling
    <3> QED
      BY <3>1, <3>2
  <2>2. \A d \in Closures : Len(used'[d]) = Done(d)'
    BY <1>2, <1>7, <2>1 DEF Sampling
  <2>3. Counted'
    <3> SUFFICES ASSUME Adapts, NEW d \in setup.closures
                 PROVE  /\ wrap'[d][1].calls = Done(d)'
                        /\ wrap'[d][1].last = IF Done(d)' = 0 THEN NoVelocity
                                              ELSE Own(LastFresh(Done(d)' - 1))
      BY <1>1, SameSchedule DEF Counted
    <3>1. d \in Closures
      BY <1>2, Installed
    <3>2. /\ wrap[d][1].calls = Done(d)
          /\ wrap[d][1].last = IF Done(d) = 0 THEN NoVelocity ELSE Own(LastFresh(Done(d) - 1))
      BY <1>2 DEF Sampling, Counted
    <3>3. CASE d = c
      <4>1. Done(d)' = step + 1 /\ step + 1 # 0 /\ step + 1 - 1 = step
        BY <1>2, <2>1, <3>3
      <4>2. wrap'[d][1].calls = step + 1 /\ wrap'[d][1].last = Own(LastFresh(step))
        BY <1>1, <1>2, <1>4, <1>5, <3>2, <3>3
      <4>3. Done(d)' - 1 = step /\ Done(d)' # 0
        BY <4>1, <1>2
      <4>4. wrap'[d][1].calls = Done(d)'
        BY <4>1, <4>2
      <4>5. wrap'[d][1].last = Own(LastFresh(Done(d)' - 1))
        BY <4>2, <4>3, Zenon
      <4> QED
        BY <4>3, <4>4, <4>5, Zenon
    <3>4. CASE d # c
      <4>1. Done(d)' = Done(d)
        BY <2>1, <3>1, <3>4
      <4>2. wrap'[d][1] = wrap[d][1]
        BY <1>1, <1>4, <3>1, <3>4
      <4> QED
        BY <3>2, <4>1, <4>2
    <3> QED
      BY <3>3, <3>4
  <2>4. Sampling'
    BY <1>1, <1>9, <2>1, <2>2, <2>3 DEF Sampling
  <2> QED
    BY <1>1, <1>2, <1>7, <1>8, <2>4 DEF Core
<1> QED
  BY <1>10, <1>11 DEF Evaluate, Core

-----------------------------------------------------------------------------
(* A setup never changes, so Core is needed of the sound ones only. *)
CoreOfSound == Sound(setup) => Core

(* Core is inductive wherever the setup is sound. *)
LEMMA CoreHolds == Spec => []CoreOfSound
<1>1. Init => CoreOfSound
  BY CoreInit DEF CoreOfSound
<1>2. CoreOfSound /\ [Next]_vars => CoreOfSound'
  <2> SUFFICES ASSUME CoreOfSound, [Next]_vars, Sound(setup)'
               PROVE  Core'
    BY DEF CoreOfSound
  <2>1. setup' = setup
    BY DEF Next, SetSteps, Sample, Evaluate, SampleRaises, vars
  <2>2. Sound(setup) /\ Core
    BY <2>1 DEF CoreOfSound
  <2>3. ASSUME NEW n \in 1 .. MaxSteps, SetSteps(n) PROVE Core'
    BY <2>2, <2>3, CoreSetSteps
  <2>4. CASE Sample
    BY <2>2, <2>4, CoreSample
  <2>5. ASSUME NEW c \in Closures, NEW how \in Outcomes, Evaluate(c, how) PROVE Core'
    BY <2>2, <2>5, CoreEvaluate
  <2>6. CASE SampleRaises
    BY <2>2, <2>6, CoreRaises
  <2>7. CASE UNCHANGED vars
    BY <2>2, <2>7, CoreStays
  <2> QED
    BY <2>3, <2>4, <2>5, <2>6, <2>7 DEF Next
<1> QED
  BY <1>1, <1>2, PTL DEF Spec

(* The sampler is given the velocities of the installed schedule, each       *)
(* computed on the rows of its own prompt, through warm-ups, captures,       *)
(* replays, reuse and fallbacks (diffusion.py:47-52, graph.py:193-232), for  *)
(* every sound setup and number of steps, whatever the step count becomes.   *)
THEOREM ScheduleKept == Spec => [](Sound(setup) => Schedule)
<1>1. CoreOfSound => (Sound(setup) => Schedule)
  BY DEF CoreOfSound, Core, OnSchedule, Own, Schedule
<1> QED
  BY <1>1, CoreHolds, PTL

-----------------------------------------------------------------------------
(* Setups in which a failed capture leaves no trace in a velocity: without a *)
(* graph, without a failure, or with one closure behind the expert's hook,   *)
(* which crops what a raise has left.                                       *)
Contained(u) ==
    \/ u.stack \in {<<"adaptive">>, <<"adaptive", "adaptive">>}
    \/ ~u.fails
    \/ u.cache = "own" /\ \A c, d \in u.closures : c = d

Foreign == {"extra", "other"}

(* Whatever the setup: the values the variables take, and what a graph that  *)
(* was captured, or that never will be, keeps.                              *)
Snapshots == [wrap : [Closures -> [DOMAIN Stack -> Wrapper]],
              owner : Closures \cup {"nobody"}, whose : Closures \cup {"nobody"},
              extra : BOOLEAN]
Answers == [s : Snapshots, v : Velocities, ran : BOOLEAN]

(* A failed capture left no graph, and a graph without a forward of its own  *)
(* has the velocity its static output was given.                            *)
Fitting(w) ==
    /\ w \in Wrapper
    /\ w.failed => w.graph = "none"
    /\ w.graph # "none" /\ ~w.computes => w.last # NoVelocity
    /\ Contained(setup) => w.last.rows \notin Foreign

(* In those, the hook has the substitute of the cache it remembers, and another   *)
(* cache has no rows but those of finished forwards.                        *)
Tidy(s) ==
    /\ Cache = "own" => s.whose = s.owner /\ s.owner \in setup.closures \cup {"nobody"}
    /\ Cache # "own" => ~s.extra

Fit(s) ==
    /\ s \in Snapshots
    /\ \A d \in Closures, m \in DOMAIN Stack : Fitting(s.wrap[d][m])
    /\ Contained(setup) => Tidy(s)

(* What any call leaves of another wrapper's capture, and of its own. *)
Aged(w, x) == /\ x.graph = "none" <=> w.graph = "none"
              /\ x.computes = w.computes /\ x.failed = w.failed
Later(w, x) == /\ w.graph # "none" => x.graph # "none"
               /\ w.failed => x.failed /\ x.graph = "none"

AllAged(s, t) == \A d \in Closures, m \in DOMAIN Stack : Aged(s.wrap[d][m], t.wrap[d][m])
AllLater(s, t) == \A d \in Closures, m \in DOMAIN Stack : Later(s.wrap[d][m], t.wrap[d][m])

FitAnswer(r) ==
    /\ r \in Answers /\ Fit(r.s)
    /\ Contained(setup) => r.v.rows \notin Foreign

Lasting ==
    /\ TypeOK
    /\ Contained(setup) => FallbackSound
    /\ phase = "sampling" => Fit(Now) /\ step < numSteps /\ todo \subseteq setup.closures

(* Two snapshots with the same fields are one. *)
LEMMA SameSnapshot ==
  ASSUME NEW s \in Snapshots, NEW t \in Snapshots, s.wrap = t.wrap, s.owner = t.owner,
         s.whose = t.whose, s.extra = t.extra
  PROVE  s = t
  BY DEF Snapshots

(* What one call after another leaves. *)
LEMMA AgedTwice ==
  ASSUME NEW s, NEW t, NEW u, AllAged(s, t), AllAged(t, u)
  PROVE  AllAged(s, u)
  BY DEF AllAged, Aged

(* The outcome of a capture lasts through one call and another. *)
LEMMA LaterTwice ==
  ASSUME NEW s, NEW t, NEW u, AllLater(s, t), AllLater(t, u)
  PROVE  AllLater(s, u)
  BY DEF AllLater, Later

(* What has aged has kept the outcome of its capture. *)
LEMMA AgedIsLater ==
  ASSUME NEW s, NEW t, Fit(s), AllAged(s, t)
  PROVE  AllLater(s, t)
  BY DEF AllAged, AllLater, Aged, Later, Fit, Fitting

(* One wrapper changes. *)
LEMMA SetFit ==
  ASSUME NEW s, Fit(s), NEW c \in Closures, NEW l \in DOMAIN Stack, NEW w, Fitting(w)
  PROVE  /\ Fit([s EXCEPT !.wrap[c][l] = w])
         /\ Aged(s.wrap[c][l], w) => AllAged(s, [s EXCEPT !.wrap[c][l] = w])
         /\ Later(s.wrap[c][l], w) => AllLater(s, [s EXCEPT !.wrap[c][l] = w])
         /\ [s EXCEPT !.wrap[c][l] = w].wrap[c][l] = w
<1> DEFINE t == [s EXCEPT !.wrap[c][l] = w]
<1>1. s \in Snapshots /\ w \in Wrapper
  BY DEF Fit, Fitting
<1>2. t \in Snapshots /\ t.wrap = [s.wrap EXCEPT ![c][l] = w]
  BY <1>1 DEF Snapshots
<1> HIDE DEF t
<1>3. t.wrap[c][l] = w
  BY <1>1, <1>2 DEF Snapshots
<1>4. \A d \in Closures, m \in DOMAIN Stack : d # c \/ m # l => t.wrap[d][m] = s.wrap[d][m]
  BY <1>1, <1>2 DEF Snapshots
<1>5. Fit(t)
  <2>1. t.owner = s.owner /\ t.whose = s.whose /\ t.extra = s.extra
    BY <1>1 DEF Snapshots, t
  <2>2. Tidy(s) => Tidy(t)
    BY <2>1 DEF Tidy
  <2> QED
    BY <1>2, <1>3, <1>4, <2>2 DEF Fit
<1>6. Aged(s.wrap[c][l], w) => AllAged(s, t)
  BY <1>3, <1>4 DEF AllAged, Aged
<1>7. Later(s.wrap[c][l], w) => AllLater(s, t)
  <2>1. \A d \in Closures, m \in DOMAIN Stack : Later(s.wrap[d][m], s.wrap[d][m])
    BY DEF Fit, Fitting, Later
  <2> QED
    BY <1>3, <1>4, <2>1 DEF AllLater
<1> QED
  BY <1>3, <1>5, <1>6, <1>7 DEF t

(* The hook may free the memory of graphs, and drops none. *)
LEMMA HookFit ==
  ASSUME setup \in Setups, NEW s, Fit(s), NEW c \in setup.closures
  PROVE  /\ Fit(HookCache(s, c)) /\ AllAged(s, HookCache(s, c))
         /\ HookCache(s, c).extra = s.extra
         /\ Cache = "own" => HookCache(s, c).owner = c
         /\ Contained(setup) /\ Cache = "own" => HookCache(s, c).whose = c
<1>0. c \in Closures
  BY Installed
<1>1. CASE Cache # "own" \/ s.owner = c
  BY <1>1 DEF HookCache, AllAged, Aged, Fit, Tidy
<1>2. CASE ~(Cache # "own" \/ s.owner = c)
  <2> DEFINE x == [d \in Closures |-> [m \in DOMAIN Stack |-> Freed(s.wrap[d][m])]]
             t == [s EXCEPT !.owner = c, !.whose = c, !.wrap = x]
  <2>1. HookCache(s, c) = t
    BY <1>2 DEF HookCache
  <2>2. \A d \in Closures, m \in DOMAIN Stack :
           /\ x[d][m] = Freed(s.wrap[d][m])
           /\ Fitting(x[d][m]) /\ Aged(s.wrap[d][m], x[d][m])
    <3> SUFFICES ASSUME NEW d \in Closures, NEW m \in DOMAIN Stack
                 PROVE  Fitting(Freed(s.wrap[d][m])) /\ Aged(s.wrap[d][m], Freed(s.wrap[d][m]))
      OBVIOUS
    <3> DEFINE w == s.wrap[d][m]
    <3>1. Fitting(w)
      BY DEF Fit
    <3> HIDE DEF w
    <3>2. Fitting(Freed(w)) /\ Aged(w, Freed(w))
      BY <3>1 DEF Freed, Fitting, Aged, Wrapper
    <3> QED
      BY <3>2 DEF w
  <2>3. x \in [Closures -> [DOMAIN Stack -> Wrapper]]
    BY <2>2 DEF Fitting
  <2> HIDE DEF x
  <2>4. /\ t \in Snapshots /\ t.wrap = x
        /\ t.owner = c /\ t.whose = c /\ t.extra = s.extra
    BY <1>0, <2>3 DEF Fit, Snapshots
  <2> HIDE DEF t
  <2>5. Tidy(t)
    BY <1>2, <2>4 DEF Tidy
  <2> QED
    BY <2>1, <2>2, <2>4, <2>5 DEF Fit, AllAged
<1> QED
  BY <1>1, <1>2

(* A field of the snapshot other than the wrappers changes. *)
LEMMA SetExtra ==
  ASSUME NEW s, Fit(s), NEW b \in BOOLEAN, ~b \/ Cache = "own" \/ ~Contained(setup)
  PROVE  Fit([s EXCEPT !.extra = b]) /\ AllAged(s, [s EXCEPT !.extra = b])
<1> DEFINE t == [s EXCEPT !.extra = b]
<1>1. /\ t \in Snapshots /\ t.wrap = s.wrap /\ t.owner = s.owner /\ t.whose = s.whose
      /\ t.extra = b
  BY DEF Fit, Snapshots
<1> HIDE DEF t
<1>2. Contained(setup) => Tidy(t)
  BY <1>1 DEF Fit, Tidy
<1>3. Fit(t) /\ AllAged(s, t)
  BY <1>1, <1>2 DEF Fit, AllAged, Aged
<1> QED
  BY <1>3 DEF t

(* The model's step function. *)
LEMMA StepFnFit ==
  ASSUME setup \in Setups, NEW s, Fit(s), NEW c \in setup.closures,
         NEW k \in 0 .. MaxSteps - 1
  PROVE  FitAnswer(StepFn(s, c, k)) /\ AllAged(s, StepFn(s, c, k).s)
<1> DEFINE h == HookCache(s, c)
           t == [h EXCEPT !.extra = FALSE]
           v == [of |-> k, rows |-> IF Cache = "own"
                                    THEN IF h.whose = c THEN "own" ELSE "other"
                                    ELSE IF s.extra THEN "extra" ELSE "own"]
<1>1. Fit(h) /\ AllAged(s, h) /\ (Contained(setup) /\ Cache = "own" => h.whose = c)
  BY HookFit
<1>2. v \in Velocities /\ (Contained(setup) => v.rows \notin Foreign)
  <2> HIDE DEF h
  <2>1. v \in Velocities
    BY DEF Velocities
  <2>2. Contained(setup) => v.rows = "own"
    BY <1>1 DEF Fit, Tidy
  <2> QED
    BY <2>1, <2>2 DEF Foreign
<1>3. StepFn(s, c, k) = [s |-> t, v |-> v, ran |-> TRUE]
  BY DEF StepFn
<1> HIDE DEF h, v
<1>4. Fit(t) /\ AllAged(h, t)
  BY <1>1, SetExtra
<1> HIDE DEF t
<1>5. AllAged(s, t)
  BY <1>1, <1>4, AgedTwice
<1>6. [s |-> t, v |-> v, ran |-> TRUE] \in Answers
  BY <1>2, <1>4 DEF Answers, Fit
<1> QED
  BY <1>2, <1>3, <1>4, <1>5, <1>6 DEF FitAnswer

(* A step, or its conversion, that raises: contained only behind the hook of *)
(* a closure that nobody else's cache was converted for.                    *)
LEMMA BrokenFit ==
  ASSUME setup \in Setups, NEW s, Fit(s), NEW c \in setup.closures
  PROVE  /\ Cache = "own" \/ ~Contained(setup) =>
              Fit(BrokenStepFn(s, c)) /\ AllAged(s, BrokenStepFn(s, c))
         /\ ~Contained(setup) => Fit(BrokenHook(s, c)) /\ AllAged(s, BrokenHook(s, c))
<1>0. c \in Closures
  BY Installed
<1> DEFINE h == HookCache(s, c)
           t == [h EXCEPT !.extra = TRUE]
           u == [s EXCEPT !.owner = c]
<1>1. Fit(h) /\ AllAged(s, h)
  BY HookFit
<1>2. BrokenStepFn(s, c) = t
  BY DEF BrokenStepFn
<1> HIDE DEF h
<1>3. Cache = "own" \/ ~Contained(setup) => Fit(t) /\ AllAged(h, t)
  BY <1>1, SetExtra
<1> HIDE DEF t
<1>4. Cache = "own" \/ ~Contained(setup) => AllAged(s, t)
  BY <1>1, <1>3, AgedTwice
<1>5. BrokenHook(s, c) = u
  BY DEF BrokenHook
<1>6. u \in Snapshots /\ u.wrap = s.wrap
  BY <1>0 DEF Fit, Snapshots
<1> HIDE DEF u
<1>7. ~Contained(setup) => Fit(u) /\ AllAged(s, u)
  BY <1>6 DEF Fit, AllAged, Aged
<1> QED
  BY <1>2, <1>3, <1>4, <1>5, <1>7

(* The adaptive wrapper, at any level: the answer is its last velocity, or   *)
(* the one it is passed, and it keeps the answer.                           *)
LEMMA AdaptiveFit ==
  ASSUME NEW s, Fit(s), NEW c \in Closures, NEW l \in DOMAIN Stack,
         NEW fresh, FitAnswer(fresh), AllLater(s, fresh.s)
  PROVE  LET r == Adaptive(s, c, l, fresh)
         IN /\ FitAnswer(r) /\ AllLater(s, r.s)
            /\ AllAged(s, fresh.s) => AllAged(s, r.s)
<1> DEFINE w == s.wrap[c][l]
           g == IF Skips(w) THEN [s |-> s, v |-> w.last, ran |-> FALSE] ELSE fresh
<1>1. /\ s \in Snapshots /\ w \in Wrapper /\ AllAged(s, s)
      /\ Contained(setup) => w.last.rows \notin Foreign
  BY DEF Fit, Fitting, Snapshots, AllAged, Aged
<1>2. FitAnswer(g) /\ AllLater(s, g.s) /\ (AllAged(s, fresh.s) => AllAged(s, g.s))
  <2>1. CASE Skips(w)
    <3>1. g = [s |-> s, v |-> w.last, ran |-> FALSE] /\ w.last \in Velocities
      BY <1>1, <2>1 DEF Wrapper, Skips
    <3>2. AllLater(s, s)
      BY <1>1, AgedIsLater
    <3> HIDE DEF w, g
    <3>3. g \in Answers /\ g.s = s /\ g.v = w.last
      BY <1>1, <3>1 DEF Answers
    <3>4. FitAnswer(g)
      BY <1>1, <3>3 DEF FitAnswer
    <3>5. AllLater(s, g.s) /\ AllAged(s, g.s)
      BY <1>1, <3>2, <3>3, Zenon
    <3> QED
      BY <3>4, <3>5
  <2>2. CASE ~Skips(w)
    BY <2>2
  <2> QED
    BY <2>1, <2>2
<1>3. Adaptive(s, c, l, fresh)
        = [g EXCEPT !.s.wrap[c][l].calls = @ + 1, !.s.wrap[c][l].last = g.v]
  BY DEF Adaptive
<1> HIDE DEF g
<1> DEFINE f == g.s
           y == f.wrap[c][l]
           n == [y EXCEPT !.calls = @ + 1, !.last = g.v]
           t == [f EXCEPT !.wrap[c][l] = n]
           x == [f.wrap EXCEPT ![c][l].calls = @ + 1, ![c][l].last = g.v]
           r == [g EXCEPT !.s = t]
<1>4. /\ f \in Snapshots /\ Fit(f) /\ Fitting(y) /\ y \in Wrapper /\ g.v \in Velocities
      /\ Contained(setup) => g.v.rows \notin Foreign
  BY <1>2 DEF FitAnswer, Answers, Fit, Fitting
<1>5. Fitting(n) /\ Aged(y, n)
  <2>1. y.calls + 1 \in Nat
    BY <1>4 DEF Wrapper
  <2> HIDE DEF y
  <2>2. n \in Wrapper
    BY <1>4, <2>1 DEF Wrapper
  <2>3. /\ n.last = g.v /\ n.graph = y.graph /\ n.computes = y.computes
        /\ n.failed = y.failed
    BY <1>4 DEF Wrapper
  <2>4. g.v # NoVelocity
    BY <1>4 DEF Velocities, NoVelocity
  <2> HIDE DEF n
  <2> QED
    BY <1>4, <2>2, <2>3, <2>4 DEF Fitting, Aged
<1>6. [g EXCEPT !.s.wrap[c][l].calls = @ + 1, !.s.wrap[c][l].last = g.v] = r
  <2>1. x = [f.wrap EXCEPT ![c][l] = n]
    BY <1>4 DEF Snapshots, Wrapper
  <2>2. t = [f EXCEPT !.wrap = [f.wrap EXCEPT ![c][l] = n]]
    OBVIOUS
  <2>3. g \in Answers /\ g.s \in Snapshots
    BY <1>2 DEF FitAnswer, Answers
  <2>4. [g EXCEPT !.s.wrap[c][l].calls = @ + 1, !.s.wrap[c][l].last = g.v]
          = [g EXCEPT !.s = [f EXCEPT !.wrap = x]]
    BY <2>3 DEF Answers, Snapshots
  <2> QED
    BY <2>1, <2>2, <2>4
<1> HIDE DEF n, f
<1>7. Fit(t) /\ AllAged(f, t)
  BY <1>4, <1>5, SetFit
<1> HIDE DEF t
<1>8. AllLater(s, t) /\ (AllAged(s, f) => AllAged(s, t))
  BY <1>2, <1>4, <1>7, AgedIsLater, AgedTwice, LaterTwice DEF f
<1>9. r \in Answers /\ r.s = t /\ r.v = g.v
  BY <1>2, <1>7 DEF FitAnswer, Answers, Fit
<1> HIDE DEF r
<1> DEFINE z == Adaptive(s, c, l, fresh)
<1>10. z = r
  BY <1>3, <1>6
<1> HIDE DEF z
<1> SUFFICES /\ FitAnswer(z) /\ AllLater(s, z.s)
             /\ AllAged(s, fresh.s) => AllAged(s, z.s)
  BY DEF z
<1> QED
  BY <1>2, <1>4, <1>7, <1>8, <1>9, <1>10 DEF FitAnswer, f

(* What a graph is around drops no graph. *)
LEMMA WrappedFit ==
  ASSUME setup \in Setups, NEW s, Fit(s), NEW c \in setup.closures,
         NEW l \in DOMAIN Stack, NEW k \in 0 .. MaxSteps - 1
  PROVE  LET r == Wrapped(s, c, l, k) IN FitAnswer(r) /\ AllAged(s, r.s)
<1> DEFINE r == Wrapped(s, c, l, k)
           g == StepFn(s, c, k)
           z == Adaptive(s, c, l + 1, g)
<1>1. FitAnswer(g) /\ AllAged(s, g.s)
  BY StepFnFit
<1>2. CASE l = Len(Stack)
  BY <1>1, <1>2 DEF Wrapped
<1>3. CASE l # Len(Stack)
  <2>1. l + 1 \in DOMAIN Stack
    <3>1. Stack \in Stacks
      BY Installed DEF Stack
    <3>2. Len(Stack) \in {1, 2} /\ DOMAIN Stack = 1 .. Len(Stack)
      BY <3>1, \A a, b : Len(<<a>>) = 1 /\ Len(<<a, b>>) = 2 DEF Stacks
    <3> QED
      BY <1>3, <3>2
  <2>2. c \in Closures /\ AllLater(s, g.s)
    BY <1>1, AgedIsLater, Installed
  <2>3. r = z
    BY <1>3 DEF Wrapped
  <2> HIDE DEF g, r
  <2>4. FitAnswer(z) /\ AllAged(s, z.s)
    BY <1>1, <2>1, <2>2, AdaptiveFit
  <2> HIDE DEF z
  <2> SUFFICES FitAnswer(r) /\ AllAged(s, r.s)
    BY DEF r
  <2> QED
    BY <2>3, <2>4
<1> QED
  BY <1>2, <1>3

(* A replay has a velocity to answer with. *)
LEMMA ReplayFit ==
  ASSUME NEW s, Fit(s), NEW c \in Closures, NEW l \in DOMAIN Stack,
         NEW k \in 0 .. MaxSteps - 1, s.wrap[c][l].graph # "none"
  PROVE  LET r == Replay(s, c, l, k) IN FitAnswer(r) /\ AllAged(s, r.s)
<1> DEFINE w == s.wrap[c][l]
           v == Replayed(w, k)
           n == [w EXCEPT !.last = v]
           t == [s EXCEPT !.wrap[c][l] = n]
           r == [s |-> t, v |-> v, ran |-> w.computes]
<1>1. Fitting(w) /\ w \in Wrapper /\ w.graph # "none"
  BY DEF Fit, Fitting
<1>2. v \in Velocities
  <2> HIDE DEF w
  <2>1. CASE w.computes
    BY <1>1, <2>1 DEF Replayed, Velocities
  <2>2. CASE ~w.computes
    <3>1. w.last \in Velocities
      BY <1>1, <2>2 DEF Fitting, Wrapper
    <3> QED
      BY <2>2, <3>1 DEF Replayed
  <2> QED
    BY <2>1, <2>2
<1>3. v # NoVelocity /\ (Contained(setup) => v.rows \notin Foreign)
  <2> HIDE DEF w
  <2>1. CASE w.computes
    BY <2>1 DEF Replayed, Foreign, NoVelocity
  <2>2. CASE ~w.computes
    BY <1>1, <2>2 DEF Replayed, Fitting
  <2> QED
    BY <2>1, <2>2
<1>4. Replay(s, c, l, k) = r
  BY DEF Replay
<1> HIDE DEF v
<1>5. Fitting(n) /\ Aged(w, n)
  <2> HIDE DEF w
  <2>1. n \in Wrapper
    BY <1>1, <1>2 DEF Wrapper
  <2>2. /\ n.last = v /\ n.graph = w.graph /\ n.computes = w.computes
        /\ n.failed = w.failed
    BY <1>1 DEF Wrapper
  <2> HIDE DEF n
  <2> QED
    BY <1>1, <1>3, <2>1, <2>2 DEF Fitting, Aged
<1> HIDE DEF n
<1>6. Fit(t) /\ AllAged(s, t)
  BY <1>5, SetFit
<1> HIDE DEF t, w
<1>7. r \in Answers /\ r.s = t /\ r.v = v
  BY <1>1, <1>2, <1>6 DEF Answers, Fit, Wrapper
<1> HIDE DEF r
<1> QED
  BY <1>3, <1>4, <1>6, <1>7 DEF FitAnswer

(* What a capture leaves: its graph, and the velocity of a graph that        *)
(* captured no forward.                                                     *)
LEMMA CapturedFit ==
  ASSUME NEW r, FitAnswer(r), NEW c \in Closures, NEW l \in DOMAIN Stack,
         r.s.wrap[c][l].graph = "none", ~r.s.wrap[c][l].failed
  PROVE  /\ Fit(Captured(r, c, l)) /\ AllLater(r.s, Captured(r, c, l))
         /\ Captured(r, c, l).wrap[c][l].graph # "none"
<1> DEFINE f == r.s
           y == f.wrap[c][l]
           p == IF Cache = "dynamic" /\ r.ran THEN "freed" ELSE "live"
           o == IF r.ran THEN NoVelocity ELSE r.v
           n == [y EXCEPT !.graph = p, !.computes = r.ran, !.last = o]
           t == [f EXCEPT !.wrap[c][l] = n]
           q == [f EXCEPT !.wrap[c][l].graph = p, !.wrap[c][l].computes = r.ran,
                          !.wrap[c][l].last = o]
           x == [f.wrap EXCEPT ![c][l].graph = p, ![c][l].computes = r.ran, ![c][l].last = o]
<1>1. /\ f \in Snapshots /\ Fit(f) /\ y \in Wrapper /\ y.graph = "none" /\ ~y.failed
      /\ r.ran \in BOOLEAN /\ r.v \in Velocities
  BY DEF FitAnswer, Answers, Fit, Fitting
<1>2. p \in {"live", "freed"} /\ o \in Velocities \cup {NoVelocity}
  BY <1>1
<1>3. (~r.ran => o # NoVelocity) /\ (Contained(setup) => o.rows \notin Foreign)
  BY <1>1 DEF Velocities, NoVelocity, FitAnswer, Foreign
<1>4. Captured(r, c, l) = q
  BY DEF Captured
<1> HIDE DEF p, o, f
<1>5. q = t
  <2>1. x = [f.wrap EXCEPT ![c][l] = n]
    BY <1>1 DEF Snapshots, Wrapper
  <2>2. q = [f EXCEPT !.wrap = x]
    BY <1>1 DEF Snapshots
  <2>3. t = [f EXCEPT !.wrap = [f.wrap EXCEPT ![c][l] = n]]
    OBVIOUS
  <2> QED
    BY <2>1, <2>2, <2>3
<1>6. Fitting(n) /\ Later(y, n) /\ n.graph # "none"
  <2> HIDE DEF y
  <2>1. n \in Wrapper
    BY <1>1, <1>2 DEF Wrapper
  <2>2. n.last = o /\ n.graph = p /\ n.computes = r.ran /\ n.failed = y.failed
    BY <1>1 DEF Wrapper
  <2> HIDE DEF n
  <2> QED
    BY <1>1, <1>2, <1>3, <2>1, <2>2 DEF Fitting, Later
<1> HIDE DEF n
<1>7. Fit(t) /\ AllLater(f, t) /\ t.wrap[c][l] = n
  BY <1>1, <1>6, SetFit
<1> QED
  BY <1>4, <1>5, <1>6, <1>7 DEF f

(* A failed capture leaves its mark and no graph. *)
LEMMA MarkFit ==
  ASSUME NEW s, Fit(s), NEW c \in Closures, NEW l \in DOMAIN Stack,
         s.wrap[c][l].graph = "none"
  PROVE  Fit(MarkFailed(s, c, l)) /\ AllLater(s, MarkFailed(s, c, l))
<1> DEFINE w == s.wrap[c][l]
           n == [w EXCEPT !.failed = TRUE]
           t == [s EXCEPT !.wrap[c][l] = n]
<1>1. Fitting(w) /\ w \in Wrapper /\ w.graph = "none"
  BY DEF Fit, Fitting
<1>2. MarkFailed(s, c, l) = t
  BY DEF MarkFailed
<1>3. Fitting(n) /\ Later(w, n)
  <2> HIDE DEF w
  <2> QED
    BY <1>1 DEF Fitting, Later, Wrapper
<1> HIDE DEF n
<1>4. Fit(t) /\ AllLater(s, t)
  BY <1>3, SetFit
<1> QED
  BY <1>2, <1>4

(* An eager call is counted. *)
LEMMA CountFit ==
  ASSUME NEW r, FitAnswer(r), NEW c \in Closures, NEW l \in DOMAIN Stack
  PROVE  LET z == [r EXCEPT !.s.wrap[c][l].calls = @ + 1]
         IN FitAnswer(z) /\ AllLater(r.s, z.s)
<1> DEFINE f == r.s
           y == f.wrap[c][l]
           n == [y EXCEPT !.calls = @ + 1]
           t == [f EXCEPT !.wrap[c][l] = n]
           z == [r EXCEPT !.s.wrap[c][l].calls = @ + 1]
           q == [r EXCEPT !.s = t]
<1>1. /\ f \in Snapshots /\ Fit(f) /\ y \in Wrapper /\ Fitting(y) /\ r \in Answers
  BY DEF FitAnswer, Answers, Fit, Fitting
<1>2. z = q
  OBVIOUS
<1>3. Fitting(n) /\ Later(y, n)
  <2>1. y.calls + 1 \in Nat
    BY <1>1 DEF Wrapper
  <2> HIDE DEF y, f
  <2>2. n \in Wrapper
    BY <1>1, <2>1 DEF Wrapper
  <2>3. n.last = y.last /\ n.graph = y.graph /\ n.computes = y.computes /\ n.failed = y.failed
    BY <1>1 DEF Wrapper
  <2> HIDE DEF n
  <2> QED
    BY <1>1, <2>2, <2>3 DEF Fitting, Later
<1> HIDE DEF n
<1>4. Fit(t) /\ AllLater(f, t)
  <2> HIDE DEF f
  <2> QED
    BY <1>1, <1>3, SetFit
<1> HIDE DEF t
<1>5. q \in Answers /\ q.s = t /\ q.v = r.v
  BY <1>1, <1>4 DEF Answers, Fit
<1> HIDE DEF q, z
<1>6. FitAnswer(z) /\ AllLater(f, z.s)
  BY <1>2, <1>4, <1>5 DEF FitAnswer
<1> QED
  BY <1>6 DEF z

(* A step graph, whatever its capture comes to. *)
LEMMA GraphFit ==
  ASSUME setup \in Setups, "graph" \in {Stack[m] : m \in DOMAIN Stack},
         NEW s, Fit(s), NEW c \in setup.closures, NEW l \in DOMAIN Stack,
         NEW k \in 0 .. MaxSteps - 1, NEW how, MayRaise(s, c, how)
  PROVE  LET r == Graph(s, c, l, k, how) IN FitAnswer(r) /\ AllLater(s, r.s)
<1> DEFINE w == s.wrap[c][l]
           r == Wrapped(s, c, l, k)
           captured == Wrapped(r.s, c, l, k)
           broken == CASE how = "convert" -> BrokenHook(s, c)
                       [] how = "warm" -> BrokenStepFn(s, c)
                       [] how = "capture" -> BrokenStepFn(r.s, c)
                       [] OTHER -> captured.s
           g == Graph(s, c, l, k, how)
           Fine(z) == FitAnswer(z) /\ AllLater(s, z.s)
<1>1. FitAnswer(r) /\ Fit(r.s) /\ AllAged(s, r.s)
  BY WrappedFit DEF FitAnswer
<1>2. Fitting(w) /\ c \in Closures
  BY Installed DEF Fit
<1>3. g = IF Eagerly(w) THEN [r EXCEPT !.s.wrap[c][l].calls = @ + 1]
          ELSE IF w.graph # "none" THEN Replay(s, c, l, k)
          ELSE IF how = "ok" THEN Replay(Captured(captured, c, l), c, l, k)
          ELSE Wrapped(MarkFailed(broken, c, l), c, l, k)
  BY DEF Graph
<1> HIDE DEF r, g
<1>4. FitAnswer(captured) /\ Fit(captured.s) /\ AllAged(s, captured.s)
  BY <1>1, WrappedFit, AgedTwice DEF FitAnswer
<1> HIDE DEF captured
<1>5. how # "ok" => Fit(broken) /\ AllAged(s, broken)
  <2>1. how # "ok" /\ Contained(setup) => Cache = "own" /\ how # "convert"
    <3> SUFFICES ASSUME how # "ok", Contained(setup)
                 PROVE  Cache = "own" /\ how # "convert"
      OBVIOUS
    <3>1. Stack # <<"adaptive">> /\ Stack # <<"adaptive", "adaptive">>
      OBVIOUS
    <3>2. Cache = "own" /\ \A a, d \in setup.closures : a = d
      BY <3>1 DEF Contained, MayRaise, Outcomes, Stack, Cache
    <3>3. s.owner \in {c, "nobody"}
      BY <3>2 DEF Fit, Tidy
    <3> QED
      BY <3>2, <3>3 DEF MayRaise
  <2>2. CASE how = "convert"
    BY <2>1, <2>2, BrokenFit
  <2>3. CASE how = "warm"
    BY <2>1, <2>3, BrokenFit
  <2>4. CASE how = "capture"
    BY <1>1, <2>1, <2>4, BrokenFit, AgedTwice
  <2>5. CASE how \notin {"convert", "warm", "capture"}
    BY <1>4, <2>5
  <2> QED
    BY <2>2, <2>3, <2>4, <2>5
<1> HIDE DEF broken
<1>6. CASE Eagerly(w)
  <2> DEFINE z == [r EXCEPT !.s.wrap[c][l].calls = @ + 1]
  <2>1. FitAnswer(z) /\ AllLater(r.s, z.s)
    BY <1>1, <1>2, CountFit
  <2>2. g = z
    BY <1>3, <1>6
  <2> HIDE DEF z
  <2>3. AllLater(s, z.s)
    BY <1>1, <2>1, AgedIsLater, LaterTwice
  <2>4. Fine(g)
    BY <2>1, <2>2, <2>3
  <2> QED
    BY <2>4 DEF g
<1>7. CASE ~Eagerly(w) /\ w.graph # "none"
  <2> DEFINE z == Replay(s, c, l, k)
  <2>1. FitAnswer(z) /\ AllAged(s, z.s)
    BY <1>2, <1>7, ReplayFit
  <2>2. g = z
    BY <1>3, <1>7
  <2> HIDE DEF z
  <2>3. Fine(g)
    BY <2>1, <2>2, AgedIsLater
  <2> QED
    BY <2>3 DEF g
<1>8. CASE ~Eagerly(w) /\ w.graph = "none" /\ how = "ok"
  <2> DEFINE t == Captured(captured, c, l)
             z == Replay(t, c, l, k)
  <2>1. captured.s.wrap[c][l].graph = "none" /\ ~captured.s.wrap[c][l].failed
    <3>1. Aged(w, captured.s.wrap[c][l])
      BY <1>2, <1>4 DEF AllAged
    <3> QED
      BY <1>8, <3>1 DEF Aged, Eagerly
  <2>2. Fit(t) /\ AllLater(captured.s, t) /\ t.wrap[c][l].graph # "none"
    BY <1>2, <1>4, <2>1, CapturedFit
  <2> HIDE DEF t
  <2>3. FitAnswer(z) /\ AllAged(t, z.s)
    BY <1>2, <2>2, ReplayFit
  <2>4. g = z
    BY <1>3, <1>8 DEF t
  <2> HIDE DEF z
  <2>5. AllLater(s, captured.s)
    BY <1>4, AgedIsLater
  <2>6. AllLater(s, t)
    BY <2>2, <2>5, LaterTwice
  <2>7. AllLater(t, z.s)
    BY <2>2, <2>3, AgedIsLater
  <2>8. Fine(g)
    BY <2>3, <2>4, <2>6, <2>7, LaterTwice
  <2> QED
    BY <2>8 DEF g
<1>9. CASE ~Eagerly(w) /\ w.graph = "none" /\ how # "ok"
  <2> DEFINE t == MarkFailed(broken, c, l)
             z == Wrapped(t, c, l, k)
  <2>1. broken.wrap[c][l].graph = "none"
    BY <1>2, <1>5, <1>9 DEF AllAged, Aged
  <2>2. Fit(t) /\ AllLater(broken, t)
    BY <1>2, <1>5, <1>9, <2>1, MarkFit
  <2> HIDE DEF t
  <2>3. FitAnswer(z) /\ AllAged(t, z.s)
    BY <2>2, WrappedFit
  <2>4. g = z
    BY <1>3, <1>9 DEF t
  <2> HIDE DEF z
  <2>5. AllLater(s, t)
    BY <1>5, <1>9, <2>2, AgedIsLater, LaterTwice
  <2>6. AllLater(t, z.s)
    BY <2>2, <2>3, AgedIsLater
  <2>7. Fine(g)
    BY <2>3, <2>4, <2>5, <2>6, LaterTwice
  <2> QED
    BY <2>7 DEF g
<1> QED
  BY <1>6, <1>7, <1>8, <1>9

(* A call through all the wrappers, in any order of installation. *)
LEMMA InvokeFit ==
  ASSUME setup \in Setups, NEW s, Fit(s), NEW c \in setup.closures,
         NEW k \in 0 .. MaxSteps - 1, NEW how, MayRaise(s, c, how)
  PROVE  LET r == Invoke(s, c, k, how) IN FitAnswer(r) /\ AllLater(s, r.s)
<1> DEFINE r == Invoke(s, c, k, how)
           inner == IF Len(Stack) = 2 /\ Stack[2] = "graph" THEN Graph(s, c, 2, k, how)
                    ELSE Wrapped(s, c, 1, k)
<1>1. 1 \in DOMAIN Stack /\ (Len(Stack) = 2 => 2 \in DOMAIN Stack) /\ c \in Closures
  <2>1. Stack \in Stacks
    BY Installed DEF Stack
  <2>2. Len(Stack) \in {1, 2} /\ DOMAIN Stack = 1 .. Len(Stack)
    BY <2>1, \A a, b : Len(<<a>>) = 1 /\ Len(<<a, b>>) = 2 DEF Stacks
  <2> QED
    BY <2>2, Installed
<1>2. CASE Stack[1] = "graph"
  <2> DEFINE g == Graph(s, c, 1, k, how)
  <2>1. r = g
    BY <1>2 DEF Invoke
  <2>2. "graph" \in {Stack[m] : m \in DOMAIN Stack}
    BY <1>1, <1>2
  <2>3. FitAnswer(g) /\ AllLater(s, g.s)
    BY <1>1, <2>2, GraphFit
  <2> HIDE DEF g
  <2> QED
    BY <2>1, <2>3
<1>3. CASE Stack[1] # "graph"
  <2>1. r = Adaptive(s, c, 1, inner)
    BY <1>3 DEF Invoke
  <2>2. FitAnswer(inner) /\ AllLater(s, inner.s)
    <3>1. CASE Len(Stack) = 2 /\ Stack[2] = "graph"
      <4>1. inner = Graph(s, c, 2, k, how)
        BY <3>1
      <4> QED
        BY <1>1, <3>1, <4>1, GraphFit
    <3>2. CASE ~(Len(Stack) = 2 /\ Stack[2] = "graph")
      <4> DEFINE z == Wrapped(s, c, 1, k)
      <4>1. inner = z
        BY <3>2
      <4>2. FitAnswer(z) /\ AllAged(s, z.s)
        BY <1>1, WrappedFit
      <4> HIDE DEF z, inner
      <4> QED
        BY <4>1, <4>2, AgedIsLater
    <3> QED
      BY <3>1, <3>2
  <2> HIDE DEF inner
  <2> QED
    BY <1>1, <2>1, <2>2, AdaptiveFit
<1> QED
  BY <1>2, <1>3

(* New wrappers fit. *)
LEMMA FitAtFirst ==
  ASSUME NEW s, s = [wrap |-> NewWrappers, owner |-> "nobody", whose |-> "nobody", extra |-> FALSE]
  PROVE  Fit(s) /\ NewWrappers \in [Closures -> [DOMAIN Stack -> Wrapper]]
<1>1. /\ NewWrapper \in Wrapper /\ NewWrapper.graph = "none" /\ ~NewWrapper.failed
      /\ NewWrapper.last.rows \notin Foreign
  BY DEF NewWrapper, Wrapper, NoVelocity, Foreign
<1> HIDE DEF NewWrapper
<1>2. \A d \in Closures, l \in DOMAIN Stack : NewWrappers[d][l] = NewWrapper
  BY DEF NewWrappers
<1>3. NewWrappers \in [Closures -> [DOMAIN Stack -> Wrapper]]
  BY <1>1 DEF NewWrappers
<1>4. s \in Snapshots /\ s.wrap = NewWrappers /\ Tidy(s)
  BY <1>3 DEF Snapshots, Tidy
<1> QED
  BY <1>1, <1>2, <1>3, <1>4 DEF Fit, Fitting

(* What fits depends on the setup alone. *)
LEMMA SameFit ==
  ASSUME setup' = setup
  PROVE  Fit(Now)' <=> Fit(Now')
  BY DEF Fit, Fitting, Tidy, Snapshots, Wrapper, Velocities, NoVelocity, Stack, Cache

(* Lasting holds at the start. *)
LEMMA LastingInit ==
  ASSUME Init
  PROVE  Lasting
<1>1. NewWrappers \in [Closures -> [DOMAIN Stack -> Wrapper]]
  BY FitAtFirst
<1>2. used \in [Closures -> Seq(Velocities)] /\ FallbackSound
  BY DEF Init, FallbackSound
<1>3. step \in 0 .. MaxSteps /\ phase = "idle"
  BY Counts DEF Init
<1> QED
  BY <1>1, <1>2, <1>3 DEF Init, Lasting, TypeOK

(* The steps that leave the wrappers alone. *)
LEMMA LastingIdle ==
  ASSUME Lasting, \/ \E n \in 1 .. MaxSteps : SetSteps(n)
                  \/ SampleRaises
                  \/ UNCHANGED vars
  PROVE  Lasting' /\ wrap' = wrap
<1>1. /\ wrap' = wrap /\ owner' = owner /\ whose' = whose /\ setup' = setup
      /\ extra' \in BOOLEAN /\ used' = used /\ total' = total /\ step' = step
      /\ todo' = todo \/ todo' = {}
      /\ numSteps' \in 1 .. MaxSteps /\ phase' \in {"idle", "sampling"}
  BY DEF Lasting, TypeOK, SetSteps, SampleRaises, vars
<1>2. phase' = "sampling" => UNCHANGED vars
  BY DEF SetSteps, SampleRaises
<1>3. phase' = "sampling" => Fit(Now)'
  <2>1. phase' = "sampling" => Now' = Now /\ phase = "sampling"
    BY <1>2 DEF Now, vars
  <2> QED
    BY <1>1, <2>1, SameFit DEF Lasting
<1>4. TypeOK'
  BY <1>1 DEF Lasting, TypeOK, Stack
<1>5. Contained(setup)' => FallbackSound'
  BY <1>1 DEF Lasting, FallbackSound, Contained
<1> QED
  BY <1>1, <1>2, <1>3, <1>4, <1>5 DEF Lasting, vars

(* A new sample() starts with new wrappers. *)
LEMMA LastingSample ==
  ASSUME Lasting, Sample
  PROVE  Lasting'
<1>1. setup' = setup /\ numSteps' = numSteps /\ total' = total /\ step' = 0
      /\ phase' = "sampling" /\ todo' = setup.closures /\ setup.closures \subseteq Closures
  BY Installed DEF Lasting, TypeOK, Sample
<1>2. Now' = [wrap |-> NewWrappers, owner |-> "nobody", whose |-> "nobody", extra |-> FALSE]
  BY DEF Sample, Now
<1>3. Fit(Now') /\ NewWrappers \in [Closures -> [DOMAIN Stack -> Wrapper]]
  BY <1>2, FitAtFirst
<1>4. Fit(Now)'
  BY <1>1, <1>3, SameFit
<1>5. used' \in [Closures -> Seq(Velocities)] /\ FallbackSound'
  BY DEF Sample, FallbackSound
<1>6. wrap' \in [Closures -> [DOMAIN Stack' -> Wrapper]]
  BY <1>1, <1>3 DEF Sample, Stack
<1>7. TypeOK'
  <2>1. setup' \in Setups /\ numSteps' \in 1 .. MaxSteps /\ total' \in 1 .. MaxSteps
    BY <1>1 DEF Lasting, TypeOK
  <2>2. step' \in 0 .. MaxSteps /\ todo' \subseteq Closures
    BY <1>1, Counts
  <2> QED
    BY <1>1, <1>5, <1>6, <2>1, <2>2 DEF TypeOK, Sample
<1>8. step' < numSteps'
  BY <1>1 DEF Lasting, TypeOK
<1> QED
  BY <1>1, <1>4, <1>5, <1>7, <1>8 DEF Lasting

(* A call keeps the types, the rows and every capture's outcome. *)
LEMMA LastingEvaluate ==
  ASSUME Lasting, NEW c \in Closures, NEW how \in Outcomes, Evaluate(c, how)
  PROVE  Lasting' /\ AllLater(Now, Now')
<1> DEFINE r == Invoke(Now, c, step, how)
<1>1. /\ setup' = setup /\ total' = total /\ numSteps' = numSteps /\ phase = "sampling"
      /\ c \in todo /\ wrap' = r.s.wrap /\ owner' = r.s.owner /\ whose' = r.s.whose
      /\ extra' = r.s.extra /\ used' = [used EXCEPT ![c] = Append(@, r.v)]
  BY DEF Evaluate, Now
<1>2. /\ setup \in Setups /\ TypeOK /\ Fit(Now) /\ step < numSteps
      /\ todo \subseteq setup.closures /\ setup.closures \subseteq Closures
  BY <1>1, Installed DEF Lasting, TypeOK
<1>3. /\ step \in 0 .. MaxSteps - 1 /\ numSteps \in 1 .. MaxSteps /\ MaxSteps \in Nat
      /\ MayRaise(Now, c, how) /\ c \in setup.closures
  BY <1>1, <1>2, Counts DEF TypeOK, Evaluate, CanRaise, MayRaise, Now
<1>4. FitAnswer(r) /\ AllLater(Now, r.s)
  BY <1>2, <1>3, InvokeFit
<1> HIDE DEF r
<1>5. /\ r.s \in Snapshots /\ Fit(r.s) /\ r.v \in Velocities
      /\ Contained(setup) => r.v.rows \notin Foreign
  BY <1>4 DEF FitAnswer, Answers
<1>6. Now' = r.s
  <2>1. r.s = [wrap |-> r.s.wrap, owner |-> r.s.owner, whose |-> r.s.whose,
               extra |-> r.s.extra]
    BY <1>5 DEF Snapshots
  <2> QED
    BY <1>1, <2>1 DEF Now
<1>7. Fit(Now)'
  BY <1>1, <1>5, <1>6, SameFit
<1>8. /\ used' \in [Closures -> Seq(Velocities)]
      /\ Contained(setup)' => FallbackSound'
  <2>1. used[c] \in Seq(Velocities)
    BY <1>2 DEF TypeOK
  <2>2. /\ Append(used[c], r.v) \in Seq(Velocities)
        /\ \A n \in DOMAIN Append(used[c], r.v) :
              Append(used[c], r.v)[n] = IF n = Len(used[c]) + 1 THEN r.v ELSE used[c][n]
        /\ \A n \in DOMAIN Append(used[c], r.v) : n = Len(used[c]) + 1 \/ n \in DOMAIN used[c]
    BY <1>5, <2>1
  <2>3. /\ used'[c] = Append(used[c], r.v)
        /\ \A d \in Closures : d # c => used'[d] = used[d]
        /\ used' \in [Closures -> Seq(Velocities)]
    BY <1>1, <1>2, <2>2 DEF TypeOK
  <2>4. ASSUME Contained(setup), NEW d \in Closures, NEW n \in DOMAIN used'[d]
        PROVE  used'[d][n].rows \notin Foreign
    <3>1. FallbackSound
      BY <2>4 DEF Lasting
    <3>2. CASE d = c
      BY <1>5, <2>2, <2>3, <2>4, <3>1, <3>2 DEF FallbackSound, Foreign
    <3>3. CASE d # c
      BY <2>3, <3>1, <3>3 DEF FallbackSound, Foreign
    <3> QED
      BY <3>2, <3>3
  <2>5. Contained(setup)' <=> Contained(setup)
    BY <1>1 DEF Contained
  <2> QED
    BY <2>3, <2>4, <2>5 DEF FallbackSound, Foreign
<1>9. /\ wrap' \in [Closures -> [DOMAIN Stack' -> Wrapper]]
      /\ owner' \in Closures \cup {"nobody"} /\ whose' \in Closures \cup {"nobody"}
      /\ extra' \in BOOLEAN
  BY <1>1, <1>5 DEF Snapshots, Stack
<1>10. /\ step' \in 0 .. MaxSteps /\ todo' \subseteq setup.closures
       /\ phase' \in {"idle", "sampling"}
       /\ phase' = "sampling" => step' < numSteps
  BY <1>1, <1>2, <1>3 DEF Evaluate
<1>11. TypeOK'
  <2>1. setup' \in Setups /\ numSteps' \in 1 .. MaxSteps /\ total' \in 1 .. MaxSteps
    BY <1>1, <1>2 DEF TypeOK
  <2>2. todo' \subseteq Closures
    BY <1>2, <1>10
  <2> QED
    BY <1>8, <1>9, <1>10, <2>1, <2>2 DEF TypeOK
<1>12. AllLater(Now, Now')
  BY <1>4, <1>6
<1> QED
  BY <1>1, <1>7, <1>8, <1>10, <1>11, <1>12 DEF Lasting

(* Lasting is inductive, for every setup. *)
LEMMA LastingHolds == Spec => []Lasting
<1>1. Lasting /\ [Next]_vars => Lasting'
  BY LastingIdle, LastingSample, LastingEvaluate DEF Next
<1> QED
  BY <1>1, LastingInit, PTL DEF Spec

(* The variables keep their types: in particular a replay always has a       *)
(* velocity to answer with (graph.py:231-232), also where a graph captured   *)
(* no forward, and a reused step has one (diffusion.py:47-52).              *)
THEOREM VelocitiesTyped == Spec => []TypeOK
<1>1. Lasting => TypeOK
  BY DEF Lasting
<1> QED
  BY <1>1, LastingHolds, PTL

(* In every setup, failing captures and both orders of installation included,*)
(* a capture has one outcome per sample() (graph.py:212-229).               *)
THEOREM OutcomesLast == Spec => CapturesOnce
<1>1. Lasting /\ [Next]_vars
        => [phase = "sampling" =>
              \A c \in Closures, l \in DOMAIN Stack :
                 /\ wrap[c][l].graph # "none" => wrap'[c][l].graph # "none"
                 /\ wrap[c][l].failed =>
                      wrap'[c][l].failed /\ wrap'[c][l].graph = "none"]_vars
  <2> SUFFICES ASSUME Lasting, [Next]_vars, phase = "sampling",
                      NEW c \in Closures, NEW l \in DOMAIN Stack
               PROVE  Later(wrap[c][l], wrap'[c][l])
    BY DEF Later
  <2>1. CASE \E n \in 1 .. MaxSteps : SetSteps(n)
    BY <2>1 DEF SetSteps
  <2>2. CASE Sample
    BY <2>2 DEF Sample
  <2>3. CASE \E d \in Closures, how \in Outcomes : Evaluate(d, how)
    <3>1. AllLater(Now, Now')
      BY <2>3, LastingEvaluate
    <3>2. Now.wrap = wrap /\ Now'.wrap = wrap'
      BY DEF Now
    <3> QED
      BY <3>1, <3>2 DEF AllLater
  <2>4. CASE SampleRaises \/ UNCHANGED vars
    <3>1. wrap' = wrap
      BY <2>4, LastingIdle
    <3>2. Fitting(wrap[c][l])
      BY DEF Lasting, Fit, Now
    <3> QED
      BY <3>1, <3>2 DEF Fitting, Later
  <2> QED
    BY <2>1, <2>2, <2>3, <2>4 DEF Next
<1> QED
  BY <1>1, LastingHolds, PTL DEF Spec, CapturesOnce

(* "Capture failure falls back to eager so correctness never breaks"         *)
(* (graph.py:193-194) holds in a contained setup: no velocity is computed on *)
(* rows that a failed capture appended, or on another closure's.            *)
THEOREM FallbackContained == Spec => [](Contained(setup) => FallbackSound)
<1>1. Lasting => (Contained(setup) => FallbackSound)
  BY DEF Lasting
<1> QED
  BY <1>1, LastingHolds, PTL
=============================================================================
