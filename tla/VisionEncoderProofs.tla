------------------------- MODULE VisionEncoderProofs -------------------------
(* Theorems about VisionEncoder, for every number of blocks, set of taps and *)
(* set of grids.                                                            *)
EXTENDS VisionEncoder, TLAPS

(* Adding a block output that is not in the sum yet extends the sum by it.  *)
LEMMA AddSummand ==
  ASSUME NEW S, NEW T, NEW t \in Terms, t \notin S,
         \A s \in Terms : s \in T <=> (s = t \/ s \in S)
  PROVE  Add([s \in Terms |-> IF s \in S THEN 1 ELSE 0], t)
           = [s \in Terms |-> IF s \in T THEN 1 ELSE 0]
<1> DEFINE f == [s \in Terms |-> IF s \in S THEN 1 ELSE 0]
           g == [s \in Terms |-> IF s \in T THEN 1 ELSE 0]
<1>1. f \in [Terms -> Int] /\ f[t] = 0
  OBVIOUS
<1>2. \A s \in Terms : [f EXCEPT ![t] = @ + 1][s] = g[s]
  <2> TAKE s \in Terms
  <2>1. CASE s = t
    BY <1>1, <2>1
  <2>2. CASE s # t
    BY <1>1, <2>2
  <2> QED
    BY <2>1, <2>2
<1>3. [f EXCEPT ![t] = @ + 1] = g
  BY <1>2
<1> QED
  BY <1>3 DEF Add

(* One more summand in turn: what each fused add contributes.               *)
LEMMA AddEmbed == Add(Nothing, <<"embed", 0>>) = EagerStream(0, 0)
  BY DEF Add, Nothing, EagerStream, Summands, Terms

(* ... the attention output of block a;                                     *)
LEMMA AddAttn ==
  ASSUME NEW a \in Layers, NEW m \in Nat
  PROVE  Add(EagerStream(a, m), <<"attn", a>>) = EagerStream(a + 1, m)
<1>1. <<"attn", a>> \in Terms /\ a \in Nat
  BY Shape DEF Terms, Layers
<1>2. <<"attn", a>> \notin Summands(a, m)
  BY <1>1 DEF Summands
<1>3. \A s \in Terms : s \in Summands(a + 1, m)
                         <=> (s = <<"attn", a>> \/ s \in Summands(a, m))
  BY <1>1 DEF Summands, Terms, Layers
<1> DEFINE S == Summands(a, m)
           T == Summands(a + 1, m)
           t == <<"attn", a>>
<1>4. /\ t \in Terms /\ t \notin S
      /\ \A s \in Terms : s \in T <=> (s = t \/ s \in S)
  BY <1>1, <1>2, <1>3
<1>5. Add([s \in Terms |-> IF s \in S THEN 1 ELSE 0], t)
        = [s \in Terms |-> IF s \in T THEN 1 ELSE 0]
  <2> HIDE DEF S, T, t
  <2> QED
    BY <1>4, AddSummand
<1> QED
  BY <1>5 DEF EagerStream

(* ... the MLP output of block m.                                           *)
LEMMA AddMlp ==
  ASSUME NEW m \in Layers, NEW a \in Nat
  PROVE  Add(EagerStream(a, m), <<"mlp", m>>) = EagerStream(a, m + 1)
<1>1. <<"mlp", m>> \in Terms /\ m \in Nat
  BY Shape DEF Terms, Layers
<1>2. <<"mlp", m>> \notin Summands(a, m)
  BY <1>1 DEF Summands
<1>3. \A s \in Terms : s \in Summands(a, m + 1)
                         <=> (s = <<"mlp", m>> \/ s \in Summands(a, m))
  BY <1>1 DEF Summands, Terms, Layers
<1> DEFINE S == Summands(a, m)
           T == Summands(a, m + 1)
           t == <<"mlp", m>>
<1>4. /\ t \in Terms /\ t \notin S
      /\ \A s \in Terms : s \in T <=> (s = t \/ s \in S)
  BY <1>1, <1>2, <1>3
<1>5. Add([s \in Terms |-> IF s \in S THEN 1 ELSE 0], t)
        = [s \in Terms |-> IF s \in T THEN 1 ELSE 0]
  <2> HIDE DEF S, T, t
  <2> QED
    BY <1>4, AddSummand
<1> QED
  BY <1>5 DEF EagerStream

(* The streams of the unfused encoder are streams.                          *)
LEMMA StreamType ==
  /\ Nothing \in Streams
  /\ \A a, m : EagerStream(a, m) \in Streams
  BY DEF Nothing, Streams, EagerStream

-----------------------------------------------------------------------------
(* The stream held plus what is pending is the unfused stream.              *)
Owed == /\ pending = None => hidden = EagerStream(layer, layer)
        /\ pending # None => /\ layer > 0 /\ pending = <<"mlp", layer - 1>>
                             /\ hidden = EagerStream(layer, layer - 1)

Residual ==
  /\ layer \in Nat /\ layer <= Blocks
  /\ pc \in {"norm1", "attn", "mlp"} => layer \in Layers
  /\ pc = "consts" => layer = 0 /\ pending = None
  /\ pc = "merger" => layer = Blocks
  /\ pc \in {"norm1", "merger"} => Owed
  /\ pc = "attn" => pending = None /\ hidden = EagerStream(layer, layer)
  /\ pc = "mlp" => pending = None /\ hidden = EagerStream(layer + 1, layer)

(* The taps of the layers done so far. *)
Tapped ==
  /\ pc \notin {"idle", "returned"} =>
       \A l \in Deepstack : l \in DOMAIN features <=> l < layer
  /\ AllTaps

VInv == TypeOK /\ Residual /\ Tapped /\ EagerInputs

(* Before the first call nothing is pending.                                *)
LEMMA VInvInit == Init => VInv
<1> SUFFICES ASSUME Init PROVE VInv
  OBVIOUS
<1>1. torn \in BOOLEAN
  BY Zenon DEF Init
<1>2. /\ maxOf \in [Layers -> MaybeGrid] /\ NoGrid \in MaybeGrid
      /\ 0 \in 0 .. Blocks
  BY Shape DEF Init, MaybeGrid
<1>3. TypeOK
  BY <1>1, <1>2, StreamType DEF Init, TypeOK
<1>4. Residual /\ Tapped /\ EagerInputs
  BY Shape DEF Init, Residual, Tapped, AllTaps, EagerInputs
<1> QED
  BY <1>3, <1>4 DEF VInv

(* Every step of the encoder preserves it. *)
THEOREM VInvStep == VInv /\ [Next]_vars => VInv'
<1> SUFFICES ASSUME VInv, [Next]_vars PROVE VInv'
  OBVIOUS
<1>0. TypeOK /\ Residual /\ Tapped /\ EagerInputs /\ AllTaps
  BY DEF VInv, Tapped
<1>1. ASSUME NEW g \in Grids, Call(g) PROVE VInv'
  <2>1. /\ pc' = "consts" /\ grid' \in MaybeGrid /\ layer' = 0 /\ pending' = None
        /\ hidden' = Nothing /\ input' = Nothing /\ used' = {}
        /\ features' = [l \in {} |-> Nothing] /\ DOMAIN features' = {}
        /\ UNCHANGED <<key, consts, seen, maxOf, torn>>
    BY <1>1 DEF Call, cached, MaybeGrid
  <2>2. 0 \in 0 .. Blocks /\ 0 <= Blocks /\ \A l \in Deepstack : ~(l < 0)
    BY Shape
  <2>3. TypeOK'
    BY <1>0, <2>1, <2>2, StreamType DEF TypeOK
  <2>4. Residual' /\ Tapped' /\ EagerInputs'
    BY <2>1, <2>2 DEF Residual, Tapped, AllTaps, EagerInputs
  <2> QED
    BY <2>3, <2>4 DEF VInv
<1>2. CASE Consts
  <2>1. /\ pc = "consts" /\ pc' = "norm1" /\ hidden' = EagerStream(0, 0)
        /\ UNCHANGED <<grid, maxOf, layer, pending, features, input>>
        /\ used' = {consts'}
    BY <1>2, AddEmbed DEF Consts
  <2>2. /\ key' \in MaybeGrid /\ consts' \in MaybeGrid /\ seen' \subseteq Layers
        /\ torn' \in BOOLEAN
    BY <1>0, <1>2 DEF Consts, TypeOK
  <2>3. TypeOK'
    BY <1>0, <2>1, <2>2, StreamType DEF TypeOK
  <2>4. Residual' /\ EagerInputs'
    BY <1>0, <2>1, Shape DEF Residual, Owed, EagerInputs, Layers
  <2>5. Tapped'
    BY <1>0, <2>1 DEF Tapped, AllTaps
  <2> QED
    BY <2>3, <2>4, <2>5 DEF VInv
<1>3. CASE ConstsRaise \/ AttnRaises \/ Raise
  <2>1. pc' = "idle" /\ UNCHANGED <<grid, consts, maxOf, layer, hidden, pending,
                                    features, input, used>>
    BY <1>3 DEF ConstsRaise, AttnRaises, Raise, cached
  <2>2. key' \in MaybeGrid /\ seen' \subseteq Layers /\ torn' \in BOOLEAN
    BY <1>0, <1>3 DEF ConstsRaise, AttnRaises, Raise, cached, TypeOK, Residual
  <2> QED
    BY <1>0, <2>1, <2>2
       DEF VInv, TypeOK, Residual, Tapped, AllTaps, EagerInputs
<1>4. CASE Norm1
  <2>1. /\ pc = "norm1" /\ pc' = "attn" /\ pending' = None /\ input' = hidden'
        /\ UNCHANGED <<grid, key, consts, seen, maxOf, torn, layer, features,
                       used>>
        /\ layer \in Layers /\ layer \in Nat
    BY <1>0, <1>4 DEF Norm1, cached, Residual
  <2>2. hidden' = EagerStream(layer, layer)
    <3>1. CASE pending = None
      BY <1>0, <1>4, <3>1 DEF Norm1, Residual, Owed
    <3>2. CASE pending # None
      <4>1. /\ layer - 1 \in Layers /\ pending = <<"mlp", layer - 1>>
            /\ hidden = EagerStream(layer, layer - 1)
        BY <1>0, <2>1, <3>2, Shape DEF Residual, Owed, Layers
      <4>2. hidden' = Add(hidden, pending)
        BY <1>4, <3>2 DEF Norm1
      <4>3. (layer - 1) + 1 = layer
        BY <2>1
      <4> QED
        BY <2>1, <4>1, <4>2, <4>3, AddMlp
    <3> QED
      BY <3>1, <3>2
  <2>3. TypeOK'
    BY <1>0, <2>1, <2>2, StreamType DEF TypeOK
  <2>4. Residual' /\ EagerInputs'
    BY <1>0, <2>1, <2>2 DEF Residual, EagerInputs
  <2>5. Tapped'
    BY <1>0, <2>1 DEF Tapped, AllTaps
  <2> QED
    BY <2>3, <2>4, <2>5 DEF VInv
<1>5. CASE Attn
  <2>1. /\ pc = "attn" /\ pc' = "mlp" /\ input' = hidden'
        /\ hidden' = Add(hidden, <<"attn", layer>>)
        /\ UNCHANGED <<grid, key, consts, torn, layer, pending, features>>
        /\ layer \in Layers /\ layer \in Nat /\ pending = None
        /\ hidden = EagerStream(layer, layer)
    BY <1>0, <1>5 DEF Attn, Residual
  <2>2. hidden' = EagerStream(layer + 1, layer)
    BY <2>1, AddAttn
  <2>3. seen' \subseteq Layers /\ maxOf' \in [Layers -> MaybeGrid]
        /\ used' \subseteq MaybeGrid
    <3>1. seen' \subseteq Layers /\ maxOf' \in [Layers -> MaybeGrid]
      BY <1>0, <1>5, <2>1 DEF Attn, TypeOK
    <3> QED
      BY <1>0, <1>5, <2>1, <3>1 DEF Attn, TypeOK
  <2>4. TypeOK'
    BY <1>0, <2>1, <2>2, <2>3, StreamType DEF TypeOK
  <2>5. Residual' /\ EagerInputs'
    BY <1>0, <2>1, <2>2 DEF Residual, EagerInputs
  <2>6. Tapped'
    BY <1>0, <2>1 DEF Tapped, AllTaps
  <2> QED
    BY <2>4, <2>5, <2>6 DEF VInv
<1>6. CASE Mlp
  <2>1. /\ pc = "mlp" /\ layer' = layer + 1
        /\ pc' = IF layer + 1 < Blocks THEN "norm1" ELSE "merger"
        /\ UNCHANGED <<grid, key, consts, seen, maxOf, torn, used>>
        /\ layer \in Layers /\ layer \in Nat /\ layer + 1 \in Nat
        /\ layer + 1 <= Blocks /\ Blocks \in Nat
        /\ hidden = EagerStream(layer + 1, layer)
        /\ \A l \in Deepstack : l \in DOMAIN features <=> l < layer
        /\ Deepstack \subseteq Nat /\ DOMAIN features \subseteq Deepstack
    BY <1>0, <1>6, Shape DEF Mlp, cached, Residual, Tapped, Layers, TypeOK
  <2>2. <<"mlp", layer>> \in Terms /\ <<"mlp", layer>> # None
    BY <2>1 DEF Terms, None
  <2>3. CASE layer \in Deepstack
    <3>1. /\ pending' = None /\ hidden' = Add(hidden, <<"mlp", layer>>)
          /\ input' = hidden'
          /\ features' = [l \in DOMAIN features \cup {layer} |->
                            IF l = layer THEN hidden' ELSE features[l]]
      BY <1>6, <2>3 DEF Mlp, Taps, Defers
    <3>2. hidden' = EagerStream(layer + 1, layer + 1)
      BY <2>1, <3>1, AddMlp
    <3>3. /\ \A l \in Deepstack : l \in DOMAIN features' <=> l < layer + 1
          /\ DOMAIN features' \subseteq Deepstack
      <4>1. DOMAIN features' = DOMAIN features \cup {layer}
        BY <3>1
      <4> QED
        BY <2>1, <2>3, <4>1
    <3>4. \A l \in DOMAIN features' : features'[l] = EagerStream(l + 1, l + 1)
      BY <1>0, <3>1, <3>2 DEF EagerInputs
    <3>5. TypeOK'
      BY <1>0, <2>1, <3>1, <3>2, <3>3, <3>4, StreamType DEF TypeOK
    <3>6. Residual' /\ EagerInputs'
      BY <1>0, <2>1, <3>1, <3>2, <3>4 DEF Residual, Owed, EagerInputs, Layers
    <3>7. Tapped'
      BY <2>1, <3>3 DEF Tapped, AllTaps
    <3> QED
      BY <3>5, <3>6, <3>7 DEF VInv
  <2>4. CASE layer \notin Deepstack
    <3>1. pending' = <<"mlp", layer>> /\ UNCHANGED <<hidden, features, input>>
      BY <1>6, <2>4 DEF Mlp, Taps, Defers
    <3>2. \A l \in Deepstack : l \in DOMAIN features' <=> l < layer + 1
      <4> TAKE l \in Deepstack
      <4>1. l \in Nat /\ l # layer
        BY <2>1, <2>4
      <4> QED
        BY <2>1, <3>1, <4>1
    <3>3. TypeOK'
      BY <1>0, <2>1, <2>2, <3>1 DEF TypeOK
    <3>4. Residual' /\ EagerInputs'
      BY <1>0, <2>1, <2>2, <3>1 DEF Residual, Owed, EagerInputs, Layers
    <3>5. Tapped'
      BY <2>1, <3>2 DEF Tapped, AllTaps
    <3> QED
      BY <3>3, <3>4, <3>5 DEF VInv
  <2> QED
    BY <2>3, <2>4
<1>7. CASE Merger
  <2>1. /\ pc = "merger" /\ pc' = "returned" /\ pending' = None
        /\ input' = hidden' /\ layer = Blocks /\ Blocks \in Nat
        /\ UNCHANGED <<grid, key, consts, seen, maxOf, torn, layer, features,
                       used>>
    BY <1>0, <1>7, Shape DEF Merger, cached, Residual
  <2>2. hidden' = EagerStream(Blocks, Blocks)
    <3>1. CASE pending = None
      BY <1>0, <1>7, <2>1, <3>1 DEF Merger, Residual, Owed
    <3>2. CASE pending # None
      <4>1. /\ Blocks - 1 \in Layers /\ pending = <<"mlp", Blocks - 1>>
            /\ hidden = EagerStream(Blocks, Blocks - 1)
            /\ (Blocks - 1) + 1 = Blocks
        BY <1>0, <2>1, <3>2, Shape DEF Residual, Owed, Layers
      <4>2. hidden' = Add(hidden, pending)
        BY <1>7, <3>2 DEF Merger
      <4> QED
        BY <2>1, <4>1, <4>2, AddMlp
    <3> QED
      BY <3>1, <3>2
  <2>3. TypeOK'
    BY <1>0, <2>1, <2>2, StreamType DEF TypeOK
  <2>4. Residual' /\ EagerInputs'
    BY <1>0, <2>1, <2>2 DEF Residual, EagerInputs
  <2>5. DOMAIN features = Deepstack
    <3>1. /\ \A l \in Deepstack : l \in DOMAIN features <=> l < Blocks
          /\ DOMAIN features \subseteq Deepstack
      BY <1>0, <2>1 DEF Tapped, TypeOK
    <3>2. \A l \in Deepstack : l < Blocks
      BY Shape
    <3> QED
      BY <3>1, <3>2
  <2>6. Tapped'
    BY <2>1, <2>5 DEF Tapped, AllTaps
  <2> QED
    BY <2>3, <2>4, <2>6 DEF VInv
<1>8. CASE UNCHANGED vars
  BY <1>0, <1>8 DEF vars, cached, VInv, TypeOK, Residual, Owed, Tapped, AllTaps,
                    EagerInputs
<1> QED
  BY <1>1, <1>2, <1>3, <1>4, <1>5, <1>6, <1>7, <1>8 DEF Next

(* The encoder's state keeps its type. *)
THEOREM EncoderTypeCorrect == Spec => []TypeOK
<1>1. VInv => TypeOK
  BY DEF VInv
<1> QED
  BY <1>1, VInvInit, VInvStep, PTL DEF Spec

(* The fused encoder normalises, taps and merges the sums the unfused one   *)
(* would, for any number of blocks and any taps (integrate.py:565-609).     *)
THEOREM FusedResiduals == Spec => [](EagerInputs /\ AllTaps)
<1>1. VInv => EagerInputs /\ AllTaps
  BY DEF VInv, Tapped
<1> QED
  BY <1>1, VInvInit, VInvStep, PTL DEF Spec

(* In particular every deepstack merger is fed, and with the sum of the     *)
(* blocks up to its own (integrate.py:597-605).                             *)
THEOREM TapsFed == Spec => []AllTaps
<1>1. EagerInputs /\ AllTaps => AllTaps
  OBVIOUS
<1> QED
  BY <1>1, FusedResiduals, PTL

-----------------------------------------------------------------------------
(* The caches.                                                              *)

Keyed == torn \/ /\ key = consts
                 /\ \A l \in seen : maxOf[l] = consts
                 /\ pc \in {"norm1", "attn", "mlp", "merger"} => key = grid
                 /\ pc = "consts" => used = {}
                 /\ used \subseteq {grid}

(* Unless the two assignments to a cache were torn apart, its key tells the *)
(* truth; filling it for another grid mends it.                            *)
LEMMA KeyedStep == TypeOK /\ Residual /\ Keyed /\ [Next]_vars => Keyed'
<1> SUFFICES ASSUME TypeOK, Residual, Keyed, [Next]_vars
             PROVE  Keyed'
  OBVIOUS
<1>1. ASSUME NEW g \in Grids, Call(g) PROVE Keyed'
  BY <1>1 DEF Call, cached, Keyed
<1>2. CASE Consts
  BY <1>2 DEF Consts, Stale, Keyed
<1>3. CASE ConstsRaise \/ AttnRaises
  BY <1>3 DEF ConstsRaise, AttnRaises, Keyed
<1>4. CASE Attn /\ ~torn
  <2>1. maxOf \in [Layers -> MaybeGrid] /\ layer \in Layers
    BY <1>4 DEF Attn, TypeOK, Residual
  <2>2. maxOf'[layer] = consts /\ \A l \in seen' : maxOf'[l] = consts
    <3>1. CASE layer \in seen
      BY <1>4, <3>1 DEF Attn, Seen, Keyed
    <3>2. CASE layer \notin seen
      <4>1. seen' = seen \cup {layer} /\ maxOf' = [maxOf EXCEPT ![layer] = consts]
        BY <1>4, <3>2 DEF Attn, Seen
      <4>2. \A l \in Layers : maxOf'[l] = IF l = layer THEN consts ELSE maxOf[l]
        BY <2>1, <4>1
      <4> QED
        BY <1>4, <2>1, <4>1, <4>2 DEF Keyed, TypeOK
    <3> QED
      BY <3>1, <3>2
  <2> QED
    BY <1>4, <2>2 DEF Attn, Keyed
<1>5. CASE (Attn /\ torn) \/ Norm1 \/ Mlp \/ Merger \/ Raise
  BY <1>5 DEF Attn, Norm1, Mlp, Merger, Raise, cached, Keyed
<1>6. CASE UNCHANGED vars
  BY <1>6 DEF vars, cached, Keyed
<1> QED
  BY <1>1, <1>2, <1>3, <1>4, <1>5, <1>6 DEF Next

(* Every call uses the constants of its own grid, until filling a cache     *)
(* raises half-way and again from the next grid on (integrate.py:446-450,   *)
(* 543-564).                                                               *)
THEOREM ConstsCorrect == Spec => []ConstsOfGrid
<1>1. Init => Keyed
  BY DEF Init, Keyed
<1>2. VInv => TypeOK /\ Residual
  BY DEF VInv
<1>3. VInv /\ Keyed /\ [Next]_vars => Keyed'
  BY <1>2, KeyedStep
<1>4. Keyed => ConstsOfGrid
  BY DEF Keyed, ConstsOfGrid
<1> QED
  BY <1>1, <1>3, <1>4, VInvInit, VInvStep, PTL DEF Spec
=============================================================================
