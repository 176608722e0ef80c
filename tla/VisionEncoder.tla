--------------------------- MODULE VisionEncoder ---------------------------
(***************************************************************************)
(* The vision encoder as integrate.fuse_vision_encoder_pipeline runs it:    *)
(* constants cached per grid, every residual add folded into the norm that  *)
(* follows it, some of them only in the next block, and the packed          *)
(* attention of each block with its own cached maximal sequence length.     *)
(*                                                                         *)
(* A residual stream is a function that counts how often each block output  *)
(* was added to it; what the tensors hold is left out.                     *)
(***************************************************************************)
EXTENDS Integers

CONSTANTS
  Blocks,      \* number of blocks
  Deepstack,   \* deepstack_visual_indexes, as a set of 0 .. Blocks - 1
  Grids, NoGrid,
  RaisesAt     \* where a forward may raise: "consts", "attn", "mlp"

ASSUME Shape == /\ Blocks \in Nat \ {0} /\ Deepstack \subseteq 0 .. Blocks - 1
                /\ NoGrid \notin Grids
                /\ RaisesAt \subseteq {"consts", "attn", "mlp"}

Layers == 0 .. Blocks - 1

(* Contributions to the stream: patches with position embeddings, then the  *)
(* output of each block's attention and MLP.                               *)
Terms == {<<"embed", 0>>} \cup ({"attn", "mlp"} \X Layers)
None == <<"none", 0>>
Streams == [Terms -> Nat]

VARIABLES
  pc,      \* next step, or "idle" (no call, or it raised), "returned"
  grid,    \* grid_thw of the current or last call
  key, consts,       \* _umic_ve_cache; consts stands for the grid of its values
  seen,              \* blocks whose cu_seqlens_ref is the tensor in consts
  maxOf,             \* the grid each block's max_seqlen was computed from
  torn,              \* history: a raise left a cache half filled, see Consts
  layer, hidden, pending,
  features,          \* what each deepstack merger got, by layer
  input,             \* the stream the last norm or merger was applied to
  used               \* grids whose constants this call used

cached == <<key, consts, seen, maxOf, torn>>
vars == <<pc, grid, cached, layer, hidden, pending, features, input, used>>

MaybeGrid == Grids \cup {NoGrid}

TypeOK ==
    /\ pc \in {"idle", "consts", "norm1", "attn", "mlp", "merger", "returned"}
    /\ grid \in MaybeGrid /\ key \in MaybeGrid /\ consts \in MaybeGrid
    /\ seen \subseteq Layers /\ maxOf \in [Layers -> MaybeGrid]
    /\ torn \in BOOLEAN
    /\ layer \in 0 .. Blocks /\ hidden \in Streams
    /\ pending \in Terms \cup {None}
    /\ DOMAIN features \subseteq Deepstack
    /\ \A l \in DOMAIN features : features[l] \in Streams
    /\ input \in Streams /\ used \subseteq MaybeGrid

Nothing == [t \in Terms |-> 0]
Add(h, t) == [h EXCEPT ![t] = @ + 1]

Init == /\ pc = "idle" /\ grid = NoGrid /\ key = NoGrid /\ consts = NoGrid
        /\ seen = {} /\ maxOf = [l \in Layers |-> NoGrid] /\ torn = FALSE
        /\ layer = 0 /\ hidden = Nothing /\ pending = None
        /\ features = [l \in {} |-> Nothing] /\ input = Nothing /\ used = {}

Call(g) ==
    /\ pc \in {"idle", "returned"} /\ pc' = "consts" /\ grid' = g
    /\ layer' = 0 /\ hidden' = Nothing /\ pending' = None
    /\ features' = [l \in {} |-> Nothing] /\ input' = Nothing /\ used' = {}
    /\ UNCHANGED cached

Stale == key # grid

(* cache["key"] is assigned first, then cache["consts"]; a copy that raises *)
(* in between leaves the new key with the old constants.  A new grid fills  *)
(* the cache again, with a cu_seqlens tensor no block has seen.             *)
Consts ==
    /\ pc = "consts" /\ pc' = "norm1"
    /\ IF Stale
       THEN key' = grid /\ consts' = grid /\ seen' = {} /\ torn' = FALSE
       ELSE UNCHANGED <<key, consts, seen, torn>>
    /\ hidden' = Add(Nothing, <<"embed", 0>>) /\ used' = {consts'}
    /\ UNCHANGED <<grid, maxOf, layer, pending, features, input>>

ConstsRaise ==
    /\ "consts" \in RaisesAt /\ pc = "consts" /\ Stale /\ pc' = "idle"
    /\ key' = grid /\ torn' = TRUE
    /\ UNCHANGED <<grid, consts, seen, maxOf, layer, hidden, pending, features,
                   input, used>>

(* The norm before attention, with the last block's MLP output if it is     *)
(* still pending.                                                          *)
Norm1 ==
    /\ pc = "norm1" /\ pc' = "attn"
    /\ hidden' = IF pending = None THEN hidden ELSE Add(hidden, pending)
    /\ pending' = None /\ input' = hidden'
    /\ UNCHANGED <<grid, cached, layer, features, used>>

(* Mutation: the attention cache is filled once. *)
SeenAny(l) == maxOf[l] # NoGrid

Seen(l) == l \in seen

(* Packed attention, then its output added in the norm before the MLP.      *)
Attn ==
    /\ pc = "attn" /\ pc' = "mlp"
    /\ IF Seen(layer) THEN UNCHANGED <<seen, maxOf>>
       ELSE /\ seen' = seen \cup {layer}
            /\ maxOf' = [maxOf EXCEPT ![layer] = consts]
    /\ used' = used \cup {maxOf'[layer]}
    /\ hidden' = Add(hidden, <<"attn", layer>>) /\ input' = hidden'
    /\ UNCHANGED <<grid, key, consts, torn, layer, pending, features>>

(* The reference is assigned, then the maximum read back from the device.   *)
AttnRaises ==
    /\ "attn" \in RaisesAt /\ pc = "attn" /\ ~Seen(layer) /\ pc' = "idle"
    /\ seen' = seen \cup {layer} /\ torn' = TRUE
    /\ UNCHANGED <<grid, key, consts, maxOf, layer, hidden, pending,
                   features, input, used>>

(* Mutation: the taps are counted from one. *)
TapsFromOne(l) == l + 1 \in Deepstack

Taps(l) == l \in Deepstack

(* Mutation: a tapped block's output stays pending as well. *)
DefersAll(l) == TRUE

Defers(l) == ~Taps(l)

(* The MLP; only a deepstack tap needs the sum at once. *)
Mlp ==
    /\ pc = "mlp"
    /\ pending' = IF Defers(layer) THEN <<"mlp", layer>> ELSE None
    /\ IF Taps(layer)
       THEN /\ hidden' = Add(hidden, <<"mlp", layer>>) /\ input' = hidden'
            /\ features' = [l \in DOMAIN features \cup {layer} |->
                              IF l = layer THEN hidden' ELSE features[l]]
       ELSE UNCHANGED <<hidden, features, input>>
    /\ layer' = layer + 1
    /\ pc' = IF layer + 1 < Blocks THEN "norm1" ELSE "merger"
    /\ UNCHANGED <<grid, cached, used>>

(* Mutation: the last block's output is dropped. *)
MergerDropsPending ==
    /\ pc = "merger" /\ pc' = "returned"
    /\ hidden' = hidden /\ input' = hidden /\ pending' = None
    /\ UNCHANGED <<grid, cached, layer, features, used>>

(* The merger, after the last pending sum: taken in its norm, or (where     *)
(* use_postshuffle_norm) in a plain add.                                   *)
Merger ==
    /\ pc = "merger" /\ pc' = "returned"
    /\ hidden' = IF pending = None THEN hidden ELSE Add(hidden, pending)
    /\ input' = hidden' /\ pending' = None
    /\ UNCHANGED <<grid, cached, layer, features, used>>

(* Another exception ends the call. *)
Raise ==
    /\ "mlp" \in RaisesAt /\ pc \notin {"idle", "returned"} /\ pc' = "idle"
    /\ UNCHANGED <<grid, cached, layer, hidden, pending, features, input, used>>

Next == \/ \E g \in Grids : Call(g)
        \/ Consts \/ ConstsRaise \/ Norm1 \/ Attn \/ AttnRaises
        \/ Mlp \/ Merger \/ Raise

Spec == Init /\ [][Next]_vars
-----------------------------------------------------------------------------
(* Correctness.                                                             *)

(* The stream of the unfused encoder after a attentions and m MLPs. *)
Summands(a, m) == {<<"embed", 0>>} \cup ({"attn"} \X (0 .. a - 1))
                                   \cup ({"mlp"} \X (0 .. m - 1))
EagerStream(a, m) == [t \in Terms |-> IF t \in Summands(a, m) THEN 1 ELSE 0]

(* Every norm, every deepstack merger and the final merger gets the sum it  *)
(* would get unfused, each block output added once: "Fuse every eligible    *)
(* residual-add", some of them a block later (integrate.py:511-535).        *)
EagerInputs ==
    /\ pc = "attn" => input = EagerStream(layer, layer)
    /\ pc = "mlp" => input = EagerStream(layer + 1, layer)
    /\ pc = "returned" => input = EagerStream(Blocks, Blocks)
    /\ \A l \in DOMAIN features : features[l] = EagerStream(l + 1, l + 1)

(* A call that returns has fed every deepstack merger. *)
AllTaps == pc = "returned" => DOMAIN features = Deepstack

(* Each call uses the constants and the maximal sequence lengths of its own *)
(* grid: "recomputed only when `grid_thw`'s *value* changes (keyed by its   *)
(* flattened tuple, not "assumed constant forever")" (integrate.py:517-519) *)
(* and "a genuinely different `cu_seqlens` tensor (a different image grid)  *)
(* recomputes it exactly once" (integrate.py:433-434).  What an exception   *)
(* between the two assignments leaves behind is gone with the next grid.    *)
ConstsOfGrid == torn \/ used \subseteq {grid}
=============================================================================
