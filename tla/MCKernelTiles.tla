---------------------------- MODULE MCKernelTiles ----------------------------
(* Launches of KernelTiles for TLC, small ones with uneven edges.           *)
EXTENDS KernelTiles

Shape(kernel, heads, M, N, K, BM, BN, BK, GROUP) ==
    [kernel |-> kernel, heads |-> heads, M |-> M, N |-> N, K |-> K,
     BM |-> BM, BN |-> BN, BK |-> BK, GROUP |-> GROUP]

(* Five rows of tiles in groups of 1 to 5 and in one too large: the last    *)
(* group has one row, two or all of them.                                   *)
Groupings == {Shape("linear", 1, 9, 3, 5, 2, 2, 2, g) : g \in {1, 2, 3, 4, 5, 32}}

AllLaunches ==
    Groupings
      \cup {Shape("linear", 1, 2, 4, 1, 4, 2, 4, 2),
            Shape("gate", 1, 5, 5, 3, 2, 2, 2, 1),
            Shape("gate", 1, 4, 2, 4, 2, 2, 2, 1),
            Shape("rmsnorm", 1, 4, 3, 3, 1, 4, 4, 1),
            Shape("rmsnorm", 1, 3, 4, 4, 1, 4, 4, 1),
            Shape("layernorm", 1, 4, 3, 3, 1, 4, 4, 1),
            Shape("layernorm", 1, 3, 4, 4, 1, 4, 4, 1),
            Shape("rope", 3, 3, 6, 1, 4, 8, 1, 1),
            Shape("rope", 2, 2, 2, 1, 2, 2, 1, 1)}
=============================================================================
