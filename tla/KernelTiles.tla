----------------------------- MODULE KernelTiles -----------------------------
(***************************************************************************)
(* One launch of a Triton kernel of umic/kernels: a grid of programs which  *)
(* the GPU runs in any order, each storing one tile of the output.  Blocks  *)
(* are larger than what is left at an edge and masks cut them off; behind   *)
(* the end of a row lies the next one, so that a lane too many reads or     *)
(* writes another row.                                                     *)
(*                                                                         *)
(* A program reads the inputs only and no input is an output, so running    *)
(* one is one step.  Numbers are abstracted to which elements of the inputs *)
(* were multiplied and added up: a sum is a set of <<how, a, b>>, the       *)
(* element at the address a of x times that at b of the other operand.      *)
(***************************************************************************)
EXTENDS Integers

(* "linear", "gate": x[M, K] @ w[K, N], the first with its tiles numbered   *)
(* in groups, the second (two such products, which load alike) with a       *)
(* two-dimensional grid; "rmsnorm", "layernorm": M rows of N columns, whose *)
(* variance is the sum; "rope": M positions of heads rows each.             *)
CONSTANT Launches

Size == Nat \ {0}
Launch == [kernel : {"linear", "gate", "rmsnorm", "layernorm", "rope"}, heads : Size,
           M : Size, N : Size, K : Size,
           BM : Size, BN : Size, BK : Size, GROUP : Size]

(* The kernels whose programs are tiles of blocks, with a loop over K. *)
Product(l) == l.kernel \in {"linear", "gate"}

(* Without a loop over columns one block holds a whole row                  *)
(* (next_power_of_2); a head dimension is even.                             *)
ASSUME LaunchesType ==
    /\ Launches \subseteq Launch
    /\ \A l \in Launches :
          /\ l.kernel # "rope" => l.heads = 1
          /\ ~Product(l) => l.N <= l.BN /\ l.heads <= l.BM
          /\ l.kernel = "rope" => l.N % 2 = 0

VARIABLES launch,
          ran,  \* the programs that have run
          mem   \* what was stored, by address: by whom, and the sum of what

vars == <<launch, ran, mem>>

Cdiv(a, b) == (a + b - 1) \div b

TilesM(l) == Cdiv(l.M, l.BM)
TilesN(l) == Cdiv(l.N, l.BN)

(* Program ids: tl.program_id(0) and (1). *)
Programs(l) ==
    CASE l.kernel = "linear" -> (0 .. TilesM(l) * TilesN(l) - 1) \X {0}
      [] l.kernel = "gate" -> (0 .. TilesM(l) - 1) \X (0 .. TilesN(l) - 1)
      [] OTHER -> (0 .. l.M - 1) \X {0}

(* Mutation: a group always has all its rows. *)
GroupSizeFull(l, first) == l.GROUP

GroupSize(l, first) ==
    IF TilesM(l) - first < l.GROUP THEN TilesM(l) - first ELSE l.GROUP

(* The linear kernel's tile: consecutive programs go down the GROUP rows of *)
(* one column before the next column.                                      *)
Grouped(l, pid) ==
    LET inGroup == l.GROUP * TilesN(l)
        first == (pid \div inGroup) * l.GROUP
        size == GroupSize(l, first)
    IN <<first + ((pid % inGroup) % size), (pid % inGroup) \div size>>

Tile(l, p) == IF l.kernel = "linear" THEN Grouped(l, p[1]) ELSE p

FirstRow(l, p) == IF Product(l) THEN Tile(l, p)[1] * l.BM ELSE p[1] * l.heads
FirstColumn(l, p) == IF Product(l) THEN Tile(l, p)[2] * l.BN ELSE 0

(* Mutation: the rows are not masked. *)
RowsOfAll(l, p) == FirstRow(l, p) .. FirstRow(l, p) + l.BM - 1

RowsOf(l, p) ==
    LET end == IF Product(l) THEN l.M ELSE FirstRow(l, p) + l.heads
    IN {r \in FirstRow(l, p) .. FirstRow(l, p) + l.BM - 1 : r < end}

(* Mutation: the columns are not masked. *)
ColumnsOfAll(l, p) == FirstColumn(l, p) .. FirstColumn(l, p) + l.BN - 1

ColumnsOf(l, p) ==
    {c \in FirstColumn(l, p) .. FirstColumn(l, p) + l.BN - 1 : c < l.N}

(* range(0, K, BLOCK_K) *)
LoopSteps(l) == 0 .. Cdiv(l.K, l.BK) - 1

(* The elements of the contraction an iteration reaches: a block of them,   *)
(* also behind K.                                                           *)
Reached(l) == {<<s, s * l.BK + k>> : s \in LoopSteps(l), k \in 0 .. l.BK - 1}

(* What a lane at the offsets c = <<offs_m, offs_n>> loads of x and of w;   *)
(* where a mask is false it loads 0, which adds nothing to the product.     *)
LoadsX(l, c, k) == c[1] < l.M /\ k < l.K
LoadsW(l, c, k) == k < l.K /\ c[2] < l.N

SumOfProduct(l, c) ==
    {<<e[1], c[1] * l.K + e[2], e[2] * l.N + c[2]>> :
       e \in {e \in Reached(l) : LoadsX(l, c, e[2]) /\ LoadsW(l, c, e[2])}}

(* A row kernel's program loads the row in one block, and 0 behind its end. *)
Nothing == -1
RowLane(l, row, k) == IF k < l.N THEN row * l.N + k ELSE Nothing

(* Mutation: a padding lane is not set to 0 and keeps 0 less the mean. *)
KeptAll(l) == 0 .. l.BN - 1

(* The lanes tl.where keeps of a LayerNorm's diff. *)
Kept(l) == {k \in 0 .. l.BN - 1 : k < l.N}

(* The lanes whose square is not 0: an RMSNorm squares what it loaded, a    *)
(* LayerNorm that less the mean, where it kept it.                          *)
Squared(l, row) ==
    IF l.kernel = "rmsnorm"
    THEN {k \in 0 .. l.BN - 1 : RowLane(l, row, k) # Nothing}
    ELSE Kept(l)

SumOfNorm(l, row) ==
    {<<0, RowLane(l, row, k), RowLane(l, row, k)>> : k \in Squared(l, row)}

Partner(D, d) == IF d < D \div 2 THEN d + D \div 2 ELSE d - D \div 2
Sign(D, d) == IF d < D \div 2 THEN -1 ELSE 1

(* The rotation of the program's position: a lane (0) times cos, and its    *)
(* partner (its sign) times sin, both tables' rows being the position's.    *)
SumOfRope(l, p, c) ==
    LET angle == p[1] * l.N + c[2]
    IN {<<0, c[1] * l.N + c[2], angle>>,
        <<Sign(l.N, c[2]), c[1] * l.N + Partner(l.N, c[2]), angle>>}

(* What program p holds for the lane at its offsets c. *)
SumAt(l, p, c) == IF Product(l) THEN SumOfProduct(l, c)
                  ELSE IF l.kernel = "rope" THEN SumOfRope(l, p, c)
                  ELSE SumOfNorm(l, p[1])

Height(l) == l.M * l.heads
Cells(l) == (0 .. Height(l) - 1) \X (0 .. l.N - 1)
At(l, c) == c[1] * l.N + c[2]

(* The lanes a program's store does not mask, the addresses they store to,  *)
(* and the lane that stores to one.                                         *)
Lanes(l, p) == RowsOf(l, p) \X ColumnsOf(l, p)
Stored(l, p) == {At(l, c) : c \in Lanes(l, p)}
LaneOf(l, p, a) == CHOOSE c \in Lanes(l, p) : At(l, c) = a

TypeOK == /\ launch \in Launches /\ ran \subseteq Programs(launch)
          /\ DOMAIN mem \subseteq 0 .. Height(launch) * launch.N - 1
          /\ \A a \in DOMAIN mem : mem[a].by \in ran

Init == launch \in Launches /\ ran = {} /\ mem = [a \in {} |-> 0]

(* One program.  The norms that add the residual first store that sum, too, *)
(* to a tensor of its own, at the same offsets and under the same mask.     *)
Run(p) ==
    /\ p \in Programs(launch) \ ran
    /\ ran' = ran \cup {p}
    /\ mem' = [a \in DOMAIN mem \cup Stored(launch, p) |->
                 IF a \notin Stored(launch, p) THEN mem[a]
                 ELSE [by |-> p,
                       of |-> SumAt(launch, p, LaneOf(launch, p, a))]]
    /\ UNCHANGED launch

Next == \E p \in Programs(launch) : Run(p)

Spec == Init /\ [][Next]_vars
-----------------------------------------------------------------------------
(* Correctness.                                                             *)

(* No two programs of a grid store to the same address: whatever order the  *)
(* GPU takes, there is no race on the output.                               *)
NoRace == [][\A a \in DOMAIN mem : mem'[a] = mem[a]]_vars

(* Once the grid has run no element of the output, which torch.empty left   *)
(* uninitialised, is missing (linear.py:47-90, fused_ffn.py:57-91,          *)
(* rmsnorm.py:40-51, rope.py:39-60).                                        *)
Covered == ran = Programs(launch) =>
             \A c \in Cells(launch) : At(launch, c) \in DOMAIN mem

(* transformers' rotate_half, cat((-x2, x1)) of the halves x1 and x2: the   *)
(* sign and the lane of what stands at d.                                   *)
RotateHalf(D, d) == IF d < D - D \div 2 THEN <<-1, D \div 2 + d>>
                                        ELSE <<1, d - (D - D \div 2)>>

(* The products of an output element: of x's row with w's column; of each   *)
(* element of the row with itself, for the variance.                        *)
Pairs(l, c) ==
    IF Product(l) THEN {<<c[1] * l.K + k, k * l.N + c[2]>> : k \in 0 .. l.K - 1}
                  ELSE {<<c[1] * l.N + k, c[1] * l.N + k>> : k \in 0 .. l.N - 1}

(* Each of them is added up, once, and nothing else is. *)
EachOnce(sum, pairs) ==
    /\ \A s \in sum : <<s[2], s[3]>> \in pairs
    /\ \A w \in pairs : \E s \in sum : <<s[2], s[3]>> = w
    /\ \A s, t \in sum : s[2] = t[2] /\ s[3] = t[3] => s = t

(* rotate_half's value times sin, and the element times cos, with the       *)
(* angles of the position.                                                  *)
Rotated(l, c) ==
    LET turned == RotateHalf(l.N, c[2])
        angle == (c[1] \div l.heads) * l.N + c[2]
    IN {<<0, c[1] * l.N + c[2], angle>>,
        <<turned[1], c[1] * l.N + turned[2], angle>>}

(* What a kernel stores is what the chain it replaces computes: a product   *)
(* of the whole row with the whole column, the variance of the row and of   *)
(* nothing else, also where a block reaches past its end, or the rotation   *)
(* by rotate_half: "bit-equivalent math" (rope.py:8).                       *)
SameSums ==
    \A c \in Cells(launch) : At(launch, c) \in DOMAIN mem =>
      LET sum == mem[At(launch, c)].of
      IN IF launch.kernel = "rope" THEN sum = Rotated(launch, c)
                                   ELSE EachOnce(sum, Pairs(launch, c))
=============================================================================
