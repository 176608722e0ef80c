-------------------------- MODULE KernelTilesProofs --------------------------
(* Theorems about KernelTiles, for launches of every size.                  *)
EXTENDS KernelTiles, TLAPS

(* A factor bounds a product. *)
LEMMA Monotonic ==
  ASSUME NEW a \in Int, NEW b \in Int, NEW n \in Nat, a <= b
  PROVE  a * n <= b * n
<1>1. (b - a) * n >= 0
  OBVIOUS
<1>2. (b - a) * n = b * n - a * n
  OBVIOUS
<1>3. a * n \in Int /\ b * n \in Int
  OBVIOUS
<1> QED
  BY <1>1, <1>2, <1>3

(* Quotient and remainder. *)
LEMMA DivMod ==
  ASSUME NEW k \in Nat, NEW b \in Size
  PROVE  /\ k \div b \in Nat /\ k % b \in 0 .. b - 1
         /\ k = (k \div b) * b + (k % b)
  BY DEF Size

(* They are unique: two positions in a memory of rows of b elements differ  *)
(* if their rows or their columns do.                                       *)
LEMMA Digits ==
  ASSUME NEW b \in Size, NEW q \in Int, NEW r \in 0 .. b - 1,
         NEW s \in Int, NEW t \in 0 .. b - 1, q * b + r = s * b + t
  PROVE  q = s /\ r = t
<1>0. b \in Nat /\ b > 0 /\ q * b \in Int /\ s * b \in Int /\ r \in Int /\ t \in Int
  BY DEF Size
<1>1. ~ (q < s)
  <2>1. SUFFICES ASSUME q + 1 <= s PROVE FALSE
    BY <1>0
  <2>2. (q + 1) * b <= s * b
    BY <1>0, <2>1, Monotonic
  <2>3. (q + 1) * b = q * b + b
    BY <1>0
  <2> QED
    BY <1>0, <2>2, <2>3
<1>2. ~ (s < q)
  <2>1. SUFFICES ASSUME s + 1 <= q PROVE FALSE
    BY <1>0
  <2>2. (s + 1) * b <= q * b
    BY <1>0, <2>1, Monotonic
  <2>3. (s + 1) * b = s * b + b
    BY <1>0
  <2> QED
    BY <1>0, <2>2, <2>3
<1> QED
  BY <1>0, <1>1, <1>2

(* The division of a number written with its digits. *)
LEMMA DivOfDigits ==
  ASSUME NEW b \in Size, NEW q \in Nat, NEW r \in 0 .. b - 1,
         NEW k \in Nat, k = q * b + r
  PROVE  k \div b = q /\ k % b = r
<1>1. /\ k \div b \in Nat /\ k % b \in 0 .. b - 1
      /\ (k \div b) * b + (k % b) = q * b + r
  BY DivMod
<1> QED
  BY <1>1, Digits

(* triton.cdiv(a, b) blocks of b cover a elements, and none is empty. *)
LEMMA CdivCovers ==
  ASSUME NEW a \in Size, NEW b \in Size
  PROVE  /\ Cdiv(a, b) \in Size
         /\ \A k \in 0 .. a - 1 : k \div b \in 0 .. Cdiv(a, b) - 1
<1>0. a \in Nat /\ b \in Nat /\ a >= 1 /\ b >= 1 /\ a + b - 1 \in Nat
  BY DEF Size
<1> DEFINE c == Cdiv(a, b)
<1>1. c \in Nat /\ (a + b - 1) % b \in 0 .. b - 1
      /\ a + b - 1 = c * b + ((a + b - 1) % b)
  BY <1>0, DivMod DEF Cdiv
<1>2. c * b >= a /\ c * b \in Nat
  BY <1>0, <1>1
<1>3. c \in Size
  BY <1>0, <1>1, <1>2 DEF Size
<1> HIDE DEF c
<1>4. ASSUME NEW k \in 0 .. a - 1 PROVE k \div b \in 0 .. c - 1
  <2>0. k \in Nat
    OBVIOUS
  <2>3. /\ k \div b \in Nat /\ k % b \in 0 .. b - 1
        /\ k = (k \div b) * b + (k % b)
    BY <2>0, DivMod
  <2>1. (k \div b) * b \in Int /\ k \div b \in Nat
    BY <1>0, <2>3
  <2>2. (k \div b) * b < c * b
    BY <1>0, <1>2, <2>0, <2>1, <2>3
  <2>4. ~ (c <= k \div b)
    BY <1>0, <1>1, <2>1, <2>2, Monotonic
  <2> QED
    BY <1>1, <2>1, <2>4
<1> QED
  BY <1>3, <1>4 DEF c

-----------------------------------------------------------------------------
(* The numbering of the tiles of the linear kernel.                         *)

(* The program of a tile: the rows of tiles above its group, the columns to *)
(* its left in the group, the tiles above it in the column.                 *)
Number(l, t) ==
    LET first == (t[1] \div l.GROUP) * l.GROUP
    IN first * TilesN(l) + (t[2] * GroupSize(l, first) + (t[1] - first))

(* A product's tiles are counted by positive numbers. *)
LEMMA TileCounts ==
  ASSUME NEW l \in Launch
  PROVE  /\ TilesM(l) \in Size /\ TilesN(l) \in Size /\ l.GROUP \in Size
         /\ l.GROUP * TilesN(l) \in Size /\ TilesM(l) * TilesN(l) \in Size
<1>1. TilesM(l) \in Size /\ TilesN(l) \in Size /\ l.GROUP \in Size
  BY CdivCovers DEF Launch, TilesM, TilesN
<1>2. \A x, y \in Size : x * y \in Size
  BY DEF Size
<1> QED
  BY <1>1, <1>2

(* Every program has a tile of the output, and it is that tile's program.   *)
LEMMA TileOfProgram ==
  ASSUME NEW l \in Launch, NEW pid \in 0 .. TilesM(l) * TilesN(l) - 1
  PROVE  /\ Grouped(l, pid) \in (0 .. TilesM(l) - 1) \X (0 .. TilesN(l) - 1)
         /\ Number(l, Grouped(l, pid)) = pid
<1> DEFINE m == TilesM(l)  n == TilesN(l)  G == l.GROUP
           g == pid \div (G * n)  first == g * G  size == GroupSize(l, first)
           r == pid % (G * n)
<1>1. m \in Size /\ n \in Size /\ G \in Size /\ G * n \in Size /\ pid \in Nat
      /\ pid < m * n
  BY TileCounts DEF Size
<1> HIDE DEF m, n, G
<1>2. g \in Nat /\ r \in 0 .. G * n - 1 /\ pid = g * (G * n) + r
  BY <1>1, DivMod
<1> HIDE DEF g, r
<1>3. /\ first \in Nat /\ first * n \in Nat /\ m * n \in Nat /\ m \in Nat
      /\ G \in Nat /\ G >= 1 /\ n \in Nat /\ r \in Nat /\ g * (G * n) = first * n
  BY <1>1, <1>2 DEF Size
<1> HIDE DEF first
<1>4. pid = first * n + r
  BY <1>2, <1>3
<1>5. first < m
  BY <1>1, <1>3, <1>4, Monotonic
<1>6. size = IF m - first < G THEN m - first ELSE G
  BY DEF GroupSize, m, G
<1>7. size \in Size /\ size <= G /\ first + size <= m
  BY <1>3, <1>5, <1>6 DEF Size
<1> HIDE DEF size
<1>8. r < size * n
  <2>1. CASE size = G
    BY <1>2, <1>3, <2>1
  <2>2. CASE size = m - first
    <3>1. (m - first) * n = m * n - first * n
      BY <1>3
    <3> QED
      BY <1>1, <1>3, <1>4, <2>2, <3>1
  <2> QED
    BY <1>6, <2>1, <2>2
<1>9. /\ r \div size \in Nat /\ r % size \in 0 .. size - 1
      /\ r = (r \div size) * size + (r % size)
  BY <1>3, <1>7, DivMod
<1>10. r \div size < n
  <2>1. size \in Nat /\ size * n = n * size /\ n * size \in Nat
        /\ (r \div size) * size \in Nat /\ (r \div size) * size <= r
    BY <1>3, <1>7, <1>9 DEF Size
  <2>2. ~ (n <= r \div size)
    BY <1>3, <1>8, <1>9, <2>1, Monotonic
  <2> QED
    BY <1>3, <1>9, <2>2
<1>11. Grouped(l, pid) = <<first + (r % size), r \div size>>
  BY DEF Grouped, m, n, G, g, first, size, r
<1>12. (first + (r % size)) \div G = g
  <2>1. r % size \in 0 .. G - 1 /\ first + (r % size) \in Nat
    BY <1>3, <1>7, <1>9 DEF Size
  <2> QED
    BY <1>1, <1>2, <2>1, DivOfDigits DEF first
<1>13. Number(l, Grouped(l, pid)) = pid
  <2> DEFINE t == <<first + (r % size), r \div size>>
  <2>3. /\ t[1] \div G = g /\ t[2] = r \div size /\ t[1] = first + (r % size)
        /\ Grouped(l, pid) = t
    BY <1>11, <1>12
  <2> HIDE DEF t
  <2>4. t[1] - first = r % size
    BY <1>3, <1>9, <2>3
  <2>5. (t[1] \div l.GROUP) * l.GROUP = first
    BY <2>3 DEF G, first
  <2>6. Number(l, t) = first * n + (t[2] * size + (t[1] - first))
    BY <2>5, Zenon DEF Number, n, size
  <2>7. Number(l, t) = first * n + ((r \div size) * size + (r % size))
    BY <2>3, <2>4, <2>6
  <2> QED
    BY <1>4, <1>9, <2>3, <2>7
<1> QED
  BY <1>3, <1>7, <1>9, <1>10, <1>11, <1>13 DEF m, n, Size

(* Every tile has a program, also in a last group with fewer rows. *)
LEMMA ProgramOfTile ==
  ASSUME NEW l \in Launch, NEW t \in (0 .. TilesM(l) - 1) \X (0 .. TilesN(l) - 1)
  PROVE  /\ Number(l, t) \in 0 .. TilesM(l) * TilesN(l) - 1
         /\ Grouped(l, Number(l, t)) = t
<1> DEFINE m == TilesM(l)  n == TilesN(l)  G == l.GROUP
           g == t[1] \div G  first == g * G  size == GroupSize(l, first)
           o == t[1] - first  r == t[2] * size + o
<1>1. m \in Size /\ n \in Size /\ G \in Size /\ G * n \in Size
      /\ t[1] \in Nat /\ t[1] < m /\ t[2] \in Nat /\ t[2] < n
      /\ m \in Nat /\ n \in Nat /\ G \in Nat /\ G >= 1
  BY TileCounts DEF Size
<1> HIDE DEF m, n, G
<1>2. g \in Nat /\ t[1] % G \in 0 .. G - 1 /\ t[1] = g * G + (t[1] % G)
  BY <1>1, DivMod
<1> HIDE DEF g
<1>3. first \in Nat /\ o \in 0 .. G - 1 /\ o \in Nat /\ first + o = t[1]
      /\ first * n \in Nat /\ first * n = g * (G * n)
  BY <1>1, <1>2
<1> HIDE DEF first, o
<1>4. size = IF m - first < G THEN m - first ELSE G
  BY DEF GroupSize, m, G
<1>5. size \in Size /\ size \in Nat /\ size <= G /\ o < size /\ first + size <= m
  BY <1>1, <1>3, <1>4 DEF Size
<1> HIDE DEF size
<1>6. r \in Nat /\ r < n * size
  <2>1. (t[2] + 1) * size <= n * size
    BY <1>1, <1>5, Monotonic
  <2>2. (t[2] + 1) * size = t[2] * size + size /\ t[2] * size \in Nat
        /\ n * size \in Nat
    BY <1>1, <1>5
  <2> QED
    BY <1>3, <1>5, <2>1, <2>2
<1>7. r \div size = t[2] /\ r % size = o
  <2>1. /\ size \in Size /\ t[2] \in Nat /\ o \in 0 .. size - 1 /\ r \in Nat
        /\ r = t[2] * size + o
    BY <1>1, <1>3, <1>5, <1>6
  <2> HIDE DEF r
  <2> QED
    BY <2>1, DivOfDigits
<1> HIDE DEF r
<1>8. n * size <= G * n /\ n * size \in Nat /\ G * n \in Nat
  <2>1. size * n <= G * n
    BY <1>1, <1>5, Monotonic
  <2> QED
    BY <1>1, <1>5, <2>1
<1>9. Number(l, t) = first * n + r
  BY DEF Number, n, G, g, first, size, o, r
<1>10. Number(l, t) \div (G * n) = g /\ Number(l, t) % (G * n) = r
  <2> DEFINE b == G * n
  <2>1. b \in Size /\ g \in Nat /\ r \in 0 .. b - 1
    BY <1>1, <1>2, <1>6, <1>8
  <2>2. Number(l, t) \in Nat /\ Number(l, t) = g * b + r
    BY <1>3, <1>6, <1>9
  <2> HIDE DEF b
  <2>3. Number(l, t) \div b = g /\ Number(l, t) % b = r
    BY <2>1, <2>2, DivOfDigits
  <2> QED
    BY <2>3 DEF b
<1>11. Grouped(l, Number(l, t)) = <<first + (r % size), r \div size>>
  BY <1>10 DEF Grouped, n, G, first, size
<1>12. Grouped(l, Number(l, t)) = t
  BY <1>3, <1>7, <1>11
<1>13. Number(l, t) \in 0 .. m * n - 1
  <2>1. (first + size) * n <= m * n
    BY <1>1, <1>3, <1>5, Monotonic
  <2>2. (first + size) * n = first * n + n * size /\ m * n \in Nat
    BY <1>1, <1>3, <1>5
  <2> QED
    BY <1>3, <1>6, <1>8, <1>9, <2>1, <2>2
<1> QED
  BY <1>12, <1>13 DEF m, n

-----------------------------------------------------------------------------
(* The tiles of a grid partition the output.                                *)

(* A program of a product has a tile, two programs have different ones.     *)
LEMMA TileRange ==
  ASSUME NEW l \in Launch, Product(l), NEW p \in Programs(l)
  PROVE  Tile(l, p) \in (0 .. TilesM(l) - 1) \X (0 .. TilesN(l) - 1)
<1>1. CASE l.kernel = "linear"
  BY <1>1, TileOfProgram DEF Programs, Tile
<1>2. CASE l.kernel = "gate"
  BY <1>2 DEF Programs, Tile
<1> QED
  BY <1>1, <1>2 DEF Product

LEMMA TileOnce ==
  ASSUME NEW l \in Launch, Product(l), NEW p \in Programs(l), NEW q \in Programs(l),
         Tile(l, p) = Tile(l, q)
  PROVE  p = q
<1>1. CASE l.kernel = "linear"
  <2>1. /\ p[1] \in 0 .. TilesM(l) * TilesN(l) - 1 /\ p = <<p[1], 0>>
        /\ q[1] \in 0 .. TilesM(l) * TilesN(l) - 1 /\ q = <<q[1], 0>>
    BY <1>1 DEF Programs
  <2>2. Grouped(l, p[1]) = Grouped(l, q[1])
    BY <1>1 DEF Tile
  <2>3. /\ Number(l, Grouped(l, p[1])) = p[1]
        /\ Number(l, Grouped(l, q[1])) = q[1]
    BY <2>1, TileOfProgram
  <2> QED
    BY <2>1, <2>2, <2>3
<1>2. CASE l.kernel = "gate"
  BY <1>2 DEF Tile
<1> QED
  BY <1>1, <1>2 DEF Product

LEMMA TileExists ==
  ASSUME NEW l \in Launch, Product(l),
         NEW t \in (0 .. TilesM(l) - 1) \X (0 .. TilesN(l) - 1)
  PROVE  \E p \in Programs(l) : Tile(l, p) = t
<1>1. CASE l.kernel = "linear"
  <2> DEFINE p == <<Number(l, t), 0>>
  <2>1. p \in Programs(l)
    BY <1>1, ProgramOfTile DEF Programs
  <2>2. Tile(l, p) = t
    BY <1>1, ProgramOfTile DEF Tile
  <2> QED
    BY <2>1, <2>2
<1>2. CASE l.kernel = "gate"
  BY <1>2 DEF Programs, Tile
<1> QED
  BY <1>1, <1>2 DEF Product

(* The sizes of a launch. *)
LEMMA Sizes ==
  ASSUME NEW l \in Launch
  PROVE  /\ l.M \in Size /\ l.N \in Size /\ l.K \in Size /\ l.BM \in Size
         /\ l.BN \in Size /\ l.BK \in Size /\ l.heads \in Size
         /\ Height(l) \in Size /\ Height(l) * l.N \in Size
<1>1. \A x, y \in Size : x * y \in Size
  BY DEF Size
<1> QED
  BY <1>1 DEF Launch, Height

(* What a program stores lies in the output. *)
LEMMA StoredInside ==
  ASSUME NEW l \in Launches, NEW p \in Programs(l)
  PROVE  RowsOf(l, p) \subseteq 0 .. Height(l) - 1 /\ ColumnsOf(l, p) \subseteq 0 .. l.N - 1
<1>0. l \in Launch /\ (l.kernel # "rope" => l.heads = 1)
  BY LaunchesType
<1>1. /\ l.M \in Nat /\ l.N \in Nat /\ l.BM \in Nat /\ l.BN \in Nat
      /\ l.heads \in Nat /\ l.heads >= 1
  BY <1>0, Sizes DEF Size
<1>2. CASE Product(l)
  <2>1. Tile(l, p)[1] \in Nat /\ Tile(l, p)[2] \in Nat
    BY <1>0, <1>2, TileRange
  <2>2. FirstRow(l, p) \in Nat /\ FirstColumn(l, p) \in Nat
    BY <1>1, <1>2, <2>1 DEF FirstRow, FirstColumn
  <2>3. Height(l) = l.M
    BY <1>0, <1>1, <1>2 DEF Height, Product
  <2> QED
    BY <1>1, <1>2, <2>2, <2>3 DEF RowsOf, ColumnsOf
<1>3. CASE ~Product(l)
  <2>1. p[1] \in 0 .. l.M - 1
    BY <1>0, <1>3 DEF Programs, Product
  <2>2. FirstRow(l, p) = p[1] * l.heads /\ FirstColumn(l, p) = 0
    BY <1>3 DEF FirstRow, FirstColumn
  <2>3. (p[1] + 1) * l.heads <= l.M * l.heads
    BY <1>1, <2>1, Monotonic
  <2>4. (p[1] + 1) * l.heads = p[1] * l.heads + l.heads /\ p[1] * l.heads \in Nat
    BY <1>1, <2>1
  <2>5. RowsOf(l, p) \subseteq 0 .. l.M * l.heads - 1
    <3>1. ASSUME NEW r \in RowsOf(l, p) PROVE r \in Int /\ 0 <= r /\ r < l.M * l.heads
      BY <1>1, <1>3, <2>2, <2>3, <2>4 DEF RowsOf
    <3> QED
      BY <1>1, <3>1
  <2> QED
    BY <1>1, <2>2, <2>5 DEF ColumnsOf, Height
<1> QED
  BY <1>2, <1>3

(* Blocks of b numbers do not overlap. *)
LEMMA Blocks ==
  ASSUME NEW b \in Size, NEW q \in Nat, NEW k \in Nat, q * b <= k, k < q * b + b
  PROVE  k \div b = q
<1>1. b \in Nat /\ q * b \in Nat
  BY DEF Size
<1>2. k - q * b \in 0 .. b - 1 /\ k = q * b + (k - q * b)
  BY <1>1
<1> QED
  BY <1>2, DivOfDigits

(* The rows and columns of a product's program are those whose blocks are   *)
(* its tile, ...                                                            *)
LEMMA ProductTile ==
  ASSUME NEW l \in Launches, Product(l), NEW p \in Programs(l), NEW c \in Cells(l)
  PROVE  c \in RowsOf(l, p) \X ColumnsOf(l, p)
           <=> Tile(l, p) = <<c[1] \div l.BM, c[2] \div l.BN>>
<1>0. l \in Launch /\ l.heads = 1
  BY LaunchesType DEF Product
<1> DEFINE t == Tile(l, p)
<1>1. t \in Nat \X Nat /\ FirstRow(l, p) = t[1] * l.BM /\ FirstColumn(l, p) = t[2] * l.BN
  BY <1>0, TileRange, Sizes DEF FirstRow, FirstColumn, Size
<1> HIDE DEF t
<1>2. /\ l.BM \in Size /\ l.BN \in Size /\ l.BM \in Nat /\ l.BN \in Nat
      /\ l.M \in Nat /\ l.N \in Nat /\ Height(l) = l.M
  BY <1>0, Sizes DEF Size, Height
<1>3. /\ c[1] \in Nat /\ c[1] < l.M /\ c[2] \in Nat /\ c[2] < l.N /\ c = <<c[1], c[2]>>
  BY <1>2 DEF Cells
<1>4. t[1] * l.BM \in Nat /\ t[2] * l.BN \in Nat
  BY <1>1, <1>2
<1>5. c[1] \in RowsOf(l, p) <=> t[1] * l.BM <= c[1] /\ c[1] < t[1] * l.BM + l.BM
  BY <1>1, <1>2, <1>3, <1>4 DEF RowsOf
<1>6. c[2] \in ColumnsOf(l, p) <=> t[2] * l.BN <= c[2] /\ c[2] < t[2] * l.BN + l.BN
  BY <1>1, <1>2, <1>3, <1>4 DEF ColumnsOf
<1>7. c[1] \in RowsOf(l, p) <=> c[1] \div l.BM = t[1]
  <2>1. c[1] \in RowsOf(l, p) => c[1] \div l.BM = t[1]
    BY <1>1, <1>2, <1>3, <1>5, Blocks
  <2>2. c[1] = (c[1] \div l.BM) * l.BM + (c[1] % l.BM) /\ c[1] % l.BM \in 0 .. l.BM - 1
    BY <1>2, <1>3, DivMod
  <2> QED
    BY <1>2, <1>4, <1>5, <2>1, <2>2
<1>8. c[2] \in ColumnsOf(l, p) <=> c[2] \div l.BN = t[2]
  <2>1. c[2] \in ColumnsOf(l, p) => c[2] \div l.BN = t[2]
    BY <1>1, <1>2, <1>3, <1>6, Blocks
  <2>2. c[2] = (c[2] \div l.BN) * l.BN + (c[2] % l.BN) /\ c[2] % l.BN \in 0 .. l.BN - 1
    BY <1>2, <1>3, DivMod
  <2> QED
    BY <1>2, <1>4, <1>6, <2>1, <2>2
<1>9. t = <<t[1], t[2]>>
  BY <1>1
<1>10. c \in RowsOf(l, p) \X ColumnsOf(l, p) <=> c[1] \in RowsOf(l, p) /\ c[2] \in ColumnsOf(l, p)
  BY <1>3
<1> QED
  BY <1>7, <1>8, <1>9, <1>10 DEF t

(* ... those of another program are its rows, whole. *)
LEMMA RowTile ==
  ASSUME NEW l \in Launches, ~Product(l), NEW p \in Programs(l), NEW c \in Cells(l)
  PROVE  c \in RowsOf(l, p) \X ColumnsOf(l, p) <=> p = <<c[1] \div l.heads, 0>>
<1>0. l \in Launch /\ l.N <= l.BN /\ l.heads <= l.BM
  BY LaunchesType DEF Launch, Product
<1>1. p[1] \in Nat /\ p = <<p[1], 0>>
  BY DEF Programs, Product
<1>2. FirstRow(l, p) = p[1] * l.heads /\ FirstColumn(l, p) = 0
  BY DEF FirstRow, FirstColumn
<1>3. /\ l.heads \in Size /\ l.heads \in Nat /\ l.BM \in Nat /\ l.BN \in Nat
      /\ l.N \in Nat /\ Height(l) \in Nat
  BY <1>0, Sizes DEF Size
<1>4. c[1] \in Nat /\ c[2] \in Nat /\ c[2] < l.N /\ c = <<c[1], c[2]>>
  BY <1>3 DEF Cells
<1>5. p[1] * l.heads \in Nat
  BY <1>1, <1>3
<1>6. c[2] \in ColumnsOf(l, p)
  BY <1>0, <1>2, <1>3, <1>4 DEF ColumnsOf
<1>7. c[1] \in RowsOf(l, p) <=> p[1] * l.heads <= c[1] /\ c[1] < p[1] * l.heads + l.heads
  BY <1>0, <1>2, <1>3, <1>4, <1>5 DEF RowsOf
<1>8. c[1] \in RowsOf(l, p) => c[1] \div l.heads = p[1]
  BY <1>1, <1>3, <1>4, <1>7, Blocks
<1>9. c[1] \div l.heads = p[1] => c[1] \in RowsOf(l, p)
  <2>1. /\ c[1] = (c[1] \div l.heads) * l.heads + (c[1] % l.heads)
        /\ c[1] % l.heads \in 0 .. l.heads - 1
    BY <1>3, <1>4, DivMod
  <2> QED
    BY <1>3, <1>5, <1>7, <2>1
<1> QED
  BY <1>1, <1>4, <1>6, <1>8, <1>9

(* A cell of the output is stored by one program, ... *)
LEMMA CellOnce ==
  ASSUME NEW l \in Launches, NEW p \in Programs(l), NEW q \in Programs(l),
         NEW c \in RowsOf(l, p) \X ColumnsOf(l, p), c \in RowsOf(l, q) \X ColumnsOf(l, q)
  PROVE  p = q
<1>1. c \in Cells(l) /\ l \in Launch
  BY StoredInside, LaunchesType DEF Cells
<1> QED
  BY <1>1, ProductTile, RowTile, TileOnce

(* ... and by at least one. *)
LEMMA CellOwned ==
  ASSUME NEW l \in Launches, NEW c \in Cells(l)
  PROVE  \E p \in Programs(l) : c \in RowsOf(l, p) \X ColumnsOf(l, p)
<1>0. l \in Launch /\ (l.kernel # "rope" => l.heads = 1)
  BY LaunchesType
<1>1. /\ l.M \in Size /\ l.N \in Size /\ l.BM \in Size /\ l.BN \in Size
      /\ l.heads \in Size
  BY <1>0, Sizes
<1>2. CASE Product(l)
  <2>1. c[1] \in 0 .. l.M - 1 /\ c[2] \in 0 .. l.N - 1
    BY <1>0, <1>1, <1>2 DEF Cells, Height, Product, Size
  <2>2. <<c[1] \div l.BM, c[2] \div l.BN>>
          \in (0 .. TilesM(l) - 1) \X (0 .. TilesN(l) - 1)
    BY <1>1, <2>1, CdivCovers DEF TilesM, TilesN
  <2>3. PICK p \in Programs(l) : Tile(l, p) = <<c[1] \div l.BM, c[2] \div l.BN>>
    BY <1>0, <1>2, <2>2, TileExists
  <2> QED
    BY <1>2, <2>3, ProductTile
<1>3. CASE ~Product(l)
  <2> DEFINE s == c[1] \div l.heads
  <2>1. /\ c[1] \in Nat /\ c[1] < l.M * l.heads /\ l.heads \in Nat /\ l.M \in Nat
        /\ l.M * l.heads \in Nat
    BY <1>1 DEF Cells, Height, Size
  <2>2. /\ s \in Nat /\ c[1] % l.heads \in 0 .. l.heads - 1
        /\ c[1] = s * l.heads + (c[1] % l.heads)
    BY <1>1, <2>1, DivMod
  <2> HIDE DEF s
  <2>3. s * l.heads < l.M * l.heads
    BY <2>1, <2>2
  <2>4. ~ (l.M <= s)
    BY <2>1, <2>2, <2>3, Monotonic
  <2>5. <<s, 0>> \in Programs(l)
    BY <1>0, <1>3, <2>1, <2>2, <2>4 DEF Programs, Product
  <2> QED
    BY <1>3, <2>5, RowTile DEF s
<1> QED
  BY <1>2, <1>3

(* The address of a cell determines it. *)
LEMMA AddressOfCell ==
  ASSUME NEW l \in Launches, NEW c \in Cells(l)
  PROVE  /\ At(l, c) \in 0 .. Height(l) * l.N - 1
         /\ At(l, c) \div l.N = c[1] /\ At(l, c) % l.N = c[2]
<1>1. /\ l.N \in Size /\ l.N \in Nat /\ Height(l) \in Nat /\ c[1] \in Nat
      /\ c[1] + 1 <= Height(l) /\ c[2] \in 0 .. l.N - 1
  BY Sizes, LaunchesType DEF Size, Cells
<1>2. At(l, c) \in Nat /\ At(l, c) = c[1] * l.N + c[2]
  BY <1>1 DEF At
<1>3. (c[1] + 1) * l.N <= Height(l) * l.N
  BY <1>1, Monotonic
<1>4. (c[1] + 1) * l.N = c[1] * l.N + l.N /\ Height(l) * l.N \in Nat
  BY <1>1
<1>5. At(l, c) \in 0 .. Height(l) * l.N - 1
  BY <1>1, <1>2, <1>3, <1>4
<1> QED
  BY <1>1, <1>2, <1>5, DivOfDigits

-----------------------------------------------------------------------------
(* What a program adds up.                                                  *)

(* The loop of a product reaches every element of the contraction that is   *)
(* not masked, and in one iteration.                                        *)
LEMMA LoopReaches ==
  ASSUME NEW l \in Launch
  PROVE  /\ \A e \in Reached(l) : /\ e = <<e[1], e[2]>> /\ e[2] \in Nat
                                   /\ e[1] = e[2] \div l.BK
         /\ \A k \in 0 .. l.K - 1 : \E e \in Reached(l) : e[2] = k
<1>1. l.K \in Size /\ l.BK \in Size /\ l.K \in Nat /\ l.BK \in Nat
  BY Sizes DEF Size
<1>2. ASSUME NEW e \in Reached(l)
      PROVE  e = <<e[1], e[2]>> /\ e[2] \in Nat /\ e[1] = e[2] \div l.BK
  <2>1. PICK s \in LoopSteps(l), k \in 0 .. l.BK - 1 : e = <<s, s * l.BK + k>>
    BY DEF Reached
  <2>2. s \in Nat /\ k \in Nat /\ s * l.BK \in Nat /\ k < l.BK
    BY <1>1 DEF LoopSteps
  <2>3. (s * l.BK + k) \div l.BK = s
    <3> DEFINE n == s * l.BK + k
    <3>1. n \in Nat /\ s * l.BK <= n /\ n < s * l.BK + l.BK
      BY <1>1, <2>2
    <3> HIDE DEF n
    <3>2. n \div l.BK = s
      BY <1>1, <2>2, <3>1, Blocks
    <3> QED
      BY <3>2 DEF n
  <2> QED
    BY <2>1, <2>2, <2>3
<1>3. ASSUME NEW k \in 0 .. l.K - 1 PROVE \E e \in Reached(l) : e[2] = k
  <2> DEFINE s == k \div l.BK
  <2>1. s \in LoopSteps(l)
    BY <1>1, CdivCovers DEF LoopSteps
  <2>2. k \in Nat
    OBVIOUS
  <2>3. k % l.BK \in 0 .. l.BK - 1 /\ k = s * l.BK + (k % l.BK)
    BY <1>1, <2>2, DivMod
  <2> HIDE DEF s
  <2>4. <<s, s * l.BK + (k % l.BK)>> \in Reached(l)
    BY <2>1, <2>3 DEF Reached
  <2>5. <<s, k>> \in Reached(l)
    BY <2>3, <2>4
  <2> QED
    BY <2>5
<1> QED
  BY <1>2, <1>3

(* So it is the product of the whole row with the whole column. *)
LEMMA LoopExact ==
  ASSUME NEW l \in Launch, Product(l),
         NEW c \in (0 .. l.M - 1) \X (0 .. l.N - 1)
  PROVE  EachOnce(SumOfProduct(l, c), Pairs(l, c))
<1> DEFINE Inside == {e \in Reached(l) : e[2] < l.K}
           Term(e) == <<e[1], c[1] * l.K + e[2], e[2] * l.N + c[2]>>
<1>1. l.K \in Nat /\ l.N \in Nat /\ l.M \in Nat /\ c[1] \in Nat /\ c[1] * l.K \in Nat
      /\ c[1] < l.M /\ c[2] < l.N /\ c[2] \in Nat
  BY Sizes DEF Size
<1>2. SumOfProduct(l, c) = {Term(e) : e \in Inside}
  <2>1. {e \in Reached(l) : LoadsX(l, c, e[2]) /\ LoadsW(l, c, e[2])} = Inside
    BY <1>1 DEF LoadsX, LoadsW
  <2> QED
    BY <2>1 DEF SumOfProduct
<1>3. Pairs(l, c) = {<<c[1] * l.K + k, k * l.N + c[2]>> : k \in 0 .. l.K - 1}
  BY DEF Pairs
<1>4. ASSUME NEW s \in SumOfProduct(l, c) PROVE <<s[2], s[3]>> \in Pairs(l, c)
  <2>1. PICK e \in Inside : s = Term(e)
    BY <1>2
  <2>2. e[2] \in 0 .. l.K - 1
    BY <1>1, <2>1, LoopReaches
  <2>3. <<s[2], s[3]>> = <<c[1] * l.K + e[2], e[2] * l.N + c[2]>>
    BY <2>1
  <2> QED
    BY <1>3, <2>2, <2>3
<1>5. ASSUME NEW w \in Pairs(l, c)
      PROVE  \E s \in SumOfProduct(l, c) : <<s[2], s[3]>> = w
  <2>1. PICK k \in 0 .. l.K - 1 : w = <<c[1] * l.K + k, k * l.N + c[2]>>
    BY <1>3
  <2>2. PICK e \in Reached(l) : e[2] = k
    BY LoopReaches
  <2>3. e \in Inside
    BY <1>1, <2>2
  <2>4. Term(e) \in SumOfProduct(l, c)
    BY <1>2, <2>3
  <2>5. <<Term(e)[2], Term(e)[3]>> = w
    BY <2>1, <2>2
  <2> QED
    BY <2>4, <2>5
<1>6. ASSUME NEW s \in SumOfProduct(l, c), NEW t \in SumOfProduct(l, c),
             s[2] = t[2], s[3] = t[3]
      PROVE  s = t
  <2>1. PICK e \in Inside : s = Term(e)
    BY <1>2
  <2>2. PICK f \in Inside : t = Term(f)
    BY <1>2
  <2>3. c[1] * l.K + e[2] = c[1] * l.K + f[2]
    BY <1>6, <2>1, <2>2
  <2>4. e[2] \in Nat /\ f[2] \in Nat /\ e[1] = e[2] \div l.BK /\ f[1] = f[2] \div l.BK
    BY LoopReaches
  <2>5. e[2] = f[2]
    BY <1>1, <2>3, <2>4
  <2> QED
    BY <2>1, <2>2, <2>4, <2>5
<1> QED
  BY <1>4, <1>5, <1>6 DEF EachOnce

(* A norm's block holds the row, and its padding adds nothing. *)
LEMMA NormExact ==
  ASSUME NEW l \in Launch, ~Product(l), l.N <= l.BN, NEW row \in Nat,
         NEW c, c[1] = row
  PROVE  EachOnce(SumOfNorm(l, row), Pairs(l, c))
<1>1. l.N \in Nat /\ l.BN \in Nat /\ row * l.N \in Nat
  BY Sizes DEF Size
<1> DEFINE first == row * l.N
<1>2. /\ \A k \in 0 .. l.N - 1 : RowLane(l, row, k) = first + k
      /\ \A k \in 0 .. l.BN - 1 : k < l.N <=> RowLane(l, row, k) # Nothing
  BY <1>1 DEF RowLane, Nothing
<1>3. Squared(l, row) = 0 .. l.N - 1
  <2>1. {k \in 0 .. l.BN - 1 : k < l.N} = 0 .. l.N - 1
    BY <1>1
  <2>2. {k \in 0 .. l.BN - 1 : RowLane(l, row, k) # Nothing}
          = {k \in 0 .. l.BN - 1 : k < l.N}
    BY <1>2
  <2> QED
    BY <2>1, <2>2 DEF Squared, Kept
<1>4. SumOfNorm(l, row) = {<<0, first + k, first + k>> : k \in 0 .. l.N - 1}
  BY <1>2, <1>3 DEF SumOfNorm
<1>5. Pairs(l, c) = {<<first + k, first + k>> : k \in 0 .. l.N - 1}
  BY DEF Pairs
<1> HIDE DEF first
<1>6. \A s \in SumOfNorm(l, row) : <<s[2], s[3]>> \in Pairs(l, c)
  BY <1>4, <1>5
<1>7. ASSUME NEW w \in Pairs(l, c)
      PROVE  \E s \in SumOfNorm(l, row) : <<s[2], s[3]>> = w
  <2>1. PICK k \in 0 .. l.N - 1 : w = <<first + k, first + k>>
    BY <1>5
  <2>2. <<0, first + k, first + k>> \in SumOfNorm(l, row)
    BY <1>4
  <2> QED
    BY <2>1, <2>2
<1>8. \A s \in SumOfNorm(l, row) : s = <<0, s[2], s[2]>>
  BY <1>4
<1> QED
  BY <1>6, <1>7, <1>8 DEF EachOnce

(* Gathering a lane's partner is rotate_half. *)
LEMMA RopeExact ==
  ASSUME NEW D \in Size, D % 2 = 0, NEW d \in 0 .. D - 1
  PROVE  RotateHalf(D, d) = <<Sign(D, d), Partner(D, d)>>
<1> DEFINE h == D \div 2
<1>1. D \in Nat /\ 2 \in Size
  BY DEF Size
<1>2. h \in Nat /\ D = h * 2 + (D % 2)
  BY <1>1, DivMod
<1>3. D - h = h /\ h + d = d + h
  BY <1>1, <1>2
<1> QED
  BY <1>3 DEF RotateHalf, Sign, Partner

-----------------------------------------------------------------------------
(* The invariant: what was stored are the whole tiles of the programs that  *)
(* ran, each cell by its own.                                               *)
Stores == /\ \A p \in ran : Stored(launch, p) \subseteq DOMAIN mem
          /\ \A a \in DOMAIN mem :
                /\ a \in Stored(launch, mem[a].by)
                /\ mem[a].of = SumAt(launch, mem[a].by, LaneOf(launch, mem[a].by, a))

KInv == TypeOK /\ Stores

LEMMA KInvInit == Init => KInv
  BY DEF Init, KInv, TypeOK, Stores

(* The addresses of a program's tile are in the output. *)
LEMMA StoredRange ==
  ASSUME NEW l \in Launches, NEW p \in Programs(l), NEW a \in Stored(l, p)
  PROVE  a \in 0 .. Height(l) * l.N - 1
<1>1. PICK c \in RowsOf(l, p) \X ColumnsOf(l, p) : a = At(l, c)
  BY DEF Stored, Lanes
<1>2. c \in Cells(l)
  BY StoredInside DEF Cells
<1> QED
  BY <1>1, <1>2, AddressOfCell

(* The lane that stores to a cell's address is at the cell's offsets, and   *)
(* the program is its row's.                                                *)
LEMMA LaneOfCell ==
  ASSUME NEW l \in Launches, NEW p \in Programs(l), NEW c \in Cells(l),
         At(l, c) \in Stored(l, p)
  PROVE  /\ LaneOf(l, p, At(l, c)) = c
         /\ ~Product(l) => p[1] = c[1] \div l.heads
<1> DEFINE e == LaneOf(l, p, At(l, c))
<1>1. \E d \in Lanes(l, p) : At(l, d) = At(l, c)
  BY DEF Stored
<1>2. e \in Lanes(l, p) /\ At(l, e) = At(l, c)
  BY <1>1 DEF LaneOf
<1> HIDE DEF e
<1>3. e \in Cells(l)
  BY <1>2, StoredInside DEF Cells, Lanes
<1>4. e[1] = c[1] /\ e[2] = c[2]
  <2>1. At(l, e) \div l.N = e[1] /\ At(l, e) % l.N = e[2]
    BY <1>3, AddressOfCell
  <2>2. At(l, c) \div l.N = c[1] /\ At(l, c) % l.N = c[2]
    BY AddressOfCell
  <2> QED
    BY <1>2, <2>1, <2>2
<1>5. e = c
  BY <1>3, <1>4 DEF Cells
<1>6. ~Product(l) => p[1] = c[1] \div l.heads
  BY <1>2, <1>5, RowTile DEF Lanes
<1> QED
  BY <1>5, <1>6 DEF e

(* Two programs store to different addresses. *)
LEMMA StoredOnce ==
  ASSUME NEW l \in Launches, NEW p \in Programs(l), NEW q \in Programs(l),
         NEW a \in Stored(l, p), a \in Stored(l, q)
  PROVE  p = q
<1>1. PICK c \in RowsOf(l, p) \X ColumnsOf(l, p) : a = At(l, c)
  BY DEF Stored, Lanes
<1>2. PICK e \in RowsOf(l, q) \X ColumnsOf(l, q) : a = At(l, e)
  BY DEF Stored, Lanes
<1>3. c \in Cells(l) /\ e \in Cells(l) /\ c = <<c[1], c[2]>> /\ e = <<e[1], e[2]>>
  BY StoredInside DEF Cells
<1>4. c = e
  <2>1. a \div l.N = c[1] /\ a % l.N = c[2]
    BY <1>1, <1>3, AddressOfCell
  <2>2. a \div l.N = e[1] /\ a % l.N = e[2]
    BY <1>2, <1>3, AddressOfCell
  <2> QED
    BY <1>3, <2>1, <2>2
<1> QED
  BY <1>1, <1>2, <1>4, CellOnce

(* A program stores where none has. *)
LEMMA RunFresh ==
  ASSUME KInv, NEW p \in Programs(launch), Run(p)
  PROVE  DOMAIN mem \cap Stored(launch, p) = {}
<1> SUFFICES ASSUME NEW a \in DOMAIN mem, a \in Stored(launch, p) PROVE FALSE
  OBVIOUS
<1>1. mem[a].by \in ran /\ a \in Stored(launch, mem[a].by)
  BY DEF KInv, TypeOK, Stores
<1>2. launch \in Launches /\ mem[a].by \in Programs(launch) /\ p \notin ran
  BY <1>1 DEF KInv, TypeOK, Run
<1> QED
  BY <1>1, <1>2, StoredOnce

LEMMA KInvStep == KInv /\ [Next]_vars => KInv'
<1> SUFFICES ASSUME KInv, [Next]_vars PROVE KInv'
  OBVIOUS
<1>1. CASE UNCHANGED vars
  BY <1>1 DEF vars, KInv, TypeOK, Stores
<1>2. ASSUME NEW p \in Programs(launch), Run(p) PROVE KInv'
  <2>1. /\ launch' = launch /\ ran' = ran \cup {p}
        /\ DOMAIN mem' = DOMAIN mem \cup Stored(launch, p)
        /\ \A a \in DOMAIN mem \ Stored(launch, p) : mem'[a] = mem[a]
        /\ \A a \in Stored(launch, p) :
              /\ mem'[a].by = p
              /\ mem'[a].of = SumAt(launch, p, LaneOf(launch, p, a))
    BY <1>2 DEF Run
  <2>2. launch \in Launches
    BY DEF KInv, TypeOK
  <2>3. TypeOK'
    BY <1>2, <2>1, <2>2, StoredRange DEF KInv, TypeOK
  <2>4. Stores'
    BY <2>1 DEF KInv, Stores
  <2> QED
    BY <2>3, <2>4 DEF KInv
<1> QED
  BY <1>1, <1>2 DEF Next

LEMMA KInvariant == Spec => []KInv
BY KInvInit, KInvStep, PTL DEF Spec

(* No kernel stores outside its output: every block that reaches past an    *)
(* edge is masked (linear.py:90, fused_ffn.py:90, rmsnorm.py:42, rope.py:42).*)
THEOREM KernelTypeCorrect == Spec => []TypeOK
<1>1. KInv => TypeOK
  BY DEF KInv
<1> QED
  BY <1>1, KInvariant, PTL

(* For every shape, block size and GROUP, no two programs of a launch store *)
(* to the same address (linear.py:47-55, 90).                               *)
THEOREM KernelNoRace == Spec => NoRace
<1>1. KInv /\ [Next]_vars => [\A a \in DOMAIN mem : mem'[a] = mem[a]]_vars
  <2> SUFFICES ASSUME KInv, NEW p \in Programs(launch), Run(p), NEW a \in DOMAIN mem
               PROVE  mem'[a] = mem[a]
    BY DEF Next
  <2>1. a \notin Stored(launch, p)
    BY RunFresh
  <2> QED
    BY <2>1 DEF Run
<1> QED
  BY <1>1, KInvariant, PTL DEF Spec, NoRace

(* For every shape, block size and GROUP, a launch that is done has stored  *)
(* every element of its output: the grouped numbering reaches each tile     *)
(* (linear.py:47-55, 130-134).                                              *)
THEOREM KernelCovered == Spec => []Covered
<1>1. KInv => Covered
  <2> SUFFICES ASSUME KInv, ran = Programs(launch), NEW c \in Cells(launch)
               PROVE  At(launch, c) \in DOMAIN mem
    BY DEF Covered
  <2>1. launch \in Launches
    BY DEF KInv, TypeOK
  <2>2. PICK p \in Programs(launch) : c \in RowsOf(launch, p) \X ColumnsOf(launch, p)
    BY <2>1, CellOwned
  <2>3. At(launch, c) \in Stored(launch, p)
    BY <2>2 DEF Stored, Lanes
  <2> QED
    BY <2>2, <2>3 DEF KInv, Stores
<1> QED
  BY <1>1, KInvariant, PTL

(* Whatever was stored is the sum the kernel stands for: of each product of *)
(* the row once, also where the loop's or the row's last block is not full; *)
(* the rotation is rotate_half's with the angles of the position            *)
(* (linear.py:65-77, layernorm.py:42-46, rope.py:42-60).                    *)
THEOREM KernelSameSums == Spec => []SameSums
<1>1. KInv => SameSums
  <2> SUFFICES ASSUME KInv, NEW c \in Cells(launch), At(launch, c) \in DOMAIN mem
               PROVE  LET sum == mem[At(launch, c)].of
                      IN IF launch.kernel = "rope" THEN sum = Rotated(launch, c)
                                                   ELSE EachOnce(sum, Pairs(launch, c))
    BY DEF SameSums
  <2> DEFINE p == mem[At(launch, c)].by
  <2>1. launch \in Launches /\ launch \in Launch
    BY LaunchesType DEF KInv, TypeOK
  <2>2. p \in Programs(launch) /\ At(launch, c) \in Stored(launch, p)
        /\ mem[At(launch, c)].of = SumAt(launch, p, LaneOf(launch, p, At(launch, c)))
    BY DEF KInv, TypeOK, Stores
  <2> HIDE DEF p
  <2>3. mem[At(launch, c)].of = SumAt(launch, p, c)
        /\ (~Product(launch) => p[1] = c[1] \div launch.heads)
    BY <2>1, <2>2, LaneOfCell
  <2>4. c[1] \in Nat /\ c[2] \in 0 .. launch.N - 1 /\ launch.N \in Size
        /\ launch.M \in Nat /\ c = <<c[1], c[2]>>
    BY <2>1, Sizes DEF Cells, Size
  <2>5. CASE Product(launch)
    <3>1. Height(launch) = launch.M
      BY <2>1, <2>4, <2>5, LaunchesType DEF Height, Product
    <3>2. c \in (0 .. launch.M - 1) \X (0 .. launch.N - 1)
      BY <3>1 DEF Cells
    <3> QED
      BY <2>1, <2>3, <2>5, <3>2, LoopExact DEF SumAt, Product
  <2>6. CASE launch.kernel \in {"rmsnorm", "layernorm"}
    <3>1. ~Product(launch) /\ launch.heads = 1 /\ launch.N <= launch.BN
      BY <2>1, <2>6, LaunchesType DEF Product
    <3>2. p[1] = c[1]
      BY <2>3, <2>4, <3>1
    <3>3. mem[At(launch, c)].of = SumOfNorm(launch, c[1])
      BY <2>3, <2>6, <3>1, <3>2 DEF SumAt
    <3> QED
      BY <2>1, <2>4, <2>6, <3>1, <3>3, NormExact
  <2>7. CASE launch.kernel = "rope"
    <3>1. launch.N % 2 = 0 /\ ~Product(launch)
      BY <2>1, <2>7, LaunchesType DEF Product
    <3>2. RotateHalf(launch.N, c[2])
            = <<Sign(launch.N, c[2]), Partner(launch.N, c[2])>>
      BY <2>4, <3>1, RopeExact
    <3>3. SumOfRope(launch, p, c) = Rotated(launch, c)
      BY <2>3, <3>1, <3>2 DEF SumOfRope, Rotated
    <3> QED
      BY <2>3, <2>7, <3>1, <3>3 DEF SumAt
  <2> QED
    BY <2>1, <2>5, <2>6, <2>7 DEF Launch, Product
<1> QED
  BY <1>1, KInvariant, PTL
=============================================================================
