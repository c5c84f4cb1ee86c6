-------------------------- MODULE TileQueries_proofs --------------------------
(***************************************************************************)
(* For images and tiles of any size: every pixel is in one tile of each    *)
(* level, and what is asked for beforehand are exactly the tiles of the    *)
(* levels that are larger than a tile. IIPMooViewer asks for a level that  *)
(* exists and tiles its window with it, for any window and any pictures    *)
(* with enough levels, and leaves a picture where it is dropped.           *)
(***************************************************************************)
EXTENDS TileQueries, IIPMooViewer, FiniteSetTheorems, WellFoundedInduction, TLAPS

-----------------------------------------------------------------------------
(* Numbers *)

\* A set of numbers that is not empty has a least one.
LEMMA LeastNumber ==
  ASSUME NEW T, T \subseteq Nat, T # {}
  PROVE  \E n \in T : \A m \in T : n <= m
<1> DEFINE Upto == {0..n : n \in T}
<1>1. Upto # {} /\ Upto \subseteq FiniteSubsetsOf(Nat)
  <2>1. \A n \in T : 0..n \subseteq Nat /\ IsFiniteSet(0..n)
    BY FS_Interval
  <2> QED BY <2>1 DEF FiniteSubsetsOf
<1>2. PICK s \in Upto : \A r \in Upto : ~ (<<r, s>> \in StrictSubsetOrdering(Nat))
  <2> HIDE DEF Upto
  <2> QED BY <1>1, FS_StrictSubsetOrderingWellFounded, WFMin
<1>3. PICK n \in T : s = 0..n
  OBVIOUS
<1>4. SUFFICES ASSUME NEW m \in T, m < n PROVE FALSE
  BY <1>3
<1>5. 0..m \subseteq Nat /\ 0..n \subseteq Nat /\ 0..m \subseteq 0..n /\ n \in 0..n /\ n \notin 0..m
  BY <1>4
<1>6. <<0..m, 0..n>> \in StrictSubsetOrdering(Nat)
  BY <1>5 DEF StrictSubsetOrdering
<1> QED BY <1>2, <1>3, <1>6

\* A set of numbers that goes on from 0 holds them all.
LEMMA AllNumbers ==
  ASSUME NEW T, 0 \in T, \A n \in Nat : n \in T => n + 1 \in T
  PROVE  \A n \in Nat : n \in T
<1> SUFFICES ASSUME NEW k \in Nat, k \notin T PROVE FALSE
  OBVIOUS
<1>1. PICK n \in Nat \ T : \A m \in Nat \ T : n <= m
  BY LeastNumber
<1>2. n # 0
  OBVIOUS
<1>3. n - 1 \in Nat /\ n - 1 \in T
  BY <1>1, <1>2
<1> QED BY <1>3

\* A beginning of the powers of two.
Chain(n) == {g \in [0..n -> Nat] : g[0] = 1 /\ \A k \in 1..n : g[k] = 2 * g[k - 1]}

LEMMA ChainsAgree ==
  ASSUME NEW m \in Nat, NEW n \in Nat, m <= n, NEW g \in Chain(m), NEW h \in Chain(n)
  PROVE  \A k \in 0..m : g[k] = h[k]
<1> DEFINE T == {k \in Nat : k <= m => g[k] = h[k]}
<1>1. 0 \in T
  BY DEF Chain
<1>2. \A k \in Nat : k \in T => k + 1 \in T
  BY DEF Chain
<1>3. \A k \in Nat : k \in T
  <2> HIDE DEF T
  <2> QED BY <1>1, <1>2, AllNumbers
<1> QED BY <1>3

LEMMA ChainsExist == \A n \in Nat : Chain(n) # {}
<1> DEFINE T == {n \in Nat : Chain(n) # {}}
<1>1. 0 \in T
  <2>1. [k \in 0..0 |-> 1] \in Chain(0)
    BY DEF Chain
  <2> QED BY <2>1
<1>2. ASSUME NEW n \in Nat, n \in T PROVE n + 1 \in T
  <2>1. PICK g : g \in Chain(n)
    BY <1>2
  <2> DEFINE h == [k \in 0..(n + 1) |-> IF k = n + 1 THEN 2 * g[n] ELSE g[k]]
  <2>2. g \in [0..n -> Nat] /\ g[0] = 1 /\ \A k \in 1..n : g[k] = 2 * g[k - 1]
    BY <2>1 DEF Chain
  <2>3. h \in [0..(n + 1) -> Nat]
    BY <2>2
  <2>4. h[0] = 1
    BY <2>2
  <2>5. \A k \in 1..(n + 1) : h[k] = 2 * h[k - 1]
    BY <2>2
  <2>6. h \in Chain(n + 1)
    <3> HIDE DEF h
    <3> QED BY <2>3, <2>4, <2>5 DEF Chain
  <2> QED BY <2>6
<1>3. \A n \in Nat : n \in T
  <2> HIDE DEF T
  <2> QED BY <1>1, <1>2, AllNumbers
<1> QED BY <1>3

\* Pow2 is what its definition says.
LEMMA Pow2Defined == Pow2 = [n \in Nat |-> IF n = 0 THEN 1 ELSE 2 * Pow2[n - 1]]
<1> DEFINE body(f) == [n \in Nat |-> IF n = 0 THEN 1 ELSE 2 * f[n - 1]]
           one(n) == CHOOSE g : g \in Chain(n)
           p == [n \in Nat |-> one(n)[n]]
<1>1. \A n \in Nat : one(n) \in Chain(n)
  BY ChainsExist
<1> HIDE DEF one
<1>2. p[0] = 1
  BY <1>1 DEF Chain
<1>3. ASSUME NEW n \in Nat \ {0} PROVE p[n] = 2 * p[n - 1]
  <2>1. n - 1 \in Nat /\ n \in Nat /\ n - 1 <= n /\ n - 1 \in 0..(n - 1) /\ n \in 1..n
    OBVIOUS
  <2>2. one(n) \in Chain(n) /\ one(n - 1) \in Chain(n - 1)
    BY <1>1, <2>1
  <2>3. one(n - 1)[n - 1] = one(n)[n - 1]
    BY <2>1, <2>2, ChainsAgree
  <2>4. one(n)[n] = 2 * one(n)[n - 1]
    BY <2>1, <2>2 DEF Chain
  <2> QED BY <2>1, <2>3, <2>4
<1>4. p = body(p)
  <2>1. \A n \in Nat : p[n] = IF n = 0 THEN 1 ELSE 2 * p[n - 1]
    <3> HIDE DEF p
    <3> QED BY <1>2, <1>3
  <2>2. p = [n \in Nat |-> p[n]]
    OBVIOUS
  <2> HIDE DEF p
  <2> QED BY <2>1, <2>2
<1>5. Pow2 = CHOOSE f : f = body(f)
  BY DEF Pow2
<1>6. Pow2 = body(Pow2)
  <2> HIDE DEF body, p
  <2> QED BY <1>4, <1>5
<1> QED BY <1>6

LEMMA Pow2Doubles ==
  /\ Pow2[0] = 1
  /\ \A n \in Nat : Pow2[n] \in Nat \ {0} /\ Pow2[n + 1] = 2 * Pow2[n]
<1>1. Pow2[0] = 1
  BY Pow2Defined
<1>2. ASSUME NEW n \in Nat PROVE Pow2[n + 1] = 2 * Pow2[n]
  <2>1. n + 1 \in Nat /\ n + 1 # 0 /\ (n + 1) - 1 = n
    OBVIOUS
  <2> QED BY <2>1, Pow2Defined
<1> DEFINE T == {n \in Nat : Pow2[n] \in Nat \ {0}}
<1>3. 0 \in T
  BY <1>1
<1>4. \A n \in Nat : n \in T => n + 1 \in T
  BY <1>2
<1>5. \A n \in Nat : n \in T
  <2> HIDE DEF T
  <2> QED BY <1>3, <1>4, AllNumbers
<1> QED BY <1>1, <1>2, <1>5

\* A later power is at least twice as large.
LEMMA Pow2Grows ==
  ASSUME NEW m \in Nat, NEW n \in Nat, m < n
  PROVE  2 * Pow2[m] <= Pow2[n]
<1> DEFINE T == {k \in Nat : m < k => 2 * Pow2[m] <= Pow2[k]}
<1>1. 0 \in T
  OBVIOUS
<1>2. ASSUME NEW k \in Nat, k \in T PROVE k + 1 \in T
  <2>1. Pow2[k] \in Nat /\ Pow2[m] \in Nat /\ Pow2[k + 1] = 2 * Pow2[k]
    BY Pow2Doubles
  <2>2. CASE m < k
    BY <1>2, <2>1, <2>2
  <2>3. CASE ~ (m < k)
    <3>1. m < k + 1 => m = k
      BY <2>3
    <3> QED BY <3>1, <2>1
  <2> QED BY <2>2, <2>3
<1>3. \A k \in Nat : k \in T
  <2> HIDE DEF T
  <2> QED BY <1>1, <1>2, AllNumbers
<1> QED BY <1>3

-----------------------------------------------------------------------------
(* Division *)

LEMMA Monotone ==
  ASSUME NEW b \in Nat, NEW i \in Int, NEW j \in Int, i <= j
  PROVE  b * i <= b * j
<1>1. j - i \in Nat
  OBVIOUS
<1>2. b * (j - i) \in Nat
  BY <1>1
<1>3. b * (j - i) = b * j - b * i
  OBVIOUS
<1> QED BY <1>2, <1>3

LEMMA Divided ==
  ASSUME NEW a \in Nat, NEW b \in Nat \ {0}
  PROVE  a \div b \in Nat /\ b * (a \div b) <= a /\ a < b * (a \div b) + b
<1> QED OBVIOUS

\* So many pieces of size b are in a, the last one perhaps smaller.
LEMMA CeilDivCounts ==
  ASSUME NEW a \in Nat, NEW b \in Nat \ {0}
  PROVE  CeilDiv(a, b) \in Nat /\ \A i \in Nat : i < CeilDiv(a, b) <=> b * i < a
<1> DEFINE q == (a + b - 1) \div b
<1>1. q \in Nat /\ b * q <= a + b - 1 /\ a + b - 1 < b * q + b
  <2>1. a + b - 1 \in Nat
    OBVIOUS
  <2> QED BY <2>1, Divided
<1>2. CeilDiv(a, b) = q
  BY DEF CeilDiv
<1> HIDE DEF q
<1>3. ASSUME NEW i \in Nat, i < q PROVE b * i < a
  <2>1. b * (i + 1) <= b * q
    BY <1>1, <1>3, Monotone
  <2>2. b * (i + 1) = b * i + b
    OBVIOUS
  <2> QED BY <1>1, <2>1, <2>2
<1>4. ASSUME NEW i \in Nat, ~ (i < q) PROVE ~ (b * i < a)
  <2>1. b * q <= b * i
    BY <1>1, <1>4, Monotone
  <2> QED BY <1>1, <2>1
<1> QED BY <1>1, <1>2, <1>3, <1>4

-----------------------------------------------------------------------------
(* The levels of an image *)

Sizes == image.width \in Nat \ {0} /\ image.height \in Nat \ {0} /\ image.levels \in Nat \ {0}

LEMMA SizesOfImage == image \in Images => Sizes
BY ImageAssumption DEF Sizes

LEMMA MaxLevelIsRoot ==
  ASSUME Sizes
  PROVE  MaxLevel \in Nat
<1>1. PICK m : m = LargestFactor
  OBVIOUS
<1>2. m \in Nat \ {0}
  <2>1. Least(image.levels, 10) - 1 \in Nat
    BY DEF Least, Sizes
  <2> QED BY <1>1, <2>1, Pow2Doubles DEF LargestFactor
<1> DEFINE T == {n \in Nat : m < (n + 1) * (n + 1)}
<1>3. m \in T
  <2>1. (m + 1) * (m + 1) = m * (m + 1) + m + 1 /\ m * (m + 1) \in Nat
    BY <1>2
  <2> QED BY <1>2, <2>1
<1>4. PICK n \in T : \A k \in T : n <= k
  <2>1. T \subseteq Nat /\ T # {}
    BY <1>3
  <2> HIDE DEF T
  <2> QED BY <2>1, LeastNumber
<1>5. n \in Nat /\ m < (n + 1) * (n + 1)
  OBVIOUS
<1>6. n # 0
  BY <1>2, <1>5
<1>7. n * n <= m
  <2>1. n - 1 \in Nat /\ n - 1 \notin T
    BY <1>4, <1>5, <1>6
  <2>2. ~ (m < n * n)
    BY <2>1, <1>5
  <2> QED BY <2>2, <1>2, <1>5
<1>8. n \in 1..m
  <2>1. n * 1 <= n * n
    BY <1>5, <1>6, Monotone
  <2> QED BY <1>2, <1>5, <1>6, <1>7, <2>1
<1>9. MaxLevel \in 1..m
  BY <1>1, <1>5, <1>7, <1>8 DEF MaxLevel
<1> QED BY <1>2, <1>9

LEMMA FactorIsPower ==
  ASSUME Sizes, NEW level \in 0..MaxLevel
  PROVE  /\ MaxLevel - level \in Nat /\ Factor(level) = Pow2[MaxLevel - level]
         /\ Factor(level) \in Nat \ {0}
<1>1. MaxLevel - level \in Nat
  BY MaxLevelIsRoot
<1> QED BY <1>1, Pow2Doubles DEF Factor

-----------------------------------------------------------------------------
(* The tiles of a level *)

\* The side of a tile, in pixels of the image.
SideOf(level) == Factor(level) * TileSize

LEMMA SideIsPositive ==
  ASSUME Sizes, NEW level \in 0..MaxLevel
  PROVE  /\ SideOf(level) \in Nat \ {0} /\ TileSize * Factor(level) = SideOf(level)
<1>1. Factor(level) \in Nat \ {0} /\ TileSize \in Nat \ {0}
  BY FactorIsPower, TileAssumption
<1> QED BY <1>1 DEF SideOf

LEMMA TilesAreInside ==
  ASSUME Sizes, NEW level \in 0..MaxLevel, NEW t \in Nat \X Nat
  PROVE  t \in TilesOf(level) <=> /\ SideOf(level) * t[1] < image.width
                                 /\ SideOf(level) * t[2] < image.height
<1> DEFINE s == SideOf(level)
<1>1. s \in Nat \ {0}
  BY SideIsPositive
<1>2. NumTiles(level) = <<CeilDiv(image.width, s), CeilDiv(image.height, s)>>
  BY DEF NumTiles, SideOf
<1> HIDE DEF s
<1>3. /\ CeilDiv(image.width, s) \in Nat /\ CeilDiv(image.height, s) \in Nat
      /\ t[1] < CeilDiv(image.width, s) <=> s * t[1] < image.width
      /\ t[2] < CeilDiv(image.height, s) <=> s * t[2] < image.height
  BY <1>1, CeilDivCounts DEF Sizes
<1>4. t \in TilesOf(level) <=> /\ t[1] < CeilDiv(image.width, s)
                              /\ t[2] < CeilDiv(image.height, s)
  BY <1>2, <1>3 DEF TilesOf
<1> QED BY <1>3, <1>4 DEF s

LEMMA TilesArePairs ==
  ASSUME Sizes, NEW level \in 0..MaxLevel, NEW t \in TilesOf(level)
  PROVE  t \in Nat \X Nat
<1> DEFINE m == CeilDiv(image.width, SideOf(level))
           n == CeilDiv(image.height, SideOf(level))
<1>1. m \in Nat /\ n \in Nat
  BY SideIsPositive, CeilDivCounts DEF Sizes
<1>2. TilesOf(level) = (0..(m - 1)) \X (0..(n - 1))
  BY DEF TilesOf, NumTiles, SideOf
<1> HIDE DEF m, n
<1> QED BY <1>1, <1>2

\* A level whose size is less than a tile has one tile.
LEMMA FullIsOneTile ==
  ASSUME Sizes, NEW level \in 0..MaxLevel,
         CeilDiv(image.width, Factor(level)) < TileSize,
         CeilDiv(image.height, Factor(level)) < TileSize
  PROVE  /\ image.width <= SideOf(level) /\ image.height <= SideOf(level)
         /\ TilesOf(level) \subseteq {<<0, 0>>}
<1>1. Factor(level) \in Nat \ {0} /\ TileSize \in Nat /\ SideOf(level) \in Nat \ {0}
      /\ Factor(level) * TileSize = SideOf(level)
  BY FactorIsPower, TileAssumption, SideIsPositive DEF SideOf
<1>2. image.width <= SideOf(level) /\ image.height <= SideOf(level)
  <2>1. /\ CeilDiv(image.width, Factor(level)) \in Nat
        /\ TileSize < CeilDiv(image.width, Factor(level)) <=> SideOf(level) < image.width
    BY <1>1, CeilDivCounts DEF Sizes
  <2>2. /\ CeilDiv(image.height, Factor(level)) \in Nat
        /\ TileSize < CeilDiv(image.height, Factor(level)) <=> SideOf(level) < image.height
    BY <1>1, CeilDivCounts DEF Sizes
  <2> QED BY <1>1, <2>1, <2>2 DEF Sizes
<1>3. ASSUME NEW t \in TilesOf(level) PROVE t = <<0, 0>>
  <2>1. t \in Nat \X Nat
    BY TilesArePairs
  <2>2. SideOf(level) * t[1] < image.width /\ SideOf(level) * t[2] < image.height
    BY <2>1, TilesAreInside
  <2>3. ~ (1 <= t[1]) /\ ~ (1 <= t[2])
    <3>0. SideOf(level) \in Nat /\ t[1] \in Int /\ t[2] \in Int
      BY <1>1, <2>1
    <3>1. ASSUME 1 <= t[1] PROVE SideOf(level) * 1 <= SideOf(level) * t[1]
      BY <3>0, <3>1, Monotone
    <3>2. ASSUME 1 <= t[2] PROVE SideOf(level) * 1 <= SideOf(level) * t[2]
      BY <3>0, <3>2, Monotone
    <3> QED BY <1>1, <1>2, <2>1, <2>2, <3>1, <3>2 DEF Sizes
  <2>4. t[1] = 0 /\ t[2] = 0 /\ t = <<t[1], t[2]>>
    BY <2>1, <2>3
  <2> QED BY <2>4
<1> QED BY <1>2, <1>3

\* Whether it is asked for as a region or as the full image, a tile is this part of it.
LEMMA UrlOfTile ==
  ASSUME Sizes, NEW level \in 0..MaxLevel, NEW t \in TilesOf(level)
  PROVE  /\ TileUrl(level, t).left = SideOf(level) * t[1]
         /\ TileUrl(level, t).top = SideOf(level) * t[2]
         /\ TileUrl(level, t).width = Least(SideOf(level), image.width - SideOf(level) * t[1])
         /\ TileUrl(level, t).height = Least(SideOf(level), image.height - SideOf(level) * t[2])
<1> DEFINE s == SideOf(level)
<1>1. s \in Nat \ {0} /\ TileSize * Factor(level) = s
  BY SideIsPositive
<1>2. t \in Nat \X Nat
  BY TilesArePairs
<1>3. CASE /\ CeilDiv(image.width, Factor(level)) < TileSize
           /\ CeilDiv(image.height, Factor(level)) < TileSize
  <2>1. TileUrl(level, t) =
          Query(0, 0, image.width, image.height, CeilDiv(image.width, Factor(level)), 0)
    BY <1>3 DEF TileUrl
  <2>2. t = <<0, 0>> /\ image.width <= s /\ image.height <= s
    BY <1>3, FullIsOneTile
  <2>3. /\ TileUrl(level, t).left = 0 /\ TileUrl(level, t).top = 0
        /\ TileUrl(level, t).width = image.width /\ TileUrl(level, t).height = image.height
    BY <2>1 DEF Query
  <2> HIDE DEF s
  <2>4. s * t[1] = 0 /\ s * t[2] = 0
    BY <1>1, <2>2
  <2>5. Least(s, image.width - 0) = image.width /\ Least(s, image.height - 0) = image.height
    BY <1>1, <2>2 DEF Least, Sizes
  <2> QED BY <2>3, <2>4, <2>5 DEF s
<1>4. CASE ~ /\ CeilDiv(image.width, Factor(level)) < TileSize
             /\ CeilDiv(image.height, Factor(level)) < TileSize
  <2> DEFINE w == Least(s, image.width - t[1] * s)
             h == Least(s, image.height - t[2] * s)
  <2>1. TileUrl(level, t) = Query(t[1] * s, t[2] * s, w, h, CeilDiv(w, Factor(level)), 0)
    <3> HIDE DEF s
    <3> QED BY <1>1, <1>4 DEF TileUrl
  <2>2. /\ TileUrl(level, t).left = t[1] * s /\ TileUrl(level, t).top = t[2] * s
        /\ TileUrl(level, t).width = w /\ TileUrl(level, t).height = h
    <3> HIDE DEF s, w, h
    <3> QED BY <2>1 DEF Query
  <2>3. t[1] * s = s * t[1] /\ t[2] * s = s * t[2]
    <3> HIDE DEF s
    <3> QED BY <1>1, <1>2
  <2> QED BY <2>2, <2>3
<1> QED BY <1>3, <1>4

\* A line of n pixels is cut into pieces of size s: the one that holds a pixel.
LEMMA PieceHolds ==
  ASSUME NEW n \in Nat \ {0}, NEW s \in Nat \ {0}, NEW p \in 0..(n - 1)
  PROVE  /\ p \div s \in Nat /\ s * (p \div s) < n
         /\ p \in (s * (p \div s))..(s * (p \div s) + Least(s, n - s * (p \div s)) - 1)
<1> DEFINE i == p \div s
<1>1. i \in Nat /\ s * i <= p /\ p < s * i + s /\ s * i \in Nat
  <2>1. p \in Nat
    OBVIOUS
  <2>2. i \in Nat /\ s * i <= p /\ p < s * i + s
    BY <2>1, Divided
  <2> QED BY <2>2
<1> HIDE DEF i
<1>2. s * i < n /\ p \in (s * i)..(s * i + Least(s, n - s * i) - 1)
  BY <1>1 DEF Least
<1> QED BY <1>1, <1>2 DEF i

LEMMA PiecesApart ==
  ASSUME NEW n \in Nat, NEW s \in Nat \ {0}, NEW i \in Nat, NEW j \in Nat, i < j
  PROVE  s * i + Least(s, n - s * i) <= s * j
<1>1. s * (i + 1) <= s * j
  BY Monotone
<1>2. s * (i + 1) = s * i + s
  OBVIOUS
<1>3. s * i \in Nat /\ s * j \in Nat
  OBVIOUS
<1> QED BY <1>1, <1>2, <1>3 DEF Least

LEMMA PixelsAreInTheirTiles == Sizes => EveryPixelInItsTile
<1> SUFFICES ASSUME Sizes, NEW level \in 0..MaxLevel
             PROVE  /\ \A px \in 0..(image.width - 1), py \in 0..(image.height - 1) :
                         LET t == TileAtPoint(level, px, py)
                         IN t \in TilesOf(level) /\ Holds(TileUrl(level, t), px, py)
                    /\ \A t, u \in TilesOf(level) :
                         t = u \/ Apart(TileUrl(level, t), TileUrl(level, u))
                    /\ \A t \in TilesOf(level), part \in {"left", "top", "width", "height"} :
                         TileUrl(level, t)[part] = TileBounds(level, t)[part]
  BY DEF EveryPixelInItsTile
<1> DEFINE s == SideOf(level)
<1>s. s \in Nat \ {0}
  BY SideIsPositive
<1>1. ASSUME NEW px \in 0..(image.width - 1), NEW py \in 0..(image.height - 1)
      PROVE  /\ TileAtPoint(level, px, py) \in TilesOf(level)
             /\ Holds(TileUrl(level, TileAtPoint(level, px, py)), px, py)
  <2> DEFINE i == px \div s
             j == py \div s
  <2>1. TileAtPoint(level, px, py) = <<i, j>>
    BY DEF TileAtPoint, SideOf
  <2> HIDE DEF s
  <2>2. /\ i \in Nat /\ s * i < image.width
        /\ px \in (s * i)..(s * i + Least(s, image.width - s * i) - 1)
    BY <1>s, PieceHolds DEF Sizes
  <2>3. /\ j \in Nat /\ s * j < image.height
        /\ py \in (s * j)..(s * j + Least(s, image.height - s * j) - 1)
    BY <1>s, PieceHolds DEF Sizes
  <2> HIDE DEF i, j
  <2>4. <<i, j>> \in TilesOf(level)
    BY <2>2, <2>3, TilesAreInside DEF s
  <2>5. /\ TileUrl(level, <<i, j>>).left = s * i /\ TileUrl(level, <<i, j>>).top = s * j
        /\ TileUrl(level, <<i, j>>).width = Least(s, image.width - s * i)
        /\ TileUrl(level, <<i, j>>).height = Least(s, image.height - s * j)
    BY <2>4, UrlOfTile DEF s
  <2>6. Holds(TileUrl(level, <<i, j>>), px, py)
    BY <2>2, <2>3, <2>5 DEF Holds
  <2> QED BY <2>1, <2>4, <2>6
<1>2. ASSUME NEW t \in TilesOf(level), NEW u \in TilesOf(level), t # u
      PROVE  Apart(TileUrl(level, t), TileUrl(level, u))
  <2>1. t \in Nat \X Nat /\ u \in Nat \X Nat
    BY TilesArePairs
  <2>2. t[1] < u[1] \/ u[1] < t[1] \/ t[2] < u[2] \/ u[2] < t[2]
    BY <2>1, <1>2
  <2>3. /\ TileUrl(level, t).left = s * t[1] /\ TileUrl(level, t).top = s * t[2]
        /\ TileUrl(level, t).width = Least(s, image.width - s * t[1])
        /\ TileUrl(level, t).height = Least(s, image.height - s * t[2])
    BY UrlOfTile
  <2>4. /\ TileUrl(level, u).left = s * u[1] /\ TileUrl(level, u).top = s * u[2]
        /\ TileUrl(level, u).width = Least(s, image.width - s * u[1])
        /\ TileUrl(level, u).height = Least(s, image.height - s * u[2])
    BY UrlOfTile
  <2> HIDE DEF s
  <2>5. CASE t[1] < u[1]
    <3>1. s * t[1] + Least(s, image.width - s * t[1]) <= s * u[1]
      BY <1>s, <2>1, <2>5, PiecesApart DEF Sizes
    <3> QED BY <2>3, <2>4, <3>1 DEF Apart
  <2>6. CASE u[1] < t[1]
    <3>1. s * u[1] + Least(s, image.width - s * u[1]) <= s * t[1]
      BY <1>s, <2>1, <2>6, PiecesApart DEF Sizes
    <3> QED BY <2>3, <2>4, <3>1 DEF Apart
  <2>7. CASE t[2] < u[2]
    <3>1. s * t[2] + Least(s, image.height - s * t[2]) <= s * u[2]
      BY <1>s, <2>1, <2>7, PiecesApart DEF Sizes
    <3> QED BY <2>3, <2>4, <3>1 DEF Apart
  <2>8. CASE u[2] < t[2]
    <3>1. s * u[2] + Least(s, image.height - s * u[2]) <= s * t[2]
      BY <1>s, <2>1, <2>8, PiecesApart DEF Sizes
    <3> QED BY <2>3, <2>4, <3>1 DEF Apart
  <2> QED BY <2>2, <2>5, <2>6, <2>7, <2>8
<1>3. ASSUME NEW t \in TilesOf(level), NEW part \in {"left", "top", "width", "height"}
      PROVE  TileUrl(level, t)[part] = TileBounds(level, t)[part]
  <2>1. TileBounds(level, t) =
          [left |-> s * t[1], top |-> s * t[2],
           width |-> Least(s, image.width - s * t[1]),
           height |-> Least(s, image.height - s * t[2])]
    BY DEF TileBounds, SideOf
  <2> HIDE DEF s
  <2>2. /\ TileBounds(level, t).left = s * t[1] /\ TileBounds(level, t).top = s * t[2]
        /\ TileBounds(level, t).width = Least(s, image.width - s * t[1])
        /\ TileBounds(level, t).height = Least(s, image.height - s * t[2])
    BY <2>1
  <2>3. /\ TileUrl(level, t).left = s * t[1] /\ TileUrl(level, t).top = s * t[2]
        /\ TileUrl(level, t).width = Least(s, image.width - s * t[1])
        /\ TileUrl(level, t).height = Least(s, image.height - s * t[2])
    BY UrlOfTile DEF s
  <2> QED BY <1>3, <2>2, <2>3
<1> HIDE DEF s
<1> QED BY <1>1, <1>2, <1>3

-----------------------------------------------------------------------------
(* The loops of getPaths *)

\* The piece in column i and row j, where the image is m times as large as the level.
Within(m, i, j) == m * TileSize * i < image.width /\ m * TileSize * j < image.height

Piece(m, i, j) ==
  LET side == m * TileSize
      w == Side(side * i, side, image.width)
      h == Side(side * j, side, image.height)
  IN Query(side * i, side * j, w, h, CeilDiv(w, m), CeilDiv(h, m))

Passed(m, i, j) == <<m, Piece(m, i, j)>> \in paths

\* What was asked for is a piece of the image, on a level that is larger than a tile.
PathsAreSound ==
  \A p \in paths : \E m \in Nat \ {0}, i, j \in Nat :
    p = <<m, Piece(m, i, j)>> /\ m * TileSize < LongDim /\ Within(m, i, j)

\* The loops are at column i and row j of the k-th level, and have been everywhere before.
Reached(k, i, j) ==
  /\ multiplier = Pow2[k] /\ x = multiplier * TileSize * i /\ y = multiplier * TileSize * j
  /\ \A n, a, b \in Nat :
       /\ Pow2[n] * TileSize < LongDim /\ Within(Pow2[n], a, b)
       /\ n < k \/ (n = k /\ (a < i \/ (a = i /\ b < j)))
       => Passed(Pow2[n], a, b)

IInv == image \in Images /\ PathsAreSound /\ \E k, i, j \in Nat : Reached(k, i, j)

LEMMA InitInv == Init => IInv
<1> SUFFICES ASSUME Init PROVE IInv
  OBVIOUS
<1>1. multiplier = Pow2[0] /\ x = multiplier * TileSize * 0 /\ y = multiplier * TileSize * 0
  BY Pow2Doubles, TileAssumption DEF Init
<1>2. Reached(0, 0, 0)
  BY <1>1 DEF Reached
<1> QED BY <1>2 DEF Init, IInv, PathsAreSound

LEMMA StepInv == IInv /\ [Next]_vars => IInv'
<1> SUFFICES ASSUME IInv, [Next]_vars PROVE IInv'
  OBVIOUS
<1>1. CASE UNCHANGED vars
  <2>1. /\ image' = image /\ paths' = paths /\ multiplier' = multiplier /\ x' = x /\ y' = y
        /\ LongDim' = LongDim
        /\ \A m, a, b : Piece(m, a, b)' = Piece(m, a, b) /\ (Within(m, a, b)' <=> Within(m, a, b))
    BY <1>1 DEF LongDim, Piece, Within, vars
  <2>2. \A m, a, b : Passed(m, a, b)' <=> Passed(m, a, b)
    BY <2>1 DEF Passed
  <2>3. PathsAreSound'
    BY <2>1 DEF IInv, PathsAreSound
  <2>4. PICK k \in Nat, i \in Nat, j \in Nat : Reached(k, i, j)
    BY DEF IInv
  <2>5. Reached(k, i, j)'
    BY <2>1, <2>2, <2>4 DEF Reached
  <2> QED BY <2>1, <2>3, <2>5 DEF IInv
<1>2. CASE NextPath
  <2> DEFINE s == multiplier * TileSize
  <2>1. PICK k \in Nat, i \in Nat, j \in Nat : Reached(k, i, j)
    BY DEF IInv
  <2>2. /\ multiplier = Pow2[k] /\ multiplier \in Nat \ {0} /\ s \in Nat \ {0}
        /\ x = s * i /\ y = s * j /\ x \in Nat /\ y \in Nat
    <3>1. multiplier = Pow2[k] /\ x = s * i /\ y = s * j
      BY <2>1 DEF Reached
    <3>2. multiplier \in Nat \ {0} /\ s \in Nat \ {0}
      BY <3>1, Pow2Doubles, TileAssumption
    <3> HIDE DEF s
    <3> QED BY <3>1, <3>2
  <2>3. Sizes
    BY SizesOfImage DEF IInv
  <2>4. image' = image /\ s < LongDim /\ Advance(s)
    BY <1>2 DEF NextPath
  <2>5. /\ LongDim' = LongDim
        /\ \A m, a, b : Piece(m, a, b)' = Piece(m, a, b) /\ (Within(m, a, b)' <=> Within(m, a, b))
    BY <2>4 DEF LongDim, Piece, Within
  <2>6. /\ (Side(x, s, image.width) > 0) <=> (x < image.width)
        /\ (Side(y, s, image.height) > 0) <=> (y < image.height)
    <3> HIDE DEF s
    <3> QED BY <2>2, <2>3 DEF Side, Sizes
  <2>7. Within(multiplier, i, j) <=> (x < image.width /\ y < image.height)
    BY <2>2 DEF Within
  <2>8. paths' = IF Within(multiplier, i, j)
                 THEN paths \cup {<<multiplier, Piece(multiplier, i, j)>>} ELSE paths
    BY <1>2, <2>2, <2>6, <2>7 DEF NextPath, Piece
  <2>9. PathsAreSound'
    <3> SUFFICES ASSUME NEW p \in paths'
                 PROVE  \E m \in Nat \ {0}, a, b \in Nat :
                          p = <<m, Piece(m, a, b)>> /\ m * TileSize < LongDim /\ Within(m, a, b)
      BY <2>5 DEF PathsAreSound
    <3>1. CASE p \in paths
      BY <3>1 DEF IInv, PathsAreSound
    <3>2. CASE p \notin paths
      <4>1. p = <<multiplier, Piece(multiplier, i, j)>> /\ Within(multiplier, i, j)
        BY <2>8, <3>2
      <4> QED BY <4>1, <2>2, <2>4
    <3> QED BY <3>1, <3>2
  <2>10. \A m, a, b : Passed(m, a, b) => Passed(m, a, b)'
    BY <2>5, <2>8 DEF Passed
  <2>11. \A n, a, b \in Nat :
           /\ Pow2[n] * TileSize < LongDim /\ Within(Pow2[n], a, b)
           /\ n < k \/ (n = k /\ (a < i \/ (a = i /\ b < j)))
           => Passed(Pow2[n], a, b)'
    BY <2>1, <2>10 DEF Reached
  <2>12. CASE y < image.height
    <3>1. y' = s * (j + 1) /\ x' = s * i /\ multiplier' = multiplier
      <4>1. y' = y + s /\ x' = x /\ multiplier' = multiplier
        BY <2>4, <2>12 DEF Advance
      <4> HIDE DEF s
      <4> QED BY <4>1, <2>2
    <3>2. Within(Pow2[k], i, j) => Passed(Pow2[k], i, j)'
      BY <2>2, <2>5, <2>8 DEF Passed
    <3>3. ASSUME NEW n \in Nat, NEW a \in Nat, NEW b \in Nat,
                 Pow2[n] * TileSize < LongDim, Within(Pow2[n], a, b),
                 n < k \/ (n = k /\ (a < i \/ (a = i /\ b < j + 1)))
          PROVE  Passed(Pow2[n], a, b)'
      <4>1. CASE n = k /\ a = i /\ b = j
        BY <2>2, <3>2, <3>3, <4>1
      <4>2. CASE ~ (n = k /\ a = i /\ b = j)
        <5>1. n < k \/ (n = k /\ (a < i \/ (a = i /\ b < j)))
          BY <3>3, <4>2
        <5> QED BY <5>1, <3>3, <2>11
      <4> QED BY <4>1, <4>2
    <3>4. Reached(k, i, j + 1)'
      BY <2>2, <2>5, <3>1, <3>3 DEF Reached
    <3> QED BY <3>4, <2>4, <2>9 DEF IInv
  <2>13. CASE ~ (y < image.height) /\ x < image.width
    <3>1. y' = s * 0 /\ x' = s * (i + 1) /\ multiplier' = multiplier
      <4>1. y' = 0 /\ x' = x + s /\ multiplier' = multiplier
        BY <2>4, <2>13 DEF Advance
      <4> HIDE DEF s
      <4> QED BY <4>1, <2>2
    <3>2. ASSUME NEW n \in Nat, NEW a \in Nat, NEW b \in Nat,
                 Pow2[n] * TileSize < LongDim, Within(Pow2[n], a, b),
                 n < k \/ (n = k /\ (a < i + 1 \/ (a = i + 1 /\ b < 0)))
          PROVE  Passed(Pow2[n], a, b)'
      <4>1. CASE n = k /\ a = i
        <5>1. s * b < image.height
          BY <2>2, <3>2, <4>1 DEF Within
        <5>2. ~ (j <= b)
          <6> HIDE DEF s
          <6>1. j <= b => s * j <= s * b
            BY <2>2, Monotone
          <6>2. s * j \in Nat /\ s * b \in Nat
            BY <2>2
          <6> QED BY <2>2, <2>3, <2>13, <5>1, <6>1, <6>2 DEF Sizes
        <5>3. b < j
          BY <5>2
        <5> QED BY <5>3, <4>1, <3>2, <2>11
      <4>2. CASE ~ (n = k /\ a = i)
        <5>1. n < k \/ (n = k /\ a < i)
          BY <3>2, <4>2
        <5> QED BY <5>1, <3>2, <2>11
      <4> QED BY <4>1, <4>2
    <3>3. Reached(k, i + 1, 0)'
      BY <2>2, <2>5, <3>1, <3>2 DEF Reached
    <3> QED BY <3>3, <2>4, <2>9 DEF IInv
  <2>14. CASE ~ (y < image.height) /\ ~ (x < image.width)
    <3>1. y' = 0 /\ x' = 0 /\ multiplier' = 2 * multiplier
      BY <2>4, <2>14 DEF Advance
    <3>2. multiplier' = Pow2[k + 1]
      BY <2>2, <3>1, Pow2Doubles
    <3>3. x' = multiplier' * TileSize * 0 /\ y' = multiplier' * TileSize * 0
      BY <2>2, <3>1, TileAssumption
    <3>4. ASSUME NEW n \in Nat, NEW a \in Nat, NEW b \in Nat,
                 Pow2[n] * TileSize < LongDim, Within(Pow2[n], a, b),
                 n < k + 1 \/ (n = k + 1 /\ (a < 0 \/ (a = 0 /\ b < 0)))
          PROVE  Passed(Pow2[n], a, b)'
      <4>1. CASE n = k
        <5>1. s * a < image.width
          BY <2>2, <3>4, <4>1 DEF Within
        <5>2. ~ (i <= a)
          <6> HIDE DEF s
          <6>1. i <= a => s * i <= s * a
            BY <2>2, Monotone
          <6>2. s * i \in Nat /\ s * a \in Nat
            BY <2>2
          <6> QED BY <2>2, <2>3, <2>14, <5>1, <6>1, <6>2 DEF Sizes
        <5>3. a < i
          BY <5>2
        <5> QED BY <5>3, <4>1, <3>4, <2>11
      <4>2. CASE n # k
        <5>1. n < k
          BY <3>4, <4>2
        <5> QED BY <5>1, <3>4, <2>11
      <4> QED BY <4>1, <4>2
    <3>5. Reached(k + 1, 0, 0)'
      BY <2>5, <3>2, <3>3, <3>4 DEF Reached
    <3>6. k + 1 \in Nat
      OBVIOUS
    <3> QED BY <3>5, <3>6, <2>4, <2>9 DEF IInv
  <2> QED BY <2>12, <2>13, <2>14
<1> QED BY <1>1, <1>2 DEF Next

\* On a level larger than a tile the piece is the viewer's tile, equally wide in the answer.
LEMMA PieceIsTile ==
  ASSUME Sizes, NEW level \in 0..MaxLevel, Large(level), NEW t \in TilesOf(level)
  PROVE  SameTile(Piece(Factor(level), t[1], t[2]), TileUrl(level, t))
<1> DEFINE s == SideOf(level)
           w == Least(s, image.width - s * t[1])
           h == Least(s, image.height - s * t[2])
           f == Factor(level)
<1>1. s \in Nat \ {0} /\ TileSize * f = s /\ f * TileSize = s
  BY SideIsPositive DEF SideOf
<1>2. t \in Nat \X Nat
  BY TilesArePairs
<1>3. ~ /\ CeilDiv(image.width, f) < TileSize /\ CeilDiv(image.height, f) < TileSize
  <2>1. s < LongDim
    BY DEF Large, SideOf
  <2>2. ~ (image.width <= s /\ image.height <= s)
    <3> HIDE DEF s
    <3> QED BY <1>1, <2>1 DEF LongDim, Sizes
  <2> QED BY <2>2, FullIsOneTile
<1> HIDE DEF s, f
<1>4. t[1] * s = s * t[1] /\ t[2] * s = s * t[2] /\ s * t[1] \in Nat /\ s * t[2] \in Nat
  BY <1>1, <1>2
<1>5. TileUrl(level, t) = Query(s * t[1], s * t[2], w, h, CeilDiv(w, f), 0)
  BY <1>1, <1>3, <1>4 DEF TileUrl, f
<1>6. Side(s * t[1], s, image.width) = w /\ Side(s * t[2], s, image.height) = h
  BY <1>1, <1>4 DEF Side, Least, Sizes
<1>7. Piece(f, t[1], t[2]) = Query(s * t[1], s * t[2], w, h, CeilDiv(w, f), CeilDiv(h, f))
  BY <1>1, <1>6 DEF Piece
<1> HIDE DEF w, h
<1>8. SameTile(Query(s * t[1], s * t[2], w, h, CeilDiv(w, f), CeilDiv(h, f)),
               Query(s * t[1], s * t[2], w, h, CeilDiv(w, f), 0))
  BY DEF SameTile, Query
<1> QED BY <1>5, <1>7, <1>8 DEF f

LEMMA InvImplies == IInv => EveryPixelInItsTile /\ LargeLevelsPregenerated
<1> SUFFICES ASSUME IInv PROVE EveryPixelInItsTile /\ LargeLevelsPregenerated
  OBVIOUS
<1>1. Sizes
  BY SizesOfImage DEF IInv
<1>2. ASSUME NEW p \in paths, NEW level \in 0..MaxLevel, Factor(level) = p[1]
      PROVE  \E t \in TilesOf(level) : SameTile(p[2], TileUrl(level, t))
  <2>1. PICK m \in Nat \ {0}, i \in Nat, j \in Nat :
               p = <<m, Piece(m, i, j)>> /\ m * TileSize < LongDim /\ Within(m, i, j)
    BY DEF IInv, PathsAreSound
  <2>2. m = Factor(level) /\ p[2] = Piece(m, i, j)
    BY <1>2, <2>1
  <2>3. Large(level)
    BY <2>1, <2>2 DEF Large
  <2>4. <<i, j>> \in TilesOf(level)
    BY <1>1, <2>1, <2>2, TilesAreInside DEF Within, SideOf
  <2>5. SameTile(p[2], TileUrl(level, <<i, j>>))
    BY <1>1, <2>2, <2>3, <2>4, PieceIsTile
  <2> QED BY <2>4, <2>5
<1>3. ASSUME Done, NEW level \in 0..MaxLevel, Large(level), NEW t \in TilesOf(level)
      PROVE  \E p \in paths : SameTile(p[2], TileUrl(level, t))
  <2>1. PICK k \in Nat, i \in Nat, j \in Nat : Reached(k, i, j)
    BY DEF IInv
  <2> DEFINE n == MaxLevel - level
  <2>2. n \in Nat /\ Factor(level) = Pow2[n]
    BY <1>1, FactorIsPower
  <2>3. t \in Nat \X Nat
    BY <1>1, TilesArePairs
  <2> HIDE DEF n
  <2>4. n < k
    <3>1. Pow2[n] \in Nat /\ Pow2[k] \in Nat /\ LongDim \in Nat /\ TileSize \in Nat
      BY <1>1, <2>1, <2>2, Pow2Doubles, TileAssumption DEF LongDim, Sizes
    <3>2. Pow2[n] * TileSize < LongDim /\ ~ (Pow2[k] * TileSize < LongDim)
      <4>1. multiplier = Pow2[k]
        BY <2>1 DEF Reached
      <4>2. Pow2[k] * TileSize >= LongDim
        BY <1>3, <4>1 DEF Done
      <4>3. Pow2[k] * TileSize \in Nat
        BY <3>1
      <4> QED BY <1>3, <2>2, <3>1, <4>2, <4>3 DEF Large
    <3>3. k <= n => Pow2[k] <= Pow2[n]
      <4>1. k < n => 2 * Pow2[k] <= Pow2[n]
        BY <2>2, Pow2Grows
      <4> QED BY <2>2, <3>1, <4>1
    <3>4. Pow2[k] <= Pow2[n] => Pow2[k] * TileSize <= Pow2[n] * TileSize
      <4>1. Pow2[k] <= Pow2[n] => TileSize * Pow2[k] <= TileSize * Pow2[n]
        BY <3>1, Monotone
      <4>2. TileSize * Pow2[k] = Pow2[k] * TileSize /\ TileSize * Pow2[n] = Pow2[n] * TileSize
        BY <3>1
      <4> QED BY <4>1, <4>2
    <3>5. Pow2[n] * TileSize \in Nat /\ Pow2[k] * TileSize \in Nat
      BY <3>1
    <3> QED BY <2>2, <3>1, <3>2, <3>3, <3>4, <3>5
  <2>5. Within(Pow2[n], t[1], t[2])
    BY <1>1, <2>2, <2>3, TilesAreInside DEF Within, SideOf
  <2>6. Passed(Pow2[n], t[1], t[2])
    BY <1>3, <2>1, <2>2, <2>3, <2>4, <2>5 DEF Reached, Large
  <2>7. SameTile(Piece(Pow2[n], t[1], t[2]), TileUrl(level, t))
    BY <1>1, <1>3, <2>2, PieceIsTile
  <2> QED BY <2>6, <2>7 DEF Passed
<1>4. LargeLevelsPregenerated
  BY <1>2, <1>3 DEF LargeLevelsPregenerated
<1> QED BY <1>1, <1>4, PixelsAreInTheirTiles

\* The level's tiles cover the image without overlap, getTileAtPoint finds the one that
\* holds a pixel, and the viewer draws a tile where the part it asked for lies, whether it
\* asked for a region or for the full image.
THEOREM PixelsHaveTheirTile == Spec => []EveryPixelInItsTile
<1> QED BY InitInv, StepInv, InvImplies, PTL DEF Spec

\* The loops of getPaths, which count in pixels and start each level anew, ask for every
\* tile of the levels larger than a tile, and for nothing that is not one of them.
THEOREM PregeneratedExactly == Spec => []LargeLevelsPregenerated
<1> QED BY InitInv, StepInv, InvImplies, PTL DEF Spec

-----------------------------------------------------------------------------
(* IIPMooViewer: the levels of a picture *)

\* Pictures have the levels that the window asks for: the smallest level fits it, and one
\* that is too large for it along one axis only has two levels below its full size. Neither
\* zoomOut nor calculateMinSizes asks whether there is a level. The server counts halvings
\* until the longer side is less than 96 pixels (getLevelCount), so this is so for a window
\* of 191 pixels or more each way, unless the file has fewer levels than that.
LevelsSuffice ==
  \A im \in Pictures :
    /\ \A a \in Axis : SizeAt(im, 0)[a] <= Window[a]
    /\ ~FitsWindow(im) /\ (\E a \in Axis : im.size[a] <= Window[a]) => im.num_resolutions >= 2

Views == [res : Int, len : [Axis -> Nat], pos : [Axis -> Int], fit : [Axis -> BOOLEAN]]

\* A view that lays out a level of the picture.
GoodView(im, v) ==
  /\ v.res \in 0..im.num_resolutions /\ v.len = SizeAt(im, v.res)
  /\ \A a \in Axis : v.pos[a] >= 0

LEMMA HalvingsOfPicture ==
  ASSUME NEW im \in Pictures, NEW r \in Int
  PROVE  /\ Halvings(im, r) \in Nat /\ Pow2[Halvings(im, r)] \in Nat \ {0}
         /\ r <= im.num_resolutions => Halvings(im, r) = im.num_resolutions - r
         /\ r >= im.num_resolutions => Halvings(im, r) = 0
<1>1. im.num_resolutions \in Nat
  BY PictureAssumption
<1>2. Halvings(im, r) \in Nat
  BY <1>1 DEF Halvings, Greatest
<1> QED BY <1>1, <1>2, Pow2Doubles DEF Halvings, Greatest

LEMMA SizeOfLevel ==
  ASSUME NEW im \in Pictures, NEW r \in Int
  PROVE  SizeAt(im, r) \in [Axis -> Nat]
<1>1. \A a \in Axis : im.size[a] \in Nat
  BY PictureAssumption
<1>2. Pow2[Halvings(im, r)] \in Nat \ {0}
  BY HalvingsOfPicture
<1> HIDE DEF Halvings
<1>3. \A a \in Axis : im.size[a] \div Pow2[Halvings(im, r)] \in Nat
  BY <1>1, <1>2, Divided
<1> QED BY <1>3 DEF SizeAt

\* From the last level on, a picture has its full size.
LEMMA FullSize ==
  ASSUME NEW im \in Pictures, NEW r \in Int, r >= im.num_resolutions
  PROVE  SizeAt(im, r) = im.size
<1>1. im.size \in [Axis -> Nat]
  BY PictureAssumption
<1>2. Pow2[Halvings(im, r)] = 1
  BY HalvingsOfPicture, Pow2Doubles
<1>3. \A a \in Axis : im.size[a] \div 1 = im.size[a]
  BY <1>1
<1> QED BY <1>1, <1>2, <1>3 DEF SizeAt

\* The positions of a view are moved by halves and quarters, which are rounded.
LEMMA Halved ==
  ASSUME NEW n \in Int
  PROVE  n \div 2 \in Int /\ n \div 4 \in Int
OBVIOUS

LEMMA Products ==
  ASSUME NEW m \in Int, NEW n \in Int
  PROVE  m * n \in Int
OBVIOUS

\* positionZone changes only what it finds out.
LEMMA ZoneKeeps ==
  ASSUME NEW im \in Pictures, NEW v \in Views
  PROVE  /\ ZonePositioned(v) \in Views
         /\ ZonePositioned(v).res = v.res /\ ZonePositioned(v).len = v.len
         /\ ZonePositioned(v).pos = v.pos
         /\ GoodView(im, v) => GoodView(im, ZonePositioned(v))
BY DEF ZonePositioned, Views, GoodView

LEMMA ZoomInKeeps ==
  ASSUME NEW im \in Pictures, NEW v \in Views
  PROVE  /\ ZoomedIn(im, v) \in Views
         /\ (\A a \in Axis : 2 * v.len[a] <= im.size[a]) /\ v.res + 1 \in 0..im.num_resolutions
              => GoodView(im, ZoomedIn(im, v))
         /\ GoodView(im, v) => GoodView(im, ZoomedIn(im, v))
<1> DEFINE size == SizeAt(im, v.res + 1)
           moved(a) == IF v.fit[a] THEN ((size[a] - Window[a]) * Px) \div 2
                       ELSE IF size[a] > Window[a] THEN 2 * v.pos[a] + (Window[a] * Px) \div 2
                       ELSE v.pos[a]
           kept(a) == IF moved(a) > size[a] * Px THEN (size[a] - Window[a]) * Px ELSE moved(a)
           p == [a \in Axis |-> Greatest(kept(a), 0)]
           w == [v EXCEPT !.res = v.res + 1, !.len = size, !.pos = p]
<1>1. CASE \A a \in Axis : 2 * v.len[a] <= im.size[a]
  <2>1. ZoomedIn(im, v) = ZonePositioned(w)
    BY <1>1 DEF ZoomedIn, Views
  <2>2. ASSUME NEW a \in Axis PROVE kept(a) \in Int
    <3>1. size[a] \in Int /\ Window[a] \in Int /\ v.pos[a] \in Int /\ Px \in Int
      BY SizeOfLevel, WindowAssumption, NumberAssumption DEF Views
    <3> HIDE DEF size
    <3>2. (size[a] - Window[a]) * Px \in Int /\ Window[a] * Px \in Int /\ size[a] * Px \in Int
      BY <3>1, Products
    <3>3. moved(a) \in Int
      BY <3>1, <3>2, Halved
    <3> QED BY <3>2, <3>3
  <2>3. p \in [Axis -> Int] /\ \A a \in Axis : p[a] >= 0
    BY <2>2 DEF Greatest
  <2>4. v.res + 1 \in Int
    BY DEF Views
  <2>4a. size \in [Axis -> Nat]
    BY <2>4, SizeOfLevel
  <2>4b. w \in Views /\ w.res = v.res + 1 /\ w.len = size /\ w.pos = p
    <3> HIDE DEF size
    <3> QED BY <2>3, <2>4, <2>4a DEF Views
  <2> HIDE DEF p, w
  <2>5. /\ ZonePositioned(w) \in Views
        /\ v.res + 1 \in 0..im.num_resolutions => GoodView(im, ZonePositioned(w))
    BY <2>3, <2>4b, ZoneKeeps DEF GoodView
  <2>6. ASSUME GoodView(im, v) PROVE v.res + 1 \in 0..im.num_resolutions
    <3>1. v.res # im.num_resolutions
      <4>1. SUFFICES ASSUME v.res = im.num_resolutions PROVE FALSE
        OBVIOUS
      <4>2. v.len = im.size
        BY <2>6, <4>1, FullSize DEF GoodView, Views
      <4>3. im.size["x"] \in Nat \ {0} /\ "x" \in Axis
        BY PictureAssumption DEF Axis
      <4> QED BY <1>1, <4>2, <4>3
    <3> QED BY <2>6, <3>1, PictureAssumption DEF GoodView
  <2> QED BY <2>1, <2>5, <2>6
<1>2. CASE ~ \A a \in Axis : 2 * v.len[a] <= im.size[a]
  BY <1>2 DEF ZoomedIn
<1> QED BY <1>1, <1>2

\* zoomOut also sets right a view that was laid out for the full size but a level below it.
LEMMA ZoomOutKeeps ==
  ASSUME NEW im \in Pictures, NEW v \in Views
  PROVE  /\ ZoomedOut(im, v) \in Views
         /\ v.res - 1 \in 0..im.num_resolutions /\ (\E a \in Axis : v.len[a] > Window[a])
              => GoodView(im, ZoomedOut(im, v))
         /\ ~(\E a \in Axis : v.len[a] > Window[a]) => ZoomedOut(im, v) = v
<1> DEFINE size == SizeAt(im, v.res - 1)
           moved(a) == v.pos[a] \div 2 - (Window[a] * Px) \div 4
           kept(a) == Least(moved(a), (size[a] - Window[a]) * Px)
           p == [a \in Axis |-> Greatest(kept(a), 0)]
           w == [v EXCEPT !.res = v.res - 1, !.len = size, !.pos = p]
<1>1. CASE \E a \in Axis : v.len[a] > Window[a]
  <2>1. ZoomedOut(im, v) = ZonePositioned(w)
    BY <1>1 DEF ZoomedOut, Views
  <2>2. ASSUME NEW a \in Axis PROVE kept(a) \in Int
    <3>1. size[a] \in Int /\ Window[a] \in Int /\ v.pos[a] \in Int /\ Px \in Int
      BY SizeOfLevel, WindowAssumption, NumberAssumption DEF Views
    <3> HIDE DEF size
    <3>2. (size[a] - Window[a]) * Px \in Int /\ Window[a] * Px \in Int
      BY <3>1, Products
    <3> QED BY <3>1, <3>2, Halved DEF Least
  <2>3. p \in [Axis -> Int] /\ \A a \in Axis : p[a] >= 0
    BY <2>2 DEF Greatest
  <2>4. v.res - 1 \in Int
    BY DEF Views
  <2>5. size \in [Axis -> Nat]
    BY <2>4, SizeOfLevel
  <2>5b. w \in Views /\ w.res = v.res - 1 /\ w.len = size /\ w.pos = p
    <3> HIDE DEF size
    <3> QED BY <2>3, <2>4, <2>5 DEF Views
  <2> HIDE DEF p, w
  <2>6. /\ ZonePositioned(w) \in Views
        /\ v.res - 1 \in 0..im.num_resolutions => GoodView(im, ZonePositioned(w))
    BY <2>3, <2>5b, ZoneKeeps DEF GoodView
  <2> QED BY <1>1, <2>1, <2>6
<1>2. CASE ~ \E a \in Axis : v.len[a] > Window[a]
  BY <1>2 DEF ZoomedOut
<1> QED BY <1>1, <1>2

\* No level below the first is asked for, since that one fits the window.
LEMMA ZoomOutFindsLevel ==
  ASSUME LevelsSuffice, NEW im \in Pictures, NEW v \in Views, GoodView(im, v)
  PROVE  GoodView(im, ZoomedOut(im, v))
<1>1. CASE \E a \in Axis : v.len[a] > Window[a]
  <2>1. v.res # 0
    BY <1>1, WindowAssumption, SizeOfLevel DEF GoodView, LevelsSuffice
  <2>2. v.res - 1 \in 0..im.num_resolutions
    BY <2>1, PictureAssumption DEF GoodView
  <2> QED BY <1>1, <2>2, ZoomOutKeeps
<1>2. CASE ~ \E a \in Axis : v.len[a] > Window[a]
  BY <1>2, ZoomOutKeeps
<1> QED BY <1>1, <1>2

LEMMA ScrollKeeps ==
  ASSUME NEW im \in Pictures, NEW v \in Views, NEW d \in [Axis -> Int]
  PROVE  /\ Scrolled(v, d) \in Views
         /\ GoodView(im, v) => GoodView(im, Scrolled(v, d))
         /\ Scrolled(v, d).pos =
              [a \in Axis |-> Greatest(Least(v.pos[a] + d[a], (v.len[a] - Window[a]) * Px), 0)]
<1> DEFINE kept(a) == Least(v.pos[a] + d[a], (v.len[a] - Window[a]) * Px)
           p == [a \in Axis |-> Greatest(kept(a), 0)]
           w == [v EXCEPT !.pos = p]
<1>1. Scrolled(v, d) = ZonePositioned(w)
  BY DEF Scrolled
<1>2. ASSUME NEW a \in Axis PROVE kept(a) \in Int
  <2>1. v.len[a] \in Int /\ Window[a] \in Int /\ v.pos[a] \in Int /\ Px \in Int /\ d[a] \in Int
    BY WindowAssumption, NumberAssumption DEF Views
  <2>2. (v.len[a] - Window[a]) * Px \in Int
    BY <2>1, Products
  <2> QED BY <2>1, <2>2 DEF Least
<1>3. p \in [Axis -> Int] /\ \A a \in Axis : p[a] >= 0
  BY <1>2 DEF Greatest
<1>4. w \in Views /\ w.res = v.res /\ w.len = v.len /\ w.pos = p
  <2> HIDE DEF p
  <2> QED BY <1>3 DEF Views
<1>5. GoodView(im, v) => GoodView(im, w)
  <2> HIDE DEF p, w
  <2> QED BY <1>3, <1>4 DEF GoodView
<1> QED BY <1>1, <1>4, <1>5, ZoneKeeps

-----------------------------------------------------------------------------
(* The level that IIPMooViewer opens *)

\* So many halvings, and no fewer, make a picture fit the window along an axis.
Fitting(im, k) ==
  /\ \E a \in Axis : SizeAt(im, im.num_resolutions - k)[a] <= Window[a]
  /\ \A j \in 0..(k - 1) :
       ~ \E a \in Axis : SizeAt(im, im.num_resolutions - j)[a] <= Window[a]

\* There are always enough: a power of two is larger than its exponent.
LEMMA Pow2Exceeds == \A n \in Nat : n < Pow2[n]
<1> DEFINE T == {n \in Nat : n < Pow2[n]}
<1>1. 0 \in T
  BY Pow2Doubles
<1>2. \A n \in Nat : n \in T => n + 1 \in T
  <2> SUFFICES ASSUME NEW n \in Nat, n < Pow2[n] PROVE n + 1 < Pow2[n + 1]
    OBVIOUS
  <2> QED BY Pow2Doubles
<1>3. \A n \in Nat : n \in T
  <2> HIDE DEF T
  <2> QED BY <1>1, <1>2, AllNumbers
<1> QED BY <1>3

LEMMA FittingExists ==
  ASSUME NEW im \in Pictures
  PROVE  \E k \in 0..im.size["x"] : Fitting(im, k)
<1> DEFINE fits(k) == \E a \in Axis : SizeAt(im, im.num_resolutions - k)[a] <= Window[a]
           T == {k \in Nat : fits(k)}
           n == im.size["x"]
<1>1. n \in Nat \ {0} /\ im.num_resolutions \in Nat /\ "x" \in Axis
  BY PictureAssumption DEF Axis
<1>2. n \in T
  <2>0. Halvings(im, im.num_resolutions - n) = n
    <3> HIDE DEF n
    <3>1. im.num_resolutions - n \in Int /\ im.num_resolutions - n <= im.num_resolutions
          /\ im.num_resolutions - (im.num_resolutions - n) = n
      BY <1>1
    <3> QED BY <3>1, HalvingsOfPicture
  <2>1. /\ Halvings(im, im.num_resolutions - n) = n
        /\ Pow2[n] \in Nat \ {0} /\ n < Pow2[n]
    BY <1>1, <2>0, Pow2Doubles, Pow2Exceeds
  <2>2. n \div Pow2[n] = 0
    <3> DEFINE q == n \div Pow2[n]
    <3>1. q \in Nat /\ Pow2[n] * q <= n
      BY <1>1, <2>1, Divided
    <3> HIDE DEF q, n
    <3>2. ~ 1 <= q
      <4>1. SUFFICES ASSUME 1 <= q PROVE FALSE
        OBVIOUS
      <4>2. Pow2[n] * 1 <= Pow2[n] * q
        BY <2>1, <3>1, <4>1, Monotone
      <4> QED BY <1>1, <2>1, <3>1, <4>2, Products
    <3>3. q = 0
      BY <3>1, <3>2
    <3> QED BY <3>3 DEF q
  <2>3. SizeAt(im, im.num_resolutions - n)["x"] = 0
    BY <1>1, <2>1, <2>2 DEF SizeAt
  <2> QED BY <1>1, <2>3, WindowAssumption
<1>3. PICK k \in T : \A j \in T : k <= j
  <2> HIDE DEF T
  <2>1. T \subseteq Nat
    BY DEF T
  <2> QED BY <1>2, <2>1, LeastNumber
<1>4. k \in 0..n
  <2> HIDE DEF fits
  <2> QED BY <1>1, <1>2, <1>3
<1>5. \A j \in 0..(k - 1) : ~fits(j)
  <2> HIDE DEF fits
  <2> QED BY <1>3
<1> QED BY <1>3, <1>4, <1>5 DEF Fitting

\* calculateMinSizes takes the level below the one that it has computed the size of.
LEMMA FirstView ==
  ASSUME NEW im \in Pictures
  PROVE  \E k \in 0..im.size["x"] :
           /\ Fitting(im, k)
           /\ FirstLevel(im) \in Views
           /\ FirstLevel(im).res = im.num_resolutions - k - 1
           /\ FirstLevel(im).len = SizeAt(im, im.num_resolutions - k)
<1> DEFINE k == CHOOSE k \in 0..im.size["x"] : Fitting(im, k)
           size == SizeAt(im, im.num_resolutions - k)
           v == [res |-> im.num_resolutions - k - 1, len |-> size,
                 pos |-> [a \in Axis |-> ((size[a] - Window[a]) * Px) \div 2],
                 fit |-> [a \in Axis |-> FALSE]]
<1>1. k \in 0..im.size["x"] /\ Fitting(im, k)
  BY FittingExists
<1>2. FirstLevel(im) = v
  BY DEF FirstLevel, Fitting
<1> HIDE DEF k
<1>3. k \in Int /\ im.num_resolutions \in Int
  BY <1>1, PictureAssumption
<1>4. size \in [Axis -> Nat]
  BY <1>3, SizeOfLevel
<1> HIDE DEF size
<1>5. ASSUME NEW a \in Axis PROVE ((size[a] - Window[a]) * Px) \div 2 \in Int
  <2>1. size[a] \in Int /\ Window[a] \in Int /\ Px \in Int
    BY <1>4, WindowAssumption, NumberAssumption
  <2> QED BY <2>1, Products, Halved
<1>6. v \in Views
  BY <1>3, <1>4, <1>5 DEF Views
<1>7. /\ FirstLevel(im) \in Views /\ FirstLevel(im).res = im.num_resolutions - k - 1
      /\ FirstLevel(im).len = size
  <2>1. v.res = im.num_resolutions - k - 1 /\ v.len = size
    OBVIOUS
  <2> HIDE DEF v
  <2> QED BY <1>2, <1>6, <2>1
<1> QED BY <1>1, <1>7 DEF size

\* A picture larger than the window is opened at a level it has. One that is as small as
\* the window along one axis is first laid out for its full size, a level too high, and
\* zoomOut sets that right, as long as there are two levels below.
LEMMA OpenedAtLevel ==
  ASSUME NEW im \in Pictures
  PROVE  /\ Opened(im) \in Views
         /\ LevelsSuffice /\ ~FitsWindow(im) => GoodView(im, Opened(im))
<1> DEFINE v == FirstLevel(im)
           w == ZoomedIn(im, v)
           u == ZoomedOut(im, w)
<1>1. PICK k \in 0..im.size["x"] :
        /\ Fitting(im, k) /\ v \in Views /\ v.res = im.num_resolutions - k - 1
        /\ v.len = SizeAt(im, im.num_resolutions - k)
  BY FirstView
<1> HIDE DEF v
<1>2. w \in Views
  BY <1>1, ZoomInKeeps
<1>3. u \in Views
  <2> HIDE DEF w
  <2> QED BY <1>2, ZoomOutKeeps
<1>4. Opened(im) = ZonePositioned(u)
  BY DEF Opened, v
<1>5. im.num_resolutions \in Nat /\ im.size \in [Axis -> Nat \ {0}]
  BY PictureAssumption
<1>6. ASSUME LevelsSuffice, ~FitsWindow(im) PROVE GoodView(im, u)
  <2>1. CASE k = 0
    <3>1. v.len = im.size /\ v.res = im.num_resolutions - 1
      BY <1>1, <1>5, <2>1, FullSize
    <3>2. w = v
      <4>1. "x" \in Axis
        BY DEF Axis
      <4>2. ~ (2 * v.len["x"] <= im.size["x"])
        BY <1>5, <3>1, <4>1
      <4> QED BY <4>1, <4>2 DEF ZoomedIn
    <3>3. \E a \in Axis : v.len[a] > Window[a]
      BY <1>5, <1>6, <3>1, WindowAssumption DEF FitsWindow
    <3>4. \E a \in Axis : im.size[a] <= Window[a]
      BY <1>1, <1>5, <2>1, FullSize DEF Fitting
    <3>5. im.num_resolutions >= 2
      BY <1>6, <3>4 DEF LevelsSuffice
    <3>6. v.res - 1 \in 0..im.num_resolutions
      BY <1>5, <3>1, <3>5
    <3> HIDE DEF w
    <3> QED BY <1>2, <3>2, <3>3, <3>6, ZoomOutKeeps
  <2>2. CASE k # 0
    <3>1. k <= im.num_resolutions
      <4>1. SUFFICES ASSUME im.num_resolutions \in 0..(k - 1) PROVE FALSE
        BY <1>1, <1>5
      <4>2. im.num_resolutions - im.num_resolutions = 0 /\ "x" \in Axis
        BY <1>5 DEF Axis
      <4> QED BY <1>1, <1>6, <4>1, <4>2 DEF Fitting, LevelsSuffice
    <3>2. \A a \in Axis : 2 * v.len[a] <= im.size[a]
      <4> SUFFICES ASSUME NEW a \in Axis PROVE 2 * v.len[a] <= im.size[a]
        OBVIOUS
      <4> DEFINE q == v.len[a]
      <4>1. Halvings(im, im.num_resolutions - k) = k /\ k \in Nat /\ k - 1 \in Nat
        BY <1>1, <1>5, <2>2, HalvingsOfPicture
      <4>2. Pow2[k] = 2 * Pow2[k - 1] /\ Pow2[k - 1] \in Nat \ {0} /\ Pow2[k] \in Nat \ {0}
        BY <4>1, Pow2Doubles, (k - 1) + 1 = k
      <4>3. im.size[a] \in Nat /\ q = im.size[a] \div Pow2[k]
        BY <1>1, <1>5, <4>1 DEF SizeAt
      <4>4. q \in Nat /\ Pow2[k] * q <= im.size[a]
        BY <4>2, <4>3, Divided
      <4> HIDE DEF q
      <4>5. q * 2 <= q * Pow2[k]
        BY <4>2, <4>4, Monotone
      <4> QED BY <4>2, <4>3, <4>4, <4>5 DEF q
    <3>3. v.res + 1 \in 0..im.num_resolutions
      BY <1>1, <1>5, <3>1
    <3>4. GoodView(im, w)
      BY <1>1, <3>2, <3>3, ZoomInKeeps
    <3> HIDE DEF w
    <3> QED BY <1>2, <1>6, <3>4, ZoomOutFindsLevel
  <2> QED BY <2>1, <2>2
<1> HIDE DEF u
<1> QED BY <1>3, <1>4, <1>6, ZoneKeeps

-----------------------------------------------------------------------------
(* The grid of IIPMooViewer *)

LEMMA DividedWhole ==
  ASSUME NEW a \in Int, NEW b \in Nat \ {0}
  PROVE  /\ a \div b \in Int /\ a % b \in 0..(b - 1) /\ a = b * (a \div b) + (a % b)
OBVIOUS

\* Which pieces of size b a place is past.
LEMMA QuotientBounds ==
  ASSUME NEW a \in Nat, NEW b \in Nat \ {0}, NEW i \in Nat
  PROVE  /\ a < b * (i + 1) => a \div b <= i
         /\ b * i <= a => i <= a \div b
<1> DEFINE q == a \div b
<1>1. q \in Nat /\ b * q <= a /\ a < b * q + b
  BY Divided
<1> HIDE DEF q
<1>2. b * (q + 1) = b * q + b /\ b * q \in Int /\ b * i \in Int /\ b * (i + 1) \in Int
  BY <1>1
<1>3. ASSUME a < b * (i + 1), i + 1 <= q PROVE FALSE
  <2>1. b * (i + 1) <= b * q
    BY <1>1, <1>3, Monotone
  <2> QED BY <1>1, <1>2, <1>3, <2>1
<1>4. ASSUME b * i <= a, q + 1 <= i PROVE FALSE
  <2>1. b * (q + 1) <= b * i
    BY <1>1, <1>4, Monotone
  <2> QED BY <1>1, <1>2, <1>4, <2>1
<1> QED BY <1>1, <1>3, <1>4 DEF q

\* A tile of a level that begins in the picture there begins in it at full size.
LEMMA TileOfLevel ==
  ASSUME NEW s \in Nat, NEW p \in Nat \ {0}, NEW i \in Nat, i * TileSize < s \div p
  PROVE  i * (TileSize * p) < s
<1> DEFINE q == s \div p
           b == i * TileSize
<1>1. q \in Nat /\ p * q <= s
  BY Divided
<1>2. TileSize \in Nat /\ b \in Nat /\ i * (TileSize * p) = p * b
  BY TileAssumption
<1> HIDE DEF q, b
<1>3. p * (b + 1) <= p * q
  BY <1>1, <1>2, Monotone DEF q, b
<1>4. p * (b + 1) = p * b + p
  BY <1>2
<1>5. p * b \in Int /\ p * q \in Int
  BY <1>1, <1>2
<1> QED BY <1>1, <1>2, <1>3, <1>4, <1>5

\* A tile in sight along an axis is between the first and the last of the grid.
LEMMA SeenIsInGrid ==
  ASSUME NEW x0 \in Nat, NEW n \in Nat, NEW w \in Nat, NEW i \in Nat,
         i * TileSize * Px < x0 + w * Px, x0 < (i + 1) * TileSize * Px, i * TileSize < n
  PROVE  i \in (x0 \div (TileSize * Px))..((Least(n, w) * Px + x0) \div (TileSize * Px))
<1> DEFINE side == TileSize * Px
           b == i * TileSize
           m == Least(n, w)
<1>1. TileSize \in Nat \ {0} /\ Px \in Nat \ {0}
  BY TileAssumption, NumberAssumption
<1>2. side \in Nat \ {0} /\ b \in Nat /\ m \in Nat
  BY <1>1 DEF Least
<1>3. i * TileSize * Px = side * i /\ (i + 1) * TileSize * Px = side * (i + 1) /\ b * Px = side * i
  BY <1>1
<1>4. side * i <= m * Px + x0 /\ m * Px + x0 \in Nat
  <2>1. CASE n < w
    <3>1. m = n /\ b <= n
      BY <1>2, <2>1 DEF Least, b
    <3> HIDE DEF b, m
    <3>2. Px * b <= Px * n
      BY <1>1, <1>2, <3>1, Monotone
    <3>3. Px * b = side * i /\ m * Px = Px * n
      BY <1>1, <1>2, <1>3, <3>1
    <3>4. Px * b \in Nat /\ Px * n \in Nat
      BY <1>1, <1>2
    <3> HIDE DEF side
    <3> QED BY <3>2, <3>3, <3>4
  <2>2. CASE ~ n < w
    <3>1. m = w
      BY <2>2 DEF Least
    <3>2. w * Px \in Nat /\ side * i \in Nat
      BY <1>1, <1>2
    <3> HIDE DEF side, m
    <3> QED BY <1>3, <3>1, <3>2
  <2> QED BY <2>1, <2>2
<1> HIDE DEF side, m
<1>5. x0 \div side <= i /\ i <= (m * Px + x0) \div side
  BY <1>2, <1>3, <1>4, QuotientBounds
<1>6. x0 \div side \in Int /\ (m * Px + x0) \div side \in Int
  BY <1>2, <1>4, DividedWhole
<1> QED BY <1>5, <1>6 DEF side, m

\* The offset in the first tile is rounded down to a pixel of the level.
LEMMA CornerRounded ==
  ASSUME NEW x0 \in Nat
  PROVE  LET y0 == (x0 \div (TileSize * Px)) * TileSize * Px
                     + ((x0 % (TileSize * Px)) \div Px) * Px
         IN y0 \in Int /\ y0 <= x0 /\ x0 < y0 + Px
<1> DEFINE side == TileSize * Px
           q == x0 \div side
           m == x0 % side
           k == m \div Px
<1>1. TileSize \in Nat \ {0} /\ Px \in Nat \ {0} /\ side \in Nat \ {0}
  BY TileAssumption, NumberAssumption
<1> HIDE DEF side
<1>2. q \in Int /\ m \in 0..(side - 1) /\ x0 = side * q + m
  BY <1>1, DividedWhole
<1> HIDE DEF q, m
<1>3. m \in Nat
  BY <1>1, <1>2
<1>4. k \in Nat /\ Px * k <= m /\ m < Px * k + Px
  BY <1>1, <1>3, Divided
<1> HIDE DEF k
<1>5. q * TileSize * Px = side * q /\ k * Px = Px * k /\ side * q \in Int /\ Px * k \in Int
  BY <1>1, <1>2, <1>4 DEF side
<1>6. q * TileSize * Px + k * Px = side * q + Px * k
  BY <1>5
<1>7. LET y0 == q * TileSize * Px + k * Px IN y0 \in Int /\ y0 <= x0 /\ x0 < y0 + Px
  <2> DEFINE u == side * q
             w == Px * k
  <2> HIDE DEF u, w
  <2>1. u \in Int /\ w \in Int /\ x0 = u + m /\ w <= m /\ m < w + Px
    BY <1>2, <1>4, <1>5 DEF u, w
  <2>2. u + w \in Int /\ u + w <= x0 /\ x0 < (u + w) + Px
    BY <1>1, <1>3, <2>1
  <2> QED BY <1>6, <2>2 DEF u, w
<1> QED BY <1>7 DEF q, m, k, side

\* So the snapshot begins less than three pixels before the window.
LEMMA SnapshotBounds ==
  ASSUME NEW x0 \in Nat, NEW y0 \in Int, NEW p \in Nat \ {0}, y0 <= x0, x0 < y0 + Px
  PROVE  LET before == x0 * p - Greatest((y0 - 2 * Px) * p, 0)
         IN 0 <= before /\ before < 3 * Px * p
<1> DEFINE c == y0 - 2 * Px
<1>1. Px \in Nat \ {0} /\ c \in Int /\ c <= x0 /\ x0 - c < 3 * Px /\ 3 * Px \in Nat
  BY NumberAssumption
<1> DEFINE s == 3 * Px
<1>2. s \in Nat /\ c \in Int
  BY <1>1
<1> HIDE DEF c, s
<1>3. p * c <= p * x0 /\ p * ((x0 - c) + 1) <= p * s
  BY <1>1, <1>2, Monotone DEF s
<1>4. /\ p * ((x0 - c) + 1) = p * x0 - p * c + p /\ c * p = p * c /\ x0 * p = p * x0
      /\ s * p = p * s /\ p * c \in Int /\ p * x0 \in Int /\ p * s \in Int
  BY <1>2
<1>5. CASE c * p < 0
  <2>1. c < 0
    <3>1. SUFFICES ASSUME 0 <= c PROVE FALSE
      BY <1>2
    <3>2. p * 0 <= p * c
      BY <1>2, <3>1, Monotone
    <3> QED BY <1>4, <1>5, <3>2
  <2>2. x0 + 1 <= s
    BY <1>1, <1>2, <2>1 DEF s
  <2>3. p * (x0 + 1) <= p * s /\ p * 0 <= p * x0
    BY <1>2, <2>2, Monotone
  <2>4. p * (x0 + 1) = p * x0 + p
    BY <1>2
  <2>5. Greatest(c * p, 0) = 0
    BY <1>5 DEF Greatest
  <2>6. 0 <= x0 * p - 0 /\ x0 * p - 0 < s * p
    BY <1>4, <2>3, <2>4
  <2> QED BY <2>5, <2>6 DEF c, s
<1>6. CASE ~ c * p < 0
  <2>1. Greatest(c * p, 0) = c * p
    BY <1>6 DEF Greatest
  <2>2. 0 <= x0 * p - c * p /\ x0 * p - c * p < s * p
    BY <1>3, <1>4
  <2> QED BY <2>1, <2>2 DEF c, s
<1> QED BY <1>5, <1>6

AskedFor(im, v) == {<<v.res, t[1], t[2]>> : t \in InImage(im, v)}
UrlFor(im, v) == [corner |-> [a \in Axis |-> TopLeft(im, v, a)],
                  size |-> [a \in Axis |-> Least(v.len[a], Window[a])]]

SeenOf(v, a) ==
  {i \in 0..(v.len[a] \div TileSize) :
     /\ i * TileSize * Px < v.pos[a] + Window[a] * Px
     /\ v.pos[a] < (i + 1) * TileSize * Px
     /\ i * TileSize < v.len[a]}

LEMMA TilesAreOfLevel ==
  ASSUME NEW im \in Pictures, NEW v \in Views, GoodView(im, v)
  PROVE  /\ {v.res} \X SeenOf(v, "x") \X SeenOf(v, "y") \subseteq AskedFor(im, v)
         /\ \A t \in AskedFor(im, v) :
              /\ t[1] = v.res /\ 0 <= t[2] /\ 0 <= t[3]
              /\ t[2] * TileSize * Pow2[Halvings(im, v.res)] < im.size["x"]
              /\ t[3] * TileSize * Pow2[Halvings(im, v.res)] < im.size["y"]
<1> DEFINE p == Pow2[Halvings(im, v.res)]
           first(a) == v.pos[a] \div (TileSize * Px)
           last(a) == (Least(v.len[a], Window[a]) * Px + v.pos[a]) \div (TileSize * Px)
<1>1. p \in Nat \ {0}
  BY HalvingsOfPicture DEF Views
<1>2. \A a \in Axis : im.size[a] \in Nat /\ v.len[a] = im.size[a] \div p
  BY PictureAssumption DEF GoodView, SizeAt
<1>3. \A a \in Axis : v.pos[a] \in Nat /\ v.len[a] \in Nat /\ Window[a] \in Nat
  BY WindowAssumption DEF GoodView, Views
<1>4. InImage(im, v) =
        {t \in (first("x")..last("x")) \X (first("y")..last("y")) :
           t[1] * (TileSize * p) < im.size["x"] /\ t[2] * (TileSize * p) < im.size["y"]}
  BY DEF InImage, Grid
<1>5. "x" \in Axis /\ "y" \in Axis
  BY DEF Axis
<1> HIDE DEF p, first, last
<1>6. ASSUME NEW a \in Axis, NEW i \in SeenOf(v, a)
      PROVE  i \in first(a)..last(a) /\ i * (TileSize * p) < im.size[a]
  <2>1. /\ i \in Nat /\ i * TileSize * Px < v.pos[a] + Window[a] * Px
        /\ v.pos[a] < (i + 1) * TileSize * Px /\ i * TileSize < v.len[a]
    <3>1. v.len[a] \div TileSize \in Nat
      BY <1>3, TileAssumption, Divided
    <3> QED BY <1>6, <3>1 DEF SeenOf
  <2>2. i \in first(a)..last(a)
    BY <1>3, <2>1, SeenIsInGrid DEF first, last
  <2>3. i * (TileSize * p) < im.size[a]
    BY <1>1, <1>2, <2>1, TileOfLevel
  <2> QED BY <2>2, <2>3
<1>7. ASSUME NEW i \in SeenOf(v, "x"), NEW j \in SeenOf(v, "y")
      PROVE  <<v.res, i, j>> \in AskedFor(im, v)
  <2>1. <<i, j>> \in InImage(im, v)
    BY <1>4, <1>5, <1>6
  <2> QED BY <2>1 DEF AskedFor
<1>8. ASSUME NEW a \in Axis, NEW i \in first(a)..last(a)
      PROVE  0 <= i /\ i \in Int /\ i * TileSize * p = i * (TileSize * p)
  <2>1. TileSize \in Nat \ {0} /\ Px \in Nat \ {0} /\ TileSize * Px \in Nat \ {0}
    BY TileAssumption, NumberAssumption
  <2>2. first(a) \in Nat
    BY <1>3, <2>1, Divided DEF first
  <2>3. i \in Int /\ 0 <= i
    BY <2>2
  <2> QED BY <1>1, <2>1, <2>3
<1>9. ASSUME NEW t \in AskedFor(im, v)
      PROVE  /\ t[1] = v.res /\ 0 <= t[2] /\ 0 <= t[3]
             /\ t[2] * TileSize * p < im.size["x"] /\ t[3] * TileSize * p < im.size["y"]
  <2>1. PICK u \in InImage(im, v) : t = <<v.res, u[1], u[2]>>
    BY DEF AskedFor
  <2>2. /\ u[1] \in first("x")..last("x") /\ u[2] \in first("y")..last("y")
        /\ u[1] * (TileSize * p) < im.size["x"] /\ u[2] * (TileSize * p) < im.size["y"]
    BY <1>4
  <2> QED BY <1>5, <1>8, <2>1, <2>2
<1> QED BY <1>7, <1>9 DEF p

LEMMA SnapshotAtWindow ==
  ASSUME NEW im \in Pictures, NEW v \in Views, GoodView(im, v), NEW a \in Axis,
         v.len[a] >= Window[a]
  PROVE  LET before == v.pos[a] * Pow2[Halvings(im, v.res)] - TopLeft(im, v, a)
         IN 0 <= before /\ before < 3 * Px * Pow2[Halvings(im, v.res)]
<1> DEFINE p == Pow2[Halvings(im, v.res)]
           x0 == v.pos[a]
           y0 == (x0 \div (TileSize * Px)) * TileSize * Px + ((x0 % (TileSize * Px)) \div Px) * Px
           in == ((x0 % (TileSize * Px)) \div Px) * Px
           tile == (x0 \div (TileSize * Px)) * TileSize * Px
<1>1. p \in Nat \ {0}
  BY HalvingsOfPicture DEF Views
<1>2. x0 \in Nat /\ v.len[a] \in Nat /\ Window[a] \in Nat /\ Px \in Nat \ {0}
      /\ TileSize \in Nat \ {0} /\ TileSize * Px \in Nat \ {0}
  BY WindowAssumption, NumberAssumption, TileAssumption DEF GoodView, Views
<1> HIDE DEF p, x0
<1>3. y0 \in Int /\ y0 <= x0 /\ x0 < y0 + Px
  BY <1>2, CornerRounded
<1>4. in \in Int /\ tile \in Int
  <2>1. x0 % (TileSize * Px) \in Int /\ x0 \div (TileSize * Px) \in Int
    BY <1>2, DividedWhole
  <2>2. (x0 % (TileSize * Px)) \div Px \in Int
    BY <1>2, <2>1, DividedWhole
  <2>3. (x0 \div (TileSize * Px)) * TileSize \in Int
    BY <1>2, <2>1, Products
  <2> QED BY <1>2, <2>2, <2>3, Products
<1>5. TopLeft(im, v, a) = Greatest((tile + (in - 0) - 2 * Px) * p, 0)
  BY <1>2 DEF TopLeft, p, x0
<1>6. tile + (in - 0) - 2 * Px = y0 - 2 * Px
  <2>1. y0 = tile + in
    OBVIOUS
  <2> HIDE DEF y0, tile, in
  <2> QED BY <1>2, <1>4, <2>1
<1> HIDE DEF y0, tile, in
<1> QED BY <1>1, <1>2, <1>3, <1>5, <1>6, SnapshotBounds DEF p, x0

\* Every tile in the window is asked for and no other than the picture has.
LEMMA ViewIsTiled ==
  ASSUME picture \in Pictures, View \in Views, GoodView(picture, View),
         asked = AskedFor(picture, View), openUrl = UrlFor(picture, View)
  PROVE  WindowIsTiled
<1> DEFINE p == Pow2[Halvings(picture, res)]
<1>1. View.res = res /\ View.len = len /\ View.pos = pos /\ len = SizeAt(picture, res)
  BY DEF View, GoodView
<1>2. openUrl.corner = [a \in Axis |-> TopLeft(picture, View, a)]
  BY DEF UrlFor
<1>3. \A a \in {"x", "y"} : SeenOf(View, a) =
        {i \in 0..(SizeAt(picture, res)[a] \div TileSize) :
           /\ i * TileSize * Px < pos[a] + Window[a] * Px
           /\ pos[a] < (i + 1) * TileSize * Px
           /\ i * TileSize < SizeAt(picture, res)[a]}
  BY <1>1 DEF SeenOf
<1>4. /\ {res} \X SeenOf(View, "x") \X SeenOf(View, "y") \subseteq asked
      /\ \A t \in asked : /\ t[1] = res /\ 0 <= t[2] /\ 0 <= t[3]
                          /\ t[2] * TileSize * p < picture.size["x"]
                          /\ t[3] * TileSize * p < picture.size["y"]
  BY <1>1, TilesAreOfLevel
<1>5. \A a \in Axis : len[a] >= Window[a] =>
        LET before == pos[a] * p - openUrl.corner[a]
        IN 0 <= before /\ before < 3 * Px * p
  BY <1>1, <1>2, SnapshotAtWindow
<1> QED BY <1>3, <1>4, <1>5 DEF WindowIsTiled

-----------------------------------------------------------------------------
(* A drop of the picture *)

\* How far a target may have been dragged: not past an edge of the picture.
WithinEdges(v, o) ==
  \A a \in Axis : v.len[a] > Window[a] =>
    v.pos[a] - (v.len[a] - Window[a]) * Px <= o[a] /\ o[a] <= v.pos[a]

LEMMA RoomOfAxis ==
  ASSUME NEW v \in Views, NEW a \in Axis
  PROVE  /\ v.pos[a] \in Int /\ (v.len[a] - Window[a]) * Px \in Int /\ Px \in Nat \ {0}
         /\ v.len[a] > Window[a] => (v.len[a] - Window[a]) * Px >= 0
<1>1. v.pos[a] \in Int /\ v.len[a] \in Nat /\ Window[a] \in Nat /\ Px \in Nat \ {0}
  BY WindowAssumption, NumberAssumption DEF Views
<1>2. (v.len[a] - Window[a]) * Px \in Int
  BY <1>1, Products
<1>3. ASSUME v.len[a] > Window[a] PROVE (v.len[a] - Window[a]) * Px >= 0
  <2>1. Px * 0 <= Px * (v.len[a] - Window[a])
    BY <1>1, <1>3, Monotone
  <2> QED BY <1>1, <2>1
<1> QED BY <1>1, <1>2, <1>3

LEMMA DragsStayWithin ==
  ASSUME View \in Views, NEW d \in [Axis -> Int]
  PROVE  Dragged(d) \in [Axis -> Int] /\ WithinEdges(View, Dragged(d))
<1> DEFINE capped(a) == IF pos[a] - d[a] * Px < 0 THEN pos[a] ELSE d[a] * Px
           edge(a) == pos[a] - (len[a] - Window[a]) * Px
           o(a) == IF len[a] > Window[a] THEN Greatest(capped(a), edge(a)) ELSE 0
<1>1. View.len = len /\ View.pos = pos
  BY DEF View
<1>2. ASSUME NEW a \in Axis
      PROVE  /\ o(a) \in Int
             /\ len[a] > Window[a] => edge(a) <= o(a) /\ o(a) <= pos[a]
  <2> DEFINE e == d[a] * Px
             m == (len[a] - Window[a]) * Px
  <2>1. pos[a] \in Int /\ m \in Int /\ (len[a] > Window[a] => m >= 0)
    BY <1>1, RoomOfAxis
  <2>2. e \in Int
    BY NumberAssumption, Products
  <2> HIDE DEF e, m
  <2> QED BY <2>1, <2>2 DEF Greatest, e, m
<1>3. Dragged(d) = [a \in Axis |-> o(a)]
  BY DEF Dragged
<1> QED BY <1>1, <1>2, <1>3 DEF WithinEdges

\* The browser rounds by half a pixel at most.
LEMMA Rounded ==
  ASSUME NEW o \in Int
  PROVE  LET whole == (o + Px \div 2) \div Px
         IN /\ whole \in Int /\ whole * Px \in Int
            /\ 2 * (o - whole * Px) \in -Px..Px
            /\ o = 0 => whole = 0
<1> DEFINE h == Px \div 2
           n == o + h
           w == n \div Px
<1>1. Px \in Nat \ {0}
  BY NumberAssumption
<1>2. h \in Nat /\ 2 * h <= Px /\ Px < 2 * h + 2
  BY <1>1, Divided
<1>3. n \in Int
  BY <1>2
<1> HIDE DEF h, n
<1>4. w \in Int /\ n % Px \in 0..(Px - 1) /\ n = Px * w + (n % Px)
  BY <1>1, <1>3, DividedWhole
<1> DEFINE m == n % Px
           u == Px * w
<1>5. m \in 0..(Px - 1) /\ n = u + m /\ w * Px = u /\ u \in Int
  BY <1>1, <1>4
<1>6. ASSUME o = 0 PROVE w = 0
  <2>1. n \in Nat /\ n < Px
    BY <1>1, <1>2, <1>6 DEF n
  <2>2. w <= 0
    BY <1>1, <2>1, QuotientBounds
  <2>3. w \in Nat
    BY <1>1, <2>1, Divided
  <2> QED BY <2>2, <2>3
<1> HIDE DEF m, u, w
<1>7. 2 * (o - u) \in -Px..Px
  BY <1>1, <1>2, <1>5 DEF n
<1> QED BY <1>4, <1>5, <1>6, <1>7 DEF w, n, h

\* A place that is moved by so little is moved no further by keeping it in the picture.
LEMMA KeptInPicture ==
  ASSUME NEW z \in Int, NEW n \in Int, NEW m \in Int, NEW b \in Int,
         0 <= z, z <= m, 2 * (n - z) \in -b..b
  PROVE  2 * (Greatest(Least(n, m), 0) - z) \in -b..b
BY DEF Greatest, Least

-----------------------------------------------------------------------------
(* The inductive invariant of IIPMooViewer *)

ViewerInv ==
  /\ TypeOK
  /\ (\A a \in Axis : offset[a] = 0) \/ WithinEdges(View, offset)
  /\ phase = "viewing" =>
       /\ asked = AskedFor(picture, View)
       /\ openUrl = UrlFor(picture, View)
       /\ LevelsSuffice /\ ~FitsWindow(picture) => GoodView(picture, View)

LEMMA ViewIsTyped == TypeOK => View \in Views
BY DEF TypeOK, View, Views

LEMMA GridIsFinite ==
  ASSUME NEW v \in Views
  PROVE  Grid(v) \subseteq Int \X Int /\ IsFiniteSet(Grid(v)) /\ Cardinality(Grid(v)) \in Nat
<1> DEFINE first(a) == v.pos[a] \div (TileSize * Px)
           end(a) == (Least(v.len[a], Window[a]) * Px + v.pos[a]) \div (TileSize * Px)
<1>1. ASSUME NEW a \in Axis PROVE first(a) \in Int /\ end(a) \in Int
  <2>1. /\ v.pos[a] \in Int /\ v.len[a] \in Int /\ Window[a] \in Int
        /\ TileSize * Px \in Nat \ {0} /\ Px \in Int
    BY WindowAssumption, NumberAssumption, TileAssumption DEF Views
  <2>2. Least(v.len[a], Window[a]) \in Int
    BY <2>1 DEF Least
  <2>3. Least(v.len[a], Window[a]) * Px + v.pos[a] \in Int
    BY <2>1, <2>2, Products
  <2> QED BY <2>1, <2>3, DividedWhole
<1>2. Grid(v) = (first("x")..end("x")) \X (first("y")..end("y"))
  BY DEF Grid
<1>3. "x" \in Axis /\ "y" \in Axis
  BY DEF Axis
<1> HIDE DEF first, end
<1>4. IsFiniteSet(first("x")..end("x")) /\ IsFiniteSet(first("y")..end("y"))
  BY <1>1, <1>3, FS_Interval
<1>5. IsFiniteSet(Grid(v))
  BY <1>2, <1>4, FS_Product
<1> QED BY <1>1, <1>2, <1>3, <1>5, FS_CardinalityType

\* Tiles past the edge are fewer than all.
LEMMA CountsOfGrid ==
  ASSUME NEW im \in Pictures, NEW v \in Views
  PROVE  /\ AskedFor(im, v) \subseteq Int \X Int \X Int
         /\ Cardinality(AskedFor(im, v)) \in Nat
         /\ Cardinality(Grid(v)) \in Nat
         /\ Cardinality(Grid(v)) - Cardinality(AskedFor(im, v)) \in Nat
<1> DEFINE S == InImage(im, v)
           tile(t) == <<v.res, t[1], t[2]>>
           f == [t \in S |-> tile(t)]
<1>1. S \subseteq Grid(v)
  BY DEF InImage
<1>2. Grid(v) \subseteq Int \X Int /\ IsFiniteSet(Grid(v)) /\ Cardinality(Grid(v)) \in Nat
  BY GridIsFinite
<1>3. IsFiniteSet(S) /\ Cardinality(S) <= Cardinality(Grid(v)) /\ Cardinality(S) \in Nat
  BY <1>1, <1>2, FS_Subset, FS_CardinalityType
<1>4. AskedFor(im, v) = {tile(t) : t \in S}
  BY DEF AskedFor
<1>5. v.res \in Int
  BY DEF Views
<1> HIDE DEF S
<1>6. f \in Surjection(S, {tile(t) : t \in S})
  BY DEF Surjection
<1>7. IsFiniteSet({tile(t) : t \in S}) /\ Cardinality({tile(t) : t \in S}) <= Cardinality(S)
  <2> HIDE DEF f, tile
  <2> QED BY <1>3, <1>6, FS_Surjection
<1>8. Cardinality(AskedFor(im, v)) \in Nat
  BY <1>4, <1>7, FS_CardinalityType
<1>9. AskedFor(im, v) \subseteq Int \X Int \X Int
  BY <1>1, <1>2, <1>4, <1>5
<1> QED BY <1>2, <1>3, <1>4, <1>7, <1>8, <1>9

LEMMA UrlIsTyped ==
  ASSUME NEW im \in Pictures, NEW v \in Views
  PROVE  UrlFor(im, v) \in [corner : [Axis -> Nat], size : [Axis -> Nat]]
<1>1. ASSUME NEW a \in Axis PROVE TopLeft(im, v, a) \in Nat
  <2> DEFINE p == Pow2[Halvings(im, v.res)]
             q == v.pos[a] \div (TileSize * Px)
             tile == q * TileSize
             m == v.pos[a] % (TileSize * Px)
             room == (Window[a] - v.len[a]) * Px
             centred == IF v.len[a] < Window[a] THEN room \div 2 ELSE 0
             in == (m \div Px) * Px - centred
             c == (tile * Px + in - 2 * Px) * p
  <2>1. p \in Int
    BY HalvingsOfPicture DEF Views
  <2>2. /\ v.pos[a] \in Int /\ v.len[a] \in Int /\ Window[a] \in Int /\ TileSize \in Int
        /\ TileSize * Px \in Nat \ {0} /\ Px \in Nat \ {0}
    BY WindowAssumption, NumberAssumption, TileAssumption DEF Views
  <2> HIDE DEF p
  <2>3. q \in Int /\ m \in Int
    BY <2>2, DividedWhole
  <2>4. room \in Int
    BY <2>2, Products
  <2> HIDE DEF q, m, room
  <2>5. centred \in Int
    BY <2>4, Halved
  <2>6. tile \in Int /\ m \div Px \in Int
    BY <2>2, <2>3, Products, DividedWhole
  <2> HIDE DEF centred, tile
  <2>7. (m \div Px) * Px \in Int /\ tile * Px \in Int
    BY <2>2, <2>6, Products
  <2>8. tile * Px + in - 2 * Px \in Int
    BY <2>2, <2>5, <2>7
  <2> HIDE DEF in
  <2>9. c \in Int
    BY <2>1, <2>8, Products
  <2>10. TopLeft(im, v, a) = Greatest(c, 0)
    BY DEF TopLeft, c, in, tile, centred, q, m, room, p
  <2> HIDE DEF c
  <2> QED BY <2>9, <2>10 DEF Greatest
<1>2. ASSUME NEW a \in Axis PROVE Least(v.len[a], Window[a]) \in Nat
  BY WindowAssumption DEF Views, Least
<1> QED BY <1>1, <1>2 DEF UrlFor

\* A request leaves the page with the tiles and the snapshot of the view it is for.
LEMMA RequestSets ==
  ASSUME TypeOK, NEW v \in Views, RequestImages(v), picture' = picture,
         phase' \in {"script", "awaited", "viewing", "alerted"}, zoneRes' \in Int, moves' \in Nat,
         drag' \in {"free", "pressed", "dragged"},
         LevelsSuffice /\ ~FitsWindow(picture) => GoodView(picture, v)
  PROVE  ViewerInv'
<1>1. picture \in Pictures
  BY DEF TypeOK
<1>2. View' = v
  BY DEF RequestImages, View, Views
<1>3. asked' = AskedFor(picture, v)
  BY DEF RequestImages, AskedFor
<1>4. openUrl' = UrlFor(picture, v)
  BY DEF RequestImages, SetOpenURL, UrlFor
<1>5. /\ unloaded' = Cardinality(AskedFor(picture, v))
      /\ nTilesToLoad' = Cardinality(Grid(v))
      /\ nTilesLoaded' = Cardinality(Grid(v)) - Cardinality(AskedFor(picture, v))
  BY <1>3 DEF RequestImages, CountGrid
<1>6. offset' = [a \in Axis |-> 0] /\ loading' = TRUE /\ refresher' = TRUE /\ failed' = FALSE
  BY DEF RequestImages
<1>7. res' \in Int /\ len' \in [Axis -> Nat] /\ pos' \in [Axis -> Int] /\ fit' \in [Axis -> BOOLEAN]
  BY DEF RequestImages, Views
<1>8. asked' \subseteq Int \X Int \X Int /\ {unloaded', nTilesLoaded', nTilesToLoad'} \subseteq Nat
  BY <1>1, <1>3, <1>5, CountsOfGrid
<1>9. openUrl' \in [corner : [Axis -> Nat], size : [Axis -> Nat]]
  BY <1>1, <1>4, UrlIsTyped
<1>10. TypeOK'
  <2>1. failed' \in BOOLEAN /\ loading' \in BOOLEAN /\ refresher' \in BOOLEAN
    BY <1>6
  <2>2. offset' \in [Axis -> Int]
    BY <1>6
  <2> QED BY <1>1, <1>7, <1>8, <1>9, <2>1, <2>2 DEF TypeOK
<1>11. \A a \in Axis : offset'[a] = 0
  BY <1>6
<1>12. /\ AskedFor(picture, View)' = AskedFor(picture, v)
       /\ UrlFor(picture, View)' = UrlFor(picture, v)
       /\ GoodView(picture, View)' <=> GoodView(picture, v)
       /\ FitsWindow(picture)' <=> FitsWindow(picture)
       /\ LevelsSuffice' <=> LevelsSuffice
  BY <1>2 DEF AskedFor, UrlFor, GoodView, FitsWindow, LevelsSuffice, InImage, Grid, TopLeft
<1> QED BY <1>3, <1>4, <1>10, <1>11, <1>12 DEF ViewerInv

LEMMA InitViewerInv == ViewerInit => ViewerInv
<1> SUFFICES ASSUME ViewerInit PROVE ViewerInv
  OBVIOUS
<1>1. TypeOK
  <2>1. len \in [Axis -> Nat] /\ pos \in [Axis -> Int] /\ fit \in [Axis -> BOOLEAN]
        /\ offset \in [Axis -> Int]
    BY DEF ViewerInit
  <2>2. openUrl \in [corner : [Axis -> Nat], size : [Axis -> Nat]]
    BY DEF ViewerInit
  <2>3. /\ phase = "script" /\ picture \in Pictures /\ drag = "free" /\ res = 0 /\ zoneRes = 0
        /\ unloaded = 0 /\ nTilesLoaded = 0 /\ nTilesToLoad = 0 /\ moves = 0 /\ asked = {}
        /\ loading = FALSE /\ refresher = FALSE /\ failed = FALSE
    BY DEF ViewerInit
  <2>4. /\ asked \subseteq Int \X Int \X Int /\ res \in Int /\ zoneRes \in Int
        /\ {unloaded, nTilesLoaded, nTilesToLoad, moves} \subseteq Nat
    BY <2>3
  <2>5. /\ phase \in {"script", "awaited", "viewing", "alerted"}
        /\ drag \in {"free", "pressed", "dragged"}
    BY <2>3
  <2>6. failed \in BOOLEAN /\ loading \in BOOLEAN /\ refresher \in BOOLEAN
    BY <2>3
  <2> QED BY <2>1, <2>2, <2>3, <2>4, <2>5, <2>6 DEF TypeOK
<1>2. \A a \in Axis : offset[a] = 0
  BY DEF ViewerInit
<1> QED BY <1>1, <1>2 DEF ViewerInv, ViewerInit

\* What the invariant says of a view stays when view, tiles and target do.
LEMMA ViewKept ==
  ASSUME ViewerInv, UNCHANGED <<viewVars, picture, asked, openUrl, offset>>,
         phase' = "viewing" => phase = "viewing", TypeOK'
  PROVE  ViewerInv'
<1>1. View' = View /\ picture' = picture /\ asked' = asked /\ openUrl' = openUrl /\ offset' = offset
  BY DEF View, viewVars
<1>2. /\ AskedFor(picture, View)' = AskedFor(picture, View)
      /\ UrlFor(picture, View)' = UrlFor(picture, View)
      /\ GoodView(picture, View)' <=> GoodView(picture, View)
      /\ FitsWindow(picture)' <=> FitsWindow(picture)
      /\ LevelsSuffice' <=> LevelsSuffice
      /\ WithinEdges(View, offset)' <=> WithinEdges(View, offset)
  BY <1>1 DEF AskedFor, UrlFor, GoodView, FitsWindow, LevelsSuffice, InImage, Grid, TopLeft,
              WithinEdges
<1> QED BY <1>1, <1>2 DEF ViewerInv

\* A move of the user leads to a view that is good if the last one was.
LEMMA MoveKeeps ==
  ASSUME ViewerInv, NEW v \in Views, MovesTo(v), zoneRes' = zoneRes,
         drag' \in {"free", "pressed", "dragged"},
         LevelsSuffice /\ GoodView(picture, View) => GoodView(picture, v)
  PROVE  ViewerInv'
<1>1. /\ phase = "viewing" /\ RequestImages(v) /\ picture' = picture /\ phase' = phase
      /\ moves' = moves + 1
  BY DEF MovesTo
<1>2. TypeOK /\ moves' \in Nat /\ zoneRes' \in Int
  BY <1>1 DEF ViewerInv, TypeOK
<1>3. LevelsSuffice /\ ~FitsWindow(picture) => GoodView(picture, v)
  BY <1>1 DEF ViewerInv
<1> QED BY <1>1, <1>2, <1>3, RequestSets

LEMMA ZoomsKeep == ViewerInv /\ (ZoomIn \/ ZoomOut) => ViewerInv'
<1> SUFFICES ASSUME ViewerInv, ZoomIn \/ ZoomOut PROVE ViewerInv'
  OBVIOUS
<1>1. View \in Views /\ picture \in Pictures /\ drag \in {"free", "pressed", "dragged"}
  BY ViewIsTyped DEF ViewerInv, TypeOK
<1>2. CASE ZoomIn
  <2>1. MovesTo(ZoomedIn(picture, View)) /\ zoneRes' = zoneRes /\ drag' = drag
    BY <1>2 DEF ZoomIn
  <2> QED BY <1>1, <2>1, ZoomInKeeps, MoveKeeps
<1>3. CASE ZoomOut
  <2>1. MovesTo(ZoomedOut(picture, View)) /\ zoneRes' = zoneRes /\ drag' = drag
    BY <1>3 DEF ZoomOut
  <2> QED BY <1>1, <2>1, ZoomOutKeeps, ZoomOutFindsLevel, MoveKeeps
<1> QED BY <1>2, <1>3

LEMMA ScrollToKeeps ==
  ASSUME ViewerInv, NEW a \in Axis, NEW d \in Int, ScrollTo(a, d)
  PROVE  ViewerInv'
<1> DEFINE e == [b \in Axis |-> IF b = a THEN d * Px ELSE 0]
<1>1. View \in Views /\ picture \in Pictures /\ drag \in {"free", "pressed", "dragged"}
  BY ViewIsTyped DEF ViewerInv, TypeOK
<1>2. e \in [Axis -> Int]
  BY NumberAssumption, Products
<1>3. MovesTo(Scrolled(View, e)) /\ zoneRes' = zoneRes /\ drag' = drag
  BY DEF ScrollTo
<1> HIDE DEF e
<1> QED BY <1>1, <1>2, <1>3, ScrollKeeps, MoveKeeps

LEMMA PlacesAreTyped ==
  ASSUME TypeOK, NEW a \in Axis
  PROVE  Places(a) \subseteq Nat
<1>1. ASSUME NEW r \in Int PROVE Room(a, r) \in Nat
  <2> DEFINE n == Greatest(SizeAt(picture, r)[a], 1)
             m == Window[a] * len[a]
  <2>1. len[a] \in Int /\ Window[a] \in Int
    BY WindowAssumption DEF TypeOK
  <2>2. n \in Nat \ {0}
    BY SizeOfLevel DEF TypeOK, Greatest
  <2>3. m \in Int
    BY <2>1, Products
  <2>4. Room(a, r) = Greatest(len[a] - m \div n, 0)
    BY DEF Room
  <2> HIDE DEF m, n
  <2>5. m \div n \in Int
    BY <2>2, <2>3, DividedWhole
  <2> QED BY <2>1, <2>4, <2>5 DEF Greatest
<1>2. Room(a, res) \in Nat /\ Room(a, zoneRes) \in Nat
  BY <1>1 DEF TypeOK
<1>3. Room(a, res) \div 2 \in Nat
  BY <1>2, Divided
<1> QED BY <1>2, <1>3 DEF Places

LEMMA NavigationKeeps ==
  ASSUME ViewerInv, NEW x0 \in Places("x"), NEW y0 \in Places("y"), NEW clicked \in BOOLEAN,
         ScrollNavigation(x0, y0, clicked)
  PROVE  ViewerInv'
<1> DEFINE p == [x |-> x0 * Px, y |-> y0 * Px]
           v == [View EXCEPT !.pos = p]
           w == IF clicked THEN ZonePositioned(v) ELSE v
<1>1. /\ View \in Views /\ picture \in Pictures /\ drag \in {"free", "pressed", "dragged"}
      /\ TypeOK
  BY ViewIsTyped DEF ViewerInv, TypeOK
<1>2. x0 \in Nat /\ y0 \in Nat /\ Px \in Nat
  BY <1>1, PlacesAreTyped, NumberAssumption DEF Axis
<1>3. x0 * Px \in Nat /\ y0 * Px \in Nat
  BY <1>2
<1>4. p \in [Axis -> Int] /\ \A a \in Axis : p[a] >= 0
  BY <1>3 DEF Axis
<1>5. MovesTo(w) /\ zoneRes' = zoneRes /\ drag' = drag
  BY DEF ScrollNavigation
<1> HIDE DEF p
<1>6. v \in Views /\ (GoodView(picture, View) => GoodView(picture, v))
  BY <1>1, <1>4 DEF Views, GoodView
<1> HIDE DEF v
<1>7. w \in Views /\ (GoodView(picture, View) => GoodView(picture, w))
  BY <1>1, <1>6, ZoneKeeps
<1> HIDE DEF w
<1> QED BY <1>1, <1>5, <1>7, MoveKeeps

\* Where a drop moves the view to.
WholePixels == [a \in Axis |-> (offset[a] + Px \div 2) \div Px]
DropView == Scrolled(View, [a \in Axis |-> -WholePixels[a] * Px])

LEMMA DropMoves ==
  ASSUME TypeOK, Drop
  PROVE  \/ /\ \E a \in Axis : WholePixels[a] # 0
            /\ drag' = "free" /\ MovesTo(DropView) /\ UNCHANGED zoneRes
         \/ DragStep("dragged", "free") /\ UNCHANGED offset
<1> DEFINE far == \E a \in Axis : WholePixels[a] >= Threshold \/ -WholePixels[a] >= Threshold
<1>1. /\ far => drag' = "free" /\ MovesTo(DropView) /\ UNCHANGED zoneRes
      /\ ~far => DragStep("dragged", "free") /\ UNCHANGED offset
  BY DEF Drop, WholePixels, DropView
<1>2. \A a \in Axis : WholePixels[a] \in Int
  BY Rounded DEF WholePixels, TypeOK
<1>3. far => \E a \in Axis : WholePixels[a] # 0
  BY <1>2, NumberAssumption
<1> QED BY <1>1, <1>3

LEMMA DropScrolls ==
  ASSUME TypeOK
  PROVE  [a \in Axis |-> -WholePixels[a] * Px] \in [Axis -> Int]
<1>1. ASSUME NEW a \in Axis PROVE -WholePixels[a] * Px \in Int
  <2>1. WholePixels[a] * Px \in Int
    BY Rounded DEF WholePixels, TypeOK
  <2> QED BY <2>1
<1> QED BY <1>1

LEMMA DragsKeep == ViewerInv /\ (Press \/ Check \/ Cancel \/ Drop) => ViewerInv'
<1> SUFFICES ASSUME ViewerInv, Press \/ Check \/ Cancel \/ Drop PROVE ViewerInv'
  OBVIOUS
<1>1. ASSUME NEW from \in {"free", "pressed", "dragged"}, NEW to \in {"free", "pressed", "dragged"},
             DragStep(from, to), UNCHANGED offset
      PROVE  ViewerInv'
  <2>1. /\ UNCHANGED <<viewVars, picture, asked, openUrl, offset>> /\ phase' = phase
        /\ drag' = to /\ UNCHANGED <<moves, zoneRes, unloaded, nTilesLoaded, nTilesToLoad>>
        /\ UNCHANGED <<failed, loading, refresher>>
    BY <1>1 DEF DragStep, pageVars, gridVars
  <2>2. TypeOK'
    BY <2>1 DEF ViewerInv, TypeOK, viewVars
  <2> QED BY <2>1, <2>2, ViewKept
<1>2. CASE Press
  BY <1>1, <1>2 DEF Press
<1>3. CASE Check
  BY <1>1, <1>3 DEF Check
<1>4. CASE Cancel
  BY <1>1, <1>4 DEF Cancel
<1>5. CASE Drop
  <2>0. TypeOK /\ View \in Views /\ picture \in Pictures
    BY ViewIsTyped DEF ViewerInv, TypeOK
  <2>1. CASE drag' = "free" /\ MovesTo(DropView) /\ UNCHANGED zoneRes
    <3>1. DropView \in Views /\ (GoodView(picture, View) => GoodView(picture, DropView))
      BY <2>0, DropScrolls, ScrollKeeps DEF DropView
    <3> QED BY <2>1, <3>1, MoveKeeps
  <2>2. CASE DragStep("dragged", "free") /\ UNCHANGED offset
    BY <1>1, <2>2
  <2> QED BY <1>5, <2>0, <2>1, <2>2, DropMoves
<1> QED BY <1>2, <1>3, <1>4, <1>5

LEMMA DragToKeeps ==
  ASSUME ViewerInv, NEW d \in [Axis -> Drags], DragTo(d)
  PROVE  ViewerInv'
<1>1. View \in Views /\ d \in [Axis -> Int]
  BY ViewIsTyped, NumberAssumption DEF ViewerInv
<1>2. Dragged(d) \in [Axis -> Int] /\ WithinEdges(View, Dragged(d))
  BY <1>1, DragsStayWithin
<1>3. /\ UNCHANGED <<viewVars, picture, asked, openUrl>> /\ phase' = phase /\ drag' = "dragged"
      /\ UNCHANGED <<moves, zoneRes, unloaded, nTilesLoaded, nTilesToLoad, failed>>
      /\ UNCHANGED <<loading, refresher>> /\ offset' = Dragged(d)
  BY DEF DragTo, DragStep, pageVars, gridVars
<1>4. TypeOK'
  BY <1>2, <1>3 DEF ViewerInv, TypeOK, viewVars
<1>5. View' = View /\ picture' = picture
  BY <1>3 DEF View, viewVars
<1>6. /\ AskedFor(picture, View)' = AskedFor(picture, View)
      /\ UrlFor(picture, View)' = UrlFor(picture, View)
      /\ GoodView(picture, View)' <=> GoodView(picture, View)
      /\ FitsWindow(picture)' <=> FitsWindow(picture)
      /\ LevelsSuffice' <=> LevelsSuffice
      /\ WithinEdges(View, offset)' <=> WithinEdges(View, Dragged(d))
  BY <1>3, <1>5 DEF AskedFor, UrlFor, GoodView, FitsWindow, LevelsSuffice, InImage, Grid, TopLeft,
                    WithinEdges
<1> QED BY <1>2, <1>3, <1>4, <1>6 DEF ViewerInv

LEMMA OthersKeep ==
  ASSUME ViewerInv,
         \/ Send \/ \E status \in Statuses : MetadataFails(status)
         \/ TileLoads \/ TileFails \/ Refresh \/ ZoneArrives \/ UNCHANGED viewerVars
  PROVE  ViewerInv'
<1>1. CASE Send \/ \E status \in Statuses : MetadataFails(status)
  <2>1. /\ UNCHANGED <<moves, zoneRes, openUrl, picture, offset, drag>>
        /\ UNCHANGED viewVars /\ UNCHANGED gridVars
        /\ phase' \in {"awaited", "alerted"}
    BY <1>1 DEF Send, MetadataFails, dragVars
  <2>2. TypeOK'
    BY <2>1 DEF ViewerInv, TypeOK, viewVars, gridVars
  <2> QED BY <2>1, <2>2, ViewKept DEF gridVars
<1>2. CASE TileLoads
  <2>1. /\ UNCHANGED <<moves, zoneRes, openUrl, picture, offset, drag, phase, asked>>
        /\ UNCHANGED <<nTilesToLoad, failed, refresher>> /\ UNCHANGED viewVars
        /\ unloaded > 0 /\ unloaded' = unloaded - 1 /\ nTilesLoaded' = nTilesLoaded + 1
        /\ loading' \in BOOLEAN
    BY <1>2 DEF TileLoads, dragVars, pageVars
  <2>2. TypeOK'
    BY <2>1 DEF ViewerInv, TypeOK, viewVars
  <2> QED BY <2>1, <2>2, ViewKept
<1>3. CASE Refresh
  <2>1. /\ UNCHANGED <<moves, zoneRes, openUrl, picture, offset, drag, phase, asked>>
        /\ UNCHANGED <<nTilesToLoad, unloaded, nTilesLoaded, loading, failed>>
        /\ UNCHANGED viewVars /\ refresher' = FALSE
    BY <1>3 DEF Refresh, dragVars, pageVars
  <2>2. TypeOK'
    BY <2>1 DEF ViewerInv, TypeOK, viewVars
  <2> QED BY <2>1, <2>2, ViewKept
<1>4. CASE ZoneArrives
  <2>1. /\ UNCHANGED <<moves, openUrl, picture, offset, drag, phase>>
        /\ UNCHANGED gridVars /\ UNCHANGED viewVars /\ zoneRes' = res
    BY <1>4 DEF ZoneArrives, dragVars, pageVars
  <2>2. TypeOK'
    BY <2>1 DEF ViewerInv, TypeOK, viewVars, gridVars
  <2> QED BY <2>1, <2>2, ViewKept DEF gridVars
<1>5. CASE TileFails
  <2>1. /\ UNCHANGED <<moves, zoneRes, openUrl, picture, offset, drag, phase, asked>>
        /\ UNCHANGED <<nTilesToLoad, unloaded, nTilesLoaded, loading, refresher>>
        /\ UNCHANGED viewVars /\ failed' = TRUE
    BY <1>5 DEF TileFails, dragVars, pageVars
  <2>2. TypeOK'
    BY <2>1 DEF ViewerInv, TypeOK, viewVars
  <2> QED BY <2>1, <2>2, ViewKept
<1>6. CASE UNCHANGED viewerVars
  <2>1. /\ UNCHANGED <<moves, zoneRes, openUrl, picture, offset, drag, phase>>
        /\ UNCHANGED gridVars /\ UNCHANGED viewVars
    BY <1>6 DEF viewerVars, dragVars, pageVars
  <2>2. TypeOK'
    BY <2>1 DEF ViewerInv, TypeOK, viewVars, gridVars
  <2> QED BY <2>1, <2>2, ViewKept DEF gridVars
<1> QED BY <1>1, <1>2, <1>3, <1>4, <1>5, <1>6

LEMMA OpensWithInv ==
  ASSUME ViewerInv, NEW status \in Statuses, MetadataArrives(status)
  PROVE  ViewerInv'
<1>1. TypeOK /\ picture \in Pictures
  BY DEF ViewerInv, TypeOK
<1>2. /\ RequestImages(Opened(picture)) /\ picture' = picture /\ phase' = "viewing"
      /\ zoneRes' = Opened(picture).res /\ moves' = moves /\ drag' = drag
  BY DEF MetadataArrives
<1>3. /\ Opened(picture) \in Views
      /\ LevelsSuffice /\ ~FitsWindow(picture) => GoodView(picture, Opened(picture))
  BY <1>1, OpenedAtLevel
<1>4. zoneRes' \in Int /\ moves' \in Nat /\ drag' \in {"free", "pressed", "dragged"}
  BY <1>1, <1>2, <1>3 DEF TypeOK, Views
<1> QED BY <1>1, <1>2, <1>3, <1>4, RequestSets

LEMMA NextViewerInv == ViewerInv /\ [ViewerNext]_viewerVars => ViewerInv'
<1> SUFFICES ASSUME ViewerInv, [ViewerNext]_viewerVars PROVE ViewerInv'
  OBVIOUS
<1>1. ASSUME NEW a \in Axis, NEW d \in Steps(a), ScrollTo(a, d) PROVE ViewerInv'
  <2>1. Window[a] \div 3 \in Int
    BY WindowAssumption, DividedWhole
  <2>2. Steps(a) \subseteq Int
    BY <2>1, NumberAssumption DEF Steps
  <2> QED BY <1>1, <2>2, ScrollToKeeps
<1> QED BY <1>1, ZoomsKeep, NavigationKeeps, DragsKeep, DragToKeeps, OthersKeep, OpensWithInv
        DEF ViewerNext

\* What the page keeps has its type: no more tiles are counted as loaded than were asked
\* for and are past the edge.
THEOREM ViewerIsTyped == ViewerSpec => []TypeOK
<1>1. ViewerInv => TypeOK
  BY DEF ViewerInv
<1> QED BY InitViewerInv, NextViewerInv, <1>1, PTL DEF ViewerSpec

\* However the user zooms, scrolls, drags and clicks, the level that the page asks for is
\* one that the picture has and the one that it is laid out for, if the picture is larger
\* than the window.
THEOREM LevelsStayMatched ==
  ASSUME LevelsSuffice
  PROVE  ViewerSpec => []LargeLevelMatchesSize
<1>1. ViewerInv => LargeLevelMatchesSize
  <2> SUFFICES ASSUME ViewerInv, ~FitsWindow(picture), phase = "viewing"
               PROVE  res \in 0..picture.num_resolutions /\ len = SizeAt(picture, res)
    BY DEF LargeLevelMatchesSize, LevelMatchesSize
  <2>1. GoodView(picture, View)
    BY LevelsSuffice DEF ViewerInv
  <2> QED BY <2>1 DEF GoodView, View
<1> QED BY InitViewerInv, NextViewerInv, <1>1, PTL DEF ViewerSpec

\* After each of these moves every tile in sight is on the page, no other than the picture
\* has is asked for, and the snapshot begins where the window does.
THEOREM WindowStaysTiled ==
  ASSUME LevelsSuffice
  PROVE  ViewerSpec => []WindowIsTiled
<1>1. ViewerInv => WindowIsTiled
  <2> SUFFICES ASSUME ViewerInv PROVE WindowIsTiled
    OBVIOUS
  <2>1. CASE phase = "viewing" /\ ~FitsWindow(picture)
    <3>1. picture \in Pictures /\ View \in Views /\ GoodView(picture, View)
      BY <2>1, ViewIsTyped DEF ViewerInv, TypeOK
    <3> QED BY <2>1, <3>1, ViewIsTiled DEF ViewerInv
  <2>2. CASE ~(phase = "viewing" /\ ~FitsWindow(picture))
    BY <2>2 DEF WindowIsTiled
  <2> QED BY <2>1, <2>2
<1> QED BY InitViewerInv, NextViewerInv, <1>1, PTL DEF ViewerSpec

\* A picture that is let go of stays where it was dragged to, but for half a pixel: where
\* the drag may go is where the scroll may, unless the view has changed in between, and then
\* the target is back and has not been dragged.
THEOREM DropsStayInPlace == ViewerSpec => DropKeepsPlace
<1>1. ASSUME ViewerInv, Drop, NEW a \in Axis, len[a] > Window[a]
      PROVE  LET jump == (pos'[a] - offset'[a]) - (pos[a] - offset[a])
             IN 2 * jump \in -Px..Px
  <2>1. TypeOK /\ View \in Views /\ View.pos = pos /\ View.len = len /\ picture \in Pictures
    BY <1>1, ViewIsTyped DEF ViewerInv, TypeOK, View
  <2>2. /\ pos[a] \in Int /\ (len[a] - Window[a]) * Px \in Int /\ Px \in Nat \ {0}
        /\ offset[a] \in Int
    BY <2>1, RoomOfAxis DEF TypeOK
  <2>3. CASE /\ \E b \in Axis : WholePixels[b] # 0
             /\ drag' = "free" /\ MovesTo(DropView) /\ UNCHANGED zoneRes
    <3> DEFINE m == (len[a] - Window[a]) * Px
               u == WholePixels[a] * Px
    <3>1. ~ \A b \in Axis : offset[b] = 0
      BY <2>1, <2>3, Rounded DEF WholePixels, TypeOK
    <3>2. WithinEdges(View, offset)
      BY <1>1, <3>1 DEF ViewerInv
    <3>3. pos[a] - m <= offset[a] /\ offset[a] <= pos[a]
      BY <1>1, <2>1, <3>2 DEF WithinEdges
    <3>4. u \in Int /\ 2 * (offset[a] - u) \in -Px..Px /\ WholePixels[a] \in Int
      BY <2>2, Rounded DEF WholePixels
    <3>5. pos[a] + (-u) = pos[a] - u
      BY <2>2, <3>4
    <3>6. DropView.pos[a] = Greatest(Least(pos[a] - u, m), 0)
      <4> DEFINE e == [b \in Axis |-> -WholePixels[b] * Px]
      <4>1. e \in [Axis -> Int] /\ e[a] = -u
        BY <2>1, DropScrolls
      <4>2. DropView = Scrolled(View, e)
        BY DEF DropView
      <4> HIDE DEF e
      <4>3. DropView.pos =
              [b \in Axis |->
                 Greatest(Least(View.pos[b] + e[b], (View.len[b] - Window[b]) * Px), 0)]
        BY <2>1, <4>1, <4>2, ScrollKeeps
      <4>4. DropView.pos[a] = Greatest(Least(pos[a] + e[a], m), 0)
        BY <2>1, <4>3
      <4> QED BY <3>5, <4>1, <4>4
    <3>7. pos'[a] = DropView.pos[a] /\ offset'[a] = 0
      BY <2>3 DEF MovesTo, RequestImages
    <3> HIDE DEF m, u
    <3>8. 2 * (Greatest(Least(pos[a] - u, m), 0) - (pos[a] - offset[a])) \in -Px..Px
      <4>1. m \in Int
        BY <2>2 DEF m
      <4>2. /\ 0 <= pos[a] - offset[a] /\ pos[a] - offset[a] <= m
            /\ pos[a] - offset[a] \in Int /\ pos[a] - u \in Int
            /\ (pos[a] - u) - (pos[a] - offset[a]) = offset[a] - u
        BY <2>2, <3>3, <3>4, <4>1
      <4> DEFINE z == pos[a] - offset[a]
                 y0 == pos[a] - u
      <4>3. z \in Int /\ y0 \in Int /\ 0 <= z /\ z <= m /\ 2 * (y0 - z) \in -Px..Px /\ Px \in Int
        BY <2>2, <3>4, <4>1, <4>2
      <4> HIDE DEF z, y0
      <4>4. 2 * (Greatest(Least(y0, m), 0) - z) \in -Px..Px
        BY <4>1, <4>3, KeptInPicture
      <4> QED BY <4>4 DEF z, y0
    <3> DEFINE g == Greatest(Least(pos[a] - u, m), 0)
    <3>9. g \in Int
      BY <2>2, <3>4 DEF Greatest, Least, m
    <3>10. pos'[a] = g /\ offset'[a] = 0 /\ 2 * (g - (pos[a] - offset[a])) \in -Px..Px
      BY <3>6, <3>7, <3>8
    <3> HIDE DEF g
    <3>11. (pos'[a] - offset'[a]) - (pos[a] - offset[a]) = g - (pos[a] - offset[a])
      BY <2>2, <3>9, <3>10
    <3> QED BY <3>10, <3>11
  <2>4. CASE DragStep("dragged", "free") /\ UNCHANGED offset
    <3>1. pos' = pos /\ offset' = offset
      BY <2>4 DEF DragStep, viewVars
    <3> QED BY <2>2, <3>1
  <2> QED BY <1>1, <2>1, <2>3, <2>4, DropMoves
<1>2. ViewerInv /\ [ViewerNext]_viewerVars =>
        [Drop => \A a \in Axis : len[a] > Window[a] =>
                   LET jump == (pos'[a] - offset'[a]) - (pos[a] - offset[a])
                   IN 2 * jump \in -Px..Px]_viewerVars
  BY <1>1
<1> QED BY InitViewerInv, NextViewerInv, <1>2, PTL DEF ViewerSpec, DropKeepsPlace
=============================================================================
