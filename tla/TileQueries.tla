----------------------------- MODULE TileQueries -----------------------------
(***************************************************************************)
(* The tiles of an image: those that the IIIF tile source of OpenSeadragon *)
(* asks the server for, given what the server says of the image, and those *)
(* that OSDCacheUtil asks for beforehand, to have them in the tile cache.  *)
(* The two compute their regions on their own and have to agree.           *)
(***************************************************************************)
EXTENDS TileArithmetic

CONSTANTS
  Images      \* the sizes and the number of levels of the images

ASSUME ImageAssumption ==
  Images \subseteq [width : Nat \ {0}, height : Nat \ {0}, levels : Nat \ {0}]

VARIABLES
  image,
  multiplier, x, y,   \* the loops of getPaths
  paths,              \* what it asked for, each with its multiplier
  stored              \* the names of the files in the tile cache

vars == <<image, multiplier, x, y, paths, stored>>

CeilDiv(m, n) == (m + n - 1) \div n
LongDim == IF image.width < image.height THEN image.height ELSE image.width

\* A part of the image, and the size its answer shall have; 0 is a height that
\* follows from the width.
Query(left, top, w, h, toWidth, toHeight) ==
  [left |-> left, top |-> top, width |-> w, height |-> h, to |-> <<toWidth, toHeight>>]

-----------------------------------------------------------------------------
\* ImageInfo: the scale factors that the server offers are the powers of two, as
\* many as there are levels, and no more than ten.  The largest of them:
LargestFactor == Pow2[Least(image.levels, 10) - 1]

\* IIIFTileSource takes its square root for the number of levels.
MaxLevel == LET largest == LargestFactor
            IN CHOOSE n \in 1..largest : n * n <= largest /\ largest < (n + 1) * (n + 1)

\* getLevelScale: a level is smaller than the image by so much.
Factor(level) == Pow2[MaxLevel - level]

\* Slip: the tiles of a level are counted in whole ones.
NumTilesInFull(level) ==
  <<image.width \div (Factor(level) * TileSize), image.height \div (Factor(level) * TileSize)>>

\* getNumTiles, and tileExists.
NumTiles(level) ==
  <<CeilDiv(image.width, Factor(level) * TileSize),
    CeilDiv(image.height, Factor(level) * TileSize)>>

TilesOf(level) == (0..(NumTiles(level)[1] - 1)) \X (0..(NumTiles(level)[2] - 1))

\* getTileAtPoint: the tile that a pixel of the image is in.
TileAtPoint(level, px, py) ==
  <<px \div (Factor(level) * TileSize), py \div (Factor(level) * TileSize)>>

\* getTileBounds, in pixels of the image: where the viewer draws the tile.
TileBounds(level, t) ==
  LET side == Factor(level) * TileSize
  IN [left |-> side * t[1], top |-> side * t[2],
      width |-> Least(side, image.width - side * t[1]),
      height |-> Least(side, image.height - side * t[2])]

\* getTileUrl: a level smaller than a tile is asked for as the full image.
TileUrl(level, t) ==
  LET levelWidth == CeilDiv(image.width, Factor(level))
      levelHeight == CeilDiv(image.height, Factor(level))
      side == TileSize * Factor(level)
      w == Least(side, image.width - t[1] * side)
      h == Least(side, image.height - t[2] * side)
  IN IF levelWidth < TileSize /\ levelHeight < TileSize
     THEN Query(0, 0, image.width, image.height, levelWidth, 0)
     ELSE Query(t[1] * side, t[2] * side, w, h, CeilDiv(w, Factor(level)), 0)

-----------------------------------------------------------------------------
Init ==
  /\ image \in Images
  /\ multiplier = 1 /\ x = 0 /\ y = 0
  /\ paths = {}
  /\ stored = {}

\* A tile as large as the others, or what is left of the image.
Side(from, side, size) == IF from + side < size THEN side ELSE size - from

\* The name of a tile's file tells the size that was asked for as it was asked.
FileName(q) == <<q.left, q.top, q.width, q.height, q.to>>

\* Slip: the row is not set back when a column is done.
AdvanceKeepingRow(side) ==
  IF y < image.height THEN y' = y + side /\ UNCHANGED <<x, multiplier>>
  ELSE /\ UNCHANGED y
       /\ IF x < image.width THEN x' = x + side /\ UNCHANGED multiplier
          ELSE x' = 0 /\ multiplier' = 2 * multiplier

\* The loops of getPaths: down a column, the columns, the levels.
Advance(side) ==
  IF y < image.height THEN y' = y + side /\ UNCHANGED <<x, multiplier>>
  ELSE /\ y' = 0
       /\ IF x < image.width THEN x' = x + side /\ UNCHANGED multiplier
          ELSE x' = 0 /\ multiplier' = 2 * multiplier

\* One round of the inner loop of getPaths; DjatokaTileMojo asks the server for
\* the path, which stores it.
NextPath ==
  LET side == multiplier * TileSize
      w == Side(x, side, image.width)
      h == Side(y, side, image.height)
      path == Query(x, y, w, h, CeilDiv(w, multiplier), CeilDiv(h, multiplier))
  IN /\ multiplier * TileSize < LongDim
     /\ IF w > 0 /\ h > 0
        THEN paths' = paths \cup {<<multiplier, path>>} /\ stored' = stored \cup {FileName(path)}
        ELSE UNCHANGED <<paths, stored>>
     /\ Advance(side)
     /\ UNCHANGED image

Next == NextPath

Spec == Init /\ [][Next]_vars

-----------------------------------------------------------------------------
Done == multiplier * TileSize >= LongDim

Holds(q, px, py) ==
  px \in q.left..(q.left + q.width - 1) /\ py \in q.top..(q.top + q.height - 1)

Apart(q, r) ==
  \/ q.left + q.width <= r.left \/ r.left + r.width <= q.left
  \/ q.top + q.height <= r.top \/ r.top + r.height <= q.top

\* On every level a pixel is in one tile and no other, the one that is looked up
\* for it; and where the viewer draws a tile is the part of the image it shows.
EveryPixelInItsTile ==
  \A level \in 0..MaxLevel :
    /\ \A px \in 0..(image.width - 1), py \in 0..(image.height - 1) :
         LET t == TileAtPoint(level, px, py)
         IN t \in TilesOf(level) /\ Holds(TileUrl(level, t), px, py)
    /\ \A t, u \in TilesOf(level) : t = u \/ Apart(TileUrl(level, t), TileUrl(level, u))
    /\ \A t \in TilesOf(level), part \in {"left", "top", "width", "height"} :
         TileUrl(level, t)[part] = TileBounds(level, t)[part]

\* The same part of the image, equally wide in the answer.
SameTile(q, r) == [q EXCEPT !.to = @[1]] = [r EXCEPT !.to = @[1]]

Large(level) == Factor(level) * TileSize < LongDim

\* What is asked for beforehand are tiles of the viewer, where it has a level of
\* that size; and of a level that is larger than a tile no tile is forgotten.
LargeLevelsPregenerated ==
  /\ \A p \in paths : \A level \in 0..MaxLevel : Factor(level) = p[1] =>
       \E t \in TilesOf(level) : SameTile(p[2], TileUrl(level, t))
  /\ Done => \A level \in 0..MaxLevel : Large(level) =>
       \A t \in TilesOf(level) : \E p \in paths : SameTile(p[2], TileUrl(level, t))

\* "Utility used to generate regions for derivatives images prior to the point where they
\* are requested by a user" (OSDCacheUtil): what was generated beforehand is in the cache
\* when the viewer asks for it.
PregeneratedTilesAreHit ==
  Done => \A level \in 0..MaxLevel : Large(level) =>
            \A t \in TilesOf(level) : FileName(TileUrl(level, t)) \in stored
=============================================================================
