----------------------------- MODULE TileDrawer -----------------------------
(***************************************************************************)
(* The OpenSeadragon drawers of an image's viewer and of its navigator.    *)
(* Every frame a drawer draws the tiles of the view it has, finest level   *)
(* first and coarser ones where tiles are missing, and asks the server for *)
(* one more tile. A drawer keeps a bounded number of loaded tiles; what    *)
(* they look like is kept in one map of canvases, TILE_CACHE, by the url   *)
(* of the tile, which the drawers share.                                   *)
(***************************************************************************)
EXTENDS Integers, FiniteSets

CONSTANTS
  Tiles,              \* the tiles of the image, each with a url of its own
  Level,              \* of a tile
  Children,           \* the tiles of the next level that a tile is under
  Shows,              \* of each view: the tiles of every level that are in sight
  ViewsOf,            \* of the viewer and of the navigator: the views it can have
  MaxImageCacheCount,
  Failing             \* the tiles whose load may fail

Drawers == {"viewer", "navigator"}

ASSUME TileAssumption ==
  /\ Level \in [Tiles -> Nat]
  /\ Children \in [Tiles -> SUBSET Tiles]
  /\ \A t \in Tiles : \A c \in Children[t] : Level[c] = Level[t] + 1

\* A set that has, with a tile, the tiles it is under.
ClosedAbove(S) == \A c \in S, u \in Tiles : c \in Children[u] => u \in S

\* What is in sight of a tile is in sight of those it is under.
ASSUME ViewAssumption ==
  /\ \A d \in Drawers : ViewsOf[d] \subseteq DOMAIN Shows /\ ViewsOf[d] # {}
  /\ \A v \in DOMAIN Shows : Shows[v] \subseteq Tiles /\ ClosedAbove(Shows[v])
ASSUME BoundAssumption == MaxImageCacheCount \in Nat

VARIABLES
  open,         \* is the page open, or are its drawers destroyed
  view,         \* the view each drawer has
  updateAgain,  \* has the drawer a frame to draw
  status,       \* of a drawer's tile: does it exist, is it loading, is it loaded
  image,        \* the tiles of a drawer that hold the image they were loaded with
  tilesLoaded,  \* the tiles each drawer counts as loaded
  beingDrawn,   \* the tiles each drawer drew last
  age,          \* how long ago a drawer touched a tile, in the order of lastTouchTime
  canvases      \* the tiles in TILE_CACHE

tileVars == <<status, image, beingDrawn, age>>
drawerVars == <<view, updateAgain, tilesLoaded>>
vars == <<open, drawerVars, tileVars, canvases>>

Loaded(d) == {t \in Tiles : status[d][t] = "loaded"}
HasPicture(d, t) == t \in image[d] \/ t \in canvases
Sight(d) == Shows[view[d]]

\* The finest level of each view, and its tiles.
Top == [v \in DOMAIN Shows |-> CHOOSE n \in {0} \cup {Level[t] : t \in Shows[v]} :
                                 \A t \in Shows[v] : Level[t] <= n]
Finest == [v \in DOMAIN Shows |-> {t \in Shows[v] : Level[t] = Top[v]}]

\* A tile and all the tiles it is under.
Stack == [t \in Tiles |->
  {u \in Tiles : \A S \in SUBSET Tiles : t \in S /\ ClosedAbove(S) => u \in S}]

-----------------------------------------------------------------------------
Init ==
  /\ open = TRUE
  /\ view \in {f \in [Drawers -> DOMAIN Shows] : \A d \in Drawers : f[d] \in ViewsOf[d]}
  /\ updateAgain = [d \in Drawers |-> TRUE]
  /\ status = [d \in Drawers |-> [t \in Tiles |-> "exists"]]
  /\ image = [d \in Drawers |-> {}]
  /\ tilesLoaded = [d \in Drawers |-> {}]
  /\ beingDrawn = [d \in Drawers |-> {}]
  /\ age = [d \in Drawers |-> [t \in Tiles |-> 0]]
  /\ canvases = {}

\* Slip: a tile that failed to load counts as covering what is under it.
CoversOrFailed(d) ==
  LET top == Top[view[d]]
      covers[t \in Tiles] ==
        \/ status[d][t] \in {"loaded", "failed"}
        \/ Level[t] \notin {0, top} /\ \A c \in Children[t] \cap Sight(d) : covers[c]
  IN covers

\* isCovered and the coverage that updateTile sets: a tile covers its part of the
\* view if it is loaded, or, in between the coarsest and the finest level, if the
\* tiles above it do; those out of sight count as covering. One that failed does
\* not. A tile covers at once: the project leaves blendTime 0.
Covers(d) ==
  LET top == Top[view[d]]
      covers[t \in Tiles] ==
        /\ status[d][t] # "failed"
        /\ \/ status[d][t] = "loaded"
           \/ Level[t] \notin {0, top} /\ \A c \in Children[t] \cap Sight(d) : covers[c]
  IN covers

\* updateViewport's loop over the levels from the finest in sight down: a level
\* that is covered ends it. Its tiles are touched.
Touched(d) ==
  {t \in Sight(d) : \A l \in (Level[t] + 1)..Top[view[d]] :
                      \E u \in Sight(d) : Level[u] = l /\ ~Covers(d)[u]}

\* updateLevel and updateTile: the finest and the coarsest level are drawn anyway,
\* a tile in between unless the tiles above it cover it.
Shown(d) ==
  {t \in Touched(d) :
     /\ status[d][t] # "failed"
     /\ \/ Level[t] \in {0, Top[view[d]]}
        \/ \E c \in Children[t] \cap Sight(d) : ~Covers(d)[c]}

\* lastTouchTime, reduced to its order; of a tile that is neither loading nor
\* loaded it does not matter.
Aged(d, touched, kept) ==
  [t \in Tiles |->
    IF t \in touched \/ t \notin kept THEN 0
    ELSE 1 + Cardinality({age[d][u] : u \in kept \ touched} \cap 0..(age[d][t] - 1))]

\* drawCanvas: a tile whose url has no canvas makes one of its image and drops the image.
DrawCanvas(d, drawn) ==
  LET made == (drawn \cap image[d]) \ canvases
  IN /\ canvases' = canvases \cup made
     /\ image' = [image EXCEPT ![d] = @ \ made]

\* drawTiles: a tile that has neither is not drawn, but counts as drawn.
DrawTiles(d, drawn) ==
  /\ DrawCanvas(d, drawn)
  /\ beingDrawn' = [beingDrawn EXCEPT ![d] = drawn]

LoadTile(d, t) == status' = [status EXCEPT ![d][t] = "loading"]

\* A frame that has something to draw, and loadTile of one of the tiles wanted:
\* compareTiles picks it by where it is on the screen.
Frame(d) ==
  LET wanted == {t \in Shown(d) : status[d][t] = "exists"}
      kept == {t \in Tiles : status[d][t] \in {"loading", "loaded"}}
  IN /\ open
     /\ updateAgain[d]
     /\ DrawTiles(d, Shown(d) \cap Loaded(d))
     /\ updateAgain' = [updateAgain EXCEPT ![d] = wanted # {}]
     /\ \/ /\ wanted = {}
           /\ age' = [age EXCEPT ![d] = Aged(d, Touched(d), kept)]
           /\ UNCHANGED status
        \/ \E best \in wanted :
             /\ LoadTile(d, best)
             /\ age' = [age EXCEPT ![d] = Aged(d, Touched(d), kept \cup {best})]
     /\ UNCHANGED <<open, view, tilesLoaded>>

\* Slip: unload frees the picture and leaves the flag loaded set.
StillLoaded == "loaded"

\* What unload leaves of a tile.
Unloaded == "exists"

\* Slip: tiles that are on the screen are not spared.
WorstOfAll(d) ==
  LET oldest == {t \in tilesLoaded[d] :
                   \A u \in tilesLoaded[d] : age[d][u] <= age[d][t]}
  IN {t \in oldest : \A u \in oldest : Level[u] <= Level[t]}

\* updateTileCache: the tile not being drawn that was touched longest ago, a fine
\* one before a coarse one. drawer.cutoff is not defined, so no level is spared.
Worst(d) ==
  LET idle == tilesLoaded[d] \ beingDrawn[d]
      oldest == {t \in idle : \A u \in idle : age[d][u] <= age[d][t]}
  IN {t \in oldest : \A u \in oldest : Level[u] <= Level[t]}

\* onTileLoad, of an image; the drawer may have been destroyed meanwhile. A full
\* cache grows if all its tiles are being drawn. unload deletes the canvas by url.
TileLoaded(d, t) ==
  /\ status[d][t] = "loading"
  /\ updateAgain' = [updateAgain EXCEPT ![d] = TRUE]
  /\ IF Cardinality(tilesLoaded[d]) < MaxImageCacheCount \/ Worst(d) = {}
     THEN /\ status' = [status EXCEPT ![d][t] = "loaded"]
          /\ image' = [image EXCEPT ![d] = @ \cup {t}]
          /\ tilesLoaded' = [tilesLoaded EXCEPT ![d] = @ \cup {t}]
          /\ UNCHANGED canvases
     ELSE \E w \in Worst(d) :
            /\ status' = [status EXCEPT ![d][t] = "loaded", ![d][w] = Unloaded]
            /\ image' = [image EXCEPT ![d] = (@ \ {w}) \cup {t}]
            /\ tilesLoaded' = [tilesLoaded EXCEPT ![d] = (@ \ {w}) \cup {t}]
            /\ canvases' = canvases \ {w}
  /\ UNCHANGED <<open, view, beingDrawn, age>>

\* onTileLoad, of no image: an error, an abort, or ImageJob's timeout. The tile is
\* never asked for again.
TileFailed(d, t) ==
  /\ t \in Failing
  /\ status[d][t] = "loading"
  /\ status' = [status EXCEPT ![d][t] = "failed"]
  /\ UNCHANGED <<open, view, updateAgain, image, tilesLoaded, beingDrawn, age,
                 canvases>>

\* The user moves the viewer, or a resize gives a drawer a frame of the same view.
ChangeView(d, v) ==
  /\ open
  /\ view' = [view EXCEPT ![d] = v]
  /\ updateAgain' = [updateAgain EXCEPT ![d] = TRUE]
  /\ UNCHANGED <<open, status, image, tilesLoaded, beingDrawn, age, canvases>>

\* The page is closed: both drawers are destroyed, which unloads their tiles but
\* keeps their lists, and what is loading goes on loading.
Close ==
  /\ open
  /\ open' = FALSE
  /\ status' = [d \in Drawers |-> [t \in Tiles |->
       IF t \in tilesLoaded[d] THEN Unloaded ELSE status[d][t]]]
  /\ image' = [d \in Drawers |-> image[d] \ tilesLoaded[d]]
  /\ canvases' = canvases \ UNION {tilesLoaded[d] : d \in Drawers}
  /\ UNCHANGED <<view, updateAgain, tilesLoaded, beingDrawn, age>>

JobNext(d, t) == TileLoaded(d, t) \/ TileFailed(d, t)

Next ==
  \/ Close
  \/ \E d \in Drawers :
       \/ Frame(d)
       \/ \E t \in Tiles : JobNext(d, t)
       \/ \E v \in ViewsOf[d] : ChangeView(d, v)

\* Frames go on as long as there is something to draw, and every image is loaded,
\* fails, or runs into ImageJob's timeout.
Spec ==
  /\ Init /\ [][Next]_vars
  /\ \A d \in Drawers : WF_vars(Frame(d)) /\ \A t \in Tiles : WF_vars(JobNext(d, t))

-----------------------------------------------------------------------------
(* Properties *)

\* Every variable has its type.
TypeOK ==
  /\ open \in BOOLEAN
  /\ view \in [Drawers -> DOMAIN Shows]
  /\ updateAgain \in [Drawers -> BOOLEAN]
  /\ status \in [Drawers -> [Tiles -> {"exists", "loading", "loaded", "failed"}]]
  /\ image \in [Drawers -> SUBSET Tiles]
  /\ tilesLoaded \in [Drawers -> SUBSET Tiles]
  /\ beingDrawn \in [Drawers -> SUBSET Tiles]
  /\ age \in [Drawers -> [Tiles -> 0..Cardinality(Tiles)]]
  /\ canvases \subseteq Tiles

\* After a frame there is something to see wherever any tile, however coarse, is
\* loaded: the loop over the levels stops early, and a tile that counts as covered
\* is not drawn, only where finer tiles are.
PaintedWhereLoaded ==
  [][\A d \in Drawers : Frame(d) =>
       \A t \in Finest[view[d]] :
         Stack[t] \cap Sight(d) \cap Loaded(d) # {} => Stack[t] \cap beingDrawn'[d] # {}]_vars

\* A loaded tile of an open page has its picture, unless the other drawer can show
\* the tile too: a drawer's own evictions never blank its tiles, however drawing,
\* loading and evicting follow each other.  And TILE_CACHE holds no canvas whose tile no
\* drawer of the open page has, so that destroying the drawers empties it
\* ("=empty TILE_CACHE").
PicturesMatchTiles ==
  /\ open => \A d \in Drawers : \A t \in Loaded(d) :
       HasPicture(d, t) \/ \E e \in Drawers \ {d} : \E v \in ViewsOf[e] : t \in Shows[v]
  /\ \A t \in canvases : open /\ \E d \in Drawers : t \in Loaded(d)

\* When the user leaves a view alone, the tiles of its finest level come to stay on
\* the screen, but for those that fail to load: however small the cache, loading
\* one tile and evicting another do not chase each other for ever.
StillViewSettles ==
  \A d \in Drawers : \A v \in ViewsOf[d] : \A t \in Finest[v] :
    <>[](open /\ view[d] = v) =>
      <>[](t \in beingDrawn[d] \/ status[d][t] = "failed")
=============================================================================
