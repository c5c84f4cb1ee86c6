---------------------------- MODULE IIPMooViewer ----------------------------
(***************************************************************************)
(* The IIPMooViewer page over the OpenURL resolver: it learns the size and *)
(* the number of levels of an image, chooses the level that fits its       *)
(* window, and after every zoom, scroll, drop or click in the navigation   *)
(* window throws its tiles away and asks for those of the new view. A      *)
(* progress bar counts load events; a timer prods tiles that did not load. *)
(* The request, the drag of the image and the movement of the navigation   *)
(* zone are those of MooTools (Request, Drag, Fx.Morph).                   *)
(*                                                                         *)
(* Positions are multiples of 1/Px of a pixel of the level on show: the    *)
(* code's numbers are floating point, and zooming out halves them.         *)
(***************************************************************************)
EXTENDS TileArithmetic, FiniteSets

CONSTANTS
  Pictures,    \* the sizes and the number of levels an image may have
  Window,      \* the size of the window, by axis
  KeyStep,     \* what an arrow key scrolls: 100 in the code
  Threshold,   \* a drop of less is ignored: 3 in the code
  Drags,       \* how far the mouse may drag, in pixels
  Px,          \* a power of two: the fractions of a pixel that occur
  MaxMoves     \* how often the user moves the view

Axis == {"x", "y"}

\* What the resolver may answer, as Request sees it: no answer is status 0.
Statuses == {0, 200, 404, 500}
IsSuccess(status) == status \in 200..299

ASSUME PictureAssumption ==
  Pictures \subseteq [size : [Axis -> Nat \ {0}], num_resolutions : Nat]
ASSUME WindowAssumption == Window \in [Axis -> Nat \ {0}]
ASSUME NumberAssumption ==
  /\ {KeyStep, Threshold, Px} \subseteq Nat \ {0}
  /\ Drags \subseteq Int
  /\ MaxMoves \in Nat

VARIABLES
  phase,         \* is the page's script run, the metadata awaited, or the image on view
  picture,
  res,           \* the level on view
  len,           \* wid and hei: the size of the image at that level
  pos,           \* rgn_x and rgn_y
  fit,           \* xfit and yfit: does the image fit the window along the axis
  zoneRes,       \* the level that the navigation zone is drawn for
  asked,         \* the tiles on the page
  unloaded,      \* how many of them have not loaded
  failed,        \* has one of them failed
  nTilesLoaded, nTilesToLoad,
  loading,       \* is the cursor the one that waits
  refresher,     \* is the timer running
  openUrl,       \* the corner and the size of the region in the URL of the snapshot
  drag,          \* of the target: is it free, pressed, or does it follow the mouse
  offset,        \* where a drag has put the target, in pixels times Px
  moves

pageVars == <<phase, picture, moves>>
viewVars == <<res, len, pos, fit>>
gridVars == <<asked, unloaded, failed, nTilesLoaded, nTilesToLoad, loading, refresher>>
dragVars == <<drag, offset>>
viewerVars == <<pageVars, viewVars, zoneRes, gridVars, openUrl, dragVars>>

Greatest(m, n) == IF m < n THEN n ELSE m

\* The size of the image at a level: each one below the last halves it and rounds down.
Halvings(im, r) == Greatest(im.num_resolutions - r, 0)
SizeAt(im, r) == [a \in Axis |-> im.size[a] \div Pow2[Halvings(im, r)]]

View == [res |-> res, len |-> len, pos |-> pos, fit |-> fit]

-----------------------------------------------------------------------------
\* positionZone, which also finds out whether the image fits the window: the zone
\* is as wide as the navigation window.
ZonePositioned(v) ==
  [v EXCEPT !.fit = [a \in Axis |-> Window[a] >= v.len[a] /\ v.pos[a] <= 0]]

\* zoomIn. An image that fits is centred; a position is only brought back if it
\* is past the image.
ZoomedIn(im, v) ==
  LET size == SizeAt(im, v.res + 1)
      moved(a) == IF v.fit[a] THEN ((size[a] - Window[a]) * Px) \div 2
                  ELSE IF size[a] > Window[a] THEN 2 * v.pos[a] + (Window[a] * Px) \div 2
                  ELSE v.pos[a]
      kept(a) == IF moved(a) > size[a] * Px THEN (size[a] - Window[a]) * Px ELSE moved(a)
  IN IF \A a \in Axis : 2 * v.len[a] <= im.size[a]
     THEN ZonePositioned([v EXCEPT !.res = @ + 1, !.len = size,
                                   !.pos = [a \in Axis |-> Greatest(kept(a), 0)]])
     ELSE v

\* Slip: zoomOut goes on when the whole image is on view.
ZoomedOutAlways(im, v) ==
  LET size == SizeAt(im, v.res - 1)
      moved(a) == v.pos[a] \div 2 - (Window[a] * Px) \div 4
      kept(a) == Least(moved(a), (size[a] - Window[a]) * Px)
  IN ZonePositioned([v EXCEPT !.res = @ - 1, !.len = size,
                              !.pos = [a \in Axis |-> Greatest(kept(a), 0)]])

\* zoomOut.
ZoomedOut(im, v) ==
  LET size == SizeAt(im, v.res - 1)
      moved(a) == v.pos[a] \div 2 - (Window[a] * Px) \div 4
      kept(a) == Least(moved(a), (size[a] - Window[a]) * Px)
  IN IF \E a \in Axis : v.len[a] > Window[a]
     THEN ZonePositioned([v EXCEPT !.res = @ - 1, !.len = size,
                                   !.pos = [a \in Axis |-> Greatest(kept(a), 0)]])
     ELSE v

\* calculateMinSizes: halve the image until it fits the window along one axis,
\* and take the level below.
FirstLevel(im) ==
  LET fits(r) == \E a \in Axis : SizeAt(im, r)[a] <= Window[a]
      halvings == CHOOSE k \in 0..im.size["x"] :
                    /\ fits(im.num_resolutions - k)
                    /\ \A j \in 0..(k - 1) : ~fits(im.num_resolutions - j)
      size == SizeAt(im, im.num_resolutions - halvings)
  IN [res |-> im.num_resolutions - halvings - 1, len |-> size,
      pos |-> [a \in Axis |-> ((size[a] - Window[a]) * Px) \div 2],
      fit |-> [a \in Axis |-> FALSE]]

\* createWindows: the view of calculateMinSizes and reCenter, zoomed in once,
\* which the page asks for, and zoomed out.
Opened(im) == ZonePositioned(ZoomedOut(im, ZoomedIn(im, FirstLevel(im))))

\* checkBounds.
Scrolled(v, d) ==
  LET kept(a) == Least(v.pos[a] + d[a], (v.len[a] - Window[a]) * Px)
  IN ZonePositioned([v EXCEPT !.pos = [a \in Axis |-> Greatest(kept(a), 0)]])

\* Slip: as many tiles as the window holds.
GridOfWindow(v) ==
  LET first(a) == v.pos[a] \div (TileSize * Px)
      last(a) == first(a) + Least(v.len[a], Window[a]) \div TileSize
  IN (first("x")..last("x")) \X (first("y")..last("y"))

\* loadGrid's tiles: from the one under the corner of the window to the one that
\* holds its last pixel or the pixel after it, and those of them that the image
\* has at full size.
Grid(v) ==
  LET first(a) == v.pos[a] \div (TileSize * Px)
      last(a) == (Least(v.len[a], Window[a]) * Px + v.pos[a]) \div (TileSize * Px)
  IN (first("x")..last("x")) \X (first("y")..last("y"))

InImage(im, v) ==
  LET scale == TileSize * Pow2[Halvings(im, v.res)]
  IN {t \in Grid(v) : t[1] * scale < im.size["x"] /\ t[2] * scale < im.size["y"]}

\* The snapshot begins at the first tile and the offset of the window in it, less two
\* pixels of the level: in pixels of the image, times Px.
TopLeft(im, v, a) ==
  LET tile == (v.pos[a] \div (TileSize * Px)) * TileSize
      centred == IF v.len[a] < Window[a] THEN ((Window[a] - v.len[a]) * Px) \div 2 ELSE 0
      inTile == ((v.pos[a] % (TileSize * Px)) \div Px) * Px - centred
  IN Greatest((tile * Px + inTile - 2 * Px) * Pow2[Halvings(im, v.res)], 0)

\* setOpenURL.
SetOpenURL(im, v) ==
  openUrl' = [corner |-> [a \in Axis |-> TopLeft(im, v, a)],
              size |-> [a \in Axis |-> Least(v.len[a], Window[a])]]

-----------------------------------------------------------------------------
ViewerInit ==
  /\ phase = "script"
  /\ picture \in Pictures
  /\ res = 0 /\ zoneRes = 0
  /\ len = [a \in Axis |-> 0]
  /\ pos = [a \in Axis |-> 0]
  /\ fit = [a \in Axis |-> FALSE]
  /\ asked = {}
  /\ unloaded = 0 /\ nTilesLoaded = 0 /\ nTilesToLoad = 0
  /\ failed = FALSE /\ loading = FALSE /\ refresher = FALSE
  /\ openUrl = [corner |-> [a \in Axis |-> 0], size |-> [a \in Axis |-> 0]]
  /\ drag = "free"
  /\ offset = [a \in Axis |-> 0]
  /\ moves = 0

\* Slip: the tiles past the edge of the image are waited for.
CountGridInFull(v) ==
  /\ unloaded' = Cardinality(asked')
  /\ nTilesToLoad' = Cardinality(Grid(v))
  /\ nTilesLoaded' = 0

\* The counts of loadGrid. The old tiles are destroyed, which takes their event
\* handlers away: what they still load is not counted. Tiles past the edge of the
\* image count as loaded.
CountGrid(v) ==
  /\ unloaded' = Cardinality(asked')
  /\ nTilesToLoad' = Cardinality(Grid(v))
  /\ nTilesLoaded' = nTilesToLoad' - Cardinality(asked')

\* requestImages and loadGrid.
RequestImages(v) ==
  /\ res' = v.res /\ len' = v.len /\ pos' = v.pos /\ fit' = v.fit
  /\ asked' = {<<v.res, t[1], t[2]>> : t \in InImage(picture, v)}
  /\ CountGrid(v)
  /\ failed' = FALSE
  /\ SetOpenURL(picture, v)
  /\ loading' = TRUE
  /\ refresher' = TRUE
  /\ offset' = [a \in Axis |-> 0]

\* load, when the document is ready.
Send ==
  /\ phase = "script"
  /\ phase' = "awaited"
  /\ UNCHANGED <<picture, moves, viewVars, zoneRes, gridVars, openUrl, dragVars>>

\* load's onComplete: the metadata arrived.
MetadataArrives(status) ==
  /\ phase = "awaited" /\ IsSuccess(status)
  /\ phase' = "viewing"
  /\ RequestImages(Opened(picture))
  /\ zoneRes' = Opened(picture).res
  /\ UNCHANGED <<picture, moves, drag>>

\* Request.onFailure calls onComplete, too, which says that there is no response and
\* fails on it: the alert of load's onFailure is never shown.
MetadataFails(status) ==
  /\ phase = "awaited" /\ ~IsSuccess(status)
  /\ phase' = "alerted"
  /\ UNCHANGED <<picture, moves, viewVars, zoneRes, gridVars, openUrl, dragVars>>

\* The user moves the view to v.
MovesTo(v) ==
  /\ phase = "viewing" /\ moves < MaxMoves
  /\ moves' = moves + 1
  /\ RequestImages(v)
  /\ UNCHANGED <<phase, picture>>

\* The wheel, a key, a double click or a button.
ZoomIn ==
  /\ ZoomedIn(picture, View) # View
  /\ MovesTo(ZoomedIn(picture, View))
  /\ UNCHANGED <<zoneRes, drag>>

ZoomOut ==
  /\ ZoomedOut(picture, View) # View
  /\ MovesTo(ZoomedOut(picture, View))
  /\ UNCHANGED <<zoneRes, drag>>

\* key, and the shift buttons, which move by a third of the window: scrollTo
\* along an axis.
ScrollTo(a, d) ==
  /\ MovesTo(Scrolled(View, [b \in Axis |-> IF b = a THEN d * Px ELSE 0]))
  /\ UNCHANGED <<zoneRes, drag>>

\* How far the zone can go in the navigation window, in pixels of the image. The
\* zone is as large as the window is at a level, and on the way from one level to
\* the next it has any size in between.
Room(a, r) ==
  Greatest(len[a] - (Window[a] * len[a]) \div Greatest(SizeAt(picture, r)[a], 1), 0)

\* scrollNavigation: a click in the navigation window, or the zone dropped there.
\* Of the places along an axis, both ends, the middle and the end that a zone still
\* on its way allows.
Places(a) == {0, Room(a, res) \div 2, Room(a, res), Room(a, zoneRes)}

\* After a click positionZone is called, after a drop of the zone it is not.
ScrollNavigation(x, y, clicked) ==
  LET v == [View EXCEPT !.pos = [x |-> x * Px, y |-> y * Px]]
  IN MovesTo(IF clicked THEN ZonePositioned(v) ELSE v) /\ UNCHANGED <<zoneRes, drag>>

\* Slip: the target follows the mouse anywhere.
DraggedFreely(d) == [a \in Axis |-> d[a] * Px]

\* Where TargetDrag.drag puts the target: as far as the image goes.
Dragged(d) ==
  LET capped(a) == IF pos[a] - d[a] * Px < 0 THEN pos[a] ELSE d[a] * Px
      edge(a) == pos[a] - (len[a] - Window[a]) * Px
  IN [a \in Axis |-> IF len[a] > Window[a] THEN Greatest(capped(a), edge(a)) ELSE 0]

DragStep(from, to) ==
  /\ phase = "viewing"
  /\ drag = from /\ drag' = to
  /\ UNCHANGED <<pageVars, viewVars, zoneRes, gridVars, openUrl>>

\* Drag.start: the mouse is pressed on the target.
Press == DragStep("free", "pressed") /\ UNCHANGED offset

\* Drag.check: it has gone further than the snap of 6 pixels.
Check == DragStep("pressed", "dragged") /\ UNCHANGED offset

\* Drag.cancel: it is let go before.
Cancel == DragStep("pressed", "free") /\ UNCHANGED offset

\* TargetDrag.drag: the target follows the mouse.
DragTo(d) ==
  /\ moves < MaxMoves
  /\ DragStep("dragged", "dragged")
  /\ offset' = Dragged(d)

\* Drag.stop, and scroll: offsetLeft and offsetTop are whole pixels, and a few of them
\* are ignored.  A zoom or a key may have put the target back in the meantime.
Drop ==
  LET whole == [a \in Axis |-> (offset[a] + Px \div 2) \div Px]
      far == \E a \in Axis : whole[a] >= Threshold \/ -whole[a] >= Threshold
  IN IF far
     THEN /\ drag = "dragged" /\ drag' = "free"
          /\ MovesTo(Scrolled(View, [a \in Axis |-> -whole[a] * Px]))
          /\ UNCHANGED zoneRes
     ELSE DragStep("dragged", "free") /\ UNCHANGED offset

\* A tile's load event, and refreshLoadBar.
TileLoads ==
  /\ unloaded > 0
  /\ unloaded' = unloaded - 1
  /\ nTilesLoaded' = nTilesLoaded + 1
  /\ loading' = (loading /\ nTilesLoaded' # nTilesToLoad)
  /\ UNCHANGED <<pageVars, viewVars, zoneRes, asked, failed, nTilesToLoad, refresher,
                 openUrl, dragVars>>

\* A tile's error event, whose handler asks for the tile again: nothing counts it.
\* The browser may show an icon in its place, which has a size.
TileFails ==
  /\ unloaded > 0
  /\ failed' = TRUE
  /\ UNCHANGED <<pageVars, viewVars, zoneRes, asked, unloaded, nTilesLoaded, nTilesToLoad,
                 loading, refresher, openUrl, dragVars>>

\* refresh, when it finds no tile without a size: the timer is cleared. A tile without
\* one it asks for again.
Refresh ==
  /\ refresher /\ (unloaded = 0 \/ failed)
  /\ refresher' = FALSE
  /\ UNCHANGED <<pageVars, viewVars, zoneRes, asked, unloaded, failed, nTilesLoaded,
                 nTilesToLoad, loading, openUrl, dragVars>>

\* The zone has moved to where positionZone sent it last: Element.set("morph") makes
\* the link of its morph "cancel", by which the last move takes the place of another.
ZoneArrives ==
  /\ zoneRes # res
  /\ zoneRes' = res
  /\ UNCHANGED <<pageVars, viewVars, gridVars, openUrl, dragVars>>

Steps(a) == {KeyStep, -KeyStep, Window[a] \div 3, -(Window[a] \div 3)}

ViewerNext ==
  \/ Send \/ \E status \in Statuses : MetadataArrives(status) \/ MetadataFails(status)
  \/ ZoomIn \/ ZoomOut
  \/ \E a \in Axis : \E d \in Steps(a) : ScrollTo(a, d)
  \/ \E x \in Places("x"), y \in Places("y"), clicked \in BOOLEAN :
       ScrollNavigation(x, y, clicked)
  \/ Press \/ Check \/ Cancel \/ Drop
  \/ \E d \in [Axis -> Drags] : DragTo(d)
  \/ TileLoads \/ TileFails \/ Refresh \/ ZoneArrives

\* The browser runs the timer, which stops once every tile has its size. It need not
\* get the tiles: the resolver may refuse one for ever.
Fairness == WF_viewerVars(Refresh /\ unloaded = 0)

ViewerSpec == ViewerInit /\ [][ViewerNext]_viewerVars /\ Fairness

-----------------------------------------------------------------------------
\* Every variable has its type.
TypeOK ==
  /\ phase \in {"script", "awaited", "viewing", "alerted"}
  /\ picture \in Pictures
  /\ res \in Int /\ zoneRes \in Int
  /\ len \in [Axis -> Nat] /\ pos \in [Axis -> Int] /\ fit \in [Axis -> BOOLEAN]
  /\ asked \subseteq Int \X Int \X Int
  /\ {unloaded, nTilesLoaded, nTilesToLoad, moves} \subseteq Nat
  /\ failed \in BOOLEAN /\ loading \in BOOLEAN /\ refresher \in BOOLEAN
  /\ drag \in {"free", "pressed", "dragged"} /\ offset \in [Axis -> Int]
  /\ openUrl \in [corner : [Axis -> Nat], size : [Axis -> Nat]]

FitsWindow(im) == \A a \in Axis : im.size[a] <= Window[a]

\* The level asked of the resolver is the one the page lays its tiles out for, and
\* one the image has.
LevelMatchesSize ==
  phase = "viewing" =>
    /\ res \in 0..picture.num_resolutions
    /\ len = SizeAt(picture, res)

\* The same of images larger than the window, the ones this viewer is for.
LargeLevelMatchesSize == FitsWindow(picture) \/ LevelMatchesSize

\* Every tile that shows a part of the image in the window is on the page, from
\* the level on view, and no tile is asked for that the image does not have; and the
\* snapshot begins where the window does, or less than three pixels before.
WindowIsTiled ==
  phase = "viewing" /\ ~FitsWindow(picture) =>
    LET size == SizeAt(picture, res)
        inside(a, i) == 0 <= i /\ i * TileSize * Pow2[Halvings(picture, res)] < picture.size[a]
        seen(a) == {i \in 0..(size[a] \div TileSize) :
                      /\ i * TileSize * Px < pos[a] + Window[a] * Px
                      /\ pos[a] < (i + 1) * TileSize * Px
                      /\ i * TileSize < size[a]}
    IN /\ {res} \X seen("x") \X seen("y") \subseteq asked
       /\ \A t \in asked : t[1] = res /\ inside("x", t[2]) /\ inside("y", t[3])
       /\ \A a \in Axis : len[a] >= Window[a] =>
            LET before == pos[a] * Pow2[Halvings(picture, res)] - openUrl.corner[a]
            IN 0 <= before /\ before < 3 * Px * Pow2[Halvings(picture, res)]

\* Letting go of the image leaves it where it was dragged to, but for the fraction
\* of a pixel that the browser rounds, in the direction in which it can be dragged.
DropKeepsPlace ==
  [][Drop => \A a \in Axis : len[a] > Window[a] =>
               LET jump == (pos'[a] - offset'[a]) - (pos[a] - offset[a])
               IN 2 * jump \in -Px..Px]_viewerVars

\* The bar goes only when every tile of the view has loaded, however many fail at
\* first: a tile that the resolver refuses for ever keeps it. And if every tile loads
\* in the end, the bar goes once the user stops, and so does the timer.
EveryViewSettles ==
  /\ [](phase = "viewing" /\ ~loading => unloaded = 0)
  /\ WF_viewerVars(TileLoads) => <>[](~loading /\ ~refresher)
=============================================================================
