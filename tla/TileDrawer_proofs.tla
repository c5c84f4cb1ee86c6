-------------------------- MODULE TileDrawer_proofs --------------------------
(***************************************************************************)
(* What the drawers count as loaded, what TILE_CACHE holds and what the    *)
(* tiles look like stay matched, for any tiles, views and cache size, in   *)
(* whatever order frames, loads, failures and evictions come.              *)
(***************************************************************************)
EXTENDS TileDrawer, FiniteSetTheorems, WellFoundedInduction, TLAPS

-----------------------------------------------------------------------------
(* The inductive invariant *)

Seen(d, t) == \E v \in ViewsOf[d] : t \in Shows[v]

StatusInv == status \in [Drawers -> [Tiles -> {"exists", "loading", "loaded", "failed"}]]

ListsInv ==
  /\ open \in BOOLEAN /\ canvases \subseteq Tiles
  /\ tilesLoaded \in [Drawers -> SUBSET Tiles] /\ image \in [Drawers -> SUBSET Tiles]
  /\ view \in [Drawers -> DOMAIN Shows] /\ \A d \in Drawers : view[d] \in ViewsOf[d]

\* A tile that is loading or loaded has been in sight.
SeenInv ==
  \A d \in Drawers, t \in Tiles : status[d][t] \in {"loading", "loaded"} => Seen(d, t)

\* The list of an open page's drawer is exactly its loaded tiles.
LoadedInv == open => \A d \in Drawers : tilesLoaded[d] = Loaded(d)

\* A loaded tile has its picture, unless the other drawer may have taken the canvas.
PictureInv ==
  open => \A d \in Drawers : \A t \in Loaded(d) :
    HasPicture(d, t) \/ \E e \in Drawers \ {d} : Seen(e, t)

CanvasInv == \A t \in canvases : open /\ \E d \in Drawers : t \in Loaded(d)

IInv == StatusInv /\ ListsInv /\ SeenInv /\ LoadedInv /\ PictureInv /\ CanvasInv

-----------------------------------------------------------------------------
(* The steps *)

LEMMA ShownInSight ==
  ASSUME IInv, NEW d \in Drawers
  PROVE  Shown(d) \subseteq Tiles /\ \A t \in Shown(d) : Seen(d, t)
<1>1. view[d] \in ViewsOf[d] /\ view[d] \in DOMAIN Shows
  BY DEF IInv, ListsInv
<1>2. Shown(d) \subseteq Shows[view[d]]
  BY DEF Shown, Touched, Sight
<1> QED BY <1>1, <1>2, ViewAssumption DEF Seen

\* A frame turns images into canvases, and may ask for a tile in sight.
LEMMA FrameStep ==
  ASSUME IInv, NEW d \in Drawers, Frame(d)
  PROVE  IInv'
<1> DEFINE drawn == Shown(d) \cap Loaded(d)
           made == (drawn \cap image[d]) \ canvases
<1>1. /\ open /\ open' = open /\ view' = view /\ tilesLoaded' = tilesLoaded
      /\ canvases' = canvases \cup made
      /\ image' = [image EXCEPT ![d] = @ \ made]
  BY DEF Frame, DrawTiles, DrawCanvas
<1>2. \/ status' = status
      \/ \E best \in Shown(d) : status[d][best] = "exists"
                                /\ status' = [status EXCEPT ![d][best] = "loading"]
  BY DEF Frame, LoadTile
<1>3. made \subseteq Loaded(d) /\ made \subseteq Tiles /\ made \subseteq image[d]
  BY DEF Loaded
<1> HIDE DEF made, drawn
<1>4. /\ StatusInv' /\ SeenInv'
      /\ \A e \in Drawers, t \in Tiles : status'[e][t] = "loaded" <=> status[e][t] = "loaded"
  <2>1. CASE status' = status
    BY <2>1 DEF IInv, StatusInv, SeenInv, Seen
  <2>2. CASE \E best \in Shown(d) : status[d][best] = "exists"
               /\ status' = [status EXCEPT ![d][best] = "loading"]
    <3>1. PICK best \in Shown(d) : status[d][best] = "exists"
               /\ status' = [status EXCEPT ![d][best] = "loading"]
      BY <2>2
    <3>2. best \in Tiles /\ Seen(d, best)
      BY ShownInSight
    <3>3. StatusInv'
      BY <3>1, <3>2 DEF IInv, StatusInv
    <3>4. \A e \in Drawers, t \in Tiles :
             status'[e][t] = IF e = d /\ t = best THEN "loading" ELSE status[e][t]
      BY <3>1, <3>2 DEF IInv, StatusInv
    <3>5. SeenInv'
      BY <3>2, <3>4 DEF IInv, SeenInv, Seen
    <3> QED BY <3>1, <3>3, <3>4, <3>5
  <2> QED BY <1>2, <2>1, <2>2
<1>5. \A e \in Drawers : Loaded(e)' = Loaded(e)
  BY <1>4 DEF Loaded
<1>6. ListsInv'
  BY <1>1, <1>3 DEF IInv, ListsInv
<1>7. LoadedInv'
  BY <1>1, <1>5 DEF IInv, LoadedInv
<1>8. CanvasInv'
  BY <1>1, <1>3, <1>5 DEF IInv, CanvasInv
<1>9. PictureInv'
  <2> SUFFICES ASSUME NEW e \in Drawers, NEW t \in Loaded(e)
               PROVE  \/ t \in image'[e] \/ t \in canvases'
                      \/ \E f \in Drawers \ {e} : Seen(f, t)
    BY <1>5 DEF PictureInv, HasPicture, Seen
  <2>1. \/ t \in image[e] \/ t \in canvases
        \/ \E f \in Drawers \ {e} : Seen(f, t)
    BY <1>1 DEF IInv, PictureInv, HasPicture
  <2>2. image'[e] = IF e = d THEN image[e] \ made ELSE image[e]
    BY <1>1 DEF IInv, ListsInv
  <2> QED BY <1>1, <2>1, <2>2
<1> QED BY <1>4, <1>6, <1>7, <1>8, <1>9 DEF IInv

\* A tile is loaded into a cache that has room, or grows.
LEMMA LoadedStep ==
  ASSUME IInv, NEW d \in Drawers, NEW t \in Tiles, TileLoaded(d, t)
  PROVE  IInv'
<1>0. status[d][t] = "loading" /\ open' = open /\ view' = view
  BY DEF TileLoaded
<1>1. CASE /\ status' = [status EXCEPT ![d][t] = "loaded"]
           /\ image' = [image EXCEPT ![d] = @ \cup {t}]
           /\ tilesLoaded' = [tilesLoaded EXCEPT ![d] = @ \cup {t}]
           /\ canvases' = canvases
  <2>1. StatusInv' /\ ListsInv'
    BY <1>0, <1>1 DEF IInv, StatusInv, ListsInv
  <2>2. \A e \in Drawers, u \in Tiles :
           status'[e][u] = IF e = d /\ u = t THEN "loaded" ELSE status[e][u]
    BY <1>1 DEF IInv, StatusInv
  <2>3. \A e \in Drawers : Loaded(e)' = IF e = d THEN Loaded(e) \cup {t} ELSE Loaded(e)
    BY <2>2 DEF Loaded
  <2>4. SeenInv'
    BY <1>0, <2>2 DEF IInv, SeenInv, Seen
  <2>5. LoadedInv' /\ CanvasInv'
    BY <1>0, <1>1, <2>3 DEF IInv, ListsInv, LoadedInv, CanvasInv
  <2>6. PictureInv'
    BY <1>0, <1>1, <2>3 DEF IInv, ListsInv, PictureInv, HasPicture, Seen
  <2> QED BY <2>1, <2>4, <2>5, <2>6 DEF IInv
<1>2. CASE \E w \in Worst(d) :
             /\ status' = [status EXCEPT ![d][t] = "loaded", ![d][w] = Unloaded]
             /\ image' = [image EXCEPT ![d] = (@ \ {w}) \cup {t}]
             /\ tilesLoaded' = [tilesLoaded EXCEPT ![d] = (@ \ {w}) \cup {t}]
             /\ canvases' = canvases \ {w}
  <2>1. PICK w \in Worst(d) :
             /\ status' = [status EXCEPT ![d][t] = "loaded", ![d][w] = Unloaded]
             /\ image' = [image EXCEPT ![d] = (@ \ {w}) \cup {t}]
             /\ tilesLoaded' = [tilesLoaded EXCEPT ![d] = (@ \ {w}) \cup {t}]
             /\ canvases' = canvases \ {w}
    BY <1>2
  <2>2. w \in tilesLoaded[d] /\ w \in Tiles
    BY DEF Worst, IInv, ListsInv
  <2> DEFINE loaded == [status EXCEPT ![d][t] = "loaded"]
  <2>3. /\ loaded \in [Drawers -> [Tiles -> {"exists", "loading", "loaded", "failed"}]]
        /\ \A e \in Drawers, u \in Tiles :
             loaded[e][u] = IF e = d /\ u = t THEN "loaded" ELSE status[e][u]
    BY DEF IInv, StatusInv
  <2>4. status' = [loaded EXCEPT ![d][w] = "exists"]
    BY <2>1, Zenon DEF Unloaded
  <2> HIDE DEF loaded
  <2>5. /\ StatusInv'
        /\ \A e \in Drawers, u \in Tiles :
             status'[e][u] = IF e = d /\ u = w THEN "exists"
                             ELSE IF e = d /\ u = t THEN "loaded" ELSE status[e][u]
    BY <2>2, <2>3, <2>4 DEF StatusInv
  <2>6. ListsInv'
    BY <1>0, <2>1 DEF IInv, ListsInv
  <2>7. SeenInv'
    BY <1>0, <2>5 DEF IInv, SeenInv, Seen
  <2>8. CASE open
    <3>1. w \in Loaded(d) /\ w # t
      BY <1>0, <2>2, <2>8 DEF IInv, LoadedInv, Loaded
    <3>2. \A e \in Drawers :
             Loaded(e)' = IF e = d THEN (Loaded(e) \ {w}) \cup {t} ELSE Loaded(e)
      BY <2>5, <3>1 DEF Loaded
    <3>3. LoadedInv'
      BY <1>0, <2>1, <2>8, <3>2 DEF IInv, ListsInv, LoadedInv
    <3>4. CanvasInv'
      BY <1>0, <2>1, <2>8, <3>2 DEF IInv, CanvasInv
    <3>5. PictureInv'
      <4> SUFFICES ASSUME NEW e \in Drawers, NEW u \in Loaded(e)'
                   PROVE  \/ u \in image'[e] \/ u \in canvases'
                          \/ \E f \in Drawers \ {e} : Seen(f, u)
        BY DEF PictureInv, HasPicture, Seen
      <4>1. CASE e = d
        <5>1. image'[d] = (image[d] \ {w}) \cup {t}
          BY <2>1 DEF IInv, ListsInv
        <5>2. u = t \/ (u \in Loaded(d) /\ u # w)
          BY <3>2, <4>1
        <5> QED BY <2>1, <2>8, <4>1, <5>1, <5>2 DEF IInv, PictureInv, HasPicture
      <4>2. CASE e # d
        <5>1. u \in Loaded(e) /\ image'[e] = image[e]
          BY <2>1, <3>2, <4>2 DEF IInv, ListsInv
        <5>2. \/ u \in image[e] \/ u \in canvases
              \/ \E f \in Drawers \ {e} : Seen(f, u)
          BY <2>8, <5>1 DEF IInv, PictureInv, HasPicture
        <5>3. Seen(d, w)
          BY <2>2, <3>1 DEF IInv, SeenInv, Loaded
        <5> QED BY <2>1, <4>2, <5>1, <5>2, <5>3
      <4> QED BY <4>1, <4>2
    <3> QED BY <2>5, <2>6, <2>7, <3>3, <3>4, <3>5 DEF IInv
  <2>9. CASE ~open
    BY <1>0, <2>1, <2>5, <2>6, <2>7, <2>9 DEF IInv, LoadedInv, CanvasInv, PictureInv
  <2> QED BY <2>8, <2>9
<1> QED BY <1>1, <1>2 DEF TileLoaded

LEMMA FailedStep ==
  ASSUME IInv, NEW d \in Drawers, NEW t \in Tiles, TileFailed(d, t)
  PROVE  IInv'
<1>1. /\ status[d][t] = "loading" /\ status' = [status EXCEPT ![d][t] = "failed"]
      /\ open' = open /\ view' = view /\ image' = image /\ tilesLoaded' = tilesLoaded
      /\ canvases' = canvases
  BY DEF TileFailed
<1>2. \A e \in Drawers, u \in Tiles :
         status'[e][u] = IF e = d /\ u = t THEN "failed" ELSE status[e][u]
  BY <1>1 DEF IInv, StatusInv
<1>3. \A e \in Drawers : Loaded(e)' = Loaded(e)
  BY <1>1, <1>2 DEF Loaded
<1>4. StatusInv' /\ SeenInv'
  BY <1>1, <1>2 DEF IInv, StatusInv, SeenInv, Seen
<1>5. ListsInv' /\ LoadedInv' /\ CanvasInv'
  BY <1>1, <1>3 DEF IInv, ListsInv, LoadedInv, CanvasInv
<1>6. PictureInv'
  BY <1>1, <1>3 DEF IInv, PictureInv, HasPicture, Seen
<1> QED BY <1>4, <1>5, <1>6 DEF IInv

LEMMA ChangeViewStep ==
  ASSUME IInv, NEW d \in Drawers, NEW v \in ViewsOf[d], ChangeView(d, v)
  PROVE  IInv'
<1>1. /\ view' = [view EXCEPT ![d] = v]
      /\ open' = open /\ status' = status /\ image' = image
      /\ tilesLoaded' = tilesLoaded /\ canvases' = canvases
  BY DEF ChangeView
<1>2. v \in DOMAIN Shows
  BY ViewAssumption
<1>3. ListsInv'
  BY <1>1, <1>2 DEF IInv, ListsInv
<1>4. StatusInv' /\ SeenInv' /\ LoadedInv' /\ CanvasInv' /\ PictureInv'
  BY <1>1 DEF IInv, StatusInv, SeenInv, LoadedInv, CanvasInv, PictureInv, HasPicture,
     Loaded, Seen
<1> QED BY <1>3, <1>4 DEF IInv

\* Destroying both drawers empties TILE_CACHE.
LEMMA CloseStep ==
  ASSUME IInv, Close
  PROVE  IInv'
<1>1. /\ open /\ open' = FALSE /\ view' = view /\ tilesLoaded' = tilesLoaded
      /\ image' = [d \in Drawers |-> image[d] \ tilesLoaded[d]]
      /\ canvases' = canvases \ UNION {tilesLoaded[d] : d \in Drawers}
      /\ status' = [d \in Drawers |-> [t \in Tiles |->
           IF t \in tilesLoaded[d] THEN "exists" ELSE status[d][t]]]
  BY DEF Close, Unloaded
<1>2. canvases' = {}
  BY <1>1 DEF IInv, CanvasInv, LoadedInv
<1>3. StatusInv' /\ SeenInv'
  BY <1>1 DEF IInv, StatusInv, SeenInv, Seen
<1>4. ListsInv'
  BY <1>1, <1>2 DEF IInv, ListsInv
<1>5. LoadedInv' /\ CanvasInv' /\ PictureInv'
  BY <1>1, <1>2 DEF LoadedInv, CanvasInv, PictureInv
<1> QED BY <1>3, <1>4, <1>5 DEF IInv

-----------------------------------------------------------------------------
(* The theorem *)

LEMMA Initially == Init => IInv
<1> SUFFICES ASSUME Init PROVE IInv
  OBVIOUS
<1>1. StatusInv /\ SeenInv
  BY DEF Init, StatusInv, SeenInv
<1>2. ListsInv
  BY DEF Init, ListsInv
<1>3. \A d \in Drawers : Loaded(d) = {} /\ tilesLoaded[d] = {}
  BY DEF Init, Loaded
<1>4. LoadedInv /\ CanvasInv /\ PictureInv
  BY <1>3 DEF Init, LoadedInv, CanvasInv, PictureInv
<1> QED BY <1>1, <1>2, <1>4 DEF IInv

LEMMA Inductive == IInv /\ [Next]_vars => IInv'
<1> SUFFICES ASSUME IInv, [Next]_vars PROVE IInv'
  OBVIOUS
<1>1. CASE Close
  BY <1>1, CloseStep
<1>2. CASE \E d \in Drawers : Frame(d)
  BY <1>2, FrameStep
<1>3. CASE \E d \in Drawers, t \in Tiles : JobNext(d, t)
  BY <1>3, LoadedStep, FailedStep DEF JobNext
<1>4. CASE \E d \in Drawers : \E v \in ViewsOf[d] : ChangeView(d, v)
  BY <1>4, ChangeViewStep
<1>5. CASE UNCHANGED vars
  BY <1>5 DEF vars, drawerVars, tileVars, IInv, StatusInv, ListsInv, SeenInv, LoadedInv,
     CanvasInv, PictureInv, HasPicture, Loaded, Seen
<1> QED BY <1>1, <1>2, <1>3, <1>4, <1>5 DEF Next

\* A loaded tile of an open page has its picture unless the other drawer can show the
\* tile too, and TILE_CACHE holds nothing that no drawer has (onTileLoad, drawCanvas,
\* unload, destroy).
THEOREM PicturesStayMatched == Spec => []PicturesMatchTiles
<1>1. IInv => PicturesMatchTiles
  BY DEF IInv, PictureInv, CanvasInv, PicturesMatchTiles, Seen
<1> QED BY <1>1, Initially, Inductive, PTL DEF Spec

-----------------------------------------------------------------------------
(* What is drawn *)

LEMMA LeastNumber ==
  ASSUME NEW T, T \subseteq Nat, T # {}
  PROVE  \E n \in T : \A m \in T : n <= m
<1> DEFINE Upto == {0..n : n \in T}
<1>1. Upto # {} /\ Upto \subseteq FiniteSubsetsOf(Nat)
  <2>1. \A n \in T : 0..n \subseteq Nat /\ IsFiniteSet(0..n)
    BY FS_Interval
  <2> QED BY <2>1 DEF FiniteSubsetsOf
<1>2. PICK x \in Upto : \A y \in Upto : ~ (<<y, x>> \in StrictSubsetOrdering(Nat))
  <2> HIDE DEF Upto
  <2> QED BY <1>1, FS_StrictSubsetOrderingWellFounded, WFMin
<1>3. PICK n \in T : x = 0..n
  OBVIOUS
<1>4. SUFFICES ASSUME NEW m \in T, m < n PROVE FALSE
  BY <1>3
<1>5. 0..m \subseteq Nat /\ 0..n \subseteq Nat /\ 0..m \subseteq 0..n /\ n \in 0..n /\ n \notin 0..m
  BY <1>4
<1>6. <<0..m, 0..n>> \in StrictSubsetOrdering(Nat)
  BY <1>5 DEF StrictSubsetOrdering
<1> QED BY <1>2, <1>3, <1>6

\* Of the tiles in a set, one is of the finest level.
LEMMA FinestOne ==
  ASSUME NEW Q, Q \subseteq Tiles, Q # {}, NEW n \in Nat, \A w \in Q : Level[w] <= n
  PROVE  \E w \in Q : \A c \in Q : Level[c] <= Level[w]
<1> DEFINE T == {n - Level[w] : w \in Q}
<1>1. \A w \in Q : Level[w] \in Nat
  BY TileAssumption
<1>2. T \subseteq Nat /\ T # {}
  BY <1>1
<1>3. PICK m \in T : \A k \in T : m <= k
  <2> HIDE DEF T
  <2> QED BY <1>2, LeastNumber
<1>4. PICK w \in Q : m = n - Level[w]
  OBVIOUS
<1>5. \A c \in Q : n - Level[w] <= n - Level[c]
  BY <1>3, <1>4
<1> QED BY <1>1, <1>5

\* A tile's stack leads down to it: every other member has a child in it.
LEMMA StackLeadsDown ==
  ASSUME NEW t \in Tiles
  PROVE  /\ t \in Stack[t] /\ Stack[t] \subseteq Tiles
         /\ \A S \in SUBSET Tiles : t \in S /\ ClosedAbove(S) => Stack[t] \subseteq S
         /\ \A w \in Stack[t] : Level[w] <= Level[t]
         /\ \A w \in Stack[t] \ {t} : \E c \in Stack[t] : c \in Children[w]
<1>1. /\ Stack[t] \subseteq Tiles
      /\ \A u \in Tiles : u \in Stack[t] <=>
           \A S \in SUBSET Tiles : t \in S /\ ClosedAbove(S) => u \in S
  BY DEF Stack
<1>2. t \in Stack[t]
  BY <1>1
<1>3. \A S \in SUBSET Tiles : t \in S /\ ClosedAbove(S) => Stack[t] \subseteq S
  BY <1>1
<1>4. ClosedAbove(Stack[t])
  <2> SUFFICES ASSUME NEW c \in Stack[t], NEW u \in Tiles, c \in Children[u],
                      NEW S \in SUBSET Tiles, t \in S, ClosedAbove(S)
               PROVE  u \in S
    BY <1>1 DEF ClosedAbove
  <2> QED BY <1>3 DEF ClosedAbove
<1>5. \A w \in Stack[t] : Level[w] <= Level[t]
  <2> DEFINE S == {u \in Tiles : Level[u] <= Level[t]}
  <2>1. ClosedAbove(S)
    BY TileAssumption DEF ClosedAbove
  <2>2. S \in SUBSET Tiles /\ t \in S
    BY TileAssumption
  <2>3. Stack[t] \subseteq S
    <3> HIDE DEF S
    <3> QED BY <1>3, <2>1, <2>2
  <2> QED BY <2>3
<1>6. \A w \in Stack[t] \ {t} : \E c \in Stack[t] : c \in Children[w]
  <2> DEFINE S == {u \in Stack[t] : u = t \/ \E c \in Stack[t] : c \in Children[u]}
  <2>1. ClosedAbove(S)
    BY <1>4 DEF ClosedAbove
  <2>2. S \in SUBSET Tiles /\ t \in S
    BY <1>1, <1>2
  <2>3. Stack[t] \subseteq S
    <3> HIDE DEF S
    <3> QED BY <1>3, <2>1, <2>2
  <2> QED BY <2>3
<1> QED BY <1>1, <1>2, <1>3, <1>5, <1>6

\* What makes a tile cover its part, given the tiles that do.
CoveredBy(d, t, S) ==
  /\ status[d][t] # "failed"
  /\ \/ status[d][t] = "loaded"
     \/ /\ Level[t] \notin {0, Top[view[d]]}
        /\ \A c \in Children[t] \cap Sight(d) : c \in S

\* The tiles that cover their part.
Covering(d) == {t \in Tiles : Covers(d)[t]}

\* The recursion of covers is a definition: what it asks of a tile is monotone in the
\* tiles that cover, and so the union of all sets whose tiles are covered by
\* the set is a solution.
LEMMA CoversFixed ==
  ASSUME NEW d
  PROVE  /\ \A t \in Tiles : Covers(d)[t] <=> t \in Covering(d)
         /\ \A t \in Tiles : t \in Covering(d) <=> CoveredBy(d, t, Covering(d))
<1> DEFINE W == UNION {S \in SUBSET Tiles : \A t \in S : CoveredBy(d, t, S)}
           body(f) == [t \in Tiles |->
             /\ status[d][t] # "failed"
             /\ \/ status[d][t] = "loaded"
                \/ /\ Level[t] \notin {0, Top[view[d]]}
                   /\ \A c \in Children[t] \cap Sight(d) : f[c]]
           g == [t \in Tiles |-> t \in W]
<1>1. ASSUME NEW t \in W PROVE CoveredBy(d, t, W)
  <2>1. PICK S \in SUBSET Tiles : t \in S /\ \A c \in S : CoveredBy(d, c, S)
    BY <1>1
  <2>2. S \subseteq W
    BY <2>1
  <2> HIDE DEF W
  <2> QED BY <2>1, <2>2 DEF CoveredBy
<1>2. ASSUME NEW t \in Tiles, CoveredBy(d, t, W) PROVE t \in W
  <2> DEFINE S == W \cup {t}
  <2>1. S \in SUBSET Tiles
    OBVIOUS
  <2>2. \A c \in S : CoveredBy(d, c, S)
    <3> HIDE DEF W
    <3> QED BY <1>1, <1>2 DEF CoveredBy
  <2>3. t \in S
    OBVIOUS
  <2> HIDE DEF S
  <2> QED BY <2>1, <2>2, <2>3
<1>3. W \subseteq Tiles
  OBVIOUS
<1> HIDE DEF W
<1>4. g = body(g)
  <2>1. \A t \in Tiles : \A c \in Children[t] \cap Sight(d) : g[c] <=> c \in W
    BY TileAssumption
  <2>2. \A t \in Tiles : t \in W <=> CoveredBy(d, t, W)
    BY <1>1, <1>2
  <2>3. \A t \in Tiles : (t \in W) <=>
          /\ status[d][t] # "failed"
          /\ \/ status[d][t] = "loaded"
             \/ /\ Level[t] \notin {0, Top[view[d]]}
                /\ \A c \in Children[t] \cap Sight(d) : g[c]
    BY <2>1, <2>2 DEF CoveredBy
  <2>4. ASSUME NEW t \in Tiles PROVE g[t] = body(g)[t]
    <3> DEFINE P == /\ status[d][t] # "failed"
                    /\ \/ status[d][t] = "loaded"
                       \/ /\ Level[t] \notin {0, Top[view[d]]}
                          /\ \A c \in Children[t] \cap Sight(d) : g[c]
    <3>1. g[t] = (t \in W) /\ body(g)[t] = P
      OBVIOUS
    <3>2. (t \in W) <=> P
      BY <2>3
    <3> HIDE DEF P, g, body
    <3>3. (t \in W) = P
      BY <3>2
    <3> QED BY <3>1, <3>3
  <2> QED BY <2>4
<1>5. Covers(d) = CHOOSE f : f = body(f)
  BY DEF Covers
<1>6. Covers(d) = body(Covers(d))
  <2> HIDE DEF body, g
  <2> QED BY <1>4, <1>5
<1>7. \A t \in Tiles : Covers(d)[t] <=>
        /\ status[d][t] # "failed"
        /\ \/ status[d][t] = "loaded"
           \/ /\ Level[t] \notin {0, Top[view[d]]}
              /\ \A c \in Children[t] \cap Sight(d) : Covers(d)[c]
  BY <1>6
<1>8. \A t \in Tiles : \A c \in Children[t] \cap Sight(d) : Covers(d)[c] <=> c \in Covering(d)
  BY TileAssumption DEF Covering
<1> QED BY <1>7, <1>8 DEF Covering, CoveredBy

\* Of the tile of the finest level and those it is under, one that covers its part and
\* is touched is drawn, or one further down covers its part and is touched.
LEMMA SomethingDrawn ==
  ASSUME NEW d \in Drawers, view[d] \in DOMAIN Shows, NEW t \in Finest[view[d]],
         NEW u \in Stack[t], u \in Loaded(d)
  PROVE  \E w \in Stack[t] : w \in Shown(d) \cap Loaded(d)
<1> DEFINE top == Top[view[d]]
           Q == {w \in Stack[t] : w \in Covering(d) /\ w \in Touched(d)}
<1>1. /\ t \in Sight(d) /\ t \in Tiles /\ Level[t] = top /\ top \in Nat
      /\ Sight(d) \subseteq Tiles /\ ClosedAbove(Sight(d))
  <2>1. Finest[view[d]] = {w \in Sight(d) : Level[w] = top}
    BY DEF Finest, Sight
  <2>2. Sight(d) \subseteq Tiles /\ ClosedAbove(Sight(d))
    BY ViewAssumption DEF Sight
  <2> QED BY <2>1, <2>2, TileAssumption
<1>2. /\ t \in Stack[t] /\ Stack[t] \subseteq Sight(d)
      /\ \A w \in Stack[t] : w \in Tiles /\ Level[w] \in Nat /\ Level[w] <= top
      /\ \A w \in Stack[t] \ {t} : \E c \in Stack[t] : c \in Children[w]
      /\ \A w \in Tiles : \A c \in Children[w] : Level[c] = Level[w] + 1
  BY <1>1, StackLeadsDown, TileAssumption
<1>3. /\ \A w \in Tiles : w \in Covering(d) <=> CoveredBy(d, w, Covering(d))
      /\ \A w \in Tiles : Covers(d)[w] <=> w \in Covering(d)
      /\ Covering(d) \subseteq Tiles
  BY CoversFixed DEF Covering
<1>4. \A w : w \in Touched(d) <=>
        /\ w \in Sight(d)
        /\ \A l \in (Level[w] + 1)..top : \E c \in Sight(d) : Level[c] = l /\ c \notin Covering(d)
  BY <1>1, <1>3 DEF Touched
<1>5. \A w : w \in Shown(d) <=>
        /\ w \in Touched(d) /\ status[d][w] # "failed"
        /\ \/ Level[w] \in {0, top}
           \/ \E c \in Children[w] \cap Sight(d) : c \notin Covering(d)
  BY <1>1, <1>3 DEF Shown
<1>6. \A w \in Tiles : w \in Loaded(d) <=> status[d][w] = "loaded"
  BY DEF Loaded
<1> HIDE DEF top, Q
<1>7. Q # {}
  <2> DEFINE Full == {l \in (Level[u] + 1)..top :
                        \A c \in Sight(d) : Level[c] = l => c \in Covering(d)}
  <2>1. CASE Full = {}
    <3>1. u \in Touched(d)
      BY <1>2, <1>4, <2>1
    <3>2. u \in Covering(d)
      BY <1>2, <1>3, <1>6 DEF CoveredBy
    <3> QED BY <3>1, <3>2 DEF Q
  <2>2. CASE Full # {}
    <3>1. PICK l \in Full : \A k \in Full : k <= l
      <4> DEFINE T == {top - k : k \in Full}
      <4>1. T \subseteq Nat /\ T # {}
        BY <1>1, <1>2, <2>2
      <4>2. PICK m \in T : \A k \in T : m <= k
        <5> HIDE DEF T
        <5> QED BY <4>1, LeastNumber
      <4>3. PICK l \in Full : m = top - l
        OBVIOUS
      <4>4. \A k \in Full : top - l <= top - k
        BY <4>2, <4>3
      <4> QED BY <1>1, <1>2, <4>4
    <3>2. /\ l \in Nat /\ Level[u] + 1 <= l /\ l <= top
          /\ \A c \in Sight(d) : Level[c] = l => c \in Covering(d)
          /\ \A k \in (l + 1)..top : \E c \in Sight(d) : Level[c] = k /\ c \notin Covering(d)
      <4>1. \A k \in (l + 1)..top : k \in (Level[u] + 1)..top /\ ~ (k <= l)
        BY <1>1, <1>2
      <4> QED BY <1>1, <1>2, <3>1, <4>1
    <3> HIDE DEF Full
    <3> DEFINE M == {w \in Stack[t] : Level[w] <= l}
    <3>3. PICK w \in M : \A c \in M : Level[c] <= Level[w]
      <4>1. M \subseteq Tiles /\ M # {} /\ \A c \in M : Level[c] <= l
        BY <1>2, <3>2
      <4> HIDE DEF M
      <4> QED BY <3>2, <4>1, FinestOne
    <3>4. Level[w] = l
      <4>1. CASE w = t
        BY <1>1, <1>2, <3>2, <3>3, <4>1
      <4>2. CASE w # t
        <5>1. PICK c \in Stack[t] : c \in Children[w]
          BY <1>2, <4>2
        <5>2. Level[c] = Level[w] + 1
          BY <1>2, <5>1
        <5> QED BY <1>2, <3>2, <3>3, <5>2
      <4> QED BY <4>1, <4>2
    <3>5. w \in Covering(d)
      BY <1>2, <3>2, <3>4
    <3>6. w \in Touched(d)
      BY <1>2, <1>4, <3>2, <3>4
    <3> QED BY <3>5, <3>6 DEF Q
  <2> QED BY <2>1, <2>2
<1>8. PICK w \in Q : \A c \in Q : Level[c] <= Level[w]
  <2>1. Q \subseteq Tiles /\ \A c \in Q : Level[c] <= top
    BY <1>2 DEF Q
  <2> QED BY <1>1, <1>7, <2>1, FinestOne
<1>9. /\ w \in Stack[t] /\ w \in Tiles /\ w \in Touched(d) /\ w \in Covering(d)
      /\ CoveredBy(d, w, Covering(d))
  BY <1>2, <1>3, <1>8 DEF Q
<1>10. CASE Level[w] \in {0, top}
  <2>1. w \in Loaded(d)
    BY <1>6, <1>9, <1>10 DEF CoveredBy, top
  <2> QED BY <1>5, <1>9, <1>10, <2>1 DEF CoveredBy
<1>11. CASE \E c \in Children[w] \cap Sight(d) : c \notin Covering(d)
  <2>1. w \in Loaded(d)
    BY <1>6, <1>9, <1>11 DEF CoveredBy
  <2> QED BY <1>5, <1>9, <1>11, <2>1 DEF CoveredBy
<1>12. CASE Level[w] # top /\ \A c \in Children[w] \cap Sight(d) : c \in Covering(d)
  <2>1. PICK c \in Stack[t] : c \in Children[w]
    BY <1>1, <1>2, <1>9, <1>12
  <2>2. c \in Sight(d) /\ c \in Covering(d) /\ Level[c] = Level[w] + 1
    BY <1>2, <1>9, <1>12, <2>1
  <2>3. c \in Touched(d)
    <3>1. \A l \in (Level[c] + 1)..top : l \in (Level[w] + 1)..top
      BY <1>1, <1>2, <1>9, <2>2
    <3> QED BY <1>4, <1>9, <2>2, <3>1
  <2>4. c \in Q
    BY <2>1, <2>2, <2>3 DEF Q
  <2> QED BY <1>2, <1>8, <1>9, <2>2, <2>4
<1> QED BY <1>10, <1>11, <1>12

DrawnInv == beingDrawn \in [Drawers -> SUBSET Tiles]

LEMMA DrawnStep ==
  ASSUME DrawnInv, [Next]_vars
  PROVE  DrawnInv'
<1>1. ASSUME NEW d \in Drawers, Frame(d) PROVE DrawnInv'
  <2>1. beingDrawn' = [beingDrawn EXCEPT ![d] = Shown(d) \cap Loaded(d)]
    BY <1>1 DEF Frame, DrawTiles
  <2>2. Shown(d) \cap Loaded(d) \subseteq Tiles
    BY DEF Loaded
  <2> QED BY <2>1, <2>2 DEF DrawnInv
<1>2. CASE Close
  BY <1>2 DEF Close, DrawnInv
<1>3. ASSUME NEW d \in Drawers, NEW t \in Tiles, JobNext(d, t) PROVE DrawnInv'
  BY <1>3 DEF JobNext, TileLoaded, TileFailed, DrawnInv
<1>4. ASSUME NEW d \in Drawers, NEW v \in ViewsOf[d], ChangeView(d, v) PROVE DrawnInv'
  BY <1>4 DEF ChangeView, DrawnInv
<1>5. CASE UNCHANGED vars
  BY <1>5 DEF vars, tileVars, DrawnInv
<1> QED BY <1>1, <1>2, <1>3, <1>4, <1>5 DEF Next

\* Although updateViewport ends its loop at the first level that is covered, and
\* leaves out the tiles that finer ones cover, a frame draws something wherever
\* something is loaded: whatever the pyramid, and however many levels are missing.
THEOREM LoadedIsPainted == Spec => PaintedWhereLoaded
<1>1. Init => DrawnInv
  BY DEF Init, DrawnInv
<1>2. DrawnInv /\ [Next]_vars => DrawnInv'
  BY DrawnStep
<1>3. IInv /\ DrawnInv /\ [Next]_vars =>
        [\A d \in Drawers : Frame(d) =>
           \A t \in Finest[view[d]] :
             Stack[t] \cap Sight(d) \cap Loaded(d) # {} => Stack[t] \cap beingDrawn'[d] # {}]_vars
  <2> SUFFICES ASSUME IInv, DrawnInv, NEW d \in Drawers, Frame(d), NEW t \in Finest[view[d]],
                      Stack[t] \cap Sight(d) \cap Loaded(d) # {}
               PROVE  Stack[t] \cap beingDrawn'[d] # {}
    OBVIOUS
  <2>1. PICK u \in Stack[t] : u \in Loaded(d)
    OBVIOUS
  <2>2. view[d] \in DOMAIN Shows
    BY DEF IInv, ListsInv
  <2>3. \E w \in Stack[t] : w \in Shown(d) \cap Loaded(d)
    BY <2>1, <2>2, SomethingDrawn
  <2>4. beingDrawn'[d] = Shown(d) \cap Loaded(d)
    BY DEF Frame, DrawTiles, DrawnInv
  <2> QED BY <2>3, <2>4
<1> QED BY <1>1, <1>2, <1>3, Initially, Inductive, PTL DEF Spec, PaintedWhereLoaded
=============================================================================
