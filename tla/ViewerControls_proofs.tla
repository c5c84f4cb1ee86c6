----------------------- MODULE ViewerControls_proofs -----------------------
(***************************************************************************)
(* The controls never fade in use, zooming ends with the press, and the    *)
(* page comes back from full page mode: for any buttons and any number of  *)
(* pending timers, requests and events.                                    *)
(***************************************************************************)
EXTENDS ViewerControls, TLAPS

-----------------------------------------------------------------------------
(* The inductive invariant *)

\* The viewer believes the mouse to be inside wherever it really is; and while a timer
\* may dim the controls, and when one has dimmed them, nobody uses the viewer, unless the
\* first frame came late.
FadeInv ==
  /\ over # Away => use.mouseInside
  /\ (controls.shouldFade \/ controls.opacity < 2) /\ ~controls.late =>
       ~use.mouseInside /\ ~use.animating

\* What full page mode puts aside is what the page had.
PageInv ==
  IF page.full THEN page.previousBody = "page" /\ page.savedStyle = "own"
               ELSE page.body = "page" /\ page.style = "own"

\* A zooming that did not begin early has something to zoom.
ZoomInv == ZoomEnds /\ (zoom.on /\ ~zoom.early => viewport)

IInv == TypeOK /\ FadeInv /\ ZoomInv /\ PageInv /\ FullPageHasScreen

-----------------------------------------------------------------------------
(* The states of the buttons stay states. *)

LEMMA StatesAreStates ==
  ASSUME NEW s \in REST..DOWN, NEW new \in REST..DOWN
  PROVE  /\ InTo(s, new) \in REST..DOWN
         /\ OutTo(s, new) \in REST..DOWN
         /\ NotifyGroupEnter(s) \in REST..DOWN
         /\ NotifyGroupExit(s) \in REST..DOWN
  BY DEF InTo, OutTo, NotifyGroupEnter, NotifyGroupExit, REST, GROUP, DOWN

LEMMA GroupStates ==
  ASSUME NEW st \in [Buttons -> REST..DOWN]
  PROVE  GroupEnter(st) \in [Buttons -> REST..DOWN] /\ GroupExit(st) \in [Buttons -> REST..DOWN]
  BY DEF GroupEnter, GroupExit, NotifyGroupEnter, NotifyGroupExit, InTo, OutTo,
         REST, GROUP, DOWN

LEMMA StatesAtAreStates ==
  ASSUME state \in [Buttons -> REST..DOWN], NEW to \in Places, NEW any \in BOOLEAN
  PROVE  StatesAt(to, any) \in [Buttons -> REST..DOWN]
<1> DEFINE left == [state EXCEPT ![over] = OutTo(@, GROUP)]
           out == IF over \notin Buttons THEN state
                  ELSE IF to \in Buttons THEN left ELSE GroupExit(left)
           new == IF to \in pressedIn THEN DOWN ELSE IF any THEN REST ELSE HOVER
           come == [out EXCEPT ![to] = InTo(@, new)]
<1>1. left \in [Buttons -> REST..DOWN]
  <2>1. \A b \in Buttons : OutTo(state[b], GROUP) \in REST..DOWN
    BY DEF OutTo, REST, GROUP, DOWN
  <2> QED BY <2>1
<1>2. GroupExit(left) \in [Buttons -> REST..DOWN]
  BY <1>1, GroupStates
<1>3. out \in [Buttons -> REST..DOWN]
  BY <1>1, <1>2
<1>4. new \in REST..DOWN
  BY DEF REST, HOVER, DOWN
<1>5. come \in [Buttons -> REST..DOWN]
  <2> HIDE DEF new, out
  <2>1. \A b \in Buttons : InTo(out[b], new) \in REST..DOWN
    BY <1>3, <1>4 DEF InTo
  <2> QED BY <1>3, <2>1
<1>6. GroupEnter(come) \in [Buttons -> REST..DOWN]
  BY <1>5, GroupStates
<1> QED BY <1>3, <1>5, <1>6 DEF StatesAt

-----------------------------------------------------------------------------
(* What an action does to the page *)

Modes ==
  [full : BOOLEAN, body : {"page", "viewer", "nothing"},
   previousBody : {"page", "viewer", "nothing"},
   style : {"own", "window"}, savedStyle : {"own", "window"}]

LEMMA EntersFullPage ==
  ASSUME NEW p \in Modes, ~p.full, p.body = "page", p.style = "own"
  PROVE  /\ EnterFullPage(p) \in Modes
         /\ EnterFullPage(p).full
         /\ EnterFullPage(p).previousBody = "page" /\ EnterFullPage(p).savedStyle = "own"
  BY DEF EnterFullPage, Modes

LEMMA LeavesFullPage ==
  ASSUME NEW p \in Modes, p.full, p.previousBody = "page", p.savedStyle = "own"
  PROVE  /\ LeaveFullPage(p) \in Modes
         /\ ~LeaveFullPage(p).full
         /\ LeaveFullPage(p).body = "page" /\ LeaveFullPage(p).style = "own"
<1>1. LeaveFullPage(p) = [full |-> FALSE, body |-> "page", previousBody |-> "nothing",
                          style |-> "own", savedStyle |-> "own"]
  BY DEF LeaveFullPage, Restored, Modes
<1> QED BY <1>1 DEF Modes
-----------------------------------------------------------------------------
(* What an action does to the fading of the controls, and to the zooming *)

Fades == [shouldFade : BOOLEAN, opacity : 0..2, timers : Nat, firstFrame : BOOLEAN,
          late : BOOLEAN, cut : BOOLEAN]
Zooms == [on : BOOLEAN, chains : Nat, early : BOOLEAN]

LEMMA BegunAndAborted ==
  ASSUME NEW c \in Fades
  PROVE  /\ Begin(c) \in Fades /\ Begin(c).timers = c.timers + 1
         /\ Begin(c).opacity = c.opacity /\ Begin(c).late = c.late
         /\ Abort(c) \in Fades /\ Abort(c).timers = c.timers
         /\ ~Abort(c).shouldFade /\ Abort(c).opacity = 2 /\ ~Abort(c).late
<1>1. Begin(c) \in Fades
  <2> DEFINE d == [c EXCEPT !.shouldFade = TRUE]
  <2>1. d \in Fades
    BY DEF Fades
  <2> DEFINE e == [d EXCEPT !.timers = c.timers + 1]
  <2>2. e \in Fades
    <3> HIDE DEF d
    <3> QED BY <2>1 DEF Fades
  <2>3. [e EXCEPT !.cut = FALSE] \in Fades
    <3> HIDE DEF e
    <3> QED BY <2>2 DEF Fades
  <2> QED BY <2>3, Zenon DEF Begin
<1>2. Begin(c).timers = c.timers + 1
  BY DEF Begin, Fades
<1>3. Begin(c).opacity = c.opacity /\ Begin(c).late = c.late
  BY DEF Begin, Fades
<1>4. Abort(c) \in Fades
  <2> DEFINE d == [c EXCEPT !.shouldFade = FALSE]
             e == [d EXCEPT !.opacity = 2]
  <2>1. d \in Fades
    BY DEF Fades
  <2>2. e \in Fades
    <3> HIDE DEF d
    <3> QED BY <2>1 DEF Fades
  <2> DEFINE f == [e EXCEPT !.late = FALSE]
  <2>3. f \in Fades
    <3> HIDE DEF e
    <3> QED BY <2>2 DEF Fades
  <2>4. [f EXCEPT !.cut = FALSE] \in Fades
    <3> HIDE DEF f
    <3> QED BY <2>3 DEF Fades
  <2> QED BY <2>4, Zenon DEF Abort
<1>5. Abort(c).timers = c.timers
  BY DEF Abort, Fades
<1>6. ~Abort(c).shouldFade /\ Abort(c).opacity = 2 /\ ~Abort(c).late
  BY DEF Abort, Fades
<1> QED BY <1>1, <1>2, <1>3, <1>4, <1>5, <1>6

LEMMA EndsZooming ==
  ASSUME NEW z \in Zooms
  PROVE  EndZooming(z) \in Zooms /\ EndZooming(z).chains = z.chains /\ ~EndZooming(z).on
<1> DEFINE y == [z EXCEPT !.on = FALSE]
<1>1. y \in Zooms /\ y.chains = z.chains /\ ~y.on
  BY DEF Zooms
<1>2. EndZooming(z) = [y EXCEPT !.early = FALSE]
  BY Zenon DEF EndZooming
<1> HIDE DEF y
<1> QED BY <1>1, <1>2 DEF Zooms

LEMMA BeginsZooming ==
  ASSUME NEW z \in Zooms, viewport \in BOOLEAN
  PROVE  /\ BeginZooming(z) \in Zooms /\ BeginZooming(z).chains = z.chains + 1
         /\ BeginZooming(z).early = ~viewport
  BY DEF BeginZooming, Zooms

LEMMA ComesAndLeaves ==
  ASSUME NEW z \in Zooms, NEW b, viewport \in BOOLEAN
  PROVE  /\ Leave(b, z) \in Zooms /\ Leave(b, z).chains = z.chains
         /\ Come(b, z) \in Zooms /\ Come(b, z).chains \in {z.chains, z.chains + 1}
<1>1. Leave(b, z) \in Zooms /\ Leave(b, z).chains = z.chains
  BY EndsZooming DEF Leave
<1>2. Come(b, z) \in Zooms /\ Come(b, z).chains \in {z.chains, z.chains + 1}
  BY BeginsZooming DEF Come, Zooms
<1> QED BY <1>1, <1>2

-----------------------------------------------------------------------------
(* The steps *)

\* What the steps of the mouse leave to be shown: the page and the screen are as they were.
LEMMA PageUntouched ==
  ASSUME IInv, UNCHANGED <<page, screen>>
  PROVE  PageInv' /\ FullPageHasScreen'
  BY DEF IInv, PageInv, FullPageHasScreen

LEMMA MoveStep ==
  ASSUME IInv, NEW to \in Places, Move(to)
  PROVE  IInv'
<1>1. TypeOK'
  <2>1. state' \in [Buttons -> REST..DOWN] /\ dark' \subseteq Buttons
    BY StatesAtAreStates DEF IInv, TypeOK, Move, Lit
  <2>2. zoom' \in [on : BOOLEAN, chains : 0..MaxPending, early : BOOLEAN]
    <3>1. zoom \in Zooms /\ zoom.chains \in 0..(MaxPending - 1)
      BY PendingAssumption DEF IInv, TypeOK, Move, WithinBounds, Zooms
    <3>3. viewport \in BOOLEAN
      BY DEF IInv, TypeOK
    <3>2. zoom' \in Zooms /\ zoom'.chains \in {zoom.chains, zoom.chains + 1}
      BY <3>1, <3>3, ComesAndLeaves DEF Move
    <3> QED BY <3>1, <3>2, PendingAssumption DEF Zooms
  <2>3. controls' \in [shouldFade : BOOLEAN, opacity : 0..2, timers : 0..MaxPending,
                       firstFrame : BOOLEAN, late : BOOLEAN, cut : BOOLEAN]
    <3>1. controls \in Fades /\ controls.timers \in 0..(MaxPending - 1)
      BY PendingAssumption DEF IInv, TypeOK, Move, WithinBounds, Fades
    <3>2. controls' = controls \/ controls' = Begin(controls) \/ controls' = Abort(controls)
      BY Zenon DEF Move
    <3>3. controls' \in Fades /\ controls'.timers \in {controls.timers, controls.timers + 1}
      BY <3>1, <3>2, BegunAndAborted
    <3> QED BY <3>1, <3>3, PendingAssumption DEF Fades
  <2>4. over' \in Places /\ inside' \subseteq Buttons /\ pressedIn' \subseteq Buttons \cap (inside' \cup {pressed'})
    BY DEF IInv, TypeOK, Move
  <2>5. use' \in [mouseInside : BOOLEAN, animating : BOOLEAN]
    BY DEF IInv, TypeOK, Move
  <2> QED BY <2>1, <2>2, <2>3, <2>4, <2>5 DEF IInv, TypeOK, Move
<1>2. FadeInv'
  <2>1. use'.mouseInside = (to # Away) /\ use'.animating = use.animating
    BY DEF IInv, TypeOK, Move
  <2>0. controls \in Fades
    BY PendingAssumption DEF IInv, TypeOK, Fades
  <2>00. to # over /\ over' = to
    BY Zenon DEF Move
  <2>2. CASE over = Away
    <3>1. controls' = Abort(controls)
      BY <2>2, Zenon DEF Move
    <3>2. controls'.opacity = 2 /\ ~controls'.shouldFade
      BY <2>0, <3>1, BegunAndAborted
    <3>3. ~(controls'.shouldFade \/ controls'.opacity < 2)
      BY <3>2
    <3>4. over' # Away => use'.mouseInside
      BY <2>00, <2>1
    <3> QED BY <3>3, <3>4, Zenon DEF FadeInv
  <2>3. CASE over # Away /\ to = Away /\ ~use.animating
    BY <2>00, <2>1, <2>3 DEF FadeInv
  <2>4. CASE over # Away /\ ~(to = Away /\ ~use.animating)
    <3>1. controls' = controls
      BY <2>4, Zenon DEF Move
    <3> QED BY <2>00, <2>1, <2>4, <3>1 DEF IInv, TypeOK, FadeInv
  <2> QED BY <2>2, <2>3, <2>4
<1>3. ZoomInv'
  <2>0. /\ zoom' = Come(to, Leave(over, zoom)) /\ viewport' = viewport
        /\ pressedIn' = pressedIn \ ({over} \ {pressed})
        /\ inside' = (inside \ {over}) \cup ({to} \cap Buttons) /\ to # over
    BY Zenon DEF Move
  <2>00. zoom \in Zooms /\ viewport \in BOOLEAN
    BY PendingAssumption DEF IInv, TypeOK, Zooms
  <2>1. CASE to \in ZoomButtons \cap pressedIn
    <3>1. zoom' = BeginZooming(Leave(over, zoom)) /\ Leave(over, zoom) \in Zooms
      BY <2>0, <2>00, <2>1, ComesAndLeaves DEF Come
    <3>2. zoom'.chains > 0 /\ zoom'.early = ~viewport
      <4> DEFINE left == Leave(over, zoom)
      <4>1. left \in Zooms /\ zoom' = BeginZooming(left)
        BY <3>1
      <4> HIDE DEF left
      <4> QED BY <2>00, <4>1, BeginsZooming DEF Zooms
    <3>3. to \in ZoomButtons \cap inside' \cap pressedIn'
      BY <2>0, <2>1 DEF Buttons
    <3> QED BY <2>0, <3>2, <3>3 DEF ZoomInv, ZoomEnds
  <2>2. CASE to \notin ZoomButtons \cap pressedIn
    <3>1. zoom' = Leave(over, zoom)
      BY <2>0, <2>2 DEF Come
    <3>2. CASE over \in ZoomButtons \cap pressedIn
      <4>1. ~zoom'.on
        BY <2>00, <3>1, <3>2, EndsZooming DEF Leave
      <4> QED BY <4>1 DEF ZoomInv, ZoomEnds
    <3>3. CASE over \notin ZoomButtons \cap pressedIn
      <4>1. ZoomButtons \cap inside \cap pressedIn \subseteq ZoomButtons \cap inside' \cap pressedIn'
        BY <2>0, <3>3
      <4>2. zoom' = zoom
        BY <3>1, <3>3 DEF Leave
      <4> QED BY <2>0, <4>1, <4>2 DEF IInv, ZoomInv, ZoomEnds
    <3> QED BY <3>2, <3>3
  <2> QED BY <2>1, <2>2
<1> QED BY <1>1, <1>2, <1>3, PageUntouched DEF IInv, Move

LEMMA PressStep ==
  ASSUME IInv, NEW b \in Buttons, Press(b)
  PROVE  IInv'
<1>1. TypeOK'
  <2>1. state' \in [Buttons -> REST..DOWN]
    <3>1. InTo(state[b], DOWN) \in REST..DOWN
      BY DEF IInv, TypeOK, InTo, REST, DOWN
    <3> QED BY <3>1 DEF IInv, TypeOK, Press
  <2>2. zoom' \in [on : BOOLEAN, chains : 0..MaxPending, early : BOOLEAN]
    BY PendingAssumption DEF IInv, TypeOK, Press, WithinBounds, BeginZooming
  <2>3. dark' \subseteq Buttons
    BY DEF IInv, TypeOK, Press, Lit
  <2>4. over' \in Places /\ pressed' \in Buttons \cup {Away}
        /\ inside' \subseteq Buttons /\ pressedIn' \subseteq Buttons \cap (inside' \cup {pressed'})
    BY ButtonsAssumption DEF IInv, TypeOK, Press
  <2>5. /\ use' = use /\ controls' = controls /\ page' = page /\ screen' = screen
        /\ viewport' = viewport
    BY DEF Press
  <2> QED BY <2>1, <2>2, <2>3, <2>4, <2>5 DEF IInv, TypeOK
<1>2. FadeInv'
  BY DEF IInv, FadeInv, Press
<1>3. ZoomInv'
  <2>1. CASE b \in ZoomButtons
    <3>1. zoom \in Zooms /\ viewport \in BOOLEAN
      BY PendingAssumption DEF IInv, TypeOK, Zooms
    <3>2. zoom' = BeginZooming(zoom) /\ viewport' = viewport
          /\ b \in ZoomButtons \cap inside' \cap pressedIn'
      BY <2>1 DEF Press
    <3>3. zoom'.chains > 0 /\ zoom'.early = ~viewport
      BY <3>1, <3>2, BeginsZooming DEF Zooms
    <3> QED BY <3>2, <3>3 DEF ZoomInv, ZoomEnds
  <2>2. CASE b \notin ZoomButtons
    BY <2>2 DEF IInv, Press, ZoomInv, ZoomEnds
  <2> QED BY <2>1, <2>2
<1> QED BY <1>1, <1>2, <1>3, PageUntouched DEF IInv, Press

LEMMA ReleaseOutsideStep ==
  ASSUME IInv, ReleaseOutside
  PROVE  IInv'
<1>1. TypeOK'
  <2>1. state' \in [Buttons -> REST..DOWN]
    <3>1. \A b \in Buttons : OutTo(state[b], GROUP) \in REST..DOWN
      BY DEF IInv, TypeOK, OutTo, REST, GROUP, DOWN
    <3> QED BY <3>1 DEF IInv, TypeOK, ReleaseOutside
  <2> QED BY <2>1 DEF IInv, TypeOK, ReleaseOutside
<1>2. FadeInv'
  BY DEF IInv, FadeInv, ReleaseOutside
<1>3. ZoomInv'
  BY DEF IInv, ZoomInv, ZoomEnds, ReleaseOutside
<1> QED BY <1>1, <1>2, <1>3, PageUntouched DEF IInv, ReleaseOutside

LEMMA ReleaseZoomStep ==
  ASSUME IInv, ReleaseZoom
  PROVE  IInv'
<1>0. zoom' = EndZooming(zoom) \/ zoom' = EndZooming(EndZooming(zoom))
  BY DEF ReleaseZoom, Click
<1>1. zoom' \in [on : BOOLEAN, chains : 0..MaxPending, early : BOOLEAN] /\ ~zoom'.on
  <2>1. zoom \in Zooms /\ zoom.chains \in 0..MaxPending
    BY PendingAssumption DEF IInv, TypeOK, Zooms
  <2>2. zoom' \in Zooms /\ zoom'.chains = zoom.chains /\ ~zoom'.on
    BY <1>0, <2>1, EndsZooming
  <2> QED BY <2>1, <2>2 DEF Zooms
<1>2. TypeOK'
  <2>1. state' \in [Buttons -> REST..DOWN]
    <3>1. \A b \in Buttons : OutTo(state[b], HOVER) \in REST..DOWN
      BY DEF IInv, TypeOK, OutTo, REST, HOVER, DOWN
    <3> QED BY <3>1 DEF IInv, TypeOK, ReleaseZoom
  <2> QED BY <1>1, <2>1 DEF IInv, TypeOK, ReleaseZoom
<1>3. FadeInv'
  BY DEF IInv, FadeInv, ReleaseZoom
<1>4. ZoomInv'
  BY <1>1 DEF ZoomInv, ZoomEnds
<1> QED BY <1>2, <1>3, <1>4, PageUntouched DEF IInv, ReleaseZoom

-----------------------------------------------------------------------------
(* The steps of full page mode *)

LEMMA ModesAreTheType ==
  ASSUME IInv
  PROVE  /\ page \in Modes /\ controls \in Fades /\ controls.timers \in 0..MaxPending
         /\ EnterFullPage(page) \in Modes
         /\ ~page.full => EnterFullPage(page).full
         /\ EnterFullPage(page).full =>
              EnterFullPage(page).previousBody = "page" /\ EnterFullPage(page).savedStyle = "own"
         /\ LeaveFullPage(page) \in Modes /\ ~LeaveFullPage(page).full
         /\ LeaveFullPage(page).body = "page" /\ LeaveFullPage(page).style = "own"
<1>1. page \in Modes /\ controls \in Fades /\ controls.timers \in 0..MaxPending
  BY PendingAssumption DEF IInv, TypeOK, Modes, Fades
<1>2. CASE page.full
  <2>1. page.previousBody = "page" /\ page.savedStyle = "own"
    BY <1>2 DEF IInv, PageInv
  <2>2. EnterFullPage(page) = page
    BY <1>2 DEF EnterFullPage
  <2> QED BY <1>1, <1>2, <2>1, <2>2, LeavesFullPage
<1>3. CASE ~page.full
  <2>1. page.body = "page" /\ page.style = "own"
    BY <1>3 DEF IInv, PageInv
  <2>2. LeaveFullPage(page) = page
    BY <1>3 DEF LeaveFullPage
  <2> QED BY <1>1, <1>3, <2>1, <2>2, EntersFullPage
<1> QED BY <1>2, <1>3

\* Wherever the page goes, the mouse, the fading and the page keep their invariants.
LEMMA PageStep ==
  ASSUME IInv, NEW p \in Modes, PageBecomes(p),
         p.full => p.previousBody = "page" /\ p.savedStyle = "own",
         ~p.full => p.body = "page" /\ p.style = "own"
  PROVE  /\ over' \in Places
         /\ use' \in [mouseInside : BOOLEAN, animating : BOOLEAN]
         /\ controls' \in [shouldFade : BOOLEAN, opacity : 0..2, timers : 0..MaxPending,
                           firstFrame : BOOLEAN, late : BOOLEAN, cut : BOOLEAN]
         /\ page' \in Modes /\ page' = p
         /\ FadeInv' /\ PageInv'
<1>1. page' = p /\ over' \in {over, Away}
  BY Zenon DEF PageBecomes
<1>2. over' \in Places
  BY <1>1 DEF IInv, TypeOK, Places
<1>3. PageInv'
  BY <1>1 DEF PageInv
<1>4. CASE p.full /\ ~page.full
  <2>1. controls' = Abort(controls)
    BY <1>4, Zenon DEF PageBecomes
  <2>2. use' = [use EXCEPT !.mouseInside = TRUE]
    BY <1>4, Zenon DEF PageBecomes
  <2>3. controls' \in Fades /\ controls'.timers \in 0..MaxPending
    BY <2>1, ModesAreTheType, BegunAndAborted
  <2>4. use' \in [mouseInside : BOOLEAN, animating : BOOLEAN] /\ use'.mouseInside
    BY <2>2 DEF IInv, TypeOK
  <2>5. ~(controls'.shouldFade \/ controls'.opacity < 2)
    BY <2>1, ModesAreTheType, BegunAndAborted
  <2>6. FadeInv'
    BY <2>4, <2>5, Zenon DEF FadeInv
  <2> QED BY <1>1, <1>2, <1>3, <2>3, <2>4, <2>6 DEF Fades
<1>5. CASE ~(p.full /\ ~page.full)
  <2>1. use' = use /\ controls' = controls
    BY <1>5, Zenon DEF PageBecomes
  <2>2. FadeInv'
    BY <1>1, <2>1 DEF IInv, FadeInv
  <2> QED BY <1>1, <1>2, <1>3, <2>1, <2>2 DEF IInv, TypeOK
<1> QED BY <1>4, <1>5

LEMMA ReleaseFullPageStep ==
  ASSUME IInv, ReleaseFullPage
  PROVE  IInv'
<1>0. /\ pressed' = Away /\ state' = GroupExit(state)
      /\ inside' = inside /\ pressedIn' = pressedIn /\ dark' = dark /\ zoom' = zoom
      /\ viewport' = viewport
      /\ pressed = FullPageButton /\ pressed \in inside
  BY Zenon DEF ReleaseFullPage
<1>1. PICK p \in {page, EnterFullPage(page), LeaveFullPage(page)} : PageBecomes(p)
  BY DEF ReleaseFullPage, ExitFullScreen, AskForFullScreen
<1>2. /\ p \in Modes
      /\ p.full => p.previousBody = "page" /\ p.savedStyle = "own"
      /\ ~p.full => p.body = "page" /\ p.style = "own"
  <2>1. CASE p = page
    BY <2>1, ModesAreTheType DEF IInv, PageInv
  <2>2. CASE p = LeaveFullPage(page)
    BY <2>2, ModesAreTheType
  <2>3. CASE p = EnterFullPage(page)
    BY <2>3, ModesAreTheType DEF EnterFullPage
  <2> QED BY <1>1, <2>1, <2>2, <2>3
<1>3. /\ over' \in Places
      /\ use' \in [mouseInside : BOOLEAN, animating : BOOLEAN]
      /\ controls' \in [shouldFade : BOOLEAN, opacity : 0..2, timers : 0..MaxPending,
                        firstFrame : BOOLEAN, late : BOOLEAN, cut : BOOLEAN]
      /\ page' \in Modes
      /\ FadeInv' /\ PageInv'
  BY <1>1, <1>2, PageStep
<1>4. /\ screen' \in [supports : BOOLEAN, on : BOOLEAN, requests : 0..MaxPending,
                      listeners : 0..MaxPending, events : 0..MaxPending]
      /\ FullPageHasScreen'
  <2>1. screen.requests \in 0..(MaxPending - 1) /\ screen.listeners \in 0..(MaxPending - 1)
    BY PendingAssumption DEF IInv, TypeOK, ReleaseFullPage
  <2>2. CASE page.full /\ ~screen.on
    <3>1. page' = LeaveFullPage(page) /\ screen' = screen
      BY <2>2, Zenon DEF ReleaseFullPage, PageBecomes
    <3> QED BY <3>1, ModesAreTheType DEF IInv, TypeOK, FullPageHasScreen
  <2>3. CASE ~screen.supports
    <3>1. screen' = screen
      BY <2>3, Zenon DEF ReleaseFullPage
    <3> QED BY <2>3, <3>1 DEF IInv, TypeOK, FullPageHasScreen
  <2>4. CASE screen.on
    <3>1. CASE page.full \/ ~screen.supports
      <4>1. screen' = screen /\ (screen.supports => page' = page)
        BY <2>4, <3>1, Zenon DEF ReleaseFullPage, ExitFullScreen, PageBecomes
      <4> QED BY <4>1 DEF IInv, TypeOK, FullPageHasScreen
    <3>2. CASE ~page.full /\ screen.supports
      <4>1. screen' = screen /\ page' = page
        BY <2>4, <3>2, Zenon DEF ReleaseFullPage, AskForFullScreen, PageBecomes
      <4> QED BY <4>1 DEF IInv, TypeOK, FullPageHasScreen
    <3> QED BY <3>1, <3>2
  <2>5. CASE ~page.full /\ ~screen.on /\ screen.supports
    <3>1. screen' = [screen EXCEPT !.listeners = @ + 1, !.requests = @ + 1]
      BY <2>5, Zenon DEF ReleaseFullPage, AskForFullScreen
    <3> DEFINE heard == [screen EXCEPT !.listeners = screen.listeners + 1]
    <3>2. /\ heard \in [supports : BOOLEAN, on : BOOLEAN, requests : 0..MaxPending,
                        listeners : 0..MaxPending, events : 0..MaxPending]
          /\ heard.requests = screen.requests /\ heard.listeners = screen.listeners + 1
      BY <2>1, PendingAssumption DEF IInv, TypeOK
    <3>3. screen' = [heard EXCEPT !.requests = screen.requests + 1]
      BY <3>1, Zenon
    <3>4. /\ screen' \in [supports : BOOLEAN, on : BOOLEAN, requests : 0..MaxPending,
                          listeners : 0..MaxPending, events : 0..MaxPending]
          /\ screen'.listeners = screen.listeners + 1
          /\ screen'.requests = screen.requests + 1
      <4> HIDE DEF heard
      <4> QED BY <2>1, <3>2, <3>3, PendingAssumption
    <3> QED BY <2>1, <3>4 DEF FullPageHasScreen
  <2> QED BY <2>2, <2>3, <2>4, <2>5
<1>5. TypeOK'
  <2>1. state' \in [Buttons -> REST..DOWN]
    BY <1>0, GroupStates DEF IInv, TypeOK
  <2>2. pressed' \in Buttons \cup {Away} /\ pressedIn' \subseteq Buttons \cap (inside' \cup {pressed'})
    BY <1>0 DEF IInv, TypeOK
  <2> QED BY <1>0, <1>3, <1>4, <2>1, <2>2 DEF IInv, TypeOK, Modes
<1>6. ZoomInv'
  BY <1>0 DEF IInv, ZoomInv, ZoomEnds
<1> QED BY <1>3, <1>4, <1>5, <1>6 DEF IInv

\* The browser's answers touch the screen only.
LEMMA ScreenUntouches ==
  ASSUME IInv, UNCHANGED <<pointerVars, buttonVars, zoom, use, controls, page, viewport>>,
         screen' \in [supports : BOOLEAN, on : BOOLEAN, requests : 0..MaxPending,
                      listeners : 0..MaxPending, events : 0..MaxPending],
         FullPageHasScreen'
  PROVE  IInv'
<1>1. TypeOK'
  BY DEF IInv, TypeOK, pointerVars, buttonVars
<1>2. FadeInv' /\ ZoomInv' /\ PageInv'
  BY DEF IInv, FadeInv, ZoomInv, ZoomEnds, PageInv, pointerVars
<1> QED BY <1>1, <1>2 DEF IInv

LEMMA AnswerStep ==
  ASSUME IInv, NEW granted \in BOOLEAN, Answer(granted)
  PROVE  IInv'
<1> DEFINE asked == [screen EXCEPT !.requests = screen.requests - 1]
           told == [asked EXCEPT !.events = screen.events + 1]
<1>1. screen.requests \in 1..MaxPending /\ screen.events \in 0..(MaxPending - 1)
  BY PendingAssumption DEF IInv, TypeOK, Answer
<1>2. /\ asked \in [supports : BOOLEAN, on : BOOLEAN, requests : 0..MaxPending,
                    listeners : 0..MaxPending, events : 0..MaxPending]
      /\ asked.supports = screen.supports /\ asked.on = screen.on
      /\ asked.listeners = screen.listeners
  BY <1>1, PendingAssumption DEF IInv, TypeOK
<1>3. /\ told \in [supports : BOOLEAN, on : BOOLEAN, requests : 0..MaxPending,
                   listeners : 0..MaxPending, events : 0..MaxPending]
      /\ told.supports = screen.supports /\ told.on = screen.on
      /\ told.listeners = screen.listeners /\ told.events = screen.events + 1
  <2> HIDE DEF asked
  <2> QED BY <1>1, <1>2, PendingAssumption
<1>4. screen' = [told EXCEPT !.on = screen.on \/ granted]
  BY Zenon DEF Answer
<1>5. /\ screen' \in [supports : BOOLEAN, on : BOOLEAN, requests : 0..MaxPending,
                      listeners : 0..MaxPending, events : 0..MaxPending]
      /\ screen'.supports = screen.supports
      /\ screen'.listeners = screen.listeners /\ screen'.events = screen.events + 1
  <2> HIDE DEF told
  <2> QED BY <1>3, <1>4
<1>6. FullPageHasScreen'
  BY <1>1, <1>5 DEF IInv, FullPageHasScreen, Answer
<1> QED BY <1>5, <1>6, ScreenUntouches DEF Answer

LEMMA ScreenEndsStep ==
  ASSUME IInv, ScreenEnds
  PROVE  IInv'
<1> DEFINE off == [screen EXCEPT !.on = FALSE]
<1>1. screen.events \in 0..(MaxPending - 1)
  BY PendingAssumption DEF IInv, TypeOK, ScreenEnds
<1>2. /\ off \in [supports : BOOLEAN, on : BOOLEAN, requests : 0..MaxPending,
                  listeners : 0..MaxPending, events : 0..MaxPending]
      /\ off.supports = screen.supports /\ off.listeners = screen.listeners
  BY DEF IInv, TypeOK
<1>3. screen' = [off EXCEPT !.events = screen.events + 1]
  BY Zenon DEF ScreenEnds
<1>4. /\ screen' \in [supports : BOOLEAN, on : BOOLEAN, requests : 0..MaxPending,
                      listeners : 0..MaxPending, events : 0..MaxPending]
      /\ screen'.supports = screen.supports
      /\ screen'.listeners = screen.listeners /\ screen'.events = screen.events + 1
  <2> HIDE DEF off
  <2> QED BY <1>1, <1>2, <1>3, PendingAssumption
<1>5. FullPageHasScreen'
  BY <1>1, <1>4 DEF IInv, FullPageHasScreen, ScreenEnds
<1> QED BY <1>4, <1>5, ScreenUntouches DEF ScreenEnds

LEMMA OnFullScreenChangeStep ==
  ASSUME IInv, OnFullScreenChange
  PROVE  IInv'
<1> DEFINE p == IF screen.on \/ screen.listeners = 0 THEN page ELSE LeaveFullPage(page)
           heard == IF screen.on THEN screen.listeners ELSE 0
           less == [screen EXCEPT !.events = screen.events - 1]
<1>0. /\ UNCHANGED <<pressed, inside, pressedIn, state, dark, zoom, viewport>>
      /\ PageBecomes(p) /\ screen.events > 0
      /\ screen' = [less EXCEPT !.listeners = heard]
  BY Zenon DEF OnFullScreenChange, buttonVars
<1>1. screen.events \in 1..MaxPending /\ heard \in 0..MaxPending
  BY <1>0, PendingAssumption DEF IInv, TypeOK
<1>2. /\ p \in Modes
      /\ p.full => p.previousBody = "page" /\ p.savedStyle = "own"
      /\ ~p.full => p.body = "page" /\ p.style = "own"
  <2>1. CASE p = page
    BY <2>1, ModesAreTheType DEF IInv, PageInv
  <2>2. CASE p = LeaveFullPage(page)
    BY <2>2, ModesAreTheType
  <2> QED BY <2>1, <2>2
<1>3. /\ over' \in Places
      /\ use' \in [mouseInside : BOOLEAN, animating : BOOLEAN]
      /\ controls' \in [shouldFade : BOOLEAN, opacity : 0..2, timers : 0..MaxPending,
                        firstFrame : BOOLEAN, late : BOOLEAN, cut : BOOLEAN]
      /\ page' \in Modes /\ page' = p
      /\ FadeInv' /\ PageInv'
  <2> HIDE DEF p
  <2> QED BY <1>0, <1>2, PageStep
<1>4. /\ less \in [supports : BOOLEAN, on : BOOLEAN, requests : 0..MaxPending,
                   listeners : 0..MaxPending, events : 0..MaxPending]
      /\ less.supports = screen.supports /\ less.on = screen.on
      /\ less.requests = screen.requests
  BY <1>1, PendingAssumption DEF IInv, TypeOK
<1>5. /\ screen' \in [supports : BOOLEAN, on : BOOLEAN, requests : 0..MaxPending,
                      listeners : 0..MaxPending, events : 0..MaxPending]
      /\ screen'.supports = screen.supports /\ screen'.on = screen.on
      /\ screen'.listeners = heard
  <2> HIDE DEF less, heard
  <2> QED BY <1>0, <1>1, <1>4
<1>6. FullPageHasScreen'
  <2>1. CASE screen.on
    BY <1>3, <1>5, <2>1 DEF IInv, FullPageHasScreen
  <2>2. CASE ~screen.on /\ screen.listeners = 0
    BY <1>3, <1>5, <2>2 DEF IInv, FullPageHasScreen
  <2>3. CASE ~screen.on /\ screen.listeners # 0
    BY <1>3, <2>3, ModesAreTheType DEF FullPageHasScreen
  <2> QED BY <2>1, <2>2, <2>3
<1>7. TypeOK'
  BY <1>0, <1>3, <1>5 DEF IInv, TypeOK, Modes
<1>8. ZoomInv'
  BY <1>0 DEF IInv, ZoomInv, ZoomEnds
<1> QED BY <1>3, <1>6, <1>7, <1>8 DEF IInv

-----------------------------------------------------------------------------
(* The steps of frames and timers *)

\* The fading is all that a timer or a frame of the controls touches.
LEMMA FadingUntouches ==
  ASSUME IInv, UNCHANGED <<pointerVars, buttonVars, zoom, page, screen, viewport>>,
         use' \in [mouseInside : BOOLEAN, animating : BOOLEAN],
         controls' \in Fades, controls'.timers \in 0..MaxPending,
         FadeInv'
  PROVE  IInv'
<1>1. TypeOK'
  BY DEF IInv, TypeOK, Fades, pointerVars, buttonVars
<1>2. ZoomInv'
  BY DEF IInv, ZoomInv, ZoomEnds, pointerVars
<1> QED BY <1>1, <1>2, PageUntouched DEF IInv

LEMMA AnimationStartsStep ==
  ASSUME IInv, AnimationStarts
  PROVE  IInv'
<1>1. controls' = Abort(controls) /\ use' = [use EXCEPT !.animating = TRUE]
  BY Zenon DEF AnimationStarts
<1>2. controls' \in Fades /\ controls'.timers \in 0..MaxPending
  BY <1>1, ModesAreTheType, BegunAndAborted
<1>3. use' \in [mouseInside : BOOLEAN, animating : BOOLEAN] /\ use'.mouseInside = use.mouseInside
  BY <1>1 DEF IInv, TypeOK
<1>4. ~(controls'.shouldFade \/ controls'.opacity < 2)
  BY <1>1, ModesAreTheType, BegunAndAborted
<1>5. over' = over
  BY DEF AnimationStarts, pointerVars
<1>6. FadeInv'
  BY <1>3, <1>4, <1>5 DEF IInv, FadeInv
<1> QED BY <1>2, <1>3, <1>6, FadingUntouches DEF AnimationStarts

LEMMA AnimationFinishesStep ==
  ASSUME IInv, AnimationFinishes
  PROVE  IInv'
<1>1. use' = [use EXCEPT !.animating = FALSE]
  BY Zenon DEF AnimationFinishes
<1>2. use' \in [mouseInside : BOOLEAN, animating : BOOLEAN]
      /\ use'.mouseInside = use.mouseInside /\ ~use'.animating
  BY <1>1 DEF IInv, TypeOK
<1>3. over' = over /\ use.animating
  BY DEF AnimationFinishes, pointerVars
<1>4. controls \in Fades /\ controls.timers \in 0..(MaxPending - 1)
  BY ModesAreTheType, PendingAssumption DEF IInv, TypeOK, AnimationFinishes, WithinBounds
<1>5. CASE use.mouseInside
  <2>1. controls' = controls
    BY <1>5, Zenon DEF AnimationFinishes
  <2>2. FadeInv'
    BY <1>2, <1>3, <1>5, <2>1 DEF IInv, FadeInv
  <2> QED BY <1>2, <1>4, <2>1, <2>2, ModesAreTheType, FadingUntouches DEF AnimationFinishes
<1>6. CASE ~use.mouseInside
  <2>1. controls' = Begin(controls)
    BY <1>6, Zenon DEF AnimationFinishes
  <2>2. controls' \in Fades /\ controls'.timers \in 0..MaxPending
    BY <1>4, <2>1, BegunAndAborted, PendingAssumption
  <2>3. FadeInv'
    BY <1>2, <1>3, <1>6 DEF IInv, FadeInv
  <2> QED BY <1>2, <2>2, <2>3, FadingUntouches DEF AnimationFinishes
<1> QED BY <1>5, <1>6

LEMMA FirstFrameStep ==
  ASSUME IInv, FirstFrame
  PROVE  IInv'
<1> DEFINE begun == Begin(controls)
           first == [begun EXCEPT !.firstFrame = FALSE]
           busy == use.mouseInside \/ use.animating
<1>1. controls \in Fades /\ controls.timers \in 0..(MaxPending - 1)
  BY ModesAreTheType, PendingAssumption DEF IInv, TypeOK, FirstFrame, WithinBounds
<1>2. begun \in Fades /\ begun.timers = controls.timers + 1
  BY <1>1, BegunAndAborted
<1>3. first \in Fades /\ first.timers = begun.timers
  <2> HIDE DEF begun
  <2> QED BY <1>2 DEF Fades
<1>4. controls' = [first EXCEPT !.late = busy]
  BY Zenon DEF FirstFrame
<1>5. busy \in BOOLEAN
  OBVIOUS
<1>6. controls' \in Fades /\ controls'.timers = first.timers /\ controls'.late = busy
  <2> HIDE DEF first, busy
  <2> QED BY <1>3, <1>4, <1>5 DEF Fades
<1>7. controls'.timers \in 0..MaxPending
  BY <1>1, <1>2, <1>3, <1>6, PendingAssumption
<1>8. use' = use /\ over' = over
  BY DEF FirstFrame, pointerVars
<1>9. FadeInv'
  BY <1>6, <1>8 DEF IInv, FadeInv
<1> QED BY <1>6, <1>7, <1>8, <1>9, FadingUntouches DEF IInv, TypeOK, FirstFrame

LEMMA FadeFrameStep ==
  ASSUME IInv, FadeFrame
  PROVE  IInv'
<1>0. controls.timers > 0
  BY Zenon DEF FadeFrame
<1>1. controls \in Fades /\ controls.timers \in 1..MaxPending
  BY <1>0, ModesAreTheType, PendingAssumption
<1>2. use' = use /\ over' = over
  BY DEF FadeFrame, pointerVars
<1>3. CASE controls.shouldFade
  <2>1. PICK o \in 0..controls.opacity :
           controls' = [controls EXCEPT !.opacity = o,
                                        !.timers = IF o = 0 THEN @ - 1 ELSE @]
    BY <1>3 DEF FadeFrame
  <2> DEFINE dim == [controls EXCEPT !.opacity = o]
             left == IF o = 0 THEN controls.timers - 1 ELSE controls.timers
  <2>2. o \in 0..2 /\ left \in 0..MaxPending
    BY <1>1, PendingAssumption DEF Fades
  <2>3. dim \in Fades /\ dim.shouldFade = controls.shouldFade /\ dim.late = controls.late
    BY <1>1, <2>2 DEF Fades
  <2>4. controls' = [dim EXCEPT !.timers = left]
    BY <2>1, Zenon
  <2>5. controls' \in Fades /\ controls'.timers = left
        /\ controls'.shouldFade = controls.shouldFade /\ controls'.late = controls.late
    <3> HIDE DEF dim, left
    <3> QED BY <2>2, <2>3, <2>4, PendingAssumption DEF Fades
  <2>6. FadeInv'
    BY <1>2, <1>3, <2>5 DEF IInv, FadeInv
  <2> QED BY <1>2, <2>2, <2>5, <2>6, FadingUntouches DEF IInv, TypeOK, FadeFrame
<1>4. CASE ~controls.shouldFade
  <2>1. controls' = [controls EXCEPT !.timers = controls.timers - 1]
    BY <1>4 DEF FadeFrame
  <2>2. controls' \in Fades /\ controls'.timers \in 0..MaxPending
    BY <1>1, <2>1, PendingAssumption DEF Fades
  <2>3. controls'.shouldFade = controls.shouldFade /\ controls'.late = controls.late
        /\ controls'.opacity = controls.opacity
    BY <1>1, <2>1 DEF Fades
  <2>4. FadeInv'
    BY <1>2, <2>3 DEF IInv, FadeInv
  <2> QED BY <1>2, <2>2, <2>4, FadingUntouches DEF IInv, TypeOK, FadeFrame
<1> QED BY <1>3, <1>4

\* What the buttons look like touches nothing else.
LEMMA LooksUntouch ==
  ASSUME IInv, UNCHANGED <<pointerVars, zoom, use, controls, page, screen, viewport>>,
         state' \in [Buttons -> REST..DOWN], dark' \subseteq Buttons
  PROVE  IInv'
<1>1. TypeOK'
  BY DEF IInv, TypeOK, pointerVars
<1>2. FadeInv' /\ ZoomInv'
  BY DEF IInv, FadeInv, ZoomInv, ZoomEnds, pointerVars
<1> QED BY <1>1, <1>2, PageUntouched DEF IInv

LEMMA LastZoomFrameStep ==
  ASSUME IInv, LastZoomFrame
  PROVE  IInv'
<1>1. /\ zoom' = [zoom EXCEPT !.chains = zoom.chains - 1]
      /\ zoom.chains > 0 /\ (~zoom.on \/ ~viewport)
  BY DEF LastZoomFrame
<1>2. zoom' \in [on : BOOLEAN, chains : 0..MaxPending, early : BOOLEAN]
      /\ zoom'.on = zoom.on /\ zoom'.early = zoom.early
  BY <1>1, PendingAssumption DEF IInv, TypeOK
<1>3. TypeOK'
  BY <1>2 DEF IInv, TypeOK, LastZoomFrame, pointerVars, buttonVars
<1>4. FadeInv'
  BY DEF IInv, FadeInv, LastZoomFrame, pointerVars
<1>5. ZoomInv'
  BY <1>1, <1>2 DEF IInv, ZoomInv, ZoomEnds, LastZoomFrame, pointerVars
<1> QED BY <1>3, <1>4, <1>5, PageUntouched DEF IInv, LastZoomFrame

LEMMA OpenTileSourceStep ==
  ASSUME IInv, OpenTileSource
  PROVE  IInv'
<1> DEFINE cut == controls.cut \/ (use.animating /\ ~use.mouseInside)
<1>1. /\ use' = [use EXCEPT !.animating = FALSE] /\ viewport' = TRUE
      /\ controls' = [controls EXCEPT !.cut = cut]
      /\ UNCHANGED <<pointerVars, zoom, page, screen>>
  BY Zenon DEF OpenTileSource
<1>2. state' \in [Buttons -> REST..DOWN] /\ dark' \subseteq Buttons
  BY GroupStates DEF IInv, TypeOK, OpenTileSource
<1>3. use' \in [mouseInside : BOOLEAN, animating : BOOLEAN]
      /\ use'.mouseInside = use.mouseInside /\ ~use'.animating
  BY <1>1 DEF IInv, TypeOK
<1>4. controls \in Fades /\ controls.timers \in 0..MaxPending /\ cut \in BOOLEAN
  BY ModesAreTheType DEF Fades
<1>5. /\ controls' \in Fades /\ controls'.timers = controls.timers
      /\ controls'.shouldFade = controls.shouldFade
      /\ controls'.opacity = controls.opacity /\ controls'.late = controls.late
  <2> HIDE DEF cut
  <2> QED BY <1>1, <1>4 DEF Fades
<1>6. TypeOK'
  BY <1>1, <1>2, <1>3, <1>4, <1>5 DEF IInv, TypeOK, Fades, pointerVars
<1>7. FadeInv'
  BY <1>1, <1>3, <1>5 DEF IInv, FadeInv, pointerVars
<1>8. ZoomInv'
  BY <1>1 DEF IInv, ZoomInv, ZoomEnds, pointerVars
<1> QED BY <1>1, <1>6, <1>7, <1>8, PageUntouched DEF IInv

-----------------------------------------------------------------------------
(* The theorems *)

LEMMA Initially == Init => IInv
<1> SUFFICES ASSUME Init PROVE IInv
  OBVIOUS
<1>1. TypeOK
  <2>1. /\ over \in Places /\ pressed \in Buttons \cup {Away}
        /\ inside \subseteq Buttons /\ pressedIn \subseteq Buttons \cap (inside \cup {pressed})
        /\ dark \subseteq Buttons /\ viewport \in BOOLEAN
    BY DEF Init, Places
  <2>2. state \in [Buttons -> REST..DOWN]
    BY DEF Init, REST, DOWN
  <2>3. /\ zoom \in [on : BOOLEAN, chains : 0..MaxPending, early : BOOLEAN]
        /\ use \in [mouseInside : BOOLEAN, animating : BOOLEAN]
        /\ controls \in [shouldFade : BOOLEAN, opacity : 0..2, timers : 0..MaxPending,
                         firstFrame : BOOLEAN, late : BOOLEAN, cut : BOOLEAN]
    BY PendingAssumption DEF Init
  <2>4. page \in [full : BOOLEAN, body : {"page", "viewer", "nothing"},
                  previousBody : {"page", "viewer", "nothing"},
                  style : {"own", "window"}, savedStyle : {"own", "window"}]
    BY DEF Init
  <2>5. screen \in [supports : BOOLEAN, on : BOOLEAN, requests : 0..MaxPending,
                    listeners : 0..MaxPending, events : 0..MaxPending]
    <3>1. screen \in [supports : BOOLEAN, on : {FALSE}, requests : {0},
                      listeners : {0}, events : {0}]
      BY Zenon DEF Init
    <3>2. /\ screen = [supports |-> screen.supports, on |-> screen.on,
                       requests |-> screen.requests, listeners |-> screen.listeners,
                       events |-> screen.events]
          /\ screen.supports \in BOOLEAN /\ screen.on \in BOOLEAN
          /\ screen.requests = 0 /\ screen.listeners = 0 /\ screen.events = 0
      BY <3>1
    <3>3. 0 \in 0..MaxPending
      BY PendingAssumption
    <3> QED BY <3>2, <3>3
  <2> QED BY <2>1, <2>2, <2>3, <2>4, <2>5 DEF TypeOK
<1>2. FadeInv /\ ZoomInv /\ PageInv /\ FullPageHasScreen
  BY DEF Init, FadeInv, ZoomInv, ZoomEnds, PageInv, FullPageHasScreen
<1> QED BY <1>1, <1>2 DEF IInv

LEMMA Inductive == IInv /\ [Next]_vars => IInv'
<1> SUFFICES ASSUME IInv, [Next]_vars PROVE IInv'
  OBVIOUS
<1>1. CASE \E p \in Places : Move(p)
  BY <1>1, MoveStep
<1>2. CASE \E b \in Buttons : Press(b)
  BY <1>2, PressStep
<1>3. CASE \E b \in Buttons : ButtonFades(b)
  <2>1. PICK b \in Buttons : ButtonFades(b)
    BY <1>3
  <2> QED BY <2>1, LooksUntouch DEF IInv, TypeOK, ButtonFades
<1>4. CASE ReleaseOutside \/ ReleaseZoom \/ ReleaseFullPage
  BY <1>4, ReleaseOutsideStep, ReleaseZoomStep, ReleaseFullPageStep
<1>5. CASE \E granted \in BOOLEAN : Answer(granted)
  BY <1>5, AnswerStep
<1>6. CASE ScreenEnds \/ OnFullScreenChange
  BY <1>6, ScreenEndsStep, OnFullScreenChangeStep
<1>7. CASE AnimationStarts \/ AnimationFinishes \/ FirstFrame \/ FadeFrame \/ LastZoomFrame
  BY <1>7, AnimationStartsStep, AnimationFinishesStep, FirstFrameStep, FadeFrameStep,
     LastZoomFrameStep
<1>8. CASE OpenTileSource
  BY <1>8, OpenTileSourceStep
<1>9. CASE UNCHANGED vars
  <2>1. UNCHANGED <<pointerVars, zoom, use, controls, page, screen, viewport>>
    BY <1>9 DEF vars
  <2>2. state' = state /\ dark' = dark
    BY <1>9 DEF vars, buttonVars
  <2> QED BY <2>1, <2>2, LooksUntouch DEF IInv, TypeOK
<1> QED BY <1>1, <1>2, <1>3, <1>4, <1>5, <1>6, <1>7, <1>8, <1>9 DEF Next

\* Every variable keeps its type, and the parts of the invariant hold together: what the
\* mouse, the timers, the page and the screen know of each other.
THEOREM ControlsInvariant == Spec => []IInv
  BY Initially, Inductive, PTL DEF Spec

\* The controls never fade from under the mouse or during an animation, although no timer
\* of an earlier fade is cancelled (abortControlsAutoHide).
THEOREM NeverFadeInUse == Spec => []ControlsShownInUse
<1>1. IInv => ControlsShownInUse
  BY DEF IInv, FadeInv, ControlsShownInUse
<1> QED BY <1>1, ControlsInvariant, PTL

\* The image zooms on only while a zoom button has the mouse pressed and inside, and with
\* a frame scheduled unless it was pressed before there was an image (beginZoomingIn,
\* endZooming, doZoom).
THEOREM ZoomingEnds == Spec => []ZoomEnds
<1>1. IInv => ZoomEnds
  BY DEF IInv, ZoomInv
<1> QED BY <1>1, ControlsInvariant, PTL

\* Out of full page mode the document and the element are as they were (setFullPage).
THEOREM ThePageComesBack == Spec => []PageComesBack
<1>1. IInv => PageComesBack
  BY DEF IInv, PageInv, PageComesBack
<1> QED BY <1>1, ControlsInvariant, PTL

\* The viewer fills the page only while the screen is full, or will be, or an event is on
\* its way to a listener that ends it (setFullScreen).
THEOREM FullPageMeansFullScreen == Spec => []FullPageHasScreen
<1>1. IInv => FullPageHasScreen
  BY DEF IInv
<1> QED BY <1>1, ControlsInvariant, PTL
=============================================================================
