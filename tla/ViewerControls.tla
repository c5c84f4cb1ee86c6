---------------------------- MODULE ViewerControls ----------------------------
(***************************************************************************)
(* The controls of the page viewer (OpenSeadragon.Viewer, Button and       *)
(* ButtonGroup) under a mouse: the states of the buttons, the zooming that *)
(* goes on while a zoom button is held, the fading of the controls when    *)
(* nobody uses the viewer, and the full page and full screen modes.  The   *)
(* viewer has no viewport before its first image is open, and keeps it     *)
(* from then on (preserveViewport).                                        *)
(*                                                                         *)
(* A press is stopped at the button (MouseTracker), so that the group and  *)
(* the container see the mouse come and go only.  A button keeps the mouse *)
(* in its tracker while it captures it.  The viewer's element is taken out *)
(* of the document and put in again when the mode changes; the browser     *)
(* sends no mouseout then ("correct for no mouseout event on change").     *)
(***************************************************************************)
EXTENDS Naturals, FiniteSets

CONSTANTS
  ZoomButtons,     \* the buttons that zoom while they are held
  FullPageButton,
  MaxPending       \* bound of the model: timers, requests and events that wait

ASSUME PendingAssumption == MaxPending \in Nat \ {0}

Buttons == ZoomButtons \cup {FullPageButton}
Away == "away"
Canvas == "canvas"
Places == {Away, Canvas} \cup Buttons

ASSUME ButtonsAssumption ==
  FullPageButton \notin ZoomButtons /\ Away \notin Buttons /\ Canvas \notin Buttons

\* ButtonState.
REST == 0
GROUP == 1
HOVER == 2
DOWN == 3

VARIABLES
  over,      \* where the mouse is
  pressed,   \* the button it was pressed on and has not been released from, or Away
  inside,    \* the buttons whose tracker has the mouse inside its element
  pressedIn, \* the buttons whose tracker has it as insideElementPressed
  state,     \* currentState of each button
  dark,      \* the buttons whose group image has faded
  zoom,      \* THIS[ viewer.hash ].zooming, the chains of frames that call doZoom, and
             \*   whether the zooming began early, before there was anything to zoom
  use,       \* THIS[ viewer.hash ]: mouseInside and animating
  controls,  \* the fading of the controls; cut: an image that was opened has cut an
             \*   animation short, the mouse was away, and no fading has begun or ended since
  page,      \* the document's body and the viewer's element
  screen,    \* full screen, as the browser has it and as the viewer waits for it
  viewport   \* whether the viewer has one

pointerVars == <<over, pressed, inside, pressedIn>>
buttonVars == <<state, dark>>
vars == <<pointerVars, buttonVars, zoom, use, controls, page, screen, viewport>>

-----------------------------------------------------------------------------
\* inTo and outTo pass through the states between, one by one.
InTo(s, new) == IF new > s THEN new ELSE s
OutTo(s, new) == IF new < s THEN new ELSE s

NotifyGroupEnter(s) == InTo(s, GROUP)
NotifyGroupExit(s) == OutTo(s, REST)

\* ButtonGroup: every button is told.
GroupEnter(st) == [b \in Buttons |-> NotifyGroupEnter(st[b])]
GroupExit(st) == [b \in Buttons |-> NotifyGroupExit(st[b])]

\* stopFading of the buttons that leave the rest.
Lit(st) == {b \in dark : st[b] = REST}

\* The handlers of the zoom buttons.
BeginZooming(z) == [on |-> TRUE, chains |-> z.chains + 1, early |-> ~viewport]
EndZooming(z) == [z EXCEPT !.on = FALSE, !.early = FALSE]

\* Button.clickHandler, after a quick release: doSingleZoomIn or Out.
Click(z) == EndZooming(z)

\* Button.exitHandler and enterHandler raise an event if the mouse was pressed there.
\* Slip: the mouse leaves quietly.
LeaveSilently(b, z) == z

Leave(b, z) == IF b \in ZoomButtons \cap pressedIn THEN EndZooming(z) ELSE z

Come(b, z) == IF b \in ZoomButtons \cap pressedIn THEN BeginZooming(z) ELSE z

\* beginControlsAutoHide: a timer is set, and earlier ones go on.
Begin(c) == [c EXCEPT !.shouldFade = TRUE, !.timers = @ + 1, !.cut = FALSE]

\* Slip: the controls are shown, and the fading that has begun goes on.
ShowControls(c) == [c EXCEPT !.opacity = 2, !.late = FALSE, !.cut = FALSE]

\* abortControlsAutoHide: no timer is cancelled, the frames will find the flag.
Abort(c) ==
  [c EXCEPT !.shouldFade = FALSE, !.opacity = 2, !.late = FALSE, !.cut = FALSE]

\* setFullPage( true ): the body's nodes and the styles are put aside.
EnterFullPage(p) ==
  IF p.full THEN p
  ELSE [full |-> TRUE, body |-> "viewer", previousBody |-> p.body,
        style |-> "window", savedStyle |-> p.style]

Restored(p) ==
  [p EXCEPT !.full = FALSE, !.body = p.previousBody, !.previousBody = "nothing",
            !.style = p.savedStyle]

\* Slip: a viewer that is not in full page mode is restored, too.
LeaveFullPageAnyway(p) == Restored(p)

\* setFullPage( false ).
LeaveFullPage(p) == IF p.full THEN Restored(p) ELSE p

-----------------------------------------------------------------------------
Init ==
  /\ over = Away /\ pressed = Away /\ inside = {} /\ pressedIn = {}
  /\ state = [b \in Buttons |-> REST] /\ dark = {}
  /\ zoom = [on |-> FALSE, chains |-> 0, early |-> FALSE]
  /\ use = [mouseInside |-> FALSE, animating |-> FALSE]
  /\ controls = [shouldFade |-> FALSE, opacity |-> 2, timers |-> 0,
                 firstFrame |-> TRUE, late |-> FALSE, cut |-> FALSE]
  /\ page = [full |-> FALSE, body |-> "page", previousBody |-> "nothing",
             style |-> "own", savedStyle |-> "own"]
  /\ screen \in [supports : BOOLEAN, on : {FALSE}, requests : {0},
                 listeners : {0}, events : {0}]
  /\ viewport = FALSE

WithinBounds == controls.timers + zoom.chains < MaxPending

\* The states of the buttons once the mouse has come from over: mouseout is sent before
\* mouseover, and each to the button before the group.  buttonDownAny is what the tracker
\* of the button last heard of the mouse's buttons.
StatesAt(to, buttonDownAny) ==
  LET left == [state EXCEPT ![over] = OutTo(@, GROUP)]
      out  == IF over \notin Buttons THEN state
              ELSE IF to \in Buttons THEN left ELSE GroupExit(left)
      come == [out EXCEPT ![to] = InTo(@, IF to \in pressedIn THEN DOWN
                                         ELSE IF buttonDownAny THEN REST ELSE HOVER)]
  IN IF to \notin Buttons THEN out
     ELSE IF over \in Buttons THEN come ELSE GroupEnter(come)

\* The mouse moves.  The container sees it only when it leaves the viewer or comes back.
Move(to) ==
  /\ WithinBounds
  /\ to # over
  /\ over' = to
  /\ inside' = (inside \ {over}) \cup ({to} \cap Buttons)
  /\ pressedIn' = pressedIn \ ({over} \ {pressed})
  /\ \E buttonDownAny \in BOOLEAN : state' = StatesAt(to, buttonDownAny)
  /\ dark' = Lit(state')
  /\ zoom' = Come(to, Leave(over, zoom))
  /\ use' = [use EXCEPT !.mouseInside = to # Away]
  /\ controls' = IF over = Away THEN Abort(controls)
                 ELSE IF to = Away /\ ~use.animating THEN Begin(controls)
                 ELSE controls
  /\ UNCHANGED <<pressed, page, screen, viewport>>

Press(b) ==
  /\ WithinBounds
  /\ over = b /\ pressed = Away
  /\ pressed' = b
  /\ inside' = inside \cup {b} /\ pressedIn' = pressedIn \cup {b}
  /\ state' = [state EXCEPT ![b] = InTo(@, DOWN)] /\ dark' = Lit(state')
  /\ zoom' = IF b \in ZoomButtons THEN BeginZooming(zoom) ELSE zoom
  /\ UNCHANGED <<over, use, controls, page, screen, viewport>>

\* A button is released that the mouse has left: the tracker forgets the mouse.
ReleaseOutside ==
  /\ pressed # Away /\ pressed \notin inside
  /\ pressed' = Away
  /\ pressedIn' = pressedIn \ {pressed}
  /\ state' = [state EXCEPT ![pressed] = OutTo(@, GROUP)]
  /\ UNCHANGED <<over, inside, dark, zoom, use, controls, page, screen, viewport>>

\* Released where it was pressed: the tracker keeps insideElementPressed.
ReleaseZoom ==
  /\ pressed \in ZoomButtons \cap inside
  /\ pressed' = Away
  /\ state' = [state EXCEPT ![pressed] = OutTo(@, HOVER)]
  /\ zoom' \in {EndZooming(zoom), Click(EndZooming(zoom))}
  /\ UNCHANGED <<over, inside, pressedIn, dark, use, controls, page, screen, viewport>>

-----------------------------------------------------------------------------
(* Full page and full screen.  A document in full screen shows the body.    *)

\* The viewer's element is taken away from under the mouse.
PageBecomes(p) ==
  /\ page' = p
  /\ over' = IF p = page THEN over ELSE Away
  /\ IF p.full /\ ~page.full
     THEN /\ use' = [use EXCEPT !.mouseInside = TRUE]
          /\ controls' = Abort(controls)
     ELSE UNCHANGED <<use, controls>>  \* onContainerExit( {} ): undefined < 1 is false

\* setFullScreen, where the browser supports it.
AskForFullScreen ==
  IF screen.on THEN PageBecomes(page) /\ screen' = screen
  ELSE /\ PageBecomes(EnterFullPage(page))
       /\ screen' = [screen EXCEPT !.listeners = @ + 1, !.requests = @ + 1]

\* The browser is asked to end it (ScreenEnds), and nothing has changed yet.
ExitFullScreen == PageBecomes(page) /\ screen' = screen

\* onFullScreen, when the full page button is released where it was pressed.
ReleaseFullPage ==
  /\ screen.requests < MaxPending /\ screen.listeners < MaxPending
  /\ pressed = FullPageButton /\ pressed \in inside
  /\ pressed' = Away
  /\ state' = GroupExit(state)
  /\ IF page.full /\ ~screen.on THEN PageBecomes(LeaveFullPage(page)) /\ screen' = screen
     ELSE IF ~screen.supports THEN PageBecomes(EnterFullPage(page)) /\ screen' = screen
     ELSE IF page.full THEN ExitFullScreen
     ELSE AskForFullScreen
  /\ UNCHANGED <<inside, pressedIn, dark, zoom, viewport>>

\* The browser grants a request or refuses it; the document is told later.
Answer(granted) ==
  /\ screen.requests > 0 /\ screen.events < MaxPending
  /\ screen' = [screen EXCEPT !.requests = @ - 1, !.events = @ + 1, !.on = @ \/ granted]
  /\ UNCHANGED <<pointerVars, buttonVars, zoom, use, controls, page, viewport>>

\* The visitor leaves full screen by a key, or the browser after exitFullScreen.
ScreenEnds ==
  /\ screen.on /\ screen.events < MaxPending
  /\ screen' = [screen EXCEPT !.on = FALSE, !.events = @ + 1]
  /\ UNCHANGED <<pointerVars, buttonVars, zoom, use, controls, page, viewport>>

\* Slip: the listeners go away, and the page stays covered.
ListenersGoAway ==
  /\ screen.events > 0
  /\ screen' = [screen EXCEPT !.events = @ - 1, !.listeners = IF screen.on THEN @ ELSE 0]
  /\ UNCHANGED <<pointerVars, buttonVars, zoom, use, controls, page, viewport>>

\* onFullScreenChange, of every listener there is.
OnFullScreenChange ==
  /\ screen.events > 0
  /\ screen' = [screen EXCEPT !.events = @ - 1, !.listeners = IF screen.on THEN @ ELSE 0]
  /\ PageBecomes(IF screen.on \/ screen.listeners = 0 THEN page ELSE LeaveFullPage(page))
  /\ UNCHANGED <<pressed, inside, pressedIn, buttonVars, zoom, viewport>>

-----------------------------------------------------------------------------
(* Animation frames and timers.                                             *)

\* updateOnce, when the springs have begun to move.
AnimationStarts ==
  /\ viewport
  /\ ~use.animating
  /\ use' = [use EXCEPT !.animating = TRUE]
  /\ controls' = Abort(controls)
  /\ UNCHANGED <<pointerVars, buttonVars, zoom, page, screen, viewport>>

\* Slip: the controls stay when the animation ends.
AnimationJustEnds ==
  /\ use.animating
  /\ use' = [use EXCEPT !.animating = FALSE]
  /\ UNCHANGED <<pointerVars, buttonVars, zoom, controls, page, screen, viewport>>

\* updateOnce, when they have come to rest.
AnimationFinishes ==
  /\ WithinBounds
  /\ use.animating
  /\ use' = [use EXCEPT !.animating = FALSE]
  /\ controls' = IF use.mouseInside THEN controls ELSE Begin(controls)
  /\ UNCHANGED <<pointerVars, buttonVars, zoom, page, screen, viewport>>

\* The constructor's "initial fade out", whatever has happened since.
FirstFrame ==
  /\ WithinBounds
  /\ controls.firstFrame
  /\ controls' = [Begin(controls) EXCEPT !.firstFrame = FALSE,
                                         !.late = use.mouseInside \/ use.animating]
  /\ UNCHANGED <<pointerVars, buttonVars, zoom, use, page, screen, viewport>>

\* updateControlsFade; the chain goes on until the controls are gone.
FadeFrame ==
  /\ controls.timers > 0
  /\ controls' \in
       IF controls.shouldFade
       THEN {[controls EXCEPT !.opacity = o, !.timers = IF o = 0 THEN @ - 1 ELSE @] :
               o \in 0..controls.opacity}
       ELSE {[controls EXCEPT !.timers = @ - 1]}
  /\ UNCHANGED <<pointerVars, buttonVars, zoom, use, page, screen, viewport>>

\* updateFade of a button, to its end; shouldFade is set exactly in the state REST.
ButtonFades(b) ==
  /\ state[b] = REST
  /\ dark' = dark \cup {b}
  /\ UNCHANGED <<pointerVars, state, zoom, use, controls, page, screen, viewport>>

\* doZoom, when the zooming has ended or there is nothing to zoom yet: its chain ends.
\* Otherwise it calls itself, and the viewport moves (AnimationStarts).
LastZoomFrame ==
  /\ zoom.chains > 0 /\ (~zoom.on \/ ~viewport)
  /\ zoom' = [zoom EXCEPT !.chains = @ - 1]
  /\ UNCHANGED <<pointerVars, buttonVars, use, controls, page, screen, viewport>>

\* openTileSource: an animation is over without a word, and lightUp hears the event.
OpenTileSource ==
  /\ viewport' = TRUE
  /\ use' = [use EXCEPT !.animating = FALSE]
  /\ controls' = [controls EXCEPT !.cut = @ \/ (use.animating /\ ~use.mouseInside)]
  /\ state' = GroupExit(GroupEnter(state))
  /\ dark' = {}
  /\ UNCHANGED <<pointerVars, zoom, page, screen>>

Next ==
  \/ \E p \in Places : Move(p)
  \/ \E b \in Buttons : Press(b) \/ ButtonFades(b)
  \/ ReleaseOutside \/ ReleaseZoom \/ ReleaseFullPage
  \/ \E granted \in BOOLEAN : Answer(granted)
  \/ ScreenEnds \/ OnFullScreenChange
  \/ AnimationStarts \/ AnimationFinishes \/ FirstFrame \/ FadeFrame
  \/ LastZoomFrame \/ OpenTileSource

\* Frames and timers come, and an animation that nobody feeds comes to rest.
Fairness == WF_vars(FirstFrame) /\ WF_vars(FadeFrame) /\ WF_vars(LastZoomFrame)

Spec == Init /\ [][Next]_vars /\ Fairness

-----------------------------------------------------------------------------
\* Every variable has its type.
TypeOK ==
  /\ over \in Places /\ pressed \in Buttons \cup {Away}
  /\ inside \subseteq Buttons /\ pressedIn \subseteq Buttons \cap (inside \cup {pressed})
  /\ state \in [Buttons -> REST..DOWN] /\ dark \subseteq Buttons
  /\ zoom \in [on : BOOLEAN, chains : 0..MaxPending, early : BOOLEAN]
  /\ use \in [mouseInside : BOOLEAN, animating : BOOLEAN]
  /\ controls \in [shouldFade : BOOLEAN, opacity : 0..2, timers : 0..MaxPending,
                   firstFrame : BOOLEAN, late : BOOLEAN, cut : BOOLEAN]
  /\ page \in [full : BOOLEAN, body : {"page", "viewer", "nothing"},
               previousBody : {"page", "viewer", "nothing"},
               style : {"own", "window"}, savedStyle : {"own", "window"}]
  /\ screen \in [supports : BOOLEAN, on : BOOLEAN, requests : 0..MaxPending,
                 listeners : 0..MaxPending, events : 0..MaxPending]
  /\ viewport \in BOOLEAN

\* The controls never fade from under the mouse or during an animation, although no
\* timer of an earlier fade is cancelled when the mouse comes back
\* (abortControlsAutoHide).  Only the first frame of the page may come too late.
ControlsShownInUse ==
  controls.opacity < 2 /\ ~controls.late => ~use.mouseInside /\ ~use.animating

\* "If the user stops interacting with the viewport, fade the navigation controls":
\* once the mouse is away and the image at rest, the controls go, unless the visitor
\* comes back.  They stay if the image came to rest because another was opened during
\* the animation: openTileSource writes animating = false, and nobody begins the fading.
ControlsFade ==
  (~use.mouseInside /\ ~use.animating /\ ~controls.cut)
    ~> (controls.opacity = 0 \/ use.mouseInside \/ use.animating)

\* The image zooms on only while the tracker of a zoom button has the mouse pressed and
\* inside, from wherever the mouse was dragged and wherever it is let go; and while it
\* zooms a frame is scheduled, unless the button was pressed before the first image was
\* open: doZoom gives up then, and zooming stays true for nothing until the release.
ZoomEnds ==
  zoom.on => /\ ZoomButtons \cap inside \cap pressedIn # {}
             /\ zoom.early \/ zoom.chains > 0

\* When the viewer does not fill the page, the document has its own nodes and the
\* element its own style again, however often onFullScreenChange has run.
PageComesBack ==
  ~page.full => page.body = "page" /\ page.style = "own"

\* "If the full page mode is not actually entered, we need to prevent the full screen
\* mode", and the other way round: where full screen is supported the viewer fills the
\* page only while the screen is full, or is asked for, or an event will say that it is
\* over; and a listener will hear it.
FullPageHasScreen ==
  page.full /\ screen.supports =>
    /\ screen.listeners > 0
    /\ screen.on \/ screen.requests > 0 \/ screen.events > 0
=============================================================================
