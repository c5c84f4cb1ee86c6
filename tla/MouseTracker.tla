---------------------------- MODULE MouseTracker ----------------------------
(***************************************************************************)
(* OpenSeadragon.MouseTracker on the canvas of the page viewer: the list   *)
(* of active pointers of one device, its contacts, the capture of the      *)
(* pointers by listeners on the window, the points whose speed is timed,   *)
(* and the list of the viewer's container, the canvas's parent.            *)
(*                                                                         *)
(* One device is used at a time: a mouse, fingers reported by pointer      *)
(* events, or fingers reported by touch events, several of which may be in *)
(* one event.  A position is abstracted to whether it is known (placed).   *)
(* A handler that reads a position that is not known throws, and the rest  *)
(* of it is not run (failed).  Destroying the viewer ends everything: the  *)
(* element the events come to is gone (tracking).                          *)
(***************************************************************************)
EXTENDS Integers, Sequences, FiniteSets, SequencesExt

CONSTANTS
  Fingers,
  Mouse,
  MaxDrift  \* bound of the model: how far captureCount and contacts may drift from zero

ASSUME PointersAssumption == Mouse \notin Fingers

Pointers == Fingers \cup {Mouse}

\* What a browser reports: fingers as pointer events or as touch events, and a mouse.
Devices == {"mouse", "pointer", "touch"}

VARIABLES
  device,      \* what the visitor points with
  tracking,    \* THIS[ tracker.hash ].tracking
  list,        \* the GesturePointList of the device on the canvas
  container,   \* the pointers in the list of the container's tracker
  mouseInside, \* THIS[ viewer.hash ].mouseInside
  down,        \* the pointers in contact with the canvas: fingers, or the mouse pressed
  over,        \* the mouse is over the canvas
  lost,        \* a finger was lifted and no event said so
  cancelled,   \* the browser has cancelled a pointer
  grouped      \* several touches have started or ended in one event

vars == <<device, tracking, list, container, mouseInside, down, over, lost, cancelled, grouped>>

-----------------------------------------------------------------------------
\* The list of pointers of one device, as updatePointers... leave it.

EmptyList ==
  [points |-> <<>>, captured |-> {}, inside |-> {}, placed |-> {},
   contacts |-> 0, captureCount |-> 0, listening |-> FALSE,
   pinch |-> <<>>, timed |-> [p \in Pointers |-> 0],
   pressed |-> FALSE, release |-> FALSE, wasCaptured |-> FALSE, failed |-> FALSE]

Tracked(l) == ToSet(l.points)

With(S, p, known) == IF known THEN S \cup {p} ELSE S \ {p}

\* The two points a pinch is measured between: the first two of the list.
Pair(l) == SubSeq(l.points, 1, 2)

\* Both are there and have positions: else measuring throws.
Measurable(l) == Len(l.points) >= 2 /\ ToSet(Pair(l)) \subseteq l.placed

\* startTrackingPointer, unless the point is in the list.
StartTracking(l, p) ==
  [l EXCEPT !.points = IF p \in Tracked(l) THEN @ ELSE Append(@, p),
            !.placed = @ \cup {p}]

StopTracking(l, p) ==
  [l EXCEPT !.points   = RemoveFirst(@, p),
            !.captured = @ \ {p}, !.inside = @ \ {p}, !.placed = @ \ {p}]

EnterPoint(l, p) == LET t == StartTracking(l, p) IN [t EXCEPT !.inside = @ \cup {p}]

\* A captured point stays in the list when it leaves the canvas.
ExitPoint(l, p, known) ==
  IF l.failed THEN l
  ELSE IF p \in l.captured
  THEN [l EXCEPT !.inside = @ \ {p}, !.placed = With(@, p, known), !.failed = ~known]
  ELSE [StopTracking(l, p) EXCEPT
          !.failed = IF p \in Tracked(l) THEN p \notin l.placed ELSE ~known]

DownPoint(l, p) ==
  LET t == StartTracking(l, p)
      d == [t EXCEPT !.captured = @ \cup {p}, !.inside = @ \cup {p},
                     !.contacts = @ + 1, !.timed[p] = @ + 1]
  IN [d EXCEPT !.pressed = @ \/ d.contacts = 1,
               !.pinch   = IF d.contacts = 2 /\ device # "mouse" /\ Measurable(d) THEN Pair(d) ELSE @,
               !.failed  = d.contacts = 2 /\ device # "mouse" /\ ~Measurable(d)]

\* Slip: the speed of a contact that has ended is timed on.
ContactEndsTimed(l, p) == [l EXCEPT !.contacts = @ - 1]

\* A contact ends: it is counted out, and its speed is no longer timed.
ContactEnds(l, p) == [l EXCEPT !.contacts = @ - 1, !.timed[p] = IF @ > 0 THEN @ - 1 ELSE 0]

NoContact(l) == l.contacts = 0

\* One point of an event that ends contacts.  Once one point of the event was captured,
\* wasCaptured stays set for the points after it.
UpPoint(l, p, known) ==
  LET was == l.wasCaptured \/ p \in l.captured
      m == [l EXCEPT !.captured = @ \ {p}, !.release = @ \/ p \in l.captured,
                     !.wasCaptured = was, !.placed = With(@, p, known)]
      t == IF p \in l.inside THEN m ELSE StopTracking(m, p)
      u == IF was THEN ContactEnds(t, p) ELSE t
      pinching == was /\ u.contacts = 2 /\ device # "mouse"
  IN IF l.failed \/ p \notin Tracked(l) THEN l
     ELSE [u EXCEPT
             !.pressed = @ /\ ~(was /\ NoContact(u) /\ known),
             !.pinch   = IF pinching /\ Measurable(u) THEN Pair(u) ELSE @,
             !.failed  = \/ ~known /\ (~was \/ NoContact(u))
                         \/ pinching /\ ~Measurable(u)]

\* The locals of a handler are gone when it ends, and an exception with them.
Ended(l) == [l EXCEPT !.release = FALSE, !.wasCaptured = FALSE, !.failed = FALSE]

UpdatePointersEnter(l, ps) == FoldLeft(EnterPoint, l, ps)
UpdatePointersExit(l, ps, known) == FoldLeft(LAMBDA m, p : ExitPoint(m, p, known), l, ps)
UpdatePointersDown(l, ps) ==
  FoldLeft(LAMBDA m, p : IF m.failed THEN m ELSE DownPoint(m, p), l, ps)
UpdatePointersUp(l, ps, known) == FoldLeft(LAMBDA m, p : UpPoint(m, p, known), l, ps)

CapturePointer(l) ==
  IF l.failed THEN l
  ELSE [l EXCEPT !.captureCount = @ + 1, !.listening = @ \/ l.captureCount = 0]

\* Slip: the listeners go with the first point that is released.
ReleaseAtOnce(l) ==
  IF l.failed \/ ~l.release THEN l
  ELSE [l EXCEPT !.captureCount = @ - 1, !.listening = FALSE]

ReleasePointer(l) ==
  IF l.failed \/ ~l.release THEN l
  ELSE [l EXCEPT !.captureCount = @ - 1, !.listening = @ /\ l.captureCount # 1]

\* The points are lifted where they were.
LiftInPlace(l, ps) == FoldLeft(LAMBDA m, p : UpPoint(m, p, p \in m.placed), l, ps)

\* Slip: the touches are lifted, and stay in the list.
AbortWithoutLeaving(l) ==
  LET up == LiftInPlace(l, l.points)
  IN IF l.points = <<>> \/ up.failed THEN up
     ELSE [up EXCEPT !.captureCount = 0, !.listening = FALSE]

\* abortTouchContacts: every tracked touch is lifted where it was, and leaves.
AbortTouchContacts(l) ==
  LET up == LiftInPlace(l, l.points)
      released == [up EXCEPT !.captureCount = 0, !.listening = FALSE]
  IN IF l.points = <<>> THEN l
     ELSE IF up.failed THEN up
     ELSE UpdatePointersExit(released, l.points, TRUE)

\* updatePointersCancel: the points of the event have no position.  Nothing is released.
UpdatePointersCancel(l, ps) == UpdatePointersExit(UpdatePointersUp(l, ps, FALSE), ps, FALSE)

\* updatePointersMove: with two contacts the pinch is measured anew if the distance
\* has changed.
MovePoint(l, p, changed) ==
  LET t == StartTracking(l, p)
      m == IF p \in Tracked(l) THEN t ELSE [t EXCEPT !.inside = @ \cup {p}]
  IN [m EXCEPT !.pinch = IF /\ m.contacts = 2 /\ device # "mouse"
                            /\ changed /\ Measurable(m)
                         THEN Pair(m) ELSE @]

UpdatePointersMove(l, ps, changed) == FoldLeft(LAMBDA m, p : MovePoint(m, p, changed), l, ps)

\* clearTrackedPointers.  The timer of speeds keeps the points it was given.
Cleared(l) ==
  [EmptyList EXCEPT !.timed = l.timed,
                    !.captureCount = IF l.captureCount > 0 THEN 0 ELSE l.captureCount,
                    !.listening = l.listening /\ l.captureCount <= 0]

\* startTracking, stopTracking: the listeners of the element are modelled by tracking.
Started == Cleared(EmptyList)

Stopped(l) == Cleared(l)

-----------------------------------------------------------------------------
Init ==
  /\ device \in Devices
  /\ tracking = TRUE
  /\ list = Started
  /\ container = {} /\ mouseInside = FALSE
  /\ down = {} /\ over = FALSE
  /\ lost = FALSE /\ cancelled = FALSE /\ grouped = FALSE

ContainerEnters(S) == container' = container \cup S /\ mouseInside' = TRUE

ContainerExits(S) ==
  /\ container' = container \ S
  /\ mouseInside' = (mouseInside /\ container' # {})

WithinBounds ==
  \A n \in {list.captureCount, list.contacts} : n \in -MaxDrift .. MaxDrift

ContainerSame == UNCHANGED <<container, mouseInside>>

\* The events of a mouse.  The container sees it come and go; a press is stopped at the
\* canvas, and a release outside the canvas is seen by the listeners on the window only.
MouseOver ==
  /\ device = "mouse" /\ ~over
  /\ over' = TRUE
  /\ list' = EnterPoint(list, Mouse)
  /\ ContainerEnters({Mouse})
  /\ UNCHANGED <<device, tracking, down, lost, cancelled, grouped>>

MouseOut ==
  /\ device = "mouse" /\ over
  /\ over' = FALSE
  /\ list' = Ended(ExitPoint(list, Mouse, TRUE))
  /\ ContainerExits({Mouse})
  /\ UNCHANGED <<device, tracking, down, lost, cancelled, grouped>>

MouseDown ==
  /\ device = "mouse" /\ over /\ down = {}
  /\ down' = {Mouse}
  /\ list' = Ended(CapturePointer(DownPoint(list, Mouse)))
  /\ ContainerSame
  /\ UNCHANGED <<device, tracking, over, lost, cancelled, grouped>>

MouseUp ==
  /\ device = "mouse" /\ down = {Mouse}
  /\ down' = {}
  /\ list' = IF list.listening \/ over
             THEN Ended(ReleasePointer(UpPoint(list, Mouse, TRUE))) ELSE list
  /\ ContainerSame
  /\ UNCHANGED <<device, tracking, over, lost, cancelled, grouped>>

\* A finger reported by pointer events: over and down when it lands, up and out when it
\* is lifted; over and out are seen by the container as well.
FingerLands(p) ==
  /\ device = "pointer" /\ p \notin down /\ WithinBounds
  /\ down' = down \cup {p}
  /\ list' = Ended(CapturePointer(DownPoint(EnterPoint(list, p), p)))
  /\ ContainerEnters({p})
  /\ UNCHANGED <<device, tracking, over, lost, cancelled, grouped>>

FingerLifted(p) ==
  /\ device = "pointer" /\ p \in down
  /\ down' = down \ {p}
  /\ LET up == ReleasePointer(UpPoint(list, p, TRUE))
     IN list' = Ended(ExitPoint(Ended(up), p, TRUE))
  /\ ContainerExits({p})
  /\ UNCHANGED <<device, tracking, over, lost, cancelled, grouped>>

\* The browser takes the finger for a gesture of its own: cancel and out.
FingerCancelled(p) ==
  /\ device = "pointer" /\ p \in down
  /\ down' = down \ {p}
  /\ list' = Ended(ExitPoint(Ended(UpdatePointersCancel(list, <<p>>)), p, TRUE))
  /\ ContainerExits({p})
  /\ cancelled' = TRUE
  /\ UNCHANGED <<device, tracking, over, lost, grouped>>

-----------------------------------------------------------------------------
\* Touch events, with the touches that changed in the order of the event.

Changes(S) == { ps \in UNION { [1 .. n -> S] : n \in 1 .. 2 } : IsInjective(ps) }

\* A new touch has an identifier the list does not hold.
TouchStart(ps) ==
  /\ device = "touch" /\ WithinBounds
  /\ ToSet(ps) \cap Tracked(list) = {}
  /\ down' = down \cup ToSet(ps)
  /\ LET mismatch == Len(list.points) > Cardinality(down') - Len(ps)
         cleared  == IF mismatch THEN AbortTouchContacts(list) ELSE list
         pressed  == CapturePointer(UpdatePointersDown(UpdatePointersEnter(cleared, ps), ps))
     IN IF cleared.failed
        THEN list' = Ended(cleared) /\ ContainerSame
        ELSE list' = Ended(pressed) /\ ContainerEnters(ToSet(ps))
  /\ grouped' = (grouped \/ Len(ps) > 1)
  /\ UNCHANGED <<device, tracking, over, lost, cancelled>>

TouchEnd(ps) ==
  /\ device = "touch" /\ WithinBounds
  /\ down' = down \ ToSet(ps)
  /\ LET up   == ReleasePointer(UpdatePointersUp(list, ps, TRUE))
         left == UpdatePointersExit(up, ps, TRUE)
     IN /\ list' = Ended(left)
        /\ IF left.failed THEN ContainerSame ELSE ContainerExits(ToSet(ps))
  /\ grouped' = (grouped \/ Len(ps) > 1)
  /\ UNCHANGED <<device, tracking, over, lost, cancelled>>

\* The container's own handler throws after the first touch it forgets.
TouchCancel(ps) ==
  /\ device = "touch"
  /\ down' = down \ ToSet(ps)
  /\ list' = Ended(UpdatePointersCancel(list, ps))
  /\ container' = container \ {Head(ps)}
  /\ cancelled' = TRUE
  /\ UNCHANGED <<device, tracking, over, lost, mouseInside, grouped>>

\* A finger is lifted and its touchend never comes.
TouchLost(p) ==
  /\ device = "touch" /\ p \in down
  /\ down' = down \ {p}
  /\ lost' = TRUE
  /\ UNCHANGED <<device, tracking, list, container, mouseInside, over, cancelled, grouped>>

\* Moves: of a mouse over the canvas or captured by the window's listeners, of a finger,
\* and of the touches of one event.  The captured handler of pointer events, unlike the
\* other two, passes on the listed pointers only.
Moves(ps) ==
  /\ \E changed \in BOOLEAN : list' = UpdatePointersMove(list, ps, changed)
  /\ UNCHANGED <<device, tracking, container, mouseInside, down, over, lost, cancelled, grouped>>

MouseMove == device = "mouse" /\ (over \/ list.listening) /\ Moves(<<Mouse>>)

PointerMove(p) ==
  /\ device = "pointer" /\ p \in down
  /\ list.listening => p \in Tracked(list)
  /\ Moves(<<p>>)

TouchMove(ps) == device = "touch" /\ Moves(ps)

\* The viewer is destroyed, and its trackers with it.
Destroy ==
  /\ tracking' = FALSE
  /\ list' = Stopped(list)
  /\ container' = {} /\ mouseInside' = FALSE
  /\ UNCHANGED <<device, down, over, lost, cancelled, grouped>>

Next ==
  /\ tracking
  /\ \/ MouseOver \/ MouseOut \/ MouseDown \/ MouseUp \/ MouseMove
     \/ \E p \in Fingers : \/ FingerLands(p) \/ FingerLifted(p) \/ FingerCancelled(p)
                          \/ PointerMove(p) \/ TouchLost(p)
     \/ \E ps \in Changes(Fingers \ down) : TouchStart(ps)
     \/ \E ps \in Changes(down) : TouchEnd(ps) \/ TouchCancel(ps) \/ TouchMove(ps)
     \/ Destroy

Spec == Init /\ [][Next]_vars

-----------------------------------------------------------------------------
\* The pointers, the lists and the counts have their types.
TypeOK ==
  /\ list.points \in Seq(Pointers) /\ IsInjective(list.points)
  /\ list.captured \cup list.inside \cup list.placed \subseteq Tracked(list)
  /\ list.contacts \in Int /\ list.captureCount \in Int
  /\ container \subseteq Pointers /\ tracking \in BOOLEAN

\* A drag takes one contact and a pinch two, by the count updatePointersDown and
\* updatePointersUp keep: unless a touch is lost or cancelled it is the number of captured
\* points, through any events of several touches and cancelled pointers, and exactly these
\* points have their speed timed.  If no pointer is cancelled, a press is moreover followed
\* by a release, however many contacts come and go in between, and the point a drag is
\* measured at (the first of the list) is one that is in contact.
ContactsAreCounted ==
  tracking /\ ~(device = "touch" /\ (cancelled \/ lost)) =>
    /\ list.contacts = Cardinality(list.captured)
    /\ \A p \in Pointers : list.timed[p] = IF p \in list.captured THEN 1 ELSE 0
    /\ ~cancelled => /\ list.pressed <=> list.contacts > 0
                     /\ list.contacts = 1 => list.points[1] \in list.captured

\* A pressed mouse is always heard, also outside the canvas, and a mouse or a finger that
\* is not in contact leaves no listener on the window, where it would swallow the events
\* of every other element: unless a pointer is cancelled or the end of a touch is lost, and
\* as long as no event brings several touches, for these are captured or released once.
\* A viewer that is destroyed leaves no listener whatever has happened.
ListensWhileCaptured ==
  /\ tracking /\ ~(cancelled \/ lost \/ grouped) => (list.listening <=> down # {})
  /\ ~tracking => ~list.listening

\* Lost touches do not stay: the next touch finds a list of the touches on the screen only,
\* so that a later drag is not taken for a pinch.  (The touches are counted only: one on the
\* screen that the tracker does not know, forgotten by an abort, stands for a lost one.)
TouchStartsClean ==
  [][/\ device = "touch" /\ ~cancelled
     /\ down' \ down # {} /\ down \subseteq Tracked(list)
     => Tracked(list') \subseteq down']_vars
=============================================================================
