----------------------------- MODULE PageViewer -----------------------------
(***************************************************************************)
(* The OpenSeadragon viewer of new/viewer.html turning the pages of a      *)
(* sequence of images. Turning a page asks for the image's info.json; the  *)
(* page is opened when the answer arrives, and replaces whatever page is   *)
(* open then. The navigator is a second viewer that opens the same source  *)
(* through a timer of its own. Each viewer redraws itself in a loop of     *)
(* animation frames that lasts from one opening to the next.               *)
(***************************************************************************)
EXTENDS Integers, Sequences

CONSTANTS
  Pages,     \* tileSources.length
  Starts,    \* what initialPage may be
  Wrap,      \* navPrevNextWrap
  MaxOpens,  \* bound: the pages opened in a behaviour
  Null

ASSUME PagesAssumption == Pages \in Nat \ {0} /\ MaxOpens \in Nat \ {0}
ASSUME NullAssumption == Null \notin Int

\* A page as JavaScript holds it: a number, or the text of the query's parameter
\* s, which is plain unless it has a leading zero.
Number(n) == [num |-> n, text |-> FALSE, plain |-> TRUE]
Text(n) == [num |-> n, text |-> TRUE, plain |-> TRUE]
PageValues == [num : Nat, text : BOOLEAN, plain : BOOLEAN]

ASSUME StartAssumption == Starts \subseteq PageValues

Viewers == {"viewer", "navigator"}
Indices == 0..(Pages - 1)

\* What may come back for an info.json: an error, the image's info, an info without
\* the size, JSON of another kind, and what looks like JSON and is not.
Answers == {"error", "info", "sizeless", "other", "garbled"}

\* processResponse, determineType, and configure with the constructor it is for: the first
\* and the last throw where they cannot go on.
Parses(a) == a # "garbled"
Supports(a) == a \in {"info", "sizeless"}
DetermineType(a) == IF Supports(a) THEN "IIIFTileSource" ELSE "none"
Configures(a) == a # "sizeless"

VARIABLES
  sequence,    \* THIS[hash].sequence: the current page
  nextOn,      \* is the next button enabled
  prevOn,      \* is the previous button enabled
  timers,      \* the timeouts of 1 ms set by open, in the order they fire
  requests,    \* the requests for an info.json under way
  opened,      \* the calls of open so far, which number the requests
  message,     \* is an error message shown
  navigator,   \* is there a navigator
  source,      \* of each viewer: the open page
  frames,      \* of each viewer: the animation frames asked for
  updateId,    \* of each viewer: does _updateRequestId name one
  forceRedraw, \* of each viewer
  drawn,       \* of each viewer: the page its drawer last drew
  newest,      \* history: the latest request answered
  overtaken,   \* history: has an answer come after a later request's
  silent       \* history: has an open ended without a page or a message

pageVars == <<sequence, nextOn, prevOn>>
viewerVars == <<source, frames, updateId, forceRedraw, drawn>>
historyVars == <<newest, overtaken, silent>>
vars == <<pageVars, timers, requests, opened, message, navigator, viewerVars,
          historyVars>>

InRange(p) == p.num \in Indices

\* tileSources[page]: a text that is not plain names no element.
TileSourceOf(p) == IF p.plain THEN p.num ELSE Null

\* A timeout; the viewer's are numbered by the calls of open.
Timer(v, page, n) == [for |-> v, page |-> page, id |-> n]

\* _updateSequenceButtons. Its test for the last page is strict.
NextEnabled(p) ==
  \/ p # Number(Pages - 1)
  \/ Wrap /\ nextOn
PreviousEnabled(p) == p.num > 0 \/ (Wrap /\ prevOn)

-----------------------------------------------------------------------------
\* The constructor: initialPage is kept within bounds, and opened.
Init ==
  \E start \in Starts :
    LET p == IF start.num > Pages - 1 THEN Number(Pages - 1) ELSE start
    IN /\ sequence = p
       /\ nextOn = (Pages = 1 \/ Wrap \/ p # Number(Pages - 1))
       /\ prevOn = (Wrap \/ (Pages > 1 /\ p.num > 0))
       /\ timers = <<Timer("viewer", TileSourceOf(p), 1)>>
       /\ requests = {}
       /\ opened = 1
       /\ message = FALSE
       /\ navigator = FALSE
       /\ source = [v \in Viewers |-> Null]
       /\ frames = [v \in Viewers |-> 0]
       /\ updateId = [v \in Viewers |-> FALSE]
       /\ forceRedraw = [v \in Viewers |-> FALSE]
       /\ drawn = [v \in Viewers |-> Null]
       /\ newest = 0
       /\ overtaken = FALSE
       /\ silent = FALSE

\* open: it hides the message and sets a timer.
Open(page) ==
  /\ opened < MaxOpens
  /\ opened' = opened + 1
  /\ message' = FALSE
  /\ timers' = Append(timers, Timer("viewer", page, opened + 1))

GoToPage(p) ==
  /\ InRange(p)
  /\ sequence' = p
  /\ nextOn' = NextEnabled(p)
  /\ prevOn' = PreviousEnabled(p)
  /\ Open(TileSourceOf(p))
  /\ UNCHANGED <<requests, navigator, viewerVars, historyVars>>

\* sequence + 1: on a text, + appends a digit.
Successor(p) ==
  IF p.text THEN [num |-> 10 * p.num + 1, text |-> TRUE,
                  plain |-> p.plain /\ p.num # 0]
  ELSE Number(p.num + 1)

OnNext ==
  LET next == Successor(sequence)
  IN GoToPage(IF Wrap /\ next.num >= Pages THEN Number(0) ELSE next)

OnPrevious ==
  LET previous == sequence.num - 1
  IN GoToPage(Number(IF Wrap /\ previous < 0 THEN previous + Pages ELSE previous))

\* Viewer.close, which closes the navigator too: the frame is cancelled, the
\* drawer is destroyed.
Closed(vs) ==
  /\ source' = [v \in Viewers |-> IF v \in vs THEN Null ELSE source[v]]
  /\ frames' = [v \in Viewers |-> IF v \in vs /\ updateId[v] THEN frames[v] - 1
                                  ELSE frames[v]]
  /\ updateId' = [v \in Viewers |-> updateId[v] /\ v \notin vs]
  /\ drawn' = [v \in Viewers |-> IF v \in vs THEN Null ELSE drawn[v]]
  /\ UNCHANGED forceRedraw

WithNavigator == IF navigator THEN Viewers ELSE {"viewer"}

Close ==
  /\ Closed(WithNavigator)
  /\ UNCHANGED <<pageVars, timers, requests, opened, message, navigator, historyVars>>

\* Slip: the new drawer is not told to draw at once.
ReopenedUndrawn(v, closing, page) ==
  LET running(w) == IF w \in closing /\ updateId[w] THEN frames[w] - 1 ELSE frames[w]
  IN /\ source' = [w \in Viewers |-> IF w = v THEN page
                                     ELSE IF w \in closing THEN Null ELSE source[w]]
     /\ frames' = [w \in Viewers |-> IF w = v THEN running(w) + 1 ELSE running(w)]
     /\ updateId' = [w \in Viewers |-> w = v \/ (updateId[w] /\ w \notin closing)]
     /\ drawn' = [w \in Viewers |-> IF w = v \/ w \in closing THEN Null ELSE drawn[w]]
     /\ UNCHANGED forceRedraw

\* Slip: the frame of the page that was open is not cancelled.
ReopenedKeepingFrames(v, closing, page) ==
  /\ source' = [w \in Viewers |-> IF w = v THEN page
                                  ELSE IF w \in closing THEN Null ELSE source[w]]
  /\ frames' = [frames EXCEPT ![v] = @ + 1]
  /\ updateId' = [w \in Viewers |-> w = v \/ (updateId[w] /\ w \notin closing)]
  /\ drawn' = [w \in Viewers |-> IF w = v \/ w \in closing THEN Null ELSE drawn[w]]
  /\ forceRedraw' = [forceRedraw EXCEPT ![v] = TRUE]

\* The part of openTileSource both viewers run: close what is open, make the
\* source's drawer, have it drawn, and start the loop of frames.
Reopened(v, closing, page) ==
  LET running(w) == IF w \in closing /\ updateId[w] THEN frames[w] - 1 ELSE frames[w]
  IN /\ source' = [w \in Viewers |-> IF w = v THEN page
                                     ELSE IF w \in closing THEN Null ELSE source[w]]
     /\ frames' = [w \in Viewers |-> IF w = v THEN running(w) + 1 ELSE running(w)]
     /\ updateId' = [w \in Viewers |-> w = v \/ (updateId[w] /\ w \notin closing)]
     /\ drawn' = [w \in Viewers |-> IF w = v \/ w \in closing THEN Null ELSE drawn[w]]
     /\ forceRedraw' = [forceRedraw EXCEPT ![v] = TRUE]

\* Slip: a navigator that exists is not told of the new source.
OpenTileSourceNavigatorOnce(page) ==
  /\ Reopened("viewer", IF source["viewer"] = Null THEN {} ELSE WithNavigator, page)
  /\ navigator' = TRUE
  /\ timers' = IF navigator THEN timers
               ELSE Append(timers, Timer("navigator", page, 0))

\* Navigator.open: a source that is ready sets a timer too.
NavigatorOpens(page) == timers' = Append(timers, Timer("navigator", page, 0))

\* openTileSource of the viewer: the navigator, made now or earlier, is given the
\* source to open.
OpenTileSource(page) ==
  /\ Reopened("viewer", IF source["viewer"] = Null THEN {} ELSE WithNavigator, page)
  /\ navigator' = TRUE
  /\ NavigatorOpens(page)

-----------------------------------------------------------------------------
\* The timer of a page: the request is sent. A page that is undefined has no
\* nodeType: the exception ends the open.
SendRequest ==
  /\ timers # <<>>
  /\ Head(timers).for = "viewer"
  /\ timers' = Tail(timers)
  /\ LET page == Head(timers).page
     IN IF page = Null
        THEN silent' = TRUE /\ UNCHANGED requests
        ELSE /\ requests' = requests \cup {[id |-> Head(timers).id, page |-> page]}
             /\ UNCHANGED silent
  /\ UNCHANGED <<pageVars, opened, message, navigator, viewerVars, newest, overtaken>>

\* send throws: open-failed is raised before anyone listens to the new source.
SendFails ==
  /\ timers # <<>>
  /\ Head(timers).for = "viewer"
  /\ timers' = Tail(timers)
  /\ silent' = TRUE
  /\ UNCHANGED <<pageVars, requests, opened, message, navigator, viewerVars,
                 newest, overtaken>>

\* The timer of the navigator, whose source is ready.
OpenNavigator ==
  /\ timers # <<>>
  /\ Head(timers).for = "navigator"
  /\ timers' = Tail(timers)
  /\ Reopened("navigator", IF source["navigator"] = Null THEN {} ELSE {"navigator"},
              Head(timers).page)
  /\ UNCHANGED <<pageVars, requests, opened, message, navigator, historyVars>>

\* An answer, in whatever order the server gives them.
Answered(r) ==
  /\ r \in requests
  /\ requests' = requests \ {r}
  /\ newest' = IF r.id > newest THEN r.id ELSE newest
  /\ overtaken' = (overtaken \/ r.id < newest)
  /\ UNCHANGED <<pageVars, opened>>

InfoArrives(r, a) ==
  /\ Parses(a) /\ DetermineType(a) = "IIIFTileSource" /\ Configures(a)
  /\ Answered(r)
  /\ OpenTileSource(r.page)
  /\ UNCHANGED <<message, silent>>

\* Slip: open-failed is not told to the user.
InfoRefusedQuietly(r, a) ==
  /\ Parses(a) /\ DetermineType(a) = "none"
  /\ Answered(r)
  /\ UNCHANGED <<timers, message, navigator, viewerVars, silent>>

\* A status other than 200, or a body of no known type: open-failed.
InfoRefused(r, a) ==
  /\ Parses(a) /\ DetermineType(a) = "none"
  /\ Answered(r)
  /\ message' = TRUE
  /\ UNCHANGED <<timers, navigator, viewerVars, silent>>

\* The handler throws: in eval, or in the constructor of the tile source.
InfoUnreadable(r, a) ==
  /\ ~Parses(a) \/ (Supports(a) /\ ~Configures(a))
  /\ Answered(r)
  /\ silent' = TRUE
  /\ UNCHANGED <<timers, message, navigator, viewerVars>>

\* updateMulti and updateOnce. While the viewport is animated every frame draws
\* and forceRedraw stays; else a frame draws when told to or when the drawer has
\* more to show.
Frame(v, animated) ==
  /\ frames[v] > 0
  /\ IF source[v] = Null
     THEN /\ frames' = [frames EXCEPT ![v] = @ - 1]
          /\ updateId' = [updateId EXCEPT ![v] = FALSE]
          /\ UNCHANGED <<forceRedraw, drawn>>
     ELSE /\ updateId' = [updateId EXCEPT ![v] = TRUE]
          /\ drawn' = IF animated \/ forceRedraw[v]
                      THEN [drawn EXCEPT ![v] = source[v]] ELSE drawn
          /\ forceRedraw' = [forceRedraw EXCEPT ![v] = @ /\ animated]
          /\ UNCHANGED frames
  /\ UNCHANGED <<pageVars, timers, requests, opened, message, navigator, source,
                 historyVars>>

UserNext ==
  \/ \E n \in Indices : GoToPage(Number(n))
  \/ OnNext \/ OnPrevious
  \/ Close

AnswerNext == \E r \in requests, a \in Answers :
  InfoArrives(r, a) \/ InfoRefused(r, a) \/ InfoUnreadable(r, a)

TimerNext == SendRequest \/ SendFails \/ OpenNavigator

FrameNext(v) == \E animated \in BOOLEAN : Frame(v, animated)

Next == UserNext \/ TimerNext \/ AnswerNext \/ \E v \in Viewers : FrameNext(v)

\* The browser fires its timers and frames, and no animation lasts for ever; none need
\* begin.  Nothing is asked of the user, and a request may stay without an answer.
Spec == Init /\ [][Next]_vars /\ WF_vars(TimerNext)
             /\ \A v \in Viewers : WF_vars(Frame(v, FALSE))

-----------------------------------------------------------------------------
(* Properties *)

\* Every variable has its type.
TypeOK ==
  /\ sequence \in PageValues
  /\ {nextOn, prevOn, message, navigator, overtaken, silent} \subseteq BOOLEAN
  /\ timers \in Seq([for : Viewers, page : Indices \cup {Null}, id : 0..MaxOpens])
  /\ requests \subseteq [id : 1..MaxOpens, page : Indices]
  /\ opened \in 1..MaxOpens
  /\ source \in [Viewers -> Indices \cup {Null}]
  /\ frames \in [Viewers -> Nat]
  /\ updateId \in [Viewers -> BOOLEAN]
  /\ forceRedraw \in [Viewers -> BOOLEAN]
  /\ drawn \in [Viewers -> Indices \cup {Null}]
  /\ newest \in 0..MaxOpens

\* When everything asked for has been answered, and the answers came in the order
\* of the requests, the open page is the current page, or a message says why not.
\* Nothing in open compares an answer with the current page: overtaken and silent
\* are the two ways the viewer shows another page than it says it does.
SettledPage ==
  timers = <<>> /\ requests = {} /\ ~overtaken /\ ~silent /\ source["viewer"] # Null =>
    message \/ source["viewer"] = TileSourceOf(sequence)

\* Once its timers have fired, the navigator shows the image the viewer shows,
\* however openings and closings of the two were interleaved.
NavigatorFollows ==
  source["viewer"] # Null /\ (\A i \in DOMAIN timers : timers[i].for # "navigator") =>
    source["navigator"] = source["viewer"]

\* A viewer with a page has exactly one loop of animation frames, the one close
\* can cancel; a viewer without one has none.
OneLoop ==
  \A v \in Viewers :
    /\ frames[v] = IF source[v] = Null THEN 0 ELSE 1
    /\ updateId[v] = (source[v] # Null)

\* An opened page is drawn unless it is closed or replaced first, whether or not
\* the viewport ever moves.
EveryPageIsDrawn ==
  \A v \in Viewers, p \in Indices : source[v] = p ~> drawn[v] = p \/ source[v] # p
=============================================================================
