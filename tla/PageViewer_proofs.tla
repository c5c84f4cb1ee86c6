-------------------------- MODULE PageViewer_proofs --------------------------
(***************************************************************************)
(* However openings, answers, timers and frames interleave, and for any    *)
(* number of pages and of openings: each viewer has one loop of frames,    *)
(* the navigator comes to show what the viewer shows, and when nothing is  *)
(* under way the viewer shows the current page or says why not, unless an  *)
(* answer was overtaken or an open ended silently.                         *)
(***************************************************************************)
EXTENDS PageViewer, TLAPS

-----------------------------------------------------------------------------
(* The inductive invariant *)

TimerRecords == [for : Viewers, page : Indices \cup {Null}, id : 0..MaxOpens]
Clock == 1..Len(timers)

\* What is under way is for an opening so far, and the latest is for the current page.
TimerInv ==
  \A i \in Clock :
    /\ timers[i].for = "viewer" =>
         /\ timers[i].id \in 1..opened
         /\ timers[i].id = opened => timers[i].page = TileSourceOf(sequence)
    /\ timers[i].for = "navigator" => timers[i].page \in Indices

RequestInv ==
  \A r \in requests :
    /\ r.id \in 1..opened
    /\ r.id = opened => r.page = TileSourceOf(sequence)

\* The latest opening is under way or has been answered.
CurrentInv ==
  /\ newest <= opened
  /\ \/ overtaken \/ silent
     \/ \E i \in Clock : timers[i].for = "viewer" /\ timers[i].id = opened
     \/ \E r \in requests : r.id = opened
     \/ newest = opened /\ (message \/ source["viewer"] \in {Null, TileSourceOf(sequence)})

\* The navigator has the page of the viewer, or the last of its timers will bring it.
NavigatorInv ==
  source["viewer"] # Null =>
    \/ /\ \A i \in Clock : timers[i].for # "navigator"
       /\ source["navigator"] = source["viewer"]
    \/ \E i \in Clock :
         /\ timers[i].for = "navigator" /\ timers[i].page = source["viewer"]
         /\ \A j \in Clock : j > i => timers[j].for # "navigator"

IInv ==
  /\ TypeOK
  /\ TimerInv /\ RequestInv /\ CurrentInv
  /\ NavigatorInv /\ OneLoop

-----------------------------------------------------------------------------
(* Timers: one is added at the end, or the first fires. *)

LEMMA Appended ==
  ASSUME NEW S, NEW s \in Seq(S), NEW e \in S
  PROVE  /\ Append(s, e) \in Seq(S) /\ Len(Append(s, e)) = Len(s) + 1
         /\ \A i \in 1..Len(s) : Append(s, e)[i] = s[i]
         /\ Append(s, e)[Len(s) + 1] = e
  OBVIOUS

LEMMA Fired ==
  ASSUME NEW S, NEW s \in Seq(S), s # <<>>
  PROVE  /\ Len(s) \in Nat \ {0} /\ Head(s) = s[1] /\ Head(s) \in S
         /\ Tail(s) \in Seq(S) /\ Len(Tail(s)) = Len(s) - 1
         /\ \A i \in 1..(Len(s) - 1) : Tail(s)[i] = s[i + 1]
  OBVIOUS

LEMMA Sources ==
  ASSUME NEW p \in PageValues, InRange(p)
  PROVE  TileSourceOf(p) \in Indices \cup {Null}
  BY DEF TileSourceOf, InRange, PageValues

LEMMA IndicesAreNotNull == Null \notin Indices
  BY NullAssumption, PagesAssumption DEF Indices

-----------------------------------------------------------------------------
(* Opening and closing *)

\* Whatever a viewer reopens, one loop goes on in it, and none in what is closed with it.
LEMMA ReopenedLoops ==
  ASSUME TypeOK, OneLoop, NEW v \in Viewers, NEW closing \in SUBSET Viewers,
         NEW page \in Indices, Reopened(v, closing, page),
         source[v] = Null \/ v \in closing
  PROVE  /\ source' \in [Viewers -> Indices \cup {Null}]
         /\ frames' \in [Viewers -> Nat]
         /\ updateId' \in [Viewers -> BOOLEAN]
         /\ forceRedraw' \in [Viewers -> BOOLEAN]
         /\ drawn' \in [Viewers -> Indices \cup {Null}]
         /\ source'[v] = page
         /\ \A w \in Viewers \ {v} : w \notin closing => source'[w] = source[w]
         /\ OneLoop'
<1>1. /\ source' \in [Viewers -> Indices \cup {Null}]
      /\ source'[v] = page
      /\ \A w \in Viewers \ {v} : source'[w] = IF w \in closing THEN Null ELSE source[w]
  BY DEF TypeOK, Reopened
<1>2. updateId' \in [Viewers -> BOOLEAN]
      /\ \A w \in Viewers : updateId'[w] = (w = v \/ (updateId[w] /\ w \notin closing))
  BY DEF TypeOK, Reopened
<1>3. drawn' \in [Viewers -> Indices \cup {Null}] /\ forceRedraw' \in [Viewers -> BOOLEAN]
  BY DEF TypeOK, Reopened
<1>4. \A w \in Viewers : /\ source[w] = Null => frames[w] = 0
                         /\ source[w] # Null => frames[w] = 1
                         /\ updateId[w] <=> source[w] # Null
  BY DEF OneLoop, TypeOK
<1>5. \A w \in Viewers : frames'[w] = (IF source'[w] = Null THEN 0 ELSE 1)
  <2> SUFFICES ASSUME NEW w \in Viewers
               PROVE  frames'[w] = (IF source'[w] = Null THEN 0 ELSE 1)
    OBVIOUS
  <2> DEFINE running == IF w \in closing /\ updateId[w] THEN frames[w] - 1 ELSE frames[w]
  <2>1. frames'[w] = IF w = v THEN running + 1 ELSE running
    BY DEF Reopened
  <2>2. running = IF w \in closing \/ source[w] = Null THEN 0 ELSE 1
    BY <1>4
  <2> HIDE DEF running
  <2>3. CASE w = v
    BY <1>1, <2>1, <2>2, <2>3, IndicesAreNotNull
  <2>4. CASE w # v
    BY <1>1, <2>1, <2>2, <2>4
  <2> QED BY <2>3, <2>4
<1>6. frames' \in [Viewers -> Nat]
  <2>1. frames' = [w \in Viewers |-> frames'[w]]
    BY DEF Reopened
  <2> QED BY <1>5, <2>1
<1>7. \A w \in Viewers : updateId'[w] = (source'[w] # Null)
  BY <1>1, <1>2, <1>4, IndicesAreNotNull
<1> QED BY <1>1, <1>2, <1>3, <1>5, <1>6, <1>7 DEF OneLoop

-----------------------------------------------------------------------------
(* The steps *)

LEMMA GoToPageStep ==
  ASSUME IInv, NEW p \in PageValues, GoToPage(p)
  PROVE  IInv'
<1> DEFINE e == Timer("viewer", TileSourceOf(p), opened + 1)
<1>0. /\ InRange(p) /\ sequence' = p /\ opened' = opened + 1 /\ message' = FALSE
      /\ timers' = Append(timers, e) /\ opened < MaxOpens
      /\ UNCHANGED <<requests, navigator, viewerVars, historyVars>>
  BY DEF GoToPage, Open
<1>00. /\ requests' = requests /\ navigator' = navigator /\ source' = source
       /\ frames' = frames /\ updateId' = updateId /\ forceRedraw' = forceRedraw
       /\ drawn' = drawn /\ newest' = newest /\ overtaken' = overtaken /\ silent' = silent
  BY <1>0 DEF viewerVars, historyVars
<1>1. opened \in Nat \ {0} /\ opened' \in 1..MaxOpens
  BY <1>0, PagesAssumption DEF IInv, TypeOK
<1>2. e \in TimerRecords
  BY <1>0, <1>1, Sources, PagesAssumption DEF Timer, TimerRecords, Viewers
<1>3. timers \in Seq(TimerRecords)
  BY DEF IInv, TypeOK, TimerRecords
<1>4. /\ timers' \in Seq(TimerRecords) /\ Len(timers') = Len(timers) + 1
      /\ \A i \in 1..Len(timers) : timers'[i] = timers[i]
      /\ timers'[Len(timers) + 1] = e
  BY <1>0, <1>2, <1>3, Appended
<1>5. e.for = "viewer" /\ e.id = opened' /\ e.page = TileSourceOf(sequence')
  BY <1>0 DEF Timer
<1> HIDE DEF e
<1>6. TypeOK'
  <2>1. nextOn' \in BOOLEAN /\ prevOn' \in BOOLEAN
    BY DEF IInv, TypeOK, GoToPage, NextEnabled, PreviousEnabled
  <2> QED BY <1>0, <1>00, <1>1, <1>4, <2>1, PagesAssumption DEF IInv, TypeOK, TimerRecords
<1>7. TimerInv'
  <2> SUFFICES ASSUME NEW i \in Clock'
               PROVE  /\ timers'[i].for = "viewer" =>
                           /\ timers'[i].id \in 1..opened'
                           /\ timers'[i].id = opened' => timers'[i].page = TileSourceOf(sequence')
                      /\ timers'[i].for = "navigator" => timers'[i].page \in Indices
    BY DEF TimerInv, Indices
  <2>1. CASE i \in Clock
    BY <1>0, <1>1, <1>4, <2>1 DEF IInv, TimerInv, Clock
  <2>2. CASE i = Len(timers) + 1
    BY <1>1, <1>4, <1>5, <2>2
  <2> QED BY <1>3, <1>4, <2>1, <2>2 DEF Clock
<1>8. RequestInv'
  BY <1>0, <1>00, <1>1 DEF IInv, RequestInv
<1>9. CurrentInv'
  <2>1. Len(timers) + 1 \in Clock'
    BY <1>3, <1>4 DEF Clock
  <2>2. newest' <= opened'
    BY <1>0, <1>00, <1>1, PagesAssumption DEF IInv, TypeOK, CurrentInv
  <2> QED BY <1>4, <1>5, <2>1, <2>2 DEF CurrentInv
<1>10. NavigatorInv'
  <2> SUFFICES ASSUME source["viewer"] # Null PROVE NavigatorInv'
    BY <1>00 DEF NavigatorInv
  <2>1. CASE (\A i \in Clock : timers[i].for # "navigator")
             /\ source["navigator"] = source["viewer"]
    <3>1. \A i \in Clock' : timers'[i].for # "navigator"
      BY <1>3, <1>4, <1>5, <2>1 DEF Clock
    <3> QED BY <1>00, <2>1, <3>1 DEF NavigatorInv
  <2>2. CASE \E i \in Clock :
               /\ timers[i].for = "navigator" /\ timers[i].page = source["viewer"]
               /\ \A j \in Clock : j > i => timers[j].for # "navigator"
    <3>1. PICK i \in Clock :
               /\ timers[i].for = "navigator" /\ timers[i].page = source["viewer"]
               /\ \A j \in Clock : j > i => timers[j].for # "navigator"
      BY <2>2
    <3>2. i \in Clock' /\ timers'[i] = timers[i]
      BY <1>3, <1>4 DEF Clock
    <3>3. \A j \in Clock' : j > i => timers'[j].for # "navigator"
      BY <1>3, <1>4, <1>5, <3>1 DEF Clock
    <3> QED BY <1>00, <3>1, <3>2, <3>3 DEF NavigatorInv
  <2> QED BY <2>1, <2>2 DEF IInv, NavigatorInv
<1>11. OneLoop'
  BY <1>00 DEF IInv, OneLoop
<1> QED BY <1>6, <1>7, <1>8, <1>9, <1>10, <1>11 DEF IInv

LEMMA CloseStep ==
  ASSUME IInv, Close
  PROVE  IInv'
<1> DEFINE vs == WithNavigator
<1>0. Closed(vs) /\ UNCHANGED <<pageVars, timers, requests, opened, message, navigator, historyVars>>
  BY DEF Close
<1>00. /\ sequence' = sequence /\ nextOn' = nextOn /\ prevOn' = prevOn /\ timers' = timers
       /\ requests' = requests /\ opened' = opened /\ message' = message
       /\ navigator' = navigator /\ newest' = newest /\ overtaken' = overtaken /\ silent' = silent
  BY <1>0 DEF pageVars, historyVars
<1>1. "viewer" \in vs
  BY DEF WithNavigator, Viewers
<1> HIDE DEF vs
<1>2. source' \in [Viewers -> Indices \cup {Null}] /\ source'["viewer"] = Null
  BY <1>0, <1>1 DEF IInv, TypeOK, Closed, Viewers
<1>3. /\ updateId' \in [Viewers -> BOOLEAN] /\ forceRedraw' \in [Viewers -> BOOLEAN]
      /\ drawn' \in [Viewers -> Indices \cup {Null}]
  BY <1>0 DEF IInv, TypeOK, Closed
<1>4. \A w \in Viewers : /\ source[w] = Null => frames[w] = 0
                         /\ source[w] # Null => frames[w] = 1
                         /\ updateId[w] <=> source[w] # Null
  BY DEF IInv, OneLoop, TypeOK
<1>5. \A w \in Viewers : /\ frames'[w] = (IF source'[w] = Null THEN 0 ELSE 1)
                         /\ updateId'[w] <=> source'[w] # Null
  <2> SUFFICES ASSUME NEW w \in Viewers
               PROVE  /\ frames'[w] = (IF source'[w] = Null THEN 0 ELSE 1)
                      /\ updateId'[w] <=> source'[w] # Null
    OBVIOUS
  <2>1. /\ frames'[w] = IF w \in vs /\ updateId[w] THEN frames[w] - 1 ELSE frames[w]
        /\ source'[w] = IF w \in vs THEN Null ELSE source[w]
        /\ updateId'[w] <=> (updateId[w] /\ w \notin vs)
    BY <1>0 DEF Closed
  <2> QED BY <1>4, <2>1
<1>6. frames' \in [Viewers -> Nat]
  <2>1. frames' = [w \in Viewers |-> frames'[w]]
    BY <1>0 DEF Closed
  <2> QED BY <1>5, <2>1
<1>7. OneLoop'
  BY <1>3, <1>5 DEF OneLoop
<1>8. TypeOK'
  BY <1>00, <1>2, <1>3, <1>6 DEF IInv, TypeOK
<1>9. TimerInv' /\ RequestInv' /\ CurrentInv' /\ NavigatorInv'
  BY <1>00, <1>2 DEF IInv, TimerInv, RequestInv, CurrentInv, NavigatorInv, Clock
<1> QED BY <1>7, <1>8, <1>9 DEF IInv

\* The first timer fires: what is left are the others, in their order.
LEMMA TimerFires ==
  ASSUME IInv, timers # <<>>, timers' = Tail(timers), UNCHANGED <<sequence, opened>>
  PROVE  /\ timers' \in Seq(TimerRecords)
         /\ Len(timers) \in Nat \ {0} /\ Len(timers') = Len(timers) - 1
         /\ Head(timers) = timers[1] /\ timers[1] \in TimerRecords
         /\ \A i \in Clock' : timers'[i] = timers[i + 1] /\ i + 1 \in Clock
         /\ \A i \in Clock : i # 1 => i - 1 \in Clock' /\ timers'[i - 1] = timers[i]
         /\ TimerInv'
<1>1. timers \in Seq(TimerRecords)
  BY DEF IInv, TypeOK, TimerRecords
<1>2. /\ Len(timers) \in Nat \ {0} /\ Head(timers) = timers[1] /\ Head(timers) \in TimerRecords
      /\ timers' \in Seq(TimerRecords) /\ Len(timers') = Len(timers) - 1
      /\ \A i \in 1..(Len(timers) - 1) : timers'[i] = timers[i + 1]
  BY <1>1, Fired
<1>3. \A i \in Clock' : timers'[i] = timers[i + 1] /\ i + 1 \in Clock
  BY <1>2 DEF Clock
<1>4. \A i \in Clock : i # 1 => i - 1 \in Clock' /\ timers'[i - 1] = timers[i]
  BY <1>2 DEF Clock
<1>5. TimerInv'
  BY <1>3 DEF IInv, TimerInv, Indices
<1> QED BY <1>2, <1>3, <1>4, <1>5

\* A timer of the viewer fires, and the pages stay as they are.
LEMMA NavigatorUntouched ==
  ASSUME IInv, timers # <<>>, timers' = Tail(timers), UNCHANGED <<sequence, opened>>,
         Head(timers).for = "viewer", source' = source
  PROVE  NavigatorInv'
<1> SUFFICES ASSUME source["viewer"] # Null PROVE NavigatorInv'
  BY DEF NavigatorInv
<1>1. CASE (\A i \in Clock : timers[i].for # "navigator")
           /\ source["navigator"] = source["viewer"]
  <2>1. \A i \in Clock' : timers'[i].for # "navigator"
    BY <1>1, TimerFires
  <2> QED BY <1>1, <2>1 DEF NavigatorInv
<1>2. CASE \E i \in Clock :
             /\ timers[i].for = "navigator" /\ timers[i].page = source["viewer"]
             /\ \A j \in Clock : j > i => timers[j].for # "navigator"
  <2>1. PICK i \in Clock :
             /\ timers[i].for = "navigator" /\ timers[i].page = source["viewer"]
             /\ \A j \in Clock : j > i => timers[j].for # "navigator"
    BY <1>2
  <2>2. i # 1
    BY <2>1, TimerFires
  <2>3. i - 1 \in Clock' /\ timers'[i - 1] = timers[i]
    BY <2>2, TimerFires
  <2>4. \A j \in Clock' : j > i - 1 => timers'[j].for # "navigator"
    <3>1. \A j \in Clock' : timers'[j] = timers[j + 1] /\ j + 1 \in Clock
      BY TimerFires
    <3>2. \A j \in Clock' : j > i - 1 => j + 1 > i
      BY DEF Clock
    <3> QED BY <2>1, <3>1, <3>2
  <2> QED BY <2>1, <2>3, <2>4 DEF NavigatorInv
<1> QED BY <1>1, <1>2 DEF IInv, NavigatorInv

\* The latest opening is not lost when a timer fires: it is the one that fired, or it is
\* still under way.
LEMMA CurrentStays ==
  ASSUME IInv, timers # <<>>, timers' = Tail(timers),
         UNCHANGED <<sequence, opened, message, newest, overtaken>>,
         silent' = silent \/ silent' = TRUE,
         requests \subseteq requests',
         \/ source'["viewer"] = source["viewer"]
         \/ source'["viewer"] \in {Null, TileSourceOf(sequence)},
         \/ Head(timers).for # "viewer"
         \/ Head(timers).id # opened
         \/ silent'
         \/ \E r \in requests' : r.id = opened
  PROVE  CurrentInv'
<1> SUFFICES ASSUME ~overtaken, ~silent', ~\E r \in requests' : r.id = opened
             PROVE  /\ newest <= opened
                    /\ \/ \E i \in Clock' : timers'[i].for = "viewer" /\ timers'[i].id = opened
                       \/ newest = opened
                          /\ (message \/ source'["viewer"] \in {Null, TileSourceOf(sequence)})
  BY DEF IInv, CurrentInv, TileSourceOf
<1>1. newest <= opened /\ ~silent /\ ~\E r \in requests : r.id = opened
  BY DEF IInv, CurrentInv
<1>2. CASE \E i \in Clock : timers[i].for = "viewer" /\ timers[i].id = opened
  <2>1. PICK i \in Clock : timers[i].for = "viewer" /\ timers[i].id = opened
    BY <1>2
  <2>2. i # 1
    BY <2>1, TimerFires
  <2>3. i - 1 \in Clock' /\ timers'[i - 1] = timers[i]
    BY <2>2, TimerFires
  <2> QED BY <1>1, <2>1, <2>3
<1>3. CASE newest = opened /\ (message \/ source["viewer"] \in {Null, TileSourceOf(sequence)})
  BY <1>1, <1>3
<1> QED BY <1>1, <1>2, <1>3 DEF IInv, CurrentInv

LEMMA SendStep ==
  ASSUME IInv, SendRequest \/ SendFails
  PROVE  IInv'
<1>0. /\ timers # <<>> /\ timers' = Tail(timers) /\ Head(timers).for = "viewer"
      /\ UNCHANGED <<pageVars, opened, message, navigator, viewerVars, newest, overtaken>>
  BY DEF SendRequest, SendFails
<1>00. /\ sequence' = sequence /\ nextOn' = nextOn /\ prevOn' = prevOn /\ opened' = opened
       /\ message' = message /\ navigator' = navigator /\ source' = source
       /\ frames' = frames /\ updateId' = updateId /\ forceRedraw' = forceRedraw
       /\ drawn' = drawn /\ newest' = newest /\ overtaken' = overtaken
  BY <1>0 DEF pageVars, viewerVars
<1> DEFINE r == [id |-> Head(timers).id, page |-> Head(timers).page]
<1>1. Head(timers) = timers[1] /\ timers[1] \in TimerRecords /\ 1 \in Clock
      /\ timers' \in Seq(TimerRecords) /\ TimerInv'
  <2>1. Len(timers) \in Nat \ {0}
    BY <1>0, <1>00, TimerFires
  <2> QED BY <1>0, <1>00, <2>1, TimerFires DEF Clock
<1>2. /\ Head(timers).id \in 1..opened
      /\ Head(timers).id = opened => Head(timers).page = TileSourceOf(sequence)
  BY <1>0, <1>1 DEF IInv, TimerInv
<1>3. \/ requests' = requests /\ silent' = TRUE
      \/ requests' = requests \cup {r} /\ silent' = silent /\ Head(timers).page # Null
  BY DEF SendRequest, SendFails
<1>4. RequestInv' /\ requests' \subseteq [id : 1..MaxOpens, page : Indices]
  <2>1. CASE requests' = requests
    BY <1>00, <2>1 DEF IInv, TypeOK, RequestInv
  <2>2. CASE requests' = requests \cup {r} /\ Head(timers).page # Null
    <3>1. r.id = Head(timers).id /\ r.page = Head(timers).page
      OBVIOUS
    <3>2. Head(timers).page \in Indices
      BY <1>1, <2>2 DEF TimerRecords
    <3>3. r \in [id : 1..MaxOpens, page : Indices]
      BY <1>2, <3>2, PagesAssumption DEF IInv, TypeOK
    <3> HIDE DEF r
    <3> QED BY <1>00, <1>2, <2>2, <3>1, <3>3 DEF IInv, TypeOK, RequestInv
  <2> QED BY <1>3, <2>1, <2>2
<1>5. CurrentInv'
  <2>1. silent' = silent \/ silent' = TRUE
    BY <1>3
  <2>2. requests \subseteq requests'
    BY <1>3
  <2>3. silent' \/ \E q \in requests' : q.id = Head(timers).id
    <3>1. r.id = Head(timers).id
      OBVIOUS
    <3>2. silent' = TRUE \/ r \in requests'
      BY <1>3
    <3> HIDE DEF r
    <3> QED BY <3>1, <3>2
  <2> QED BY <1>0, <1>00, <2>1, <2>2, <2>3, CurrentStays
<1>6. NavigatorInv'
  BY <1>0, <1>00, NavigatorUntouched
<1>7. TypeOK'
  BY <1>00, <1>1, <1>3, <1>4 DEF IInv, TypeOK, TimerRecords
<1>8. OneLoop'
  BY <1>00 DEF IInv, OneLoop
<1> QED BY <1>1, <1>4, <1>5, <1>6, <1>7, <1>8 DEF IInv

LEMMA OpenNavigatorStep ==
  ASSUME IInv, OpenNavigator
  PROVE  IInv'
<1> DEFINE page == Head(timers).page
           closing == IF source["navigator"] = Null THEN {} ELSE {"navigator"}
<1>0. /\ timers # <<>> /\ timers' = Tail(timers) /\ Head(timers).for = "navigator"
      /\ Reopened("navigator", closing, page)
      /\ UNCHANGED <<pageVars, requests, opened, message, navigator, historyVars>>
  BY DEF OpenNavigator
<1>00. /\ sequence' = sequence /\ nextOn' = nextOn /\ prevOn' = prevOn /\ opened' = opened
       /\ requests' = requests /\ message' = message /\ navigator' = navigator
       /\ newest' = newest /\ overtaken' = overtaken /\ silent' = silent
  BY <1>0 DEF pageVars, historyVars
<1>1. Head(timers) = timers[1] /\ 1 \in Clock
      /\ timers' \in Seq(TimerRecords) /\ TimerInv'
  <2>1. Len(timers) \in Nat \ {0}
    BY <1>0, <1>00, TimerFires
  <2> QED BY <1>0, <1>00, <2>1, TimerFires DEF Clock
<1>2. page \in Indices
  BY <1>0, <1>1 DEF IInv, TimerInv
<1>3. "navigator" \in Viewers /\ closing \in SUBSET Viewers /\ "viewer" \notin closing
      /\ (source["navigator"] = Null \/ "navigator" \in closing)
  BY DEF Viewers
<1> HIDE DEF page, closing
<1>4. /\ source' \in [Viewers -> Indices \cup {Null}]
      /\ frames' \in [Viewers -> Nat]
      /\ updateId' \in [Viewers -> BOOLEAN]
      /\ forceRedraw' \in [Viewers -> BOOLEAN]
      /\ drawn' \in [Viewers -> Indices \cup {Null}]
      /\ source'["navigator"] = page
      /\ \A w \in Viewers \ {"navigator"} : w \notin closing => source'[w] = source[w]
      /\ OneLoop'
  BY <1>0, <1>2, <1>3, ReopenedLoops DEF IInv
<1>5. source'["viewer"] = source["viewer"]
  BY <1>3, <1>4 DEF Viewers
<1>6. TypeOK'
  BY <1>00, <1>1, <1>4 DEF IInv, TypeOK, TimerRecords
<1>7. RequestInv'
  BY <1>00 DEF IInv, RequestInv
<1>8. CurrentInv'
  BY <1>0, <1>00, <1>5, CurrentStays
<1>9. NavigatorInv'
  <2> SUFFICES ASSUME source["viewer"] # Null PROVE NavigatorInv'
    BY <1>5 DEF NavigatorInv
  <2>1. PICK i \in Clock :
             /\ timers[i].for = "navigator" /\ timers[i].page = source["viewer"]
             /\ \A j \in Clock : j > i => timers[j].for # "navigator"
    BY <1>0, <1>1 DEF IInv, NavigatorInv
  <2>2. \A j \in Clock' : timers'[j] = timers[j + 1] /\ j + 1 \in Clock
    BY <1>0, <1>00, TimerFires
  <2>3. CASE i = 1
    <3>1. \A j \in Clock' : j + 1 > i
      BY <2>3 DEF Clock
    <3>2. \A j \in Clock' : timers'[j].for # "navigator"
      BY <2>1, <2>2, <3>1
    <3>3. source'["navigator"] = source'["viewer"]
      BY <1>1, <1>4, <1>5, <2>1, <2>3 DEF page
    <3> QED BY <3>2, <3>3 DEF NavigatorInv
  <2>4. CASE i # 1
    <3>1. i - 1 \in Clock' /\ timers'[i - 1] = timers[i]
      BY <1>0, <1>00, <2>4, TimerFires
    <3>2. \A j \in Clock' : j > i - 1 => j + 1 > i
      BY DEF Clock
    <3>3. \A j \in Clock' : j > i - 1 => timers'[j].for # "navigator"
      BY <2>1, <2>2, <3>2
    <3> QED BY <1>5, <2>1, <3>1, <3>3 DEF NavigatorInv
  <2> QED BY <2>3, <2>4
<1> QED BY <1>1, <1>4, <1>6, <1>7, <1>8, <1>9 DEF IInv

-----------------------------------------------------------------------------
(* The answers *)

\* Whatever an answer brings: it was for the current page, or the latest opening is as it
\* was, or it has overtaken a later one.
LEMMA AnswerKeepsCurrent ==
  ASSUME IInv, NEW r \in requests, Answered(r),
         silent' = silent \/ silent' = TRUE,
         message => message',
         \/ message' \/ silent' \/ source'["viewer"] = r.page,
         \A i \in Clock : i \in Clock' /\ timers'[i] = timers[i],
         source'["viewer"] = source["viewer"] \/ source'["viewer"] = r.page
  PROVE  /\ newest' \in 0..MaxOpens
         /\ RequestInv' /\ CurrentInv'
         /\ sequence' = sequence /\ nextOn' = nextOn /\ prevOn' = prevOn
         /\ opened' = opened
         /\ requests' = requests \ {r} /\ overtaken' \in BOOLEAN
<1>0. /\ requests' = requests \ {r} /\ sequence' = sequence /\ nextOn' = nextOn
      /\ prevOn' = prevOn /\ opened' = opened
      /\ newest' = IF r.id > newest THEN r.id ELSE newest
      /\ overtaken' = (overtaken \/ r.id < newest)
  BY DEF Answered, pageVars
<1>1. /\ r.id \in 1..opened /\ opened \in 1..MaxOpens /\ newest \in 0..MaxOpens
      /\ r.id = opened => r.page = TileSourceOf(sequence)
  BY DEF IInv, RequestInv, TypeOK
<1>2. newest' \in 0..MaxOpens /\ newest' <= opened /\ newest <= opened
  BY <1>0, <1>1, PagesAssumption DEF IInv, CurrentInv
<1>3. RequestInv'
  BY <1>0 DEF IInv, RequestInv
<1>4. overtaken' \in BOOLEAN
  BY <1>0, PagesAssumption DEF IInv, TypeOK
<1>5. CurrentInv'
  <2> SUFFICES ASSUME ~overtaken', ~silent'
               PROVE  \/ \E i \in Clock' : timers'[i].for = "viewer" /\ timers'[i].id = opened
                      \/ \E q \in requests' : q.id = opened
                      \/ /\ newest' = opened
                         /\ message' \/ source'["viewer"] \in {Null, TileSourceOf(sequence)}
    BY <1>0, <1>2 DEF CurrentInv, TileSourceOf
  <2>1. ~overtaken /\ ~silent /\ ~(r.id < newest)
    <3>1. ~silent
      BY Zenon
    <3>2. ~overtaken
      BY <1>0, Zenon
    <3>3. ~(r.id < newest)
      BY <1>0, Zenon
    <3> QED BY <3>1, <3>2, <3>3
  <2>2. CASE r.id = opened
    <3>1. newest' = opened
      BY <1>0, <1>1, <1>2, <2>2, PagesAssumption
    <3>2. message' \/ source'["viewer"] = TileSourceOf(sequence)
      BY <1>1, <2>2
    <3> QED BY <3>1, <3>2
  <2>3. CASE r.id # opened
    <3>1. CASE \E i \in Clock : timers[i].for = "viewer" /\ timers[i].id = opened
      BY <3>1
    <3>2. CASE \E q \in requests : q.id = opened
      BY <1>0, <2>3, <3>2
    <3>3. newest # opened
      BY <1>1, <2>1, <2>3, PagesAssumption
    <3> QED BY <2>1, <3>1, <3>2, <3>3 DEF IInv, CurrentInv
  <2> QED BY <2>2, <2>3
<1> QED BY <1>0, <1>2, <1>3, <1>4, <1>5

LEMMA InfoArrivesStep ==
  ASSUME IInv, NEW r \in requests, NEW a \in Answers, InfoArrives(r, a)
  PROVE  IInv'
<1> DEFINE closing == IF source["viewer"] = Null THEN {} ELSE WithNavigator
           e == Timer("navigator", r.page, 0)
<1>0. /\ Answered(r) /\ message' = message /\ silent' = silent
      /\ Reopened("viewer", closing, r.page) /\ navigator' = TRUE
      /\ timers' = Append(timers, e)
  BY DEF InfoArrives, OpenTileSource, NavigatorOpens
<1>1. r.page \in Indices
  BY DEF IInv, TypeOK
<1>2. "viewer" \in Viewers /\ closing \in SUBSET Viewers
      /\ (source["viewer"] = Null \/ "viewer" \in closing)
  BY DEF Viewers, WithNavigator
<1> HIDE DEF closing
<1>3. /\ source' \in [Viewers -> Indices \cup {Null}]
      /\ frames' \in [Viewers -> Nat]
      /\ updateId' \in [Viewers -> BOOLEAN]
      /\ forceRedraw' \in [Viewers -> BOOLEAN]
      /\ drawn' \in [Viewers -> Indices \cup {Null}]
      /\ source'["viewer"] = r.page
      /\ OneLoop'
  BY <1>0, <1>1, <1>2, ReopenedLoops DEF IInv
<1>4. e \in TimerRecords
  BY <1>1, PagesAssumption DEF Timer, TimerRecords, Viewers
<1>5. timers \in Seq(TimerRecords)
  BY DEF IInv, TypeOK, TimerRecords
<1>6. /\ timers' \in Seq(TimerRecords) /\ Len(timers') = Len(timers) + 1
      /\ \A i \in 1..Len(timers) : timers'[i] = timers[i]
      /\ timers'[Len(timers) + 1] = e
  BY <1>0, <1>4, <1>5, Appended
<1>7. e.for = "navigator" /\ e.page = r.page
  BY DEF Timer
<1> HIDE DEF e
<1>8. \A i \in Clock : i \in Clock' /\ timers'[i] = timers[i]
  BY <1>5, <1>6 DEF Clock
<1>9. /\ newest' \in 0..MaxOpens
      /\ RequestInv' /\ CurrentInv'
      /\ sequence' = sequence /\ nextOn' = nextOn /\ prevOn' = prevOn
      /\ opened' = opened
      /\ requests' = requests \ {r} /\ overtaken' \in BOOLEAN
  BY <1>0, <1>3, <1>8, AnswerKeepsCurrent
<1>10. TypeOK'
  BY <1>0, <1>3, <1>6, <1>9 DEF IInv, TypeOK, TimerRecords
<1>11. TimerInv'
  <2> SUFFICES ASSUME NEW i \in Clock'
               PROVE  /\ timers'[i].for = "viewer" =>
                           /\ timers'[i].id \in 1..opened
                           /\ timers'[i].id = opened => timers'[i].page = TileSourceOf(sequence)
                      /\ timers'[i].for = "navigator" => timers'[i].page \in Indices
    BY <1>9 DEF TimerInv, Indices, TileSourceOf
  <2>1. CASE i \in Clock
    BY <1>8, <2>1 DEF IInv, TimerInv
  <2>2. CASE i = Len(timers) + 1
    BY <1>1, <1>6, <1>7, <2>2
  <2> QED BY <1>5, <1>6, <2>1, <2>2 DEF Clock
<1>12. NavigatorInv'
  <2>1. Len(timers) + 1 \in Clock' /\ \A j \in Clock' : ~(j > Len(timers) + 1)
    BY <1>5, <1>6 DEF Clock
  <2> QED BY <1>3, <1>6, <1>7, <2>1 DEF NavigatorInv
<1> QED BY <1>3, <1>9, <1>10, <1>11, <1>12 DEF IInv

LEMMA InfoRefusedStep ==
  ASSUME IInv, NEW r \in requests, NEW a \in Answers, InfoRefused(r, a) \/ InfoUnreadable(r, a)
  PROVE  IInv'
<1>0. /\ Answered(r) /\ timers' = timers /\ navigator' = navigator
      /\ source' = source /\ frames' = frames /\ updateId' = updateId
      /\ forceRedraw' = forceRedraw /\ drawn' = drawn
      /\ \/ message' = TRUE /\ silent' = silent
         \/ message' = message /\ silent' = TRUE
  BY DEF InfoRefused, InfoUnreadable, viewerVars
<1>1. \A i \in Clock : i \in Clock' /\ timers'[i] = timers[i]
  BY <1>0 DEF Clock
<1>2. /\ newest' \in 0..MaxOpens
      /\ RequestInv' /\ CurrentInv'
      /\ sequence' = sequence /\ nextOn' = nextOn /\ prevOn' = prevOn
      /\ opened' = opened
      /\ requests' = requests \ {r} /\ overtaken' \in BOOLEAN
  <2>1. silent' = silent \/ silent' = TRUE
    BY <1>0
  <2>2. message => message'
    BY <1>0, Zenon
  <2>3. message' \/ silent'
    BY <1>0, Zenon
  <2> QED BY <1>0, <1>1, <2>1, <2>2, <2>3, AnswerKeepsCurrent
<1>3. TypeOK'
  BY <1>0, <1>2 DEF IInv, TypeOK
<1>4. TimerInv' /\ NavigatorInv' /\ OneLoop'
  BY <1>0, <1>2 DEF IInv, TimerInv, NavigatorInv, OneLoop, Clock
<1> QED BY <1>2, <1>3, <1>4 DEF IInv

LEMMA FrameStep ==
  ASSUME IInv, NEW v \in Viewers, NEW animated \in BOOLEAN, Frame(v, animated)
  PROVE  IInv'
<1>0. /\ sequence' = sequence /\ nextOn' = nextOn /\ prevOn' = prevOn /\ timers' = timers
      /\ requests' = requests /\ opened' = opened /\ message' = message
      /\ navigator' = navigator /\ source' = source
      /\ newest' = newest /\ overtaken' = overtaken /\ silent' = silent
  BY DEF Frame, pageVars, historyVars
<1>1. frames[v] > 0 /\ source[v] # Null /\ updateId[v] = TRUE
  BY DEF IInv, TypeOK, OneLoop, Frame
<1>2. updateId' = [updateId EXCEPT ![v] = TRUE] /\ frames' = frames
  BY <1>1, Zenon DEF Frame
<1>3. updateId' = updateId
  BY <1>1, <1>2 DEF IInv, TypeOK
<1>4. drawn' \in [Viewers -> Indices \cup {Null}]
  <2>1. drawn' = [drawn EXCEPT ![v] = source[v]] \/ drawn' = drawn
    BY <1>1, Zenon DEF Frame
  <2> QED BY <2>1 DEF IInv, TypeOK
<1>5. forceRedraw' \in [Viewers -> BOOLEAN]
  <2>1. forceRedraw' = [forceRedraw EXCEPT ![v] = forceRedraw[v] /\ animated]
    BY <1>1, Zenon DEF Frame
  <2>2. (forceRedraw[v] /\ animated) \in BOOLEAN
    OBVIOUS
  <2> QED BY <2>1, <2>2, Zenon DEF IInv, TypeOK
<1>6. TypeOK'
  BY <1>0, <1>2, <1>3, <1>4, <1>5 DEF IInv, TypeOK
<1>7. TimerInv' /\ RequestInv' /\ CurrentInv' /\ NavigatorInv' /\ OneLoop'
  BY <1>0, <1>2, <1>3 DEF IInv, TimerInv, RequestInv, CurrentInv, NavigatorInv, OneLoop, Clock
<1> QED BY <1>6, <1>7 DEF IInv

-----------------------------------------------------------------------------
(* The theorems *)

LEMMA Initially == Init => IInv
<1> SUFFICES ASSUME Init PROVE IInv
  OBVIOUS
<1>1. PICK start \in Starts :
        LET p == IF start.num > Pages - 1 THEN Number(Pages - 1) ELSE start
        IN /\ sequence = p
           /\ nextOn = (Pages = 1 \/ Wrap \/ p # Number(Pages - 1))
           /\ prevOn = (Wrap \/ (Pages > 1 /\ p.num > 0))
           /\ timers = <<Timer("viewer", TileSourceOf(p), 1)>>
  BY DEF Init
<1>2. /\ requests = {} /\ opened = 1 /\ message = FALSE /\ navigator = FALSE
      /\ source = [v \in Viewers |-> Null] /\ frames = [v \in Viewers |-> 0]
      /\ updateId = [v \in Viewers |-> FALSE] /\ forceRedraw = [v \in Viewers |-> FALSE]
      /\ drawn = [v \in Viewers |-> Null]
      /\ newest = 0 /\ overtaken = FALSE /\ silent = FALSE
  BY DEF Init
<1>3. sequence \in PageValues /\ InRange(sequence)
  <2>1. start \in PageValues
    BY StartAssumption
  <2> QED BY <1>1, <2>1, PagesAssumption DEF PageValues, InRange, Indices, Number
<1> DEFINE e == Timer("viewer", TileSourceOf(sequence), 1)
<1>4. timers = <<e>>
  BY <1>1
<1>5. e \in TimerRecords /\ e.for = "viewer" /\ e.id = 1 /\ e.page = TileSourceOf(sequence)
  BY <1>3, Sources, PagesAssumption DEF Timer, TimerRecords, Viewers
<1> HIDE DEF e
<1>6. timers \in Seq(TimerRecords) /\ Clock = {1} /\ timers[1] = e
  BY <1>4, <1>5 DEF Clock
<1>7. nextOn \in BOOLEAN /\ prevOn \in BOOLEAN
  BY <1>1
<1>8. TypeOK
  <2>1. requests \subseteq [id : 1..MaxOpens, page : Indices]
    BY <1>2
  <2>2. opened \in 1..MaxOpens /\ newest \in 0..MaxOpens
    BY <1>2, PagesAssumption
  <2>3. {nextOn, prevOn, message, navigator, overtaken, silent} \subseteq BOOLEAN
    BY <1>2, <1>7
  <2>4. /\ source \in [Viewers -> Indices \cup {Null}] /\ frames \in [Viewers -> Nat]
        /\ updateId \in [Viewers -> BOOLEAN] /\ forceRedraw \in [Viewers -> BOOLEAN]
        /\ drawn \in [Viewers -> Indices \cup {Null}]
    BY <1>2
  <2> QED BY <1>3, <1>6, <2>1, <2>2, <2>3, <2>4 DEF TypeOK, TimerRecords
<1>9. TimerInv /\ RequestInv /\ CurrentInv /\ NavigatorInv
  BY <1>2, <1>5, <1>6 DEF TimerInv, RequestInv, CurrentInv, NavigatorInv, Viewers
<1>10. OneLoop
  BY <1>2 DEF OneLoop
<1> QED BY <1>8, <1>9, <1>10 DEF IInv

LEMMA Inductive == IInv /\ [Next]_vars => IInv'
<1> SUFFICES ASSUME IInv, [Next]_vars PROVE IInv'
  OBVIOUS
<1>1. CASE \E n \in Indices : GoToPage(Number(n))
  <2>1. \A n \in Indices : Number(n) \in PageValues
    BY PagesAssumption DEF Number, PageValues, Indices
  <2> QED BY <1>1, <2>1, GoToPageStep
<1>2. CASE OnNext
  <2> DEFINE next == Successor(sequence)
  <2>1. next \in PageValues
    BY DEF IInv, TypeOK, PageValues, Successor, Number
  <2>2. Number(0) \in PageValues
    BY DEF Number, PageValues
  <2>3. GoToPage(next) \/ GoToPage(Number(0))
    BY <1>2 DEF OnNext
  <2> HIDE DEF next
  <2> QED BY <2>1, <2>2, <2>3, GoToPageStep
<1>3. CASE OnPrevious
  <2>1. PICK n \in Int : GoToPage(Number(n))
    BY <1>3, PagesAssumption DEF OnPrevious, IInv, TypeOK, PageValues
  <2>2. Number(n) \in PageValues
    BY <2>1, PagesAssumption DEF GoToPage, InRange, Number, PageValues, Indices
  <2> QED BY <2>1, <2>2, GoToPageStep
<1>4. CASE Close
  BY <1>4, CloseStep
<1>5. CASE TimerNext
  BY <1>5, SendStep, OpenNavigatorStep DEF TimerNext
<1>6. CASE AnswerNext
  BY <1>6, InfoArrivesStep, InfoRefusedStep DEF AnswerNext
<1>7. CASE \E v \in Viewers : FrameNext(v)
  BY <1>7, FrameStep DEF FrameNext
<1>8. CASE UNCHANGED vars
  BY <1>8 DEF vars, pageVars, viewerVars, historyVars, IInv, TypeOK, TimerInv, RequestInv,
     CurrentInv, NavigatorInv, OneLoop, Clock
<1> QED BY <1>1, <1>2, <1>3, <1>4, <1>5, <1>6, <1>7, <1>8 DEF Next, UserNext

\* Every variable keeps its type, and pages, timers, requests and loops stay matched.
THEOREM PagesInvariant == Spec => []IInv
  BY Initially, Inductive, PTL DEF Spec

\* However openings and closings interleave, a viewer with a page has one loop of
\* animation frames and a viewer without one has none (openTileSource, close).
THEOREM OneLoopEach == Spec => []OneLoop
<1>1. IInv => OneLoop
  BY DEF IInv
<1> QED BY <1>1, PagesInvariant, PTL

\* Once its timers have fired the navigator shows what the viewer shows (Navigator.open).
THEOREM TheNavigatorFollows == Spec => []NavigatorFollows
<1>1. IInv => NavigatorFollows
  BY DEF IInv, NavigatorInv, NavigatorFollows, Clock
<1> QED BY <1>1, PagesInvariant, PTL

\* Answers that come in order leave the viewer on the current page, or with a message
\* (goToPage, openTileSource).
THEOREM SettlesOnCurrentPage == Spec => []SettledPage
<1>1. IInv => SettledPage
  BY DEF IInv, CurrentInv, SettledPage, Clock
<1> QED BY <1>1, PagesInvariant, PTL
=============================================================================
