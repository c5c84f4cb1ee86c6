---------------------------- MODULE MetadataCache ----------------------------
(***************************************************************************)
(* info.freelibrary.djatoka.view.ImageServlet.getHeightWidthAndLevels: an  *)
(* info request is answered from an XML file beside the image's tiles. If  *)
(* the file is missing or empty, the servlet creates it, asks its own      *)
(* server for the metadata over HTTP (OpenURLJP2KMetadata), and writes the *)
(* file while it answers. The thread waits for a second thread of the same *)
(* pool, and nothing guards the file.                                      *)
(***************************************************************************)
EXTENDS Naturals, FiniteSets

CONSTANTS
  Threads,      \* the container's pool of threads
  Clients,      \* how many info requests are under way at most
  Ids,          \* identifiers; also the metadata of the image so named
  Images,       \* those of Ids that are images
  Null,         \* no thread, no identifier, no metadata
  Absent,       \* the content of a file that does not exist
  Empty,        \* the content of a file of length 0
  MaxRequests,  \* bound: the requests in a behaviour
  MaxFaults,    \* bound: the failures of the metadata service in a behaviour
  MaxCrashes    \* bound: the restarts in a behaviour

ASSUME ImagesAssumption == Images \subseteq Ids
ASSUME ContentAssumption ==
  /\ Absent # Empty
  /\ Null \notin Ids \cup Threads
  /\ {Absent, Empty} \cap (Ids \cup {Null}) = {}
ASSUME BoundsAssumption ==
  Clients \in Nat /\ MaxRequests \in Nat /\ MaxFaults \in Nat /\ MaxCrashes \in Nat

VARIABLES
  xmlFile,    \* identifier -> the content of its file
  pc,         \* where each thread is
  want,       \* the identifier an info request asks for
  named,      \* whether the file behind a thread's outStream has its name still
  caller,     \* the thread whose call a thread of the pool answers
  info,       \* width, height and levels: the metadata a thread has
  status,     \* of the response
  excused,    \* whether another request for the identifier, or a failure of
              \* the metadata service, came between; kept for a property
  asked, faults, crashes   \* counters

fileVars == <<xmlFile, named>>
answerVars == <<info, status>>
countVars == <<asked, faults, crashes>>
vars == <<fileVars, pc, want, caller, answerVars, excused, countVars>>

GoTo(t, to) == pc' = [pc EXCEPT ![t] = to]

\* Threads that answer an info request.
Asking == {t \in Threads : want[t] # Null}

-----------------------------------------------------------------------------
Init ==
  /\ xmlFile = [i \in Ids |-> Absent]
  /\ pc = [t \in Threads |-> "idle"]
  /\ want = [t \in Threads |-> Null]
  /\ named = [t \in Threads |-> FALSE]
  /\ caller = [t \in Threads |-> Null]
  /\ info = [t \in Threads |-> Null]
  /\ status = [t \in Threads |-> "none"]
  /\ excused = [t \in Threads |-> FALSE]
  /\ asked = 0 /\ faults = 0 /\ crashes = 0

\* ImageServlet.doGet, an InfoRequest.
Receive(t, i) ==
  /\ pc[t] = "idle"
  /\ Cardinality(Asking) < Clients
  /\ asked < MaxRequests
  /\ asked' = asked + 1
  /\ want' = [want EXCEPT ![t] = i]
  /\ excused' = [u \in Threads |-> IF u = t THEN \E r \in Asking : want[r] = i
                                   ELSE excused[u] \/ want[u] = i]
  /\ GoTo(t, "look")
  /\ UNCHANGED <<fileVars, caller, answerVars, faults, crashes>>

\* Slip: the file is made anew each time.
LookNowhere(t) ==
  /\ pc[t] = "look"
  /\ GoTo(t, "clear")
  /\ UNCHANGED <<fileVars, want, caller, answerVars, excused, countVars>>

\* Slip: a file that exists is taken for a file with something in it.
LookForFile(t) ==
  /\ pc[t] = "look"
  /\ GoTo(t, IF xmlFile[want[t]] # Absent THEN "read" ELSE "clear")
  /\ UNCHANGED <<fileVars, want, caller, answerVars, excused, countVars>>

\* exists() and length() > 0: the second says it all.
Look(t) ==
  /\ pc[t] = "look"
  /\ GoTo(t, IF xmlFile[want[t]] \in {Absent, Empty} THEN "clear" ELSE "read")
  /\ UNCHANGED <<fileVars, want, caller, answerVars, excused, countVars>>

\* The file is opened and parsed. By now it may be gone, which is answered like
\* a missing image, or be empty again, which does not parse.
Read(t) ==
  LET xml == xmlFile[want[t]]
  IN /\ pc[t] = "read"
     /\ info' = [info EXCEPT ![t] = IF xml \in {Absent, Empty} THEN Null ELSE xml]
     /\ status' = [status EXCEPT ![t] = CASE xml = Absent -> "notFound"
                                          [] xml = Empty -> "error"
                                          [] OTHER -> "ok"]
     /\ GoTo(t, "sent")
     /\ UNCHANGED <<fileVars, want, caller, excused, countVars>>

\* A file that exists now is deleted later, whatever it holds by then.
CheckExists(t) ==
  /\ pc[t] = "clear"
  /\ GoTo(t, IF xmlFile[want[t]] = Absent THEN "create" ELSE "delete")
  /\ UNCHANGED <<fileVars, want, caller, answerVars, excused, countVars>>

\* Streams that write to the file go on writing to it, without a name.
Delete(t) ==
  /\ pc[t] = "delete"
  /\ xmlFile' = [xmlFile EXCEPT ![want[t]] = Absent]
  /\ named' = [u \in Threads |-> named[u] /\ want[u] # want[t]]
  /\ GoTo(t, "create")
  /\ UNCHANGED <<want, caller, answerVars, excused, countVars>>

\* new FileOutputStream creates the file, or makes it empty.
Create(t) ==
  /\ pc[t] = "create"
  /\ xmlFile' = [xmlFile EXCEPT ![want[t]] = Empty]
  /\ named' = [named EXCEPT ![t] = TRUE]
  /\ GoTo(t, "call")
  /\ UNCHANGED <<want, caller, answerVars, excused, countVars>>

-----------------------------------------------------------------------------
(* The request to the own server *)

\* The connection waits in the container's queue until a thread u is free. The
\* calling thread waits for it without a timeout.
Accept(t, u) ==
  /\ pc[t] = "call"
  /\ pc[u] = "idle"
  /\ pc' = [pc EXCEPT ![t] = "called", ![u] = "metadata"]
  /\ caller' = [caller EXCEPT ![u] = t]
  /\ UNCHANGED <<fileVars, want, answerVars, excused, countVars>>

\* Slip: the metadata service's thread stays with the connection.
AnswerAndStay(u) ==
  LET t == caller[u]
  IN /\ pc[u] = "metadata" /\ pc[t] = "called"
     /\ info' = [info EXCEPT ![t] = want[t]]
     /\ GoTo(t, "write")
     /\ UNCHANGED <<fileVars, want, caller, status, excused, countVars>>

\* Slip: an image that cannot be found is answered 200.
AnswerWithoutStatus(u) ==
  LET t == caller[u]
  IN /\ pc[u] = "metadata"
     /\ info' = [info EXCEPT ![t] = want[t]]
     /\ pc' = [pc EXCEPT ![t] = "write", ![u] = "idle"]
     /\ caller' = [caller EXCEPT ![u] = Null]
     /\ UNCHANGED <<fileVars, want, status, excused, countVars>>

\* OpenURLJP2KMetadata answers 200, or 404 if there is no such image; openStream
\* makes a FileNotFoundException of the 404, and doGet a 404 of that.
Answer(u) ==
  LET t == caller[u]
      known == want[t] \in Images
  IN /\ pc[u] = "metadata"
     /\ info' = [info EXCEPT ![t] = IF known THEN want[t] ELSE Null]
     /\ status' = [status EXCEPT ![t] = IF known THEN @ ELSE "notFound"]
     /\ pc' = [pc EXCEPT ![t] = IF known THEN "write" ELSE "close", ![u] = "idle"]
     /\ caller' = [caller EXCEPT ![u] = Null]
     /\ UNCHANGED <<fileVars, want, excused, countVars>>

\* A failure although the image may exist: a DjatokaException is answered 404, anything
\* else 500, and the info request is answered alike.
AnswerFails(u) ==
  LET t == caller[u]
  IN /\ pc[u] = "metadata"
     /\ faults < MaxFaults
     /\ faults' = faults + 1
     /\ \E s \in {"notFound", "error"} : status' = [status EXCEPT ![t] = s]
     /\ excused' = [excused EXCEPT ![t] = TRUE]
     /\ pc' = [pc EXCEPT ![t] = "close", ![u] = "idle"]
     /\ caller' = [caller EXCEPT ![u] = Null]
     /\ UNCHANGED <<fileVars, want, info, asked, crashes>>

\* The serializer's buffer is written at once, over whatever the file holds.
Write(t) ==
  /\ pc[t] = "write"
  /\ xmlFile' = IF named[t] THEN [xmlFile EXCEPT ![want[t]] = info[t]] ELSE xmlFile
  /\ status' = [status EXCEPT ![t] = "ok"]
  /\ GoTo(t, "close")
  /\ UNCHANGED <<named, want, caller, info, excused, countVars>>

\* The finally block. A file that was not written stays as it is: empty.
Close(t) ==
  /\ pc[t] = "close"
  /\ named' = [named EXCEPT ![t] = FALSE]
  /\ GoTo(t, "sent")
  /\ UNCHANGED <<xmlFile, want, caller, answerVars, excused, countVars>>

Finish(t) ==
  /\ pc[t] = "sent"
  /\ want' = [want EXCEPT ![t] = Null]
  /\ info' = [info EXCEPT ![t] = Null]
  /\ status' = [status EXCEPT ![t] = "none"]
  /\ excused' = [excused EXCEPT ![t] = FALSE]
  /\ GoTo(t, "idle")
  /\ UNCHANGED <<fileVars, caller, countVars>>

\* The server is killed and started again: files stay as they are.
Crash ==
  /\ crashes < MaxCrashes
  /\ crashes' = crashes + 1
  /\ pc' = [t \in Threads |-> "idle"]
  /\ want' = [t \in Threads |-> Null]
  /\ named' = [t \in Threads |-> FALSE]
  /\ caller' = [t \in Threads |-> Null]
  /\ info' = [t \in Threads |-> Null]
  /\ status' = [t \in Threads |-> "none"]
  /\ excused' = [t \in Threads |-> FALSE]
  /\ UNCHANGED <<xmlFile, asked, faults>>

-----------------------------------------------------------------------------
\* The metadata service finds the image's record, which may download the image from a
\* remote host first, and has the image's header read by an external process.
Serve(u) == Answer(u) \/ AnswerFails(u)

Run(t) ==
  \/ Look(t) \/ Read(t)
  \/ CheckExists(t) \/ Delete(t) \/ Create(t)
  \/ Write(t) \/ Close(t) \/ Finish(t)

Next ==
  \/ \E t \in Threads, i \in Ids : Receive(t, i)
  \/ \E t, u \in Threads : Accept(t, u)
  \/ \E t \in Threads : Run(t) \/ Serve(t)
  \/ Crash

\* Threads run where they wait for nobody, and a free thread takes the connections in
\* their order, so that none is passed over for ever. Nothing is said of Serve: the
\* sockets of a download have no timeouts.
Fairness ==
  \A t \in Threads : WF_vars(Run(t)) /\ SF_vars(\E u \in Threads : Accept(t, u))

Spec == Init /\ [][Next]_vars /\ Fairness

-----------------------------------------------------------------------------
(* Properties *)

PCs == {"idle", "look", "read", "clear", "delete", "create", "call", "called",
        "write", "close", "sent", "metadata"}

\* Every variable has its type.
TypeOK ==
  /\ xmlFile \in [Ids -> Ids \cup {Absent, Empty}]
  /\ pc \in [Threads -> PCs]
  /\ want \in [Threads -> Ids \cup {Null}]
  /\ named \in [Threads -> BOOLEAN]
  /\ caller \in [Threads -> Threads \cup {Null}]
  /\ info \in [Threads -> Ids \cup {Null}]
  /\ status \in [Threads -> {"none", "ok", "notFound", "error"}]
  /\ excused \in [Threads -> BOOLEAN]
  /\ asked \in 0..MaxRequests
  /\ faults \in 0..MaxFaults
  /\ crashes \in 0..MaxCrashes

\* An info response with status 200 states the size of the image asked for, an
\* image that exists, although other requests empty, delete and write the file
\* between this request's look and its reading.
InfoIsRight ==
  \A t \in Threads :
    status[t] = "ok" => info[t] = want[t] /\ want[t] \in Images

\* A request that no other request for the image crosses finds an image that
\* exists, whatever stubs earlier requests, failures and restarts have left.
AloneFindsImage ==
  \A t \in Threads :
    status[t] \in {"notFound", "error"} /\ want[t] \in Images => excused[t]

\* A written file stays once the requests that were under way are over: no later
\* request deletes or empties it.
MetadataStays ==
  \A i \in Images :
    []((\A t \in Threads : want[t] # i) /\ xmlFile[i] = i => [](xmlFile[i] = i))

\* As long as fewer info requests are under way than the pool has threads, each of
\* them finds a thread for the metadata and is answered - if every call of the metadata
\* service comes to an end. One that hangs in a download keeps two threads of the pool,
\* and then others wait with it.
EveryInfoAnswered ==
  Clients < Cardinality(Threads) =>
    ((\A u \in Threads : WF_vars(Serve(u))) =>
       \A t \in Threads : pc[t] = "look" ~> pc[t] = "idle")
=============================================================================
