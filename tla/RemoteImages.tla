---------------------------- MODULE RemoteImages ----------------------------
(***************************************************************************)
(* info.freelibrary.djatoka.view.IdentifierResolver together with          *)
(* gov.lanl.adore.djatoka.openurl.DjatokaImageMigrator: request threads    *)
(* that look for a JP2 in the Pairtree, and if it is not there download it *)
(* from one of the configured hosts into its final place. The migrator's   *)
(* list of identifiers in process is read by one thread and changed by     *)
(* another; no lock is held over a lookup and the download it leads to.    *)
(***************************************************************************)
EXTENDS Naturals, FiniteSets

CONSTANTS
  Threads,      \* the container's request threads
  Ids,          \* image identifiers
  Absent,       \* the content of a file that does not exist
  Null,         \* no identifier
  Hosts,        \* how many ingest hosts are configured
  Size,         \* the parts an image arrives in
  MaxPolls,     \* how often a waiting thread looks again (300 in the code)
  Faults,       \* what may go wrong
  MaxRequests,  \* bound: the requests in a behaviour
  MaxCrashes,   \* bound: the restarts in a behaviour
  MaxFaults     \* bound: the faults in a behaviour

(* Faults: "connect"  a connection cannot be opened                        *)
(*         "empty"    a stream ends before its first part                  *)
(*         "broken"   a stream ends after some of its parts                *)
(*         "pairtree" the directory of the images cannot be read           *)

ASSUME CountsAssumption ==
  /\ Hosts \in Nat \ {0}
  /\ Size \in Nat \ {0}
  /\ MaxPolls \in Nat
  /\ MaxRequests \in Nat
  /\ MaxCrashes \in Nat
  /\ MaxFaults \in Nat
ASSUME ThreadsAssumption == IsFiniteSet(Threads)
ASSUME NoIdAssumption == Null \notin Ids

VARIABLES
  file,        \* identifier -> the parts its file in the Pairtree holds
  processing,  \* identifier -> its occurrences in the migrator's list
  remote,      \* the keys of myRemoteImages
  pc,          \* where each thread is
  want,        \* the identifier a thread is asked for
  host,        \* the host whose turn it is
  polls,       \* the local index
  offset,      \* the parts a thread has written
  attached,    \* whether the file a thread writes to still has its name
  result,      \* what getImageRecordForId returns, and from where
  asked,       \* the requests made so far
  crashes,     \* the restarts so far
  faults,      \* the faults so far
  unread       \* whether one of them was "pairtree"

listVars == <<processing, remote>>
streamVars == <<offset, attached>>
requestVars == <<want, host, polls, result>>
countVars == <<asked, crashes, faults, unread>>
vars == <<file, listVars, pc, streamVars, requestVars, countVars>>

Parts == 1..Size

ASSUME AbsentAssumption == \A content \in SUBSET Parts : content # Absent

Length(content) == IF content = Absent THEN 0 ELSE Cardinality(content)
GoTo(t, to) == pc' = [pc EXCEPT ![t] = to]

\* Inside DjatokaImageMigrator.convert.
Converting(t) ==
  pc[t] \in {"connect", "create", "available", "copy", "stub", "delete", "leave", "failed"}

-----------------------------------------------------------------------------
Init ==
  /\ file = [i \in Ids |-> Absent]
  /\ processing = [i \in Ids |-> 0]
  /\ remote = {}
  /\ pc = [t \in Threads |-> "idle"]
  /\ want = [t \in Threads |-> Null]
  /\ host = [t \in Threads |-> 1]
  /\ polls = [t \in Threads |-> 0]
  /\ offset = [t \in Threads |-> 0]
  /\ attached = [t \in Threads |-> FALSE]
  /\ result = [t \in Threads |-> "none"]
  /\ asked = 0
  /\ crashes = 0
  /\ faults = 0
  /\ unread = FALSE

\* Something goes wrong, which the network may do MaxFaults times.
Fault(kind) ==
  /\ kind \in Faults
  /\ faults < MaxFaults
  /\ faults' = faults + 1

Request(t, i) ==
  /\ pc[t] = "idle"
  /\ asked < MaxRequests
  /\ asked' = asked + 1
  /\ want' = [want EXCEPT ![t] = i]
  /\ GoTo(t, "cached")
  /\ UNCHANGED <<file, listVars, streamVars, host, polls, result, crashes, faults, unread>>

-----------------------------------------------------------------------------
(* IdentifierResolver.getImageRecordForId and getRemoteImage *)

\* Slip: only the images of this run of the server are looked for.
GetCachedInMemory(t) ==
  LET found == want[t] \in remote
  IN /\ pc[t] = "cached"
     /\ result' = [result EXCEPT ![t] = IF found THEN "cached" ELSE "none"]
     /\ GoTo(t, IF found THEN "return" ELSE "check")
     /\ UNCHANGED <<file, listVars, streamVars, want, host, polls, countVars>>

\* getCachedImage asks only whether the file exists.
GetCachedImage(t) ==
  LET found == file[want[t]] # Absent
  IN /\ pc[t] = "cached"
     /\ result' = [result EXCEPT ![t] = IF found THEN "cached" ELSE "none"]
     /\ GoTo(t, IF found THEN "return" ELSE "check")
     /\ UNCHANGED <<file, listVars, streamVars, want, host, polls, countVars>>

\* After an IOException getCachedImage returns null, as if there were no such file.
LookupFails(t) ==
  /\ pc[t] = "cached"
  /\ Fault("pairtree")
  /\ unread' = TRUE
  /\ GoTo(t, "check")
  /\ UNCHANGED <<file, listVars, streamVars, requestVars, asked, crashes>>

CheckProcessing(t) ==
  /\ pc[t] = "check"
  /\ polls' = [polls EXCEPT ![t] = 0]
  /\ GoTo(t, IF processing[want[t]] > 0 THEN "wait" ELSE "convert")
  /\ UNCHANGED <<file, listVars, streamVars, want, host, result, countVars>>

Poll(t) ==
  LET again == processing[want[t]] > 0 /\ polls[t] < MaxPolls
  IN /\ pc[t] = "wait"
     /\ polls' = [polls EXCEPT ![t] = IF again THEN @ + 1 ELSE @]
     /\ GoTo(t, IF again THEN "wait" ELSE "retrieve")
     /\ UNCHANGED <<file, listVars, streamVars, want, host, result, countVars>>

\* What another thread has fetched is used; otherwise this thread fetches,
\* whether the other one has failed or is not done yet.
Retrieve(t) ==
  LET found == want[t] \in remote
  IN /\ pc[t] = "retrieve"
     /\ result' = [result EXCEPT ![t] = IF found THEN "remote" ELSE @]
     /\ GoTo(t, IF found THEN "return" ELSE "convert")
     /\ UNCHANGED <<file, listVars, streamVars, want, host, polls, countVars>>

\* Back from convert. The record is made before the length is looked at, so it
\* is returned although the ResolverException for an empty file is thrown.
Measure(t) ==
  LET fetched == Length(file[want[t]]) > 0
  IN /\ pc[t] = "measure"
     /\ remote' = IF fetched THEN remote \cup {want[t]} ELSE remote
     /\ result' = [result EXCEPT ![t] = IF fetched THEN "fetched" ELSE "empty"]
     /\ GoTo(t, "return")
     /\ UNCHANGED <<file, processing, streamVars, want, host, polls, countVars>>

Return(t) ==
  /\ pc[t] = "return"
  /\ want' = [want EXCEPT ![t] = Null]
  /\ host' = [host EXCEPT ![t] = 1]
  /\ polls' = [polls EXCEPT ![t] = 0]
  /\ offset' = [offset EXCEPT ![t] = 0]
  /\ result' = [result EXCEPT ![t] = "none"]
  /\ GoTo(t, "idle")
  /\ UNCHANGED <<file, listVars, attached, countVars>>

-----------------------------------------------------------------------------
(* DjatokaImageMigrator.convert, its Pairtree branch *)

AddToList(t) ==
  /\ pc[t] = "convert"
  /\ processing' = [processing EXCEPT ![want[t]] = @ + 1]
  /\ GoTo(t, "connect")
  /\ UNCHANGED <<file, remote, streamVars, requestVars, countVars>>

Connect(t) ==
  /\ pc[t] = "connect"
  /\ GoTo(t, "create")
  /\ UNCHANGED <<file, listVars, streamVars, requestVars, countVars>>

ConnectFails(t) ==
  /\ pc[t] = "connect"
  /\ Fault("connect")
  /\ GoTo(t, "failed")
  /\ UNCHANGED <<file, listVars, streamVars, requestVars, asked, crashes, unread>>

\* new FileOutputStream creates the file or, if it is there, truncates it; other
\* threads' streams go on at their offsets.
Create(t) ==
  /\ pc[t] = "create"
  /\ file' = [file EXCEPT ![want[t]] = {}]
  /\ attached' = [attached EXCEPT ![t] = TRUE]
  /\ offset' = [offset EXCEPT ![t] = 0]
  /\ GoTo(t, "available")
  /\ UNCHANGED <<listVars, requestVars, countVars>>

\* Nothing available yet: the connection is opened again.
Reopen(t) ==
  /\ pc[t] = "available"
  /\ GoTo(t, "copy")
  /\ UNCHANGED <<file, listVars, streamVars, requestVars, countVars>>

ReopenFails(t) ==
  /\ pc[t] = "available"
  /\ Fault("connect")
  /\ attached' = [attached EXCEPT ![t] = FALSE]
  /\ GoTo(t, "failed")
  /\ UNCHANGED <<file, listVars, offset, requestVars, asked, crashes, unread>>

\* One part arrives and is written where the thread is in the file.
Copy(t) ==
  /\ pc[t] = "copy"
  /\ offset[t] < Size
  /\ offset' = [offset EXCEPT ![t] = @ + 1]
  /\ file' = IF attached[t]
             THEN [file EXCEPT ![want[t]] = @ \cup {offset[t] + 1}] ELSE file
  /\ UNCHANGED <<listVars, pc, attached, requestVars, countVars>>

\* Slip: the loop ends one part early.
CopyEndsEarly(t) ==
  /\ pc[t] = "copy"
  /\ offset[t] + 1 >= Size
  /\ attached' = [attached EXCEPT ![t] = FALSE]
  /\ GoTo(t, "stub")
  /\ UNCHANGED <<file, listVars, offset, requestVars, countVars>>

\* Slip: the end of the stream is not recognised.
CopyNeverEnds(t) ==
  /\ pc[t] = "copy"
  /\ offset[t] = Size
  /\ UNCHANGED vars

\* The stream ends.
CopyEnds(t) ==
  /\ pc[t] = "copy"
  /\ offset[t] = Size
  /\ attached' = [attached EXCEPT ![t] = FALSE]
  /\ GoTo(t, "stub")
  /\ UNCHANGED <<file, listVars, offset, requestVars, countVars>>

\* The stream ends before its time; that copyStream returned false is not looked
\* at.
CopyBreaks(t) ==
  /\ pc[t] = "copy"
  /\ offset[t] < Size
  /\ IF offset[t] = 0 THEN Fault("empty") ELSE Fault("broken")
  /\ attached' = [attached EXCEPT ![t] = FALSE]
  /\ GoTo(t, "stub")
  /\ UNCHANGED <<file, listVars, offset, requestVars, asked, crashes, unread>>

CheckStub(t) ==
  /\ pc[t] = "stub"
  /\ GoTo(t, IF Length(file[want[t]]) = 0 THEN "delete" ELSE "leave")
  /\ UNCHANGED <<file, listVars, streamVars, requestVars, countVars>>

\* A thread that is writing to the file goes on writing to it, without a name.
DeleteStub(t) ==
  /\ pc[t] = "delete"
  /\ file' = [file EXCEPT ![want[t]] = Absent]
  /\ attached' = [u \in Threads |-> attached[u] /\ want[u] # want[t]]
  /\ GoTo(t, "leave")
  /\ UNCHANGED <<listVars, offset, requestVars, countVars>>

\* The finally block.
RemoveFromList(t) == processing' = [processing EXCEPT ![want[t]] = @ - 1]

Leave(t) ==
  /\ pc[t] = "leave"
  /\ RemoveFromList(t)
  /\ GoTo(t, "measure")
  /\ UNCHANGED <<file, remote, streamVars, requestVars, countVars>>

\* Slip: the identifier stays in the list when convert throws.
LeaveFailedListed(t) ==
  /\ pc[t] = "failed"
  /\ host' = [host EXCEPT ![t] = IF @ < Hosts THEN @ + 1 ELSE @]
  /\ GoTo(t, IF host[t] < Hosts THEN "check" ELSE "return")
  /\ UNCHANGED <<file, listVars, streamVars, want, polls, result, countVars>>

\* After an exception getRemoteImage returns null, and the next host is tried.
LeaveFailed(t) ==
  /\ pc[t] = "failed"
  /\ RemoveFromList(t)
  /\ host' = [host EXCEPT ![t] = IF @ < Hosts THEN @ + 1 ELSE @]
  /\ GoTo(t, IF host[t] < Hosts THEN "check" ELSE "return")
  /\ UNCHANGED <<file, remote, streamVars, want, polls, result, countVars>>

-----------------------------------------------------------------------------
\* The server is killed and started again: files stay as they are.
Crash ==
  /\ crashes < MaxCrashes
  /\ crashes' = crashes + 1
  /\ processing' = [i \in Ids |-> 0]
  /\ remote' = {}
  /\ pc' = [t \in Threads |-> "idle"]
  /\ want' = [t \in Threads |-> Null]
  /\ host' = [t \in Threads |-> 1]
  /\ polls' = [t \in Threads |-> 0]
  /\ offset' = [t \in Threads |-> 0]
  /\ attached' = [t \in Threads |-> FALSE]
  /\ result' = [t \in Threads |-> "none"]
  /\ UNCHANGED <<file, asked, faults, unread>>

\* Steps that wait for the network; the sockets have no timeouts.
Network(t) ==
  \/ Connect(t) \/ ConnectFails(t)
  \/ Reopen(t) \/ ReopenFails(t)
  \/ Copy(t) \/ CopyEnds(t) \/ CopyBreaks(t)

Local(t) ==
  \/ GetCachedImage(t) \/ LookupFails(t) \/ CheckProcessing(t) \/ Poll(t) \/ Retrieve(t)
  \/ AddToList(t) \/ Create(t) \/ CheckStub(t) \/ DeleteStub(t)
  \/ Leave(t) \/ LeaveFailed(t)
  \/ Measure(t) \/ Return(t)

Next ==
  \/ \E t \in Threads : (\E i \in Ids : Request(t, i)) \/ Network(t) \/ Local(t)
  \/ Crash

\* Threads run, but a host may stop sending without closing the connection.
LocalFairness == \A t \in Threads : WF_vars(Local(t))
\* Every host goes on answering, or the connection breaks. Not assumed by Spec.
NetworkFairness == \A t \in Threads : WF_vars(Network(t))

Spec == Init /\ [][Next]_vars /\ LocalFairness

-----------------------------------------------------------------------------
(* Properties *)

\* Every variable has its type.
TypeOK ==
  /\ file \in [Ids -> (SUBSET Parts) \cup {Absent}]
  /\ processing \in [Ids -> Nat]
  /\ remote \subseteq Ids
  /\ pc \in [Threads -> {"idle", "cached", "check", "wait", "retrieve", "convert",
                         "connect", "create", "available", "copy", "stub", "delete",
                         "leave", "failed", "measure", "return"}]
  /\ want \in [Threads -> Ids \cup {Null}]
  /\ host \in [Threads -> 1..Hosts]
  /\ polls \in [Threads -> 0..MaxPolls]
  /\ offset \in [Threads -> 0..Size]
  /\ attached \in [Threads -> BOOLEAN]
  /\ result \in [Threads -> {"none", "cached", "remote", "fetched", "empty"}]
  /\ asked \in 0..MaxRequests
  /\ crashes \in 0..MaxCrashes
  /\ faults \in 0..MaxFaults
  /\ unread \in BOOLEAN

\* The migrator's list holds an identifier once for every thread that is
\* downloading it, whatever fails: no waiting thread waits for a download that
\* is over, and none overlooks one by another thread's leaving the list.
ListMatchesDownloads ==
  \A i \in Ids :
    processing[i] = Cardinality({t \in Threads : want[t] = i /\ Converting(t)})

\* As long as nothing has gone wrong on the network and the server has not been
\* killed, a file nobody is writing is complete, however many threads truncated,
\* wrote and deleted it at once.
QuietFilesAreComplete ==
  crashes = 0 /\ faults = 0 =>
    \A i \in Ids : processing[i] = 0 => file[i] \in {Absent, Parts}

\* Once an image is complete and no request is under way, no later request
\* truncates or deletes it, whatever fails on the network and however often the server
\* starts; but a thread that could not read the Pairtree takes the image for missing.
StoredForGood ==
  \A i \in Ids :
    []((\A t \in Threads : pc[t] = "idle") /\ file[i] = Parts =>
         [](file[i] = Parts \/ unread))

\* If hosts answer, every request is answered.
EveryRequestReturns ==
  NetworkFairness => \A t \in Threads : pc[t] = "cached" ~> pc[t] = "idle"
=============================================================================
