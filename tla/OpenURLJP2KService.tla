------------------------- MODULE OpenURLJP2KService -------------------------
(***************************************************************************)
(* gov.lanl.adore.djatoka.openurl.OpenURLJP2KService: servlet threads that *)
(* answer region requests through the shared tile cache. resolve() looks   *)
(* the tile up, and on a miss extracts it into a temporary file, looks the *)
(* tile up again, and puts the file into the cache or keeps it to itself.  *)
(* Each lookup holds the cache's lock; nothing is held between them.       *)
(***************************************************************************)
EXTENDS TileCacheManager

CONSTANTS
  Threads,           \* the container's request threads
  Regions,           \* an image together with a region of it
  Whole,             \* those of Regions that ask for no region (the whole image)
  Dims,              \* scales given in pixels
  Factors,           \* scales given as a factor other than 1.0
  Ones,              \* the factor 1.0, but not as "full": a percentage of 100
  ExceptionFactors,  \* OpenURLJP2KService.scaleCacheExceptions
  Full,              \* the factor 1.0, also written "full"
  Faults,            \* what may go wrong besides the program's own doing
  MaxRequests        \* bound: the requests in a behaviour

(* Faults: "record"  the image record is not found or not resolved          *)
(*         "decode"  the extraction throws a DjatokaException               *)
(*         "exec"    the extraction returns without an image: the process   *)
(*                   could not be started, KduExtractExe logs the IOException *)
(*         "rename"  (ImageServlet) the file cannot be renamed              *)

Views == [region : Regions, scale : Dims \cup Factors \cup Ones \cup {Full}]

\* What resolve reads from the scale parameter.
ScalingFactor(v) == IF v.scale \in Dims \cup Ones THEN Full ELSE v.scale
ScalingDims(v) == IF v.scale \in Dims THEN v.scale ELSE Full

\* The picture the extractor makes of these parameters.
Picture(v) == <<v.region, ScalingFactor(v), ScalingDims(v)>>

\* Slip: the scaling factor is left out of the digest.
TileHashWithoutFactor(v) == <<v.region, Full, ScalingDims(v)>>

\* The digest of the same parameters. A picture and its hash are written alike.
TileHash(v) == <<v.region, ScalingFactor(v), ScalingDims(v)>>

\* A scaled whole image is cached only at the factors the configuration names.
IsCacheable(v) ==
  ScalingFactor(v) \in {Full} \cup ExceptionFactors \/ v.region \notin Whole

ASSUME HashAssumption ==
  \A v \in Views : TileHash(v) \in Keys /\ Picture(v) \in Keys
ASSUME RequestAssumption == MaxRequests \in Nat /\ 1..MaxRequests \subseteq Paths
ASSUME ViewAssumption == Null \notin Views

VARIABLES
  pc,         \* where each thread is
  asked,      \* the requests made so far
  id,         \* the number of a thread's request; names its temporary file
  view,       \* what it asks for
  file,       \* the local file
  branch,     \* which of the three reads of resolve the thread is in
  cacheFile,  \* djatokaCacheFile: the file the session is told of
  status,     \* of the response
  bytes       \* of the response

requestVars == <<asked, id, view>>
responseVars == <<status, bytes>>
localVars == <<pc, requestVars, file, branch, cacheFile, responseVars>>
serviceVars == <<tileVars, localVars>>

ServicePCs == {"record", "render", "lookup", "create", "extract", "recheck",
               "put", "open", "measure", "respond"}

GoTo(t, to) == pc' = [pc EXCEPT ![t] = to]
Hash(t) == TileHash(view[t])

\* The file a request creates: no other request's.
TempFile(t) == id[t]

\* The length resolve and getBytesFromFile see: 0 for a missing file too.
Length(content) == IF content \in {Empty, Absent} THEN 0 ELSE 1

-----------------------------------------------------------------------------
ServiceInit ==
  /\ Init
  /\ pc = [t \in Threads |-> "idle"]
  /\ asked = 0
  /\ id = [t \in Threads |-> 0]
  /\ view = [t \in Threads |-> Null]
  /\ file = [t \in Threads |-> Null]
  /\ branch = [t \in Threads |-> "none"]
  /\ cacheFile = [t \in Threads |-> Null]
  /\ status = [t \in Threads |-> "none"]
  /\ bytes = [t \in Threads |-> Empty]

\* A thread is given a request; its locals are as Init left them.
Receive(t, v, at) ==
  /\ pc[t] = "idle"
  /\ asked < MaxRequests
  /\ asked' = asked + 1
  /\ id' = [id EXCEPT ![t] = asked + 1]
  /\ view' = [view EXCEPT ![t] = v]
  /\ GoTo(t, at)
  /\ UNCHANGED <<tileVars, file, branch, cacheFile, responseVars>>

\* A request that ends without an image.
Fail(t, s) ==
  /\ status' = [status EXCEPT ![t] = s]
  /\ GoTo(t, "respond")
  /\ UNCHANGED <<requestVars, file, branch, cacheFile, bytes>>

\* ReferentManager.getImageRecord, which may download the image first.
FindRecord(t) ==
  /\ pc[t] = "record"
  /\ GoTo(t, IF IsCacheable(view[t]) THEN "lookup" ELSE "render")
  /\ UNCHANGED <<tileVars, requestVars, file, branch, cacheFile, responseVars>>

RecordMissing(t) ==
  /\ pc[t] = "record"
  /\ "record" \in Faults
  /\ Fail(t, "notFound")
  /\ UNCHANGED tileVars

\* The path that does not use the cache: the image is extracted into memory.
Render(t) ==
  /\ pc[t] = "render"
  /\ bytes' = [bytes EXCEPT ![t] = Picture(view[t])]
  /\ status' = [status EXCEPT ![t] = "ok"]
  /\ GoTo(t, "respond")
  /\ UNCHANGED <<tileVars, requestVars, file, branch, cacheFile>>

RenderFails(t) ==
  /\ pc[t] = "render"
  /\ Faults \cap {"decode", "exec"} # {}
  /\ Fail(t, "notFound")
  /\ UNCHANGED tileVars

\* tileCache.get, and the condition on its result. The condition's second half
\* asks for a missing file that has a length.
Lookup(t) ==
  LET f == cacheMap[Hash(t)]
      miss == f = Null \/ (disk[f] = Absent /\ Length(disk[f]) > 0)
  IN /\ pc[t] = "lookup"
     /\ Get(Hash(t))
     /\ file' = [file EXCEPT ![t] = f]
     /\ branch' = [branch EXCEPT ![t] = IF miss THEN @ ELSE "hit"]
     /\ GoTo(t, IF miss THEN "create" ELSE "open")
     /\ UNCHANGED <<disk, requestVars, cacheFile, responseVars>>

\* File.createTempFile creates the file; its name is new.
CreateTempFile(t) ==
  /\ pc[t] = "create"
  /\ disk' = [disk EXCEPT ![TempFile(t)] = Empty]
  /\ file' = [file EXCEPT ![t] = TempFile(t)]
  /\ cacheFile' = [cacheFile EXCEPT ![t] = TempFile(t)]
  /\ GoTo(t, "extract")
  /\ UNCHANGED <<cacheVars, requestVars, branch, responseVars>>

Extract(t) ==
  /\ pc[t] = "extract"
  /\ disk' = [disk EXCEPT ![file[t]] = Picture(view[t])]
  /\ GoTo(t, "recheck")
  /\ UNCHANGED <<cacheVars, requestVars, file, branch, cacheFile, responseVars>>

\* Nothing is written, and resolve goes on as if something were.
ExtractNothing(t) ==
  /\ pc[t] = "extract"
  /\ "exec" \in Faults
  /\ GoTo(t, "recheck")
  /\ UNCHANGED <<tileVars, requestVars, file, branch, cacheFile, responseVars>>

\* The file is left empty. (A writer that breaks off in the middle, or a pipe that ends
\* early, would leave a part of the picture: an abstraction, a picture is one piece.)
ExtractFails(t) ==
  /\ pc[t] = "extract"
  /\ "decode" \in Faults
  /\ Fail(t, "notFound")
  /\ UNCHANGED tileVars

\* Slip: the simultaneous thread reads, and deletes, the file in the cache.
RecheckTakingTheirs(t) ==
  LET mine == cacheMap[Hash(t)] = Null
  IN /\ pc[t] = "recheck"
     /\ Get(Hash(t))
     /\ branch' = [branch EXCEPT ![t] = IF mine THEN "made" ELSE "simultaneous"]
     /\ file' = [file EXCEPT ![t] = IF mine THEN @ ELSE cacheMap[Hash(t)]]
     /\ GoTo(t, IF mine THEN "put" ELSE "open")
     /\ UNCHANGED <<disk, requestVars, cacheFile, responseVars>>

\* The second tileCache.get.
Recheck(t) ==
  LET mine == cacheMap[Hash(t)] = Null
  IN /\ pc[t] = "recheck"
     /\ Get(Hash(t))
     /\ branch' = [branch EXCEPT ![t] = IF mine THEN "made" ELSE "simultaneous"]
     /\ GoTo(t, IF mine THEN "put" ELSE "open")
     /\ UNCHANGED <<disk, requestVars, file, cacheFile, responseVars>>

PutTile(t) ==
  /\ pc[t] = "put"
  /\ Put(Hash(t), file[t])
  /\ GoTo(t, "open")
  /\ UNCHANGED <<requestVars, file, branch, cacheFile, responseVars>>

\* getBytesFromFile opens the file first. A FileNotFoundException becomes a 500.
Open(t) ==
  /\ pc[t] = "open"
  /\ disk[file[t]] # Absent
  /\ GoTo(t, "measure")
  /\ UNCHANGED <<tileVars, requestVars, file, branch, cacheFile, responseVars>>

\* Slip: a missing file is waited for.
OpenRetries(t) ==
  /\ pc[t] = "open"
  /\ disk[file[t]] = Absent
  /\ UNCHANGED serviceVars

OpenFails(t) ==
  /\ pc[t] = "open"
  /\ disk[file[t]] = Absent
  /\ Fail(t, "error")
  /\ UNCHANGED tileVars

\* Slip: every thread deletes the file it made.
MeasureAlwaysDeleting(t) ==
  LET content == disk[file[t]]
      got == Length(content) > 0
  IN /\ pc[t] = "measure"
     /\ bytes' = [bytes EXCEPT ![t] = IF got THEN content ELSE Empty]
     /\ status' = [status EXCEPT ![t] = IF got THEN "ok" ELSE "notFound"]
     /\ cacheFile' = [cacheFile EXCEPT ![t] = IF branch[t] = "hit" THEN file[t] ELSE @]
     /\ disk' = IF branch[t] \in {"simultaneous", "made"}
                THEN [disk EXCEPT ![file[t]] = Absent] ELSE disk
     /\ GoTo(t, "respond")
     /\ UNCHANGED <<cacheVars, requestVars, file, branch>>

\* Slip: djatokaCacheFile is not set in the hit branch.
MeasureForgettingHits(t) ==
  LET content == disk[file[t]]
      got == Length(content) > 0
  IN /\ pc[t] = "measure"
     /\ bytes' = [bytes EXCEPT ![t] = IF got THEN content ELSE Empty]
     /\ status' = [status EXCEPT ![t] = IF got THEN "ok" ELSE "notFound"]
     /\ disk' = IF branch[t] = "simultaneous"
                THEN [disk EXCEPT ![file[t]] = Absent] ELSE disk
     /\ GoTo(t, "respond")
     /\ UNCHANGED <<cacheVars, requestVars, file, branch, cacheFile>>

\* Then it asks for the length and reads that many bytes: none if the file has
\* been deleted since it was opened. No bytes make a 404. In the simultaneous
\* branch the thread deletes its file, which no other thread knows; in the hit
\* branch djatokaCacheFile is set only now.
Measure(t) ==
  LET content == disk[file[t]]
      got == Length(content) > 0
  IN /\ pc[t] = "measure"
     /\ bytes' = [bytes EXCEPT ![t] = IF got THEN content ELSE Empty]
     /\ status' = [status EXCEPT ![t] = IF got THEN "ok" ELSE "notFound"]
     /\ cacheFile' = [cacheFile EXCEPT ![t] = IF branch[t] = "hit" THEN file[t] ELSE @]
     /\ disk' = IF branch[t] = "simultaneous"
                THEN [disk EXCEPT ![file[t]] = Absent] ELSE disk
     /\ GoTo(t, "respond")
     /\ UNCHANGED <<cacheVars, requestVars, file, branch>>

\* The thread is free again; its locals are gone.
Release(t) ==
  /\ GoTo(t, "idle")
  /\ id' = [id EXCEPT ![t] = 0]
  /\ view' = [view EXCEPT ![t] = Null]
  /\ file' = [file EXCEPT ![t] = Null]
  /\ branch' = [branch EXCEPT ![t] = "none"]
  /\ cacheFile' = [cacheFile EXCEPT ![t] = Null]
  /\ status' = [status EXCEPT ![t] = "none"]
  /\ bytes' = [bytes EXCEPT ![t] = Empty]
  /\ UNCHANGED asked

\* OpenURLServlet writes the response of a request to /resolver.
Respond(t) ==
  /\ pc[t] = "respond"
  /\ Release(t)
  /\ UNCHANGED tileVars

\* Steps that wait for something outside of the server: a remote host, whose
\* sockets have no timeouts, or the extractor's process.
Outside(t) ==
  \/ FindRecord(t) \/ RecordMissing(t)
  \/ Render(t) \/ RenderFails(t)
  \/ Extract(t) \/ ExtractNothing(t) \/ ExtractFails(t)

Local(t) ==
  \/ Lookup(t)
  \/ CreateTempFile(t)
  \/ Recheck(t) \/ PutTile(t)
  \/ Open(t) \/ OpenFails(t) \/ Measure(t)

Resolve(t) == Outside(t) \/ Local(t)

ServiceNext ==
  \E t \in Threads :
    \/ \E v \in Views : Receive(t, v, "record")
    \/ Resolve(t)
    \/ Respond(t)

\* A request thread is never suspended for ever. In these steps it waits for nothing
\* but the cache's lock, which every method gives back.
ServiceFairness == \A t \in Threads : WF_serviceVars(Local(t) \/ Respond(t))

ServiceSpec == ServiceInit /\ [][ServiceNext]_serviceVars /\ ServiceFairness

-----------------------------------------------------------------------------
(* Properties *)

\* Every variable has its type.
ServiceTypeOK ==
  /\ TypeOK
  /\ pc \in [Threads -> ServicePCs \cup {"idle"}]
  /\ asked \in 0..MaxRequests
  /\ id \in [Threads -> 0..MaxRequests]
  /\ view \in [Threads -> Views \cup {Null}]
  /\ file \in [Threads -> Paths \cup {Null}]
  /\ branch \in [Threads -> {"none", "hit", "made", "simultaneous"}]
  /\ cacheFile \in [Threads -> Paths \cup {Null}]
  /\ status \in [Threads -> {"none", "ok", "notFound", "error"}]
  /\ bytes \in [Threads -> Contents]

\* Whatever threads put, overwrite and evict, an entry's file exists and holds
\* the picture of the entry's hash; it is empty only if an extraction produced
\* nothing without saying so (and then every hit is answered with a 404).
EntriesHoldTheirTile ==
  \A k \in Cached(cacheMap) :
    disk[cacheMap[k]] = k \/ ("exec" \in Faults /\ disk[cacheMap[k]] = Empty)

\* A response with status 200 carries the picture that was asked for, although
\* the file it is read from is found in one step, opened in another and
\* measured in a third, and other threads evict and overwrite meanwhile.
ServedTileIsRequested ==
  \A t \in Threads : status[t] = "ok" => bytes[t] = Picture(view[t])

\* "Handles simultaneous request on separate thread": the thread that finds
\* another thread's tile in its second lookup is never hurt by anyone.
SimultaneousBranchIsSafe ==
  \A t \in Threads : branch[t] = "simultaneous" => status[t] # "error"

\* When no request is under way, every temporary file left is one the cache can
\* still find and delete.
NoOrphanFiles ==
  (\A t \in Threads : pc[t] = "idle") =>
    \A f \in Paths : disk[f] # Absent => f \in MappedFiles

\* A request is answered if what it waits for itself, its image and the extractor,
\* comes to an end: other threads that hang in a download or an extraction for ever
\* hold it up nowhere, not even those that are about to make the same tile.
EveryRequestAnswered ==
  \A t \in Threads :
    WF_serviceVars(Outside(t)) => (pc[t] # "idle" ~> pc[t] = "idle")
=============================================================================
