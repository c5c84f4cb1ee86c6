---------------------------- MODULE ImageServlet ----------------------------
(***************************************************************************)
(* info.freelibrary.djatoka.view.ImageServlet on top of the resolver: a    *)
(* IIIF request is served from the permanent (Pairtree) tile cache, or is  *)
(* forwarded to /resolver, after which the servlet moves the temporary     *)
(* file of the resolver's cache into the permanent cache. It learns the    *)
(* file's name from two attributes of the user's session, which            *)
(* OpenURLServlet has copied from the resolver's response. Clients may     *)
(* also ask /resolver directly.                                            *)
(***************************************************************************)
EXTENDS OpenURLJP2KService

CONSTANTS
  Sessions,  \* HTTP sessions; requests of one session run concurrently
  Debug      \* whether the logger of ImageServlet is at debug level

ASSUME DebugAssumption == Debug \in BOOLEAN

\* CacheUtils.getFileName, as ImageServlet calls it with the scale of the
\* request, and as OpenURLJP2KService calls it with the scaling dimensions only.
\* A IIIF size in percent is a factor: the two names differ.
Names == Regions \X (Dims \cup Factors \cup Ones \cup {Full})
\* Slip: the scale is left out of a name.
NameWithoutScale(v) == <<v.region, Full>>

FileName(v) == <<v.region, v.scale>>

SessionKey(v) == <<v.region, ScalingDims(v)>>

VARIABLES
  session,    \* the session of each thread's request
  viaIIIF,    \* whether ImageServlet forwarded it
  tileFile,   \* session attribute: tile name -> temporary file
  tileKey,    \* session attribute: temporary file -> key in the tile cache
  stored,     \* the permanent tile cache: tile name -> content
  fileName,   \* cacheNewImage's local of that name
  cacheName,  \* cacheNewImage's local of that name
  disturbed,  \* whether requests have overlapped, or one has failed (for the properties)
  scaled      \* the views at a factor that have been asked for (for the properties)

sessionVars == <<tileFile, tileKey>>
callVars == <<session, viaIIIF>>
moveVars == <<fileName, cacheName>>
noteVars == <<disturbed, scaled>>
servletVars == <<sessionVars, callVars, stored, moveVars, noteVars>>
vars == <<serviceVars, servletVars>>

ServletPCs == {"check", "setFile", "setKey", "fetchFile", "fetchKey", "exists",
               "rename", "untile", "forgetFile", "forgetKey", "sent"}

\* What a step of the servlet leaves alone in the resolver.
KeepService == UNCHANGED <<tileVars, requestVars, file, branch, cacheFile, responseVars>>

-----------------------------------------------------------------------------
ServletInit ==
  /\ ServiceInit
  /\ session = [t \in Threads |-> Null]
  /\ viaIIIF = [t \in Threads |-> FALSE]
  /\ tileFile = [s \in Sessions |-> [n \in Names |-> Null]]
  /\ tileKey = [s \in Sessions |-> [f \in Paths |-> Null]]
  /\ stored = [n \in Names |-> Absent]
  /\ fileName = [t \in Threads |-> Null]
  /\ cacheName = [t \in Threads |-> Null]
  /\ disturbed = FALSE
  /\ scaled = {}

\* A request to /iiif enters ImageServlet, one to /resolver OpenURLServlet.
Arrive(t, v, s, iiif) ==
  /\ Receive(t, v, IF iiif THEN "check" ELSE "record")
  /\ session' = [session EXCEPT ![t] = s]
  /\ viaIIIF' = [viaIIIF EXCEPT ![t] = iiif]
  /\ disturbed' = (disturbed \/ \E u \in Threads : pc[u] # "idle")
  /\ scaled' = scaled \cup (IF v.scale \in Factors THEN {v} ELSE {})
  /\ UNCHANGED <<sessionVars, stored, moveVars>>

\* checkImageCache: a stored tile is sent, whatever it holds.
ServeStored(t) ==
  LET tile == stored[FileName(view[t])]
  IN /\ pc[t] = "check"
     /\ tile # Absent
     /\ bytes' = [bytes EXCEPT ![t] = tile]
     /\ status' = [status EXCEPT ![t] = "ok"]
     /\ GoTo(t, "sent")
     /\ UNCHANGED <<tileVars, requestVars, file, branch, cacheFile, servletVars>>

\* serveNewImage forwards the request to the resolver.
Forward(t) ==
  /\ pc[t] = "check"
  /\ stored[FileName(view[t])] = Absent
  /\ GoTo(t, "record")
  /\ KeepService
  /\ UNCHANGED servletVars

ResolveStep(t) ==
  /\ Resolve(t)
  /\ disturbed' = (disturbed \/ status'[t] = "notFound")
  /\ UNCHANGED <<sessionVars, callVars, stored, moveVars, scaled>>

-----------------------------------------------------------------------------
(* OpenURLServlet copies the response's session map, a HashMap with the two *)
(* entries resolve put there whenever djatokaCacheFile was set, even if the *)
(* response is an error. The order of the two is the HashMap's.             *)

AfterResponse(t) == IF viaIIIF[t] THEN "fetchFile" ELSE "sent"

SetTileFile(t) ==
  /\ \/ pc[t] = "respond" /\ cacheFile[t] # Null /\ GoTo(t, "setKey")
     \/ pc[t] = "setFile" /\ GoTo(t, AfterResponse(t))
  /\ tileFile' = [tileFile EXCEPT ![session[t]][SessionKey(view[t])] = cacheFile[t]]
  /\ KeepService
  /\ UNCHANGED <<tileKey, callVars, stored, moveVars, noteVars>>

SetTileKey(t) ==
  /\ \/ pc[t] = "respond" /\ cacheFile[t] # Null /\ GoTo(t, "setFile")
     \/ pc[t] = "setKey" /\ GoTo(t, AfterResponse(t))
  /\ tileKey' = [tileKey EXCEPT ![session[t]][cacheFile[t]] = Hash(t)]
  /\ KeepService
  /\ UNCHANGED <<tileFile, callVars, stored, moveVars, noteVars>>

NoSessionData(t) ==
  /\ pc[t] = "respond"
  /\ cacheFile[t] = Null
  /\ GoTo(t, AfterResponse(t))
  /\ KeepService
  /\ UNCHANGED servletVars

-----------------------------------------------------------------------------
(* cacheNewImage. It is called whatever the response was. *)

FetchFile(t) ==
  LET f == tileFile[session[t]][FileName(view[t])]
  IN /\ pc[t] = "fetchFile"
     /\ fileName' = [fileName EXCEPT ![t] = f]
     /\ GoTo(t, IF f = Null THEN "sent" ELSE "fetchKey")
     /\ KeepService
     /\ UNCHANGED <<sessionVars, callVars, stored, cacheName, noteVars>>

FetchKey(t) ==
  /\ pc[t] = "fetchKey"
  /\ cacheName' = [cacheName EXCEPT ![t] = tileKey[session[t]][fileName[t]]]
  /\ GoTo(t, "exists")
  /\ KeepService
  /\ UNCHANGED <<sessionVars, callVars, stored, fileName, noteVars>>

CheckExists(t) ==
  /\ pc[t] = "exists"
  /\ GoTo(t, IF disk[fileName[t]] # Absent THEN "rename" ELSE "sent")
  /\ KeepService
  /\ UNCHANGED servletVars

\* renameTo replaces what is there.
Rename(t) ==
  /\ pc[t] = "rename"
  /\ disk[fileName[t]] # Absent
  /\ stored' = [stored EXCEPT ![FileName(view[t])] = disk[fileName[t]]]
  /\ disk' = [disk EXCEPT ![fileName[t]] = Absent]
  /\ GoTo(t, "untile")
  /\ UNCHANGED <<cacheVars, requestVars, file, branch, cacheFile, responseVars>>
  /\ UNCHANGED <<sessionVars, callVars, moveVars, noteVars>>

\* A failed rename is noticed only if debug messages are on.
RenameFails(t) ==
  /\ pc[t] = "rename"
  /\ disk[fileName[t]] = Absent \/ "rename" \in Faults
  /\ GoTo(t, IF Debug THEN "sent" ELSE "untile")
  /\ disturbed' = TRUE
  /\ KeepService
  /\ UNCHANGED <<sessionVars, callVars, stored, moveVars, scaled>>

\* Slip: the entry of the moved file stays in the tile cache.
UntileNothing(t) ==
  /\ pc[t] = "untile"
  /\ GoTo(t, "forgetFile")
  /\ KeepService
  /\ UNCHANGED servletVars

\* OpenURLJP2KService.removeFromTileCache; its failure, too, is noticed only if
\* debug messages are on.
Untile(t) ==
  LET k == cacheName[t]
      removed == k # Null /\ cacheMap[k] # Null
  IN /\ pc[t] = "untile"
     /\ IF k = Null THEN UNCHANGED tileVars ELSE Remove(k)
     /\ GoTo(t, IF ~removed /\ Debug THEN "sent" ELSE "forgetFile")
     /\ UNCHANGED <<requestVars, file, branch, cacheFile, responseVars, servletVars>>

ForgetFile(t) ==
  /\ pc[t] = "forgetFile"
  /\ tileFile' = [tileFile EXCEPT ![session[t]][FileName(view[t])] = Null]
  /\ GoTo(t, "forgetKey")
  /\ KeepService
  /\ UNCHANGED <<tileKey, callVars, stored, moveVars, noteVars>>

ForgetKey(t) ==
  /\ pc[t] = "forgetKey"
  /\ tileKey' = [tileKey EXCEPT ![session[t]][fileName[t]] = Null]
  /\ GoTo(t, "sent")
  /\ KeepService
  /\ UNCHANGED <<tileFile, callVars, stored, moveVars, noteVars>>

Finish(t) ==
  /\ pc[t] = "sent"
  /\ Release(t)
  /\ session' = [session EXCEPT ![t] = Null]
  /\ viaIIIF' = [viaIIIF EXCEPT ![t] = FALSE]
  /\ fileName' = [fileName EXCEPT ![t] = Null]
  /\ cacheName' = [cacheName EXCEPT ![t] = Null]
  /\ UNCHANGED <<tileVars, sessionVars, stored, noteVars>>

Step(t) ==
  \/ ServeStored(t) \/ Forward(t)
  \/ ResolveStep(t)
  \/ SetTileFile(t) \/ SetTileKey(t) \/ NoSessionData(t)
  \/ FetchFile(t) \/ FetchKey(t) \/ CheckExists(t)
  \/ Rename(t) \/ RenameFails(t) \/ Untile(t)
  \/ ForgetFile(t) \/ ForgetKey(t)
  \/ Finish(t)

ServletNext ==
  \E t \in Threads :
    \/ \E v \in Views, s \in Sessions, iiif \in BOOLEAN : Arrive(t, v, s, iiif)
    \/ Step(t)

\* As for the resolver alone; users are not obliged to ask for anything.
ServletFairness == \A t \in Threads : WF_vars(Step(t) /\ ~Outside(t))

ServletSpec == ServletInit /\ [][ServletNext]_vars /\ ServletFairness

-----------------------------------------------------------------------------
(* Properties *)

\* Every variable has its type.
ServletTypeOK ==
  /\ TypeOK
  /\ pc \in [Threads -> ServicePCs \cup ServletPCs \cup {"idle"}]
  /\ asked \in 0..MaxRequests
  /\ id \in [Threads -> 0..MaxRequests]
  /\ view \in [Threads -> Views \cup {Null}]
  /\ file \in [Threads -> Paths \cup {Null}]
  /\ branch \in [Threads -> {"none", "hit", "made", "simultaneous"}]
  /\ cacheFile \in [Threads -> Paths \cup {Null}]
  /\ status \in [Threads -> {"none", "ok", "notFound", "error"}]
  /\ bytes \in [Threads -> Contents]
  /\ session \in [Threads -> Sessions \cup {Null}]
  /\ viaIIIF \in [Threads -> BOOLEAN]
  /\ tileFile \in [Sessions -> [Names -> Paths \cup {Null}]]
  /\ tileKey \in [Sessions -> [Paths -> Keys \cup {Null}]]
  /\ stored \in [Names -> Contents]
  /\ fileName \in [Threads -> Paths \cup {Null}]
  /\ cacheName \in [Threads -> Keys \cup {Null}]
  /\ disturbed \in BOOLEAN
  /\ scaled \in SUBSET Views

\* The picture a tile name stands for.
NamedPicture(n) == Picture([region |-> n[1], scale |-> n[2]])

\* What an empty file may stand in for: an extraction that failed, or wrote nothing,
\* leaves one.
NoneIfDecodingFails == IF Faults \cap {"decode", "exec"} # {} THEN {Empty} ELSE {}

\* What may come under the full size's name once the region has been asked for at a
\* factor, which the session's name leaves out.
ScaledPictures(n) ==
  {Picture(v) : v \in {w \in scaled : SessionKey(w) = n}}

\* A tile stored for good is the picture its name stands for, whoever moved it and
\* whatever the session's other requests did in between.  The one exception is the name
\* of the full size, and it has to be earned: somebody has asked for the same region
\* at a factor, and then the smaller picture may lie there for good.  Nothing is ever
\* stored under a name that contains a factor.  (The file of an extraction that failed is
\* moved, too: then what is stored is empty.)
StoredTilesAreRight ==
  \A n \in Names : stored[n] # Absent =>
    /\ n[2] \in Dims \cup {Full}
    /\ stored[n] \in {NamedPicture(n)} \cup ScaledPictures(n) \cup NoneIfDecodingFails

\* A response with status 200 carries the picture that was asked for, also when another
\* request has moved, replaced or removed the file since it was looked up; but for a
\* request for the full size of a region that has been asked for at a factor.  (A failed
\* extraction is answered with no bytes, and so is whoever comes upon its file.)
SentTileIsRequested ==
  \A t \in Threads : status[t] = "ok" =>
    bytes[t] \in {Picture(view[t])} \cup ScaledPictures(FileName(view[t]))
                 \cup NoneIfDecodingFails

\* While requests come one after the other and nothing fails, a tile that a IIIF
\* request was answered with is in the permanent cache when the request is over,
\* whether the resolver made it now, or had it from an earlier request of another
\* session: exactly if the session's name of it is the servlet's.  A tile of a size in
\* percent is answered, and made again each time the tile cache has lost it.
AnsweredTilesAreStored ==
  ~disturbed => \A t \in Threads :
    pc[t] = "sent" /\ viaIIIF[t] /\ status[t] = "ok" =>
      (stored[FileName(view[t])] # Absent <=> FileName(view[t]) = SessionKey(view[t]))

\* A request is refused, and a temporary file forgotten, only if requests have
\* overlapped or one has failed: one after the other, of whatever sessions and to
\* whichever servlet, they leave a tile cache that names no moved file and names
\* every file that is left.
NothingRefusedOrForgotten ==
  ~disturbed =>
    /\ \A t \in Threads : status[t] # "error"
    /\ NoOrphanFiles
=============================================================================
