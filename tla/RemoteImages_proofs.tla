------------------------- MODULE RemoteImages_proofs -------------------------
(***************************************************************************)
(* The migrator's list holds exactly the downloads under way, and without  *)
(* faults no file is left incomplete, and a complete one stays: for any    *)
(* threads, identifiers, hosts, sizes and numbers of requests, faults and  *)
(* restarts.                                                               *)
(***************************************************************************)
EXTENDS RemoteImages, FiniteSetTheorems, TLAPS

-----------------------------------------------------------------------------
(* The inductive invariant *)

Places == {"idle", "cached", "check", "wait", "retrieve", "convert", "connect", "create",
           "available", "copy", "stub", "delete", "leave", "failed", "measure", "return"}

\* The parts of TypeOK the arguments need, and that a thread under way has an identifier.
Types ==
  /\ file \in [Ids -> (SUBSET Parts) \cup {Absent}]
  /\ processing \in [Ids -> Nat]
  /\ pc \in [Threads -> Places]
  /\ want \in [Threads -> Ids \cup {Null}]
  /\ offset \in [Threads -> 0..Size]
  /\ attached \in [Threads -> BOOLEAN]
  /\ crashes \in Nat /\ faults \in Nat
  /\ \A t \in Threads : pc[t] # "idle" => want[t] \in Ids

Downloads(i) == {t \in Threads : want[t] = i /\ Converting(t)}

\* A thread writes to a named file only between opening and closing it.
AttachedInv ==
  \A t \in Threads : attached[t] => pc[t] \in {"available", "copy"} /\ file[want[t]] # Absent

\* The thread that truncated a file last has since written all parts up to its offset.
WriterInv ==
  crashes = 0 /\ faults = 0 =>
    \A i \in Ids :
      \/ file[i] \in {Absent, Parts}
      \/ \E t \in Threads : want[t] = i /\ attached[t] /\ 1..offset[t] \subseteq file[i]

IInv == Types /\ ListMatchesDownloads /\ AttachedInv /\ WriterInv

-----------------------------------------------------------------------------
(* The list *)

LEMMA DownloadsAreFinite ==
  ASSUME NEW i
  PROVE  IsFiniteSet(Downloads(i)) /\ Cardinality(Downloads(i)) \in Nat
  BY ThreadsAssumption, FS_Subset, FS_CardinalityType DEF Downloads

\* Nobody begins or ends a download, and the list stays.
LEMMA ListStays ==
  ASSUME ListMatchesDownloads, processing' = processing,
         \A t \in Threads : Converting(t)' <=> Converting(t),
         \A t \in Threads : Converting(t) => want'[t] = want[t]
  PROVE  ListMatchesDownloads'
<1>1. \A i \in Ids : Downloads(i)' = Downloads(i)
  BY DEF Downloads
<1> QED BY <1>1 DEF ListMatchesDownloads, Downloads

LEMMA ListGrows ==
  ASSUME Types, ListMatchesDownloads, NEW t \in Threads, want[t] \in Ids, want' = want,
         processing' = [processing EXCEPT ![want[t]] = @ + 1],
         ~Converting(t), Converting(t)',
         \A u \in Threads \ {t} : Converting(u)' <=> Converting(u)
  PROVE  ListMatchesDownloads'
<1> SUFFICES ASSUME NEW i \in Ids PROVE processing'[i] = Cardinality(Downloads(i)')
  BY DEF ListMatchesDownloads, Downloads
<1>1. processing[i] = Cardinality(Downloads(i))
  BY DEF ListMatchesDownloads, Downloads
<1>2. CASE i = want[t]
  <2>1. Downloads(i)' = Downloads(i) \cup {t} /\ t \notin Downloads(i)
    BY <1>2 DEF Downloads
  <2>2. Cardinality(Downloads(i)') = Cardinality(Downloads(i)) + 1
    BY <2>1, DownloadsAreFinite, FS_AddElement
  <2> QED BY <1>1, <1>2, <2>2 DEF Types
<1>3. CASE i # want[t]
  <2>1. Downloads(i)' = Downloads(i)
    BY <1>3 DEF Downloads
  <2> QED BY <1>1, <1>3, <2>1 DEF Types
<1> QED BY <1>2, <1>3

LEMMA ListShrinks ==
  ASSUME Types, ListMatchesDownloads, NEW t \in Threads, want[t] \in Ids, want' = want,
         processing' = [processing EXCEPT ![want[t]] = @ - 1],
         Converting(t), ~Converting(t)',
         \A u \in Threads \ {t} : Converting(u)' <=> Converting(u)
  PROVE  ListMatchesDownloads' /\ processing' \in [Ids -> Nat]
<1>1. \A i \in Ids : processing[i] = Cardinality(Downloads(i))
  BY DEF ListMatchesDownloads, Downloads
<1>2. \A i \in Ids : processing'[i] = Cardinality(Downloads(i)') /\ processing'[i] \in Nat
  <2> SUFFICES ASSUME NEW i \in Ids
               PROVE  processing'[i] = Cardinality(Downloads(i)') /\ processing'[i] \in Nat
    OBVIOUS
  <2>1. CASE i = want[t]
    <3>1. Downloads(i)' = Downloads(i) \ {t} /\ t \in Downloads(i)
      BY <2>1 DEF Downloads
    <3>2. /\ IsFiniteSet(Downloads(i)')
          /\ Cardinality(Downloads(i)') = Cardinality(Downloads(i)) - 1
      BY <3>1, DownloadsAreFinite, FS_RemoveElement
    <3>3. Cardinality(Downloads(i)') \in Nat
      BY <3>2, FS_CardinalityType
    <3> QED BY <1>1, <2>1, <3>2, <3>3 DEF Types
  <2>2. CASE i # want[t]
    <3>1. Downloads(i)' = Downloads(i)
      BY <2>2 DEF Downloads
    <3> QED BY <1>1, <2>2, <3>1 DEF Types
  <2> QED BY <2>1, <2>2
<1>3. processing' \in [Ids -> Nat]
  BY <1>2 DEF Types
<1> QED BY <1>2, <1>3 DEF ListMatchesDownloads, Downloads

-----------------------------------------------------------------------------
(* The steps *)

\* A thread goes on, and the files, the list and the open streams stay as they are.
LEMMA QuietStep ==
  ASSUME IInv, NEW t \in Threads, NEW to \in Places,
         pc' = [pc EXCEPT ![t] = to],
         file' = file, processing' = processing, attached' = attached, crashes' = crashes,
         faults' \in Nat, faults' = 0 => faults = 0,
         want' \in [Threads -> Ids \cup {Null}], offset' \in [Threads -> 0..Size],
         \A u \in Threads \ {t} : want'[u] = want[u] /\ offset'[u] = offset[u],
         attached[t] => /\ want'[t] = want[t] /\ offset'[t] = offset[t]
                        /\ to \in {"available", "copy"},
         to # "idle" => want'[t] \in Ids,
         Converting(t)' <=> Converting(t),
         Converting(t) => want'[t] = want[t]
  PROVE  IInv'
<1>1. \A u \in Threads : pc'[u] = IF u = t THEN to ELSE pc[u]
  BY DEF IInv, Types
<1>2. Types'
  BY <1>1 DEF IInv, Types
<1>3. ListMatchesDownloads'
  <2>1. \A u \in Threads : /\ Converting(u)' <=> Converting(u)
                           /\ Converting(u) => want'[u] = want[u]
    BY <1>1 DEF Converting
  <2> QED BY <2>1, ListStays DEF IInv
<1>4. AttachedInv'
  BY <1>1 DEF IInv, AttachedInv
<1>5. WriterInv'
  <2> SUFFICES ASSUME crashes = 0, faults = 0, NEW i \in Ids, file[i] \notin {Absent, Parts}
               PROVE  \E u \in Threads : want'[u] = i /\ attached[u]
                                         /\ 1..offset'[u] \subseteq file[i]
    BY DEF WriterInv, Parts
  <2>1. PICK u \in Threads : want[u] = i /\ attached[u] /\ 1..offset[u] \subseteq file[i]
    BY DEF IInv, WriterInv
  <2>2. want'[u] = want[u] /\ offset'[u] = offset[u]
    BY <2>1
  <2> QED BY <2>1, <2>2
<1> QED BY <1>2, <1>3, <1>4, <1>5 DEF IInv

\* The steps in which nothing but the thread's own place and locals change.
LEMMA ThreadStep ==
  ASSUME IInv, NEW t \in Threads,
         \/ GetCachedImage(t) \/ CheckProcessing(t) \/ Poll(t) \/ Retrieve(t) \/ Measure(t)
         \/ Connect(t) \/ ConnectFails(t) \/ Reopen(t) \/ CheckStub(t) \/ LookupFails(t)
  PROVE  IInv'
<1>1. /\ file' = file /\ processing' = processing /\ attached' = attached
      /\ crashes' = crashes /\ want' = want /\ offset' = offset
      /\ faults' \in {faults, faults + 1}
  BY DEF GetCachedImage, CheckProcessing, Poll, Retrieve, Measure, Connect, ConnectFails,
     Reopen, CheckStub, LookupFails, Fault, listVars, streamVars, requestVars, countVars
<1>2. PICK to \in Places \ {"idle"} :
         /\ pc' = [pc EXCEPT ![t] = to] /\ pc[t] # "idle"
         /\ pc[t] \in {"connect", "create", "available", "copy", "stub", "delete", "leave",
                       "failed"}
            <=> to \in {"connect", "create", "available", "copy", "stub", "delete", "leave",
                        "failed"}
         /\ pc[t] \in {"available", "copy"} => to \in {"available", "copy"}
  BY DEF GetCachedImage, CheckProcessing, Poll, Retrieve, Measure, Connect, ConnectFails,
     Reopen, CheckStub, LookupFails, GoTo, Places
<1>3. Converting(t)' <=> Converting(t)
  BY <1>2 DEF IInv, Types, Converting
<1>4. attached[t] => to \in {"available", "copy"}
  BY <1>2 DEF IInv, AttachedInv
<1>5. want[t] \in Ids
  BY <1>2 DEF IInv, Types
<1>6. faults' \in Nat /\ (faults' = 0 => faults = 0)
  BY <1>1 DEF IInv, Types
<1>7. want' \in [Threads -> Ids \cup {Null}] /\ offset' \in [Threads -> 0..Size]
  BY <1>1 DEF IInv, Types
<1> QED BY <1>1, <1>2, <1>3, <1>4, <1>5, <1>6, <1>7, QuietStep

\* A request begins, or its answer is given.
LEMMA RequestStep ==
  ASSUME IInv, NEW t \in Threads, (\E i \in Ids : Request(t, i)) \/ Return(t)
  PROVE  IInv'
<1>1. /\ file' = file /\ processing' = processing /\ attached' = attached
      /\ crashes' = crashes /\ faults' = faults
      /\ pc[t] \in {"idle", "return"}
  BY DEF Request, Return, listVars, streamVars, countVars
<1>2. ~attached[t] /\ ~Converting(t)
  BY <1>1 DEF IInv, AttachedInv, Converting
<1>3. CASE \E i \in Ids : Request(t, i)
  <2>1. PICK i \in Ids : want' = [want EXCEPT ![t] = i]
                         /\ pc' = [pc EXCEPT ![t] = "cached"] /\ offset' = offset
    BY <1>3 DEF Request, GoTo, streamVars
  <2>2. want' \in [Threads -> Ids \cup {Null}] /\ offset' \in [Threads -> 0..Size]
        /\ want'[t] = i /\ \A u \in Threads \ {t} : want'[u] = want[u] /\ offset'[u] = offset[u]
    BY <2>1 DEF IInv, Types
  <2>3. "cached" \in Places /\ ~Converting(t)'
    BY <2>1 DEF IInv, Types, Places, Converting
  <2> QED BY <1>1, <1>2, <2>1, <2>2, <2>3, QuietStep DEF IInv, Types
<1>4. CASE Return(t)
  <2>1. want' = [want EXCEPT ![t] = Null] /\ pc' = [pc EXCEPT ![t] = "idle"]
        /\ offset' = [offset EXCEPT ![t] = 0]
    BY <1>4 DEF Return, GoTo
  <2>2. want' \in [Threads -> Ids \cup {Null}] /\ offset' \in [Threads -> 0..Size]
        /\ \A u \in Threads \ {t} : want'[u] = want[u] /\ offset'[u] = offset[u]
    BY <2>1, CountsAssumption DEF IInv, Types
  <2>3. "idle" \in Places /\ ~Converting(t)'
    BY <2>1 DEF IInv, Types, Places, Converting
  <2> QED BY <1>1, <1>2, <2>1, <2>2, <2>3, QuietStep DEF IInv, Types
<1> QED BY <1>3, <1>4

LEMMA AddToListStep ==
  ASSUME IInv, NEW t \in Threads, AddToList(t)
  PROVE  IInv'
<1>1. /\ processing' = [processing EXCEPT ![want[t]] = @ + 1]
      /\ pc[t] = "convert" /\ pc' = [pc EXCEPT ![t] = "connect"]
      /\ file' = file /\ want' = want /\ offset' = offset /\ attached' = attached
      /\ crashes' = crashes /\ faults' = faults
  BY DEF AddToList, GoTo, streamVars, requestVars, countVars
<1>2. want[t] \in Ids
  BY <1>1 DEF IInv, Types
<1>3. Types'
  BY <1>1, <1>2 DEF IInv, Types, Places
<1>4. ~Converting(t) /\ Converting(t)' /\ \A u \in Threads \ {t} : Converting(u)' <=> Converting(u)
  BY <1>1 DEF IInv, Types, Converting
<1>5. ListMatchesDownloads'
  BY <1>1, <1>2, <1>4, ListGrows DEF IInv
<1>6. AttachedInv' /\ WriterInv'
  BY <1>1 DEF IInv, Types, AttachedInv, WriterInv, Parts
<1> QED BY <1>3, <1>5, <1>6 DEF IInv

LEMMA LeaveStep ==
  ASSUME IInv, NEW t \in Threads, Leave(t) \/ LeaveFailed(t)
  PROVE  IInv'
<1>1. /\ processing' = [processing EXCEPT ![want[t]] = @ - 1]
      /\ pc[t] \in {"leave", "failed"}
      /\ file' = file /\ want' = want /\ offset' = offset /\ attached' = attached
      /\ crashes' = crashes /\ faults' = faults
  BY DEF Leave, LeaveFailed, RemoveFromList, streamVars, requestVars, countVars
<1>2. PICK to \in {"measure", "check", "return"} : pc' = [pc EXCEPT ![t] = to]
  BY DEF Leave, LeaveFailed, GoTo
<1>3. want[t] \in Ids
  BY <1>1 DEF IInv, Types
<1>4. Converting(t) /\ ~Converting(t)' /\ \A u \in Threads \ {t} : Converting(u)' <=> Converting(u)
  BY <1>1, <1>2 DEF IInv, Types, Converting
<1>5. ListMatchesDownloads' /\ processing' \in [Ids -> Nat]
  BY <1>1, <1>3, <1>4, ListShrinks DEF IInv
<1>6. Types'
  BY <1>1, <1>2, <1>3, <1>5 DEF IInv, Types, Places
<1>7. AttachedInv' /\ WriterInv'
  BY <1>1, <1>2 DEF IInv, Types, AttachedInv, WriterInv, Parts
<1> QED BY <1>5, <1>6, <1>7 DEF IInv

\* Truncating a file makes the thread its writer.
LEMMA CreateStep ==
  ASSUME IInv, NEW t \in Threads, Create(t)
  PROVE  IInv'
<1>1. /\ file' = [file EXCEPT ![want[t]] = {}]
      /\ attached' = [attached EXCEPT ![t] = TRUE]
      /\ offset' = [offset EXCEPT ![t] = 0]
      /\ pc[t] = "create" /\ pc' = [pc EXCEPT ![t] = "available"]
      /\ processing' = processing /\ want' = want /\ crashes' = crashes /\ faults' = faults
  BY DEF Create, GoTo, listVars, requestVars, countVars
<1>2. want[t] \in Ids
  BY <1>1 DEF IInv, Types
<1>3. Types'
  BY <1>1, <1>2, CountsAssumption DEF IInv, Types, Places
<1>4. ListMatchesDownloads'
  <2>1. \A u \in Threads : Converting(u)' <=> Converting(u)
    BY <1>1 DEF IInv, Types, Converting
  <2> QED BY <1>1, <2>1, ListStays DEF IInv
<1>5. AttachedInv'
  BY <1>1, <1>2, AbsentAssumption DEF IInv, Types, AttachedInv
<1>6. WriterInv'
  <2> SUFFICES ASSUME crashes = 0, faults = 0, NEW i \in Ids
               PROVE  \/ file'[i] \in {Absent, Parts}
                      \/ \E u \in Threads : want[u] = i /\ attached'[u]
                                            /\ 1..offset'[u] \subseteq file'[i]
    BY <1>1 DEF WriterInv, Parts
  <2>1. CASE i = want[t]
    <3>1. attached'[t] /\ 1..offset'[t] = {}
      BY <1>1 DEF IInv, Types
    <3> QED BY <2>1, <3>1
  <2>2. CASE i # want[t]
    <3>1. \A u \in Threads : want[u] = i => u # t
      BY <2>2
    <3>2. file'[i] = file[i]
      BY <1>1, <2>2 DEF IInv, Types
    <3> QED BY <1>1, <3>1, <3>2 DEF IInv, Types, WriterInv
  <2> QED BY <2>1, <2>2
<1> QED BY <1>3, <1>4, <1>5, <1>6 DEF IInv

LEMMA CopyStep ==
  ASSUME IInv, NEW t \in Threads, Copy(t)
  PROVE  IInv'
<1>1. /\ pc[t] = "copy" /\ offset[t] < Size
      /\ offset' = [offset EXCEPT ![t] = @ + 1]
      /\ file' = IF attached[t]
                 THEN [file EXCEPT ![want[t]] = @ \cup {offset[t] + 1}] ELSE file
      /\ pc' = pc /\ attached' = attached
      /\ processing' = processing /\ want' = want /\ crashes' = crashes /\ faults' = faults
  BY DEF Copy, listVars, requestVars, countVars
<1>2. want[t] \in Ids /\ offset[t] \in Nat /\ offset[t] + 1 \in Parts
  BY <1>1, CountsAssumption DEF IInv, Types, Parts
<1>3. offset' \in [Threads -> 0..Size]
  BY <1>1, <1>2, CountsAssumption DEF IInv, Types, Parts
<1>4. \A i \in Ids : /\ file[i] # Absent => file'[i] \in SUBSET Parts /\ file[i] \subseteq file'[i]
                     /\ file[i] = Absent => file'[i] = Absent
  <2> SUFFICES ASSUME NEW i \in Ids
               PROVE  /\ file[i] # Absent => file'[i] \in SUBSET Parts /\ file[i] \subseteq file'[i]
                      /\ file[i] = Absent => file'[i] = Absent
    OBVIOUS
  <2>1. CASE attached[t] /\ i = want[t]
    <3>1. file[i] # Absent
      BY <2>1 DEF IInv, AttachedInv
    <3>2. file'[i] = file[i] \cup {offset[t] + 1}
      BY <1>1, <2>1 DEF IInv, Types
    <3> QED BY <1>2, <3>1, <3>2 DEF IInv, Types
  <2>2. CASE ~(attached[t] /\ i = want[t])
    <3>1. file'[i] = file[i]
      BY <1>1, <2>2 DEF IInv, Types
    <3> QED BY <3>1 DEF IInv, Types
  <2> QED BY <2>1, <2>2
<1>5. file' \in [Ids -> (SUBSET Parts) \cup {Absent}]
  <2>1. file' = [i \in Ids |-> file'[i]]
    BY <1>1 DEF IInv, Types
  <2> QED BY <1>4, <2>1
<1>6. Types'
  BY <1>1, <1>3, <1>5 DEF IInv, Types, Parts
<1>7. ListMatchesDownloads'
  BY <1>1, ListStays DEF IInv, Converting
<1>8. AttachedInv'
  <2> SUFFICES ASSUME NEW u \in Threads, attached[u]
               PROVE  pc[u] \in {"available", "copy"} /\ file'[want[u]] # Absent
    BY <1>1 DEF AttachedInv
  <2>1. pc[u] \in {"available", "copy"} /\ file[want[u]] # Absent /\ want[u] \in Ids
    BY DEF IInv, Types, AttachedInv
  <2>2. file'[want[u]] \in SUBSET Parts
    BY <1>4, <2>1
  <2> QED BY <2>1, <2>2, AbsentAssumption
<1>9. WriterInv'
  <2> SUFFICES ASSUME crashes = 0, faults = 0, NEW i \in Ids
               PROVE  \/ file'[i] \in {Absent, Parts}
                      \/ \E u \in Threads : want[u] = i /\ attached[u]
                                            /\ 1..offset'[u] \subseteq file'[i]
    BY <1>1 DEF WriterInv, Parts
  <2>1. CASE file[i] = Absent
    BY <1>4, <2>1
  <2>2. CASE file[i] # Absent /\ file[i] = Parts
    <3>1. file'[i] = Parts
      BY <1>4, <2>2
    <3> QED BY <3>1
  <2>3. CASE file[i] \notin {Absent, Parts}
    <3>1. PICK u \in Threads : want[u] = i /\ attached[u] /\ 1..offset[u] \subseteq file[i]
      BY <2>3 DEF IInv, WriterInv
    <3>2. CASE u = t
      <4>1. offset'[u] = offset[t] + 1
        BY <1>1, <3>2 DEF IInv, Types
      <4>2. file'[i] = file[i] \cup {offset[t] + 1}
        BY <1>1, <3>1, <3>2 DEF IInv, Types
      <4>3. 1..offset'[u] \subseteq (1..offset[t]) \cup {offset[t] + 1}
        BY <1>2, <4>1
      <4> QED BY <3>1, <3>2, <4>2, <4>3
    <3>3. CASE u # t
      <4>1. offset'[u] = offset[u]
        BY <1>1, <3>3 DEF IInv, Types
      <4> QED BY <1>4, <2>3, <3>1, <4>1
    <3> QED BY <3>2, <3>3
  <2> QED BY <2>1, <2>2, <2>3
<1> QED BY <1>6, <1>7, <1>8, <1>9 DEF IInv

\* A thread closes its stream: it has written everything, or something has gone wrong.
LEMMA StreamEndsStep ==
  ASSUME IInv, NEW t \in Threads, CopyEnds(t) \/ CopyBreaks(t) \/ ReopenFails(t)
  PROVE  IInv'
<1>1. /\ attached' = [attached EXCEPT ![t] = FALSE]
      /\ pc[t] \in {"copy", "available"}
      /\ file' = file /\ processing' = processing /\ offset' = offset /\ want' = want
      /\ crashes' = crashes
      /\ \/ faults' = faults /\ offset[t] = Size
         \/ faults' = faults + 1
  BY DEF CopyEnds, CopyBreaks, ReopenFails, Fault, listVars, requestVars, countVars
<1>2. PICK to \in {"stub", "failed"} : pc' = [pc EXCEPT ![t] = to]
  BY DEF CopyEnds, CopyBreaks, ReopenFails, GoTo
<1>3. want[t] \in Ids
  BY <1>1 DEF IInv, Types
<1>4. Types'
  BY <1>1, <1>2, <1>3 DEF IInv, Types, Places, Parts
<1>5. ListMatchesDownloads'
  <2>1. \A u \in Threads : Converting(u)' <=> Converting(u)
    BY <1>1, <1>2 DEF IInv, Types, Converting
  <2> QED BY <1>1, <2>1, ListStays DEF IInv
<1>6. AttachedInv'
  BY <1>1, <1>2 DEF IInv, Types, AttachedInv
<1>7. WriterInv'
  <2> SUFFICES ASSUME crashes = 0, faults = 0, faults' = 0, NEW i \in Ids,
                      file[i] \notin {Absent, Parts}
               PROVE  \E u \in Threads : want[u] = i /\ attached'[u]
                                         /\ 1..offset[u] \subseteq file[i]
    BY <1>1 DEF IInv, Types, WriterInv, Parts
  <2>1. offset[t] = Size
    BY <1>1
  <2>2. PICK u \in Threads : want[u] = i /\ attached[u] /\ 1..offset[u] \subseteq file[i]
    BY DEF IInv, WriterInv
  <2>3. u # t
    <3>1. file[i] \subseteq Parts
      BY DEF IInv, Types
    <3> QED BY <2>1, <2>2, <3>1 DEF Parts
  <2>4. attached'[u]
    BY <1>1, <2>2, <2>3 DEF IInv, Types
  <2> QED BY <2>2, <2>4
<1> QED BY <1>4, <1>5, <1>6, <1>7 DEF IInv

\* An empty file is deleted under the threads that write to it.
LEMMA DeleteStubStep ==
  ASSUME IInv, NEW t \in Threads, DeleteStub(t)
  PROVE  IInv'
<1>1. /\ file' = [file EXCEPT ![want[t]] = Absent]
      /\ attached' = [u \in Threads |-> attached[u] /\ want[u] # want[t]]
      /\ pc[t] = "delete" /\ pc' = [pc EXCEPT ![t] = "leave"]
      /\ offset' = offset /\ processing' = processing /\ want' = want
      /\ crashes' = crashes /\ faults' = faults
  BY DEF DeleteStub, GoTo, listVars, requestVars, countVars
<1>2. want[t] \in Ids
  BY <1>1 DEF IInv, Types
<1>3. \A u \in Threads : attached'[u] <=> attached[u] /\ want[u] # want[t]
  BY <1>1
<1>4. attached' \in [Threads -> BOOLEAN]
  <2>1. \A u \in Threads : (attached[u] /\ want[u] # want[t]) \in BOOLEAN
    OBVIOUS
  <2> QED BY <1>1, <2>1
<1>5. Types'
  BY <1>1, <1>2, <1>4 DEF IInv, Types, Places, Parts
<1>6. ListMatchesDownloads'
  <2>1. \A u \in Threads : Converting(u)' <=> Converting(u)
    BY <1>1 DEF IInv, Types, Converting
  <2> QED BY <1>1, <2>1, ListStays DEF IInv
<1>7. AttachedInv'
  BY <1>1, <1>3 DEF IInv, Types, AttachedInv
<1>8. WriterInv'
  <2> SUFFICES ASSUME crashes = 0, faults = 0, NEW i \in Ids, file'[i] \notin {Absent, Parts}
               PROVE  \E u \in Threads : want[u] = i /\ attached'[u]
                                         /\ 1..offset[u] \subseteq file'[i]
    BY <1>1 DEF WriterInv, Parts
  <2>1. i # want[t] /\ file'[i] = file[i]
    BY <1>1 DEF IInv, Types
  <2>2. PICK u \in Threads : want[u] = i /\ attached[u] /\ 1..offset[u] \subseteq file[i]
    BY <2>1 DEF IInv, WriterInv
  <2>3. attached'[u]
    BY <1>3, <2>1, <2>2
  <2> QED BY <2>1, <2>2, <2>3
<1> QED BY <1>5, <1>6, <1>7, <1>8 DEF IInv

LEMMA CrashStep ==
  ASSUME IInv, Crash
  PROVE  IInv'
<1>1. /\ crashes' = crashes + 1 /\ faults' = faults /\ file' = file
      /\ processing' = [i \in Ids |-> 0]
      /\ pc' = [t \in Threads |-> "idle"] /\ want' = [t \in Threads |-> Null]
      /\ offset' = [t \in Threads |-> 0] /\ attached' = [t \in Threads |-> FALSE]
  BY DEF Crash
<1>2. Types'
  BY <1>1, CountsAssumption DEF IInv, Types, Places, Parts
<1>3. ListMatchesDownloads'
  <2>1. \A i \in Ids : Downloads(i)' = {}
    BY <1>1 DEF Downloads, Converting
  <2> QED BY <1>1, <2>1, FS_EmptySet DEF ListMatchesDownloads, Downloads
<1>4. AttachedInv' /\ WriterInv'
  BY <1>1 DEF IInv, Types, AttachedInv, WriterInv
<1> QED BY <1>2, <1>3, <1>4 DEF IInv

-----------------------------------------------------------------------------
(* Stored images *)

\* A complete file, and the threads that may still look for it: none of them converts.
Kept(i) ==
  /\ file[i] = Parts
  /\ \A t \in Threads : want[t] = i => pc[t] \in {"idle", "cached", "return"}

\* That the Pairtree could not be read is never forgotten.
LEMMA UnreadStays ==
  ASSUME unread, [Next]_vars
  PROVE  unread'
<1>1. ASSUME NEW t \in Threads, Network(t)
      PROVE  unread'
  BY <1>1 DEF Network, Connect, ConnectFails, Reopen, ReopenFails, Copy, CopyEnds,
     CopyBreaks, countVars
<1>2. ASSUME NEW t \in Threads, Local(t)
      PROVE  unread'
  BY <1>2 DEF Local, GetCachedImage, LookupFails, CheckProcessing, Poll, Retrieve,
     AddToList, Create, CheckStub, DeleteStub, Leave, LeaveFailed, Measure, Return, countVars
<1>3. ASSUME NEW t \in Threads, NEW j \in Ids, Request(t, j)
      PROVE  unread'
  BY <1>3 DEF Request
<1>4. CASE Crash
  BY <1>4 DEF Crash
<1>5. CASE UNCHANGED vars
  BY <1>5 DEF vars, countVars
<1> QED BY <1>1, <1>2, <1>3, <1>4, <1>5 DEF Next

LEMMA KeptStep ==
  ASSUME NEW i \in Ids, IInv, Kept(i), [Next]_vars
  PROVE  Kept(i)' \/ unread'
<1>0. file[i] # Absent
  BY AbsentAssumption DEF Kept
<1>1. ASSUME NEW t \in Threads, NEW j \in Ids, Request(t, j)
      PROVE  Kept(i)'
  BY <1>1 DEF IInv, Types, Kept, Request, GoTo
<1>2. ASSUME NEW t \in Threads, GetCachedImage(t)
      PROVE  Kept(i)'
  BY <1>0, <1>2 DEF IInv, Types, Kept, GetCachedImage, GoTo
<1>3. ASSUME NEW t \in Threads, Return(t)
      PROVE  Kept(i)'
  BY <1>3 DEF IInv, Types, Kept, Return, GoTo
\* All other steps are of threads that are after another image.
<1>4. ASSUME NEW t \in Threads, want[t] # i, want[t] \in Ids, want' = want,
             \A u \in Threads \ {t} : pc'[u] = pc[u],
             \/ file' = file
             \/ \E c \in (SUBSET Parts) \cup {Absent} : file' = [file EXCEPT ![want[t]] = c]
      PROVE  Kept(i)'
  BY <1>4 DEF IInv, Types, Kept
<1>5. ASSUME NEW t \in Threads,
             \/ CheckProcessing(t) \/ Poll(t) \/ Retrieve(t) \/ Measure(t) \/ AddToList(t)
             \/ Leave(t) \/ LeaveFailed(t) \/ CheckStub(t) \/ Connect(t) \/ ConnectFails(t)
             \/ Reopen(t) \/ ReopenFails(t) \/ CopyEnds(t) \/ CopyBreaks(t)
      PROVE  Kept(i)'
  <2>1. /\ pc[t] \notin {"idle", "cached", "return"} /\ want' = want /\ file' = file
        /\ \E to \in Places : pc' = [pc EXCEPT ![t] = to]
    <3>1. CASE CheckProcessing(t) \/ Poll(t) \/ Retrieve(t) \/ Measure(t) \/ AddToList(t)
      BY <3>1 DEF CheckProcessing, Poll, Retrieve, Measure, AddToList, GoTo, Places,
         requestVars
    <3>2. CASE Leave(t) \/ LeaveFailed(t) \/ CheckStub(t) \/ Connect(t) \/ ConnectFails(t)
      BY <3>2 DEF Leave, LeaveFailed, CheckStub, Connect, ConnectFails, GoTo, Places,
         requestVars
    <3>3. CASE Reopen(t) \/ ReopenFails(t) \/ CopyEnds(t) \/ CopyBreaks(t)
      BY <3>3 DEF Reopen, ReopenFails, CopyEnds, CopyBreaks, GoTo, Places, requestVars
    <3> QED BY <1>5, <3>1, <3>2, <3>3
  <2> QED BY <1>4, <2>1 DEF IInv, Types, Kept
<1>6. ASSUME NEW t \in Threads, Create(t) \/ DeleteStub(t)
      PROVE  Kept(i)'
  <2>1. /\ pc[t] \in {"create", "delete"} /\ want' = want
        /\ \E c \in (SUBSET Parts) \cup {Absent} : file' = [file EXCEPT ![want[t]] = c]
        /\ \E to \in Places : pc' = [pc EXCEPT ![t] = to]
    <3>1. CASE Create(t)
      <4>1. {} \in (SUBSET Parts) \cup {Absent}
        OBVIOUS
      <4> QED BY <3>1, <4>1 DEF Create, GoTo, Places, requestVars
    <3>2. CASE DeleteStub(t)
      BY <3>2 DEF DeleteStub, GoTo, Places, requestVars
    <3> QED BY <1>6, <3>1, <3>2
  <2> QED BY <1>4, <2>1 DEF IInv, Types, Kept
<1>7. ASSUME NEW t \in Threads, Copy(t)
      PROVE  Kept(i)'
  <2>1. pc[t] = "copy" /\ want' = want /\ pc' = pc
    BY <1>7 DEF Copy, requestVars
  <2>2. want[t] \in Ids /\ want[t] # i
    BY <2>1 DEF IInv, Types, Kept
  <2>3. file'[i] = file[i]
    BY <1>7, <2>2 DEF IInv, Types, Copy
  <2> QED BY <2>1, <2>3 DEF Kept
<1>8. CASE Crash
  BY <1>8 DEF Kept, Crash
<1>9. CASE UNCHANGED vars
  BY <1>9 DEF Kept, vars, requestVars
<1>10. ASSUME NEW t \in Threads, LookupFails(t)
       PROVE  unread'
  BY <1>10 DEF LookupFails
<1> QED BY <1>1, <1>2, <1>3, <1>5, <1>6, <1>7, <1>8, <1>9, <1>10 DEF Next, Network, Local

-----------------------------------------------------------------------------
(* The theorems *)

LEMMA Initially == Init => IInv
<1> SUFFICES ASSUME Init PROVE IInv
  OBVIOUS
<1>1. Types
  BY CountsAssumption DEF Init, Types, Places
<1>2. ListMatchesDownloads
  <2>1. \A i \in Ids : Downloads(i) = {}
    BY DEF Init, Downloads, Converting
  <2> QED BY <2>1, FS_EmptySet DEF Init, ListMatchesDownloads, Downloads
<1>3. AttachedInv /\ WriterInv
  BY DEF Init, AttachedInv, WriterInv
<1> QED BY <1>1, <1>2, <1>3 DEF IInv

LEMMA Inductive == IInv /\ [Next]_vars => IInv'
<1> SUFFICES ASSUME IInv, [Next]_vars PROVE IInv'
  OBVIOUS
<1>1. CASE \E t \in Threads : (\E i \in Ids : Request(t, i)) \/ Network(t) \/ Local(t)
  BY <1>1, ThreadStep, RequestStep, AddToListStep, LeaveStep, CreateStep, CopyStep,
     StreamEndsStep, DeleteStubStep DEF Network, Local
<1>2. CASE Crash
  BY <1>2, CrashStep
<1>3. CASE UNCHANGED vars
  <2>1. /\ file' = file /\ processing' = processing /\ pc' = pc /\ want' = want
        /\ offset' = offset /\ attached' = attached /\ crashes' = crashes /\ faults' = faults
    BY <1>3 DEF vars, listVars, streamVars, requestVars, countVars
  <2>2. Types' /\ AttachedInv' /\ WriterInv'
    BY <2>1 DEF IInv, Types, AttachedInv, WriterInv, Parts
  <2>3. ListMatchesDownloads'
    BY <2>1, ListStays DEF IInv, Converting
  <2> QED BY <2>2, <2>3 DEF IInv
<1> QED BY <1>1, <1>2, <1>3 DEF Next

\* The migrator's list holds an identifier once for every thread that is downloading it,
\* whatever fails and however often the server starts (convert's finally block).
THEOREM TheListIsRight == Spec => []ListMatchesDownloads
<1>1. IInv => ListMatchesDownloads
  BY DEF IInv
<1> QED BY <1>1, Initially, Inductive, PTL DEF Spec

\* Without faults a file that nobody is writing is complete, however many threads
\* truncated, wrote and deleted it at once (convert, copyStream).
THEOREM NoFileStaysIncomplete == Spec => []QuietFilesAreComplete
<1>1. IInv => QuietFilesAreComplete
  <2> SUFFICES ASSUME IInv, crashes = 0, faults = 0, NEW i \in Ids, processing[i] = 0
               PROVE  file[i] \in {Absent, Parts}
    BY DEF QuietFilesAreComplete
  <2>1. Downloads(i) = {}
    BY DownloadsAreFinite, FS_EmptySet, ThreadsAssumption
       DEF IInv, ListMatchesDownloads, Downloads
  <2>2. \A t \in Threads : want[t] = i => ~attached[t]
    BY <2>1 DEF IInv, AttachedInv, Downloads, Converting
  <2> QED BY <2>2 DEF IInv, WriterInv
<1> QED BY <1>1, Initially, Inductive, PTL DEF Spec

\* Once an image is complete and no request under way, no later request truncates or
\* deletes it, whatever fails on the network and however often the server starts, unless
\* the Pairtree could not be read (getCachedImage).
THEOREM ImagesStayStored == Spec => StoredForGood
<1> DEFINE Stays(i) ==
      []((\A t \in Threads : pc[t] = "idle") /\ file[i] = Parts =>
           [](file[i] = Parts \/ unread))
<1>1. ASSUME NEW i \in Ids
      PROVE  Spec => Stays(i)
  <2>1. (\A t \in Threads : pc[t] = "idle") /\ file[i] = Parts => Kept(i)
    BY DEF Kept
  <2>2. IInv /\ (Kept(i) \/ unread) /\ [Next]_vars => (Kept(i) \/ unread)'
    BY KeptStep, UnreadStays
  <2>3. Kept(i) => file[i] = Parts
    BY DEF Kept
  <2> QED BY <2>1, <2>2, <2>3, Initially, Inductive, PTL DEF Spec
<1> HIDE DEF Stays
<1>2. Spec => \A i \in Ids : Stays(i)
  BY <1>1
<1> QED BY <1>2 DEF StoredForGood, Stays
=============================================================================
