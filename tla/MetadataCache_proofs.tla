------------------------ MODULE MetadataCache_proofs ------------------------
(***************************************************************************)
(* An info response never states a wrong size, a request that none crosses *)
(* finds its image, and a written file stays, for any pool of threads and  *)
(* any set of images.                                                      *)
(***************************************************************************)
EXTENDS MetadataCache, TLAPS

-----------------------------------------------------------------------------
(* The inductive invariant *)

\* A file holds the metadata of its image, or nothing.
FilesAreRight ==
  \A i \in Ids : xmlFile[i] \in {Absent, Empty} \/ (xmlFile[i] = i /\ i \in Images)

\* Every call to the own server that a thread answers is one that another thread
\* waits for, and two threads never answer the same one.
CallsAreApart ==
  /\ \A u \in Threads : pc[u] = "metadata" => caller[u] \in Threads /\ pc[caller[u]] = "called"
  /\ \A u, v \in Threads :
       pc[u] = "metadata" /\ pc[v] = "metadata" /\ caller[u] = caller[v] => u = v

\* What a thread holds at each point of its way.
AnswersAreRight ==
  \A t \in Threads :
    /\ pc[t] \notin {"idle", "metadata"} => want[t] \in Ids
    /\ pc[t] = "write" => info[t] = want[t] /\ want[t] \in Images
    /\ pc[t] \notin {"close", "sent"} => status[t] = "none"
    /\ status[t] = "ok" => info[t] = want[t] /\ want[t] \in Images

IInv == TypeOK /\ FilesAreRight /\ CallsAreApart /\ AnswersAreRight

-----------------------------------------------------------------------------
(* The steps *)

LEMMA ReceiveStep ==
  ASSUME IInv, NEW t \in Threads, NEW i \in Ids, Receive(t, i)
  PROVE  IInv'
<1>1. TypeOK'
  <2>1. asked' \in 0..MaxRequests
    BY BoundsAssumption DEF IInv, TypeOK, Receive
  <2>2. excused' \in [Threads -> BOOLEAN]
    BY Zenon DEF Receive
  <2> QED BY <2>1, <2>2 DEF IInv, TypeOK, Receive, GoTo, PCs, fileVars, answerVars
<1>2. FilesAreRight'
  BY DEF IInv, FilesAreRight, Receive, fileVars
<1>3. CallsAreApart'
  BY DEF IInv, TypeOK, CallsAreApart, Receive, GoTo
<1>4. AnswersAreRight'
  BY DEF IInv, TypeOK, AnswersAreRight, Receive, GoTo, answerVars
<1> QED BY <1>1, <1>2, <1>3, <1>4 DEF IInv

LEMMA AcceptStep ==
  ASSUME IInv, NEW t \in Threads, NEW u \in Threads, Accept(t, u)
  PROVE  IInv'
<1>0. t # u
  BY DEF Accept
<1>1. TypeOK'
  BY DEF IInv, TypeOK, Accept, PCs, fileVars, answerVars, countVars
<1>2. FilesAreRight'
  BY DEF IInv, FilesAreRight, Accept, fileVars
<1>3. CallsAreApart'
  BY <1>0 DEF IInv, TypeOK, CallsAreApart, Accept
<1>4. AnswersAreRight'
  BY <1>0 DEF IInv, TypeOK, AnswersAreRight, Accept, answerVars
<1> QED BY <1>1, <1>2, <1>3, <1>4 DEF IInv

LEMMA AnswerStep ==
  ASSUME IInv, NEW u \in Threads, Answer(u) \/ AnswerFails(u)
  PROVE  IInv'
<1> DEFINE t == caller[u]
<1>0. t \in Threads /\ pc[t] = "called" /\ pc[u] = "metadata" /\ t # u /\ want[t] \in Ids
  BY DEF IInv, CallsAreApart, AnswersAreRight, Answer, AnswerFails
<1> HIDE DEF t
<1>1. TypeOK'
  <2>1. CASE Answer(u)
    BY <1>0, <2>1 DEF IInv, TypeOK, Answer, PCs, fileVars, countVars, t
  <2>2. CASE AnswerFails(u)
    BY <1>0, <2>2, BoundsAssumption DEF IInv, TypeOK, AnswerFails, PCs, fileVars, t
  <2> QED BY <2>1, <2>2
<1>2. FilesAreRight'
  BY DEF IInv, FilesAreRight, Answer, AnswerFails, fileVars
<1>3. CallsAreApart'
  BY <1>0 DEF IInv, TypeOK, CallsAreApart, Answer, AnswerFails, t
<1>4. AnswersAreRight'
  BY <1>0 DEF IInv, TypeOK, AnswersAreRight, Answer, AnswerFails, t
<1> QED BY <1>1, <1>2, <1>3, <1>4 DEF IInv

\* The steps of a thread that concern itself alone.
LEMMA OwnStep ==
  ASSUME IInv, NEW t \in Threads,
         \/ Look(t) \/ Read(t) \/ CheckExists(t) \/ Delete(t) \/ Create(t)
         \/ Write(t) \/ Close(t) \/ Finish(t)
  PROVE  IInv'
<1>0. /\ pc[t] \notin {"idle", "metadata", "called"} /\ pc'[t] \notin {"metadata", "called"}
      /\ \A u \in Threads \ {t} : pc'[u] = pc[u]
      /\ caller' = caller
  BY DEF IInv, TypeOK, Look, Read, CheckExists, Delete, Create, Write, Close, Finish, GoTo
<1>1. want[t] \in Ids
  BY <1>0 DEF IInv, AnswersAreRight
<1>2. CallsAreApart'
  BY <1>0 DEF IInv, CallsAreApart
<1>3. CASE Look(t) \/ CheckExists(t) \/ Close(t)
  <2>1. TypeOK' /\ FilesAreRight'
    BY <1>3 DEF IInv, TypeOK, FilesAreRight, Look, CheckExists, Close, GoTo, PCs,
       fileVars, answerVars, countVars
  <2>2. AnswersAreRight'
    BY <1>3 DEF IInv, TypeOK, AnswersAreRight, Look, CheckExists, Close, GoTo, answerVars
  <2> QED BY <1>2, <2>1, <2>2 DEF IInv
<1>4. CASE Read(t)
  <2>1. xmlFile[want[t]] \in {Absent, Empty} \/ (xmlFile[want[t]] = want[t] /\ want[t] \in Images)
    BY <1>1 DEF IInv, FilesAreRight
  <2>2. TypeOK' /\ FilesAreRight'
    BY <1>1, <1>4, <2>1 DEF IInv, TypeOK, FilesAreRight, Read, GoTo, PCs, fileVars, countVars
  <2>3. AnswersAreRight'
    BY <1>1, <1>4, <2>1, ContentAssumption DEF IInv, TypeOK, AnswersAreRight, Read, GoTo
  <2> QED BY <1>2, <2>2, <2>3 DEF IInv
<1>5. CASE Delete(t) \/ Create(t)
  <2>0. named' \in [Threads -> BOOLEAN]
    <3>1. CASE Delete(t)
      BY <3>1, Zenon DEF Delete
    <3>2. CASE Create(t)
      BY <3>2 DEF IInv, TypeOK, Create
    <3> QED BY <1>5, <3>1, <3>2
  <2>1. TypeOK' /\ FilesAreRight'
    <3>1. /\ xmlFile' \in [Ids -> Ids \cup {Absent, Empty}]
          /\ FilesAreRight'
      BY <1>1, <1>5 DEF IInv, TypeOK, FilesAreRight, Delete, Create
    <3> QED BY <1>5, <2>0, <3>1
            DEF IInv, TypeOK, Delete, Create, GoTo, PCs, answerVars, countVars
  <2>2. AnswersAreRight'
    BY <1>5 DEF IInv, TypeOK, AnswersAreRight, Delete, Create, GoTo, answerVars
  <2> QED BY <1>2, <2>1, <2>2 DEF IInv
<1>6. CASE Write(t)
  <2>1. info[t] = want[t] /\ want[t] \in Images
    BY <1>6 DEF IInv, AnswersAreRight, Write
  <2>2. TypeOK' /\ FilesAreRight'
    BY <1>1, <1>6, <2>1 DEF IInv, TypeOK, FilesAreRight, Write, GoTo, PCs, countVars
  <2>3. AnswersAreRight'
    BY <1>6, <2>1 DEF IInv, TypeOK, AnswersAreRight, Write, GoTo
  <2> QED BY <1>2, <2>2, <2>3 DEF IInv
<1>7. CASE Finish(t)
  <2>1. TypeOK' /\ FilesAreRight'
    BY <1>7 DEF IInv, TypeOK, FilesAreRight, Finish, GoTo, PCs, fileVars, countVars
  <2>2. AnswersAreRight'
    BY <1>7 DEF IInv, TypeOK, AnswersAreRight, Finish, GoTo
  <2> QED BY <1>2, <2>1, <2>2 DEF IInv
<1> QED BY <1>3, <1>4, <1>5, <1>6, <1>7

LEMMA CrashStep ==
  ASSUME IInv, Crash
  PROVE  IInv'
<1>1. TypeOK'
  BY BoundsAssumption DEF IInv, TypeOK, Crash, PCs
<1>2. FilesAreRight'
  BY DEF IInv, FilesAreRight, Crash
<1>3. CallsAreApart' /\ AnswersAreRight'
  BY DEF CallsAreApart, AnswersAreRight, Crash
<1> QED BY <1>1, <1>2, <1>3 DEF IInv

-----------------------------------------------------------------------------
(* The invariant *)

LEMMA IInvHolds == Spec => []IInv
<1>1. Init => IInv
  BY BoundsAssumption
     DEF Init, IInv, TypeOK, FilesAreRight, CallsAreApart, AnswersAreRight, PCs
<1>2. IInv /\ [Next]_vars => IInv'
  <2>1. ASSUME IInv, UNCHANGED vars
        PROVE  IInv'
    BY <2>1 DEF vars, fileVars, answerVars, countVars, IInv, TypeOK, FilesAreRight,
       CallsAreApart, AnswersAreRight
  <2>2. ASSUME IInv, Next
        PROVE  IInv'
    BY <2>2, ReceiveStep, AcceptStep, AnswerStep, OwnStep, CrashStep DEF Next, Run, Serve
  <2> QED BY <2>1, <2>2
<1> QED BY <1>1, <1>2, PTL DEF Spec

-----------------------------------------------------------------------------
(* Requests that no other one crosses *)

\* A request that is not excused has its identifier to itself, and so finds what it saw
\* when it looked.
AloneInv ==
  \A t \in Threads : want[t] \in Images /\ ~excused[t] =>
    /\ status[t] \in {"none", "ok"}
    /\ \A u \in Threads \ {t} : want[u] # want[t]
    /\ pc[t] = "read" => xmlFile[want[t]] \notin {Absent, Empty}

LEMMA AloneReceiveStep ==
  ASSUME IInv, AloneInv, NEW t \in Threads, NEW i \in Ids, Receive(t, i)
  PROVE  AloneInv'
<1>1. /\ i # Null /\ want' = [want EXCEPT ![t] = i]
      /\ status' = status /\ xmlFile' = xmlFile /\ pc' = [pc EXCEPT ![t] = "look"]
      /\ status[t] = "none"
  BY ContentAssumption
     DEF Receive, GoTo, fileVars, answerVars, IInv, TypeOK, AnswersAreRight
<1>2. excused' = [u \in Threads |-> IF u = t THEN \E r \in Asking : want[r] = i
                                    ELSE excused[u] \/ want[u] = i]
  BY DEF Receive
<1> SUFFICES ASSUME NEW u \in Threads, want'[u] \in Images, ~excused'[u]
             PROVE  /\ status'[u] \in {"none", "ok"}
                    /\ \A w \in Threads \ {u} : want'[w] # want'[u]
                    /\ pc'[u] = "read" => xmlFile'[want'[u]] \notin {Absent, Empty}
  BY DEF AloneInv
<1>3. CASE u = t
  <2>1. \A r \in Asking : want[r] # i
    BY <1>2, <1>3
  <2> QED BY <1>1, <1>3, <2>1 DEF IInv, TypeOK, Asking
<1>4. CASE u # t
  <2>1. ~excused[u] /\ want[u] # i
    BY <1>2, <1>4
  <2> QED BY <1>1, <1>4, <2>1 DEF IInv, TypeOK, AloneInv
<1> QED BY <1>3, <1>4

LEMMA AloneAnswerStep ==
  ASSUME IInv, AloneInv, NEW u \in Threads, Answer(u) \/ AnswerFails(u)
  PROVE  AloneInv'
<1> DEFINE t == caller[u]
<1>0. t \in Threads /\ pc[t] = "called" /\ pc[u] = "metadata" /\ t # u
  BY DEF IInv, CallsAreApart, Answer, AnswerFails
<1> HIDE DEF t
<1>1. CASE Answer(u)
  <2>1. status' = [status EXCEPT ![t] = IF want[t] \in Images THEN @ ELSE "notFound"]
    BY <1>1 DEF Answer, t
  <2>2. /\ pc' = [pc EXCEPT ![t] = IF want[t] \in Images THEN "write" ELSE "close",
                            ![u] = "idle"]
        /\ want' = want /\ excused' = excused /\ xmlFile' = xmlFile
    BY <1>1 DEF Answer, t, fileVars
  <2> QED BY <1>0, <2>1, <2>2 DEF IInv, TypeOK, AloneInv
<1>2. CASE AnswerFails(u)
  BY <1>0, <1>2 DEF IInv, TypeOK, AloneInv, AnswerFails, t, fileVars
<1> QED BY <1>1, <1>2

\* A step of a thread changes the file of its own identifier only.
LEMMA AloneOwnStep ==
  ASSUME IInv, AloneInv, NEW t \in Threads,
         \/ Look(t) \/ Read(t) \/ CheckExists(t) \/ Delete(t) \/ Create(t)
         \/ Write(t) \/ Close(t) \/ Finish(t)
  PROVE  AloneInv'
<1>0. Null \notin Images /\ want[t] \in Ids
  BY ImagesAssumption, ContentAssumption DEF IInv, AnswersAreRight,
     Look, Read, CheckExists, Delete, Create, Write, Close, Finish
<1>1. CASE Look(t)
  BY <1>0, <1>1 DEF IInv, TypeOK, AloneInv, Look, GoTo, fileVars, answerVars
<1>2. CASE Read(t)
  <2>1. want[t] \in Images /\ ~excused[t] => xmlFile[want[t]] \notin {Absent, Empty}
    BY <1>2 DEF AloneInv, Read
  <2> QED BY <1>0, <1>2, <2>1 DEF IInv, TypeOK, AloneInv, Read, GoTo, fileVars
<1>3. CASE CheckExists(t)
  BY <1>0, <1>3 DEF IInv, TypeOK, AloneInv, CheckExists, GoTo, fileVars, answerVars
<1>4. CASE Delete(t) \/ Create(t)
  <2>1. /\ pc' = [pc EXCEPT ![t] = IF pc[t] = "delete" THEN "create" ELSE "call"]
        /\ \E c \in {Absent, Empty} : xmlFile' = [xmlFile EXCEPT ![want[t]] = c]
        /\ want' = want /\ status' = status /\ excused' = excused
    BY <1>4 DEF Delete, Create, GoTo, answerVars
  <2> QED BY <1>0, <2>1 DEF IInv, TypeOK, AloneInv
<1>5. CASE Write(t)
  <2>1. /\ pc' = [pc EXCEPT ![t] = "close"] /\ status' = [status EXCEPT ![t] = "ok"]
        /\ want' = want /\ excused' = excused
        /\ \A i \in Ids : i # want[t] => xmlFile'[i] = xmlFile[i]
    BY <1>0, <1>5 DEF IInv, TypeOK, Write, GoTo
  <2> QED BY <1>0, <2>1, ImagesAssumption DEF IInv, TypeOK, AloneInv
<1>6. CASE Close(t)
  BY <1>0, <1>6 DEF IInv, TypeOK, AloneInv, Close, GoTo, answerVars
<1>7. CASE Finish(t)
  BY <1>0, <1>7 DEF IInv, TypeOK, AloneInv, Finish, GoTo, fileVars
<1> QED BY <1>1, <1>2, <1>3, <1>4, <1>5, <1>6, <1>7

LEMMA AloneStep ==
  ASSUME IInv, AloneInv, [Next]_vars
  PROVE  AloneInv'
<1>1. ASSUME NEW t \in Threads, NEW u \in Threads, Accept(t, u)
      PROVE  AloneInv'
  BY <1>1 DEF IInv, TypeOK, AloneInv, Accept, fileVars, answerVars
<1>2. CASE Crash
  BY <1>2, ImagesAssumption, ContentAssumption DEF AloneInv, Crash
<1>3. CASE UNCHANGED vars
  BY <1>3 DEF AloneInv, vars, fileVars, answerVars
<1> QED BY <1>1, <1>2, <1>3, AloneReceiveStep, AloneAnswerStep, AloneOwnStep DEF Next, Run, Serve

-----------------------------------------------------------------------------
(* Written files *)

\* A file that is written, and the threads that may still look at it.
Kept(i) ==
  /\ xmlFile[i] = i
  /\ \A t \in Threads : want[t] = i => pc[t] \in {"idle", "metadata", "look", "read", "sent"}

LEMMA KeptStep ==
  ASSUME NEW i \in Images, IInv, Kept(i), [Next]_vars
  PROVE  Kept(i)'
<1>0. i \in Ids /\ i \notin {Absent, Empty, Null}
  BY ImagesAssumption, ContentAssumption
<1>1. ASSUME NEW t \in Threads, NEW j \in Ids, Receive(t, j)
      PROVE  Kept(i)'
  BY <1>1 DEF IInv, TypeOK, Kept, Receive, GoTo, fileVars
<1>2. ASSUME NEW t \in Threads, NEW u \in Threads, Accept(t, u)
      PROVE  Kept(i)'
  <2>1. want[t] # i
    BY <1>2 DEF Kept, Accept
  <2> QED BY <1>2, <2>1 DEF IInv, TypeOK, Kept, Accept, fileVars
<1>3. ASSUME NEW u \in Threads, Answer(u) \/ AnswerFails(u)
      PROVE  Kept(i)'
  <2>1. caller[u] \in Threads /\ want[caller[u]] # i
    BY <1>3 DEF IInv, CallsAreApart, Kept, Answer, AnswerFails
  <2> QED BY <1>3, <2>1 DEF IInv, TypeOK, Kept, Answer, AnswerFails, fileVars
<1>4. ASSUME NEW t \in Threads, Look(t) \/ Read(t) \/ Finish(t)
      PROVE  Kept(i)'
  BY <1>0, <1>4 DEF IInv, TypeOK, Kept, Look, Read, Finish, GoTo, fileVars
<1>5. ASSUME NEW t \in Threads,
             CheckExists(t) \/ Delete(t) \/ Create(t) \/ Write(t) \/ Close(t)
      PROVE  Kept(i)'
  <2>1. want[t] # i /\ want[t] \in Ids
    BY <1>5 DEF IInv, AnswersAreRight, Kept, CheckExists, Delete, Create, Write, Close
  <2>2. xmlFile'[i] = xmlFile[i]
    BY <1>0, <1>5, <2>1 DEF IInv, TypeOK, CheckExists, Delete, Create, Write, Close, fileVars
  <2>3. want' = want /\ \A u \in Threads \ {t} : pc'[u] = pc[u]
    BY <1>5 DEF IInv, TypeOK, CheckExists, Delete, Create, Write, Close, GoTo
  <2> QED BY <2>1, <2>2, <2>3 DEF Kept
<1>6. CASE Crash
  BY <1>6 DEF Kept, Crash
<1>7. CASE UNCHANGED vars
  BY <1>7 DEF Kept, vars, fileVars
<1> QED BY <1>1, <1>2, <1>3, <1>4, <1>5, <1>6, <1>7 DEF Next, Run, Serve

-----------------------------------------------------------------------------
(* Theorems *)

\* The servlet's locals and the files keep their types.
THEOREM MetadataTypeCorrect == Spec => []TypeOK
<1>1. IInv => TypeOK
  BY DEF IInv
<1> QED BY <1>1, IInvHolds, PTL

\* However many requests empty, delete, write and read one file at once, and
\* whatever fails, a 200 states the size of the image that was asked for.
THEOREM InfoStaysRight == Spec => []InfoIsRight
<1>1. IInv => InfoIsRight
  BY DEF IInv, AnswersAreRight, InfoIsRight
<1> QED BY <1>1, IInvHolds, PTL

\* A request that no other request for the image crosses, and for which the service
\* does not fail, finds an image that exists, whatever empty files it comes upon.
THEOREM AloneFinds == Spec => []AloneFindsImage
<1>1. Init => AloneInv
  BY ImagesAssumption, ContentAssumption DEF Init, AloneInv
<1>2. IInv /\ AloneInv /\ [Next]_vars => AloneInv'
  BY AloneStep
<1>3. IInv /\ AloneInv => AloneFindsImage
  BY DEF IInv, TypeOK, AloneInv, AloneFindsImage
<1> QED BY <1>1, <1>2, <1>3, IInvHolds, PTL DEF Spec

\* No request, however late, deletes or empties a file that was complete when nobody
\* asked for its image; nor does a restart.
THEOREM WrittenFilesStay == Spec => MetadataStays
<1> DEFINE Stays(i) ==
      []((\A t \in Threads : want[t] # i) /\ xmlFile[i] = i => [](xmlFile[i] = i))
<1>1. ASSUME NEW i \in Images
      PROVE  Spec => Stays(i)
  <2>1. (\A t \in Threads : want[t] # i) /\ xmlFile[i] = i => Kept(i)
    BY DEF Kept
  <2>2. IInv /\ Kept(i) /\ [Next]_vars => Kept(i)'
    BY KeptStep
  <2>3. Kept(i) => xmlFile[i] = i
    BY DEF Kept
  <2> QED BY <2>1, <2>2, <2>3, IInvHolds, PTL DEF Spec
<1> HIDE DEF Stays
<1>2. Spec => \A i \in Images : Stays(i)
  BY <1>1
<1> QED BY <1>2 DEF MetadataStays, Stays
=============================================================================
