------------------------------ MODULE LRUCache ------------------------------
(***************************************************************************)
(* What an LRU cache of files promises, told with the textbook list: the   *)
(* cached keys in the order of their last use, the longest unused first.   *)
(* TileCacheManager is shown to implement it.                              *)
(***************************************************************************)
EXTENDS Naturals, SequencesExt

CONSTANTS
  Keys,      \* what a file is filed under
  Paths,     \* the files
  Capacity   \* the most entries the cache keeps

VARIABLES
  recency,   \* the cached keys, least recently used first
  fileOf,    \* the file of each cached key
  onDisk     \* the files that exist

vars == <<recency, fileOf, onDisk>>

Cached == ToSet(recency)

\* The list after k has been used: a key is in it once.
Used(s, k) == Append(RemoveFirst(s, k), k)

Init ==
  /\ recency = <<>>
  /\ fileOf = [k \in {} |-> {}]
  /\ onDisk = {}

\* Using a cached key makes it the most recently used one.
Use(k) ==
  /\ k \in Cached
  /\ recency' = Used(recency, k)
  /\ UNCHANGED <<fileOf, onDisk>>

\* A cached key is given another file; the old file is forgotten, not deleted.
Refile(k, f) ==
  /\ k \in Cached
  /\ recency' = Used(recency, k)
  /\ fileOf' = [fileOf EXCEPT ![k] = f]
  /\ UNCHANGED onDisk

\* A new key that fits.
Insert(k, f) ==
  /\ k \notin Cached
  /\ Len(recency) < Capacity
  /\ recency' = Append(recency, k)
  /\ fileOf' = [c \in Cached \cup {k} |-> IF c = k THEN f ELSE fileOf[c]]
  /\ UNCHANGED onDisk

\* A new key that does not fit takes the place of the longest unused one, whose
\* file is deleted. With a capacity of 0 that is the new key itself.
Replace(k, f) ==
  LET longer == Append(recency, k)
      files == [c \in Cached \cup {k} |-> IF c = k THEN f ELSE fileOf[c]]
  IN /\ k \notin Cached
     /\ Len(recency) = Capacity
     /\ recency' = Tail(longer)
     /\ fileOf' = [c \in (Cached \cup {k}) \ {Head(longer)} |-> files[c]]
     /\ onDisk' = onDisk \ {files[Head(longer)]}

\* A key is given up, and its file deleted.
Discard(k) ==
  /\ k \in Cached
  /\ recency' = RemoveFirst(recency, k)
  /\ fileOf' = [c \in Cached \ {k} |-> fileOf[c]]
  /\ onDisk' = onDisk \ {fileOf[k]}

\* Everything is forgotten; no file is deleted.
Forget ==
  /\ recency' = <<>>
  /\ fileOf' = [k \in {} |-> {}]
  /\ UNCHANGED onDisk

\* The users of the cache create files and move them elsewhere.
Outside(f) ==
  /\ \/ onDisk' = onDisk \cup {f}
     \/ onDisk' = onDisk \ {f}
  /\ UNCHANGED <<recency, fileOf>>

Next ==
  \/ \E k \in Keys : Use(k) \/ Discard(k)
  \/ \E k \in Keys, f \in Paths : Refile(k, f) \/ Insert(k, f) \/ Replace(k, f)
  \/ Forget
  \/ \E f \in Paths : Outside(f)

Spec == Init /\ [][Next]_vars
=============================================================================
