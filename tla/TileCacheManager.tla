-------------------------- MODULE TileCacheManager --------------------------
(***************************************************************************)
(* gov.lanl.adore.djatoka.openurl.TileCacheManager: the map from the hash  *)
(* of a tile to the temporary file that holds it. The map is a             *)
(* LinkedHashMap in access order whose removeEldestEntry deletes the file  *)
(* of the entry used least recently when a new key makes the map too       *)
(* large. Every method is synchronized, so each is one step.               *)
(*                                                                         *)
(* The order of the map's linked list is kept as the set of pairs <<a, b>> *)
(* such that a stands before b, that is, was used less recently.           *)
(***************************************************************************)
EXTENDS Naturals, FiniteSets

CONSTANTS
  Keys,       \* tile hashes with their extension; also the picture a file holds
  Paths,      \* temporary files
  Null,       \* Java's null
  Absent,     \* the content of a file that does not exist
  Empty,      \* the content of a file of length 0
  max_cache   \* OpenURLJP2KService.cacheSize

ASSUME KeysAssumption == IsFiniteSet(Keys)
ASSUME NullAssumption ==
  /\ Null \notin Paths /\ Null \notin Keys
  /\ Absent \notin Keys
  /\ Empty \notin Keys
  /\ Absent # Empty
ASSUME CapacityAssumption == max_cache \in Nat

VARIABLES
  cacheMap,   \* the file of each key, Null for a key the map lacks
  older,      \* the access order
  disk        \* the content of each file

cacheVars == <<cacheMap, older>>
tileVars == <<cacheMap, older, disk>>

Contents == Keys \cup {Empty, Absent}

Cached(m) == {k \in Keys : m[k] # Null}
MappedFiles == {cacheMap[k] : k \in Cached(cacheMap)}

-----------------------------------------------------------------------------
(* The access order. *)

\* The order without k.
Unlink(o, k) == {p \in o : p[1] # k /\ p[2] # k}

\* The order with k at its end, the other cached keys before it.
MoveToEnd(m, o, k) == Unlink(o, k) \cup ((Cached(m) \ {k}) \X {k})

\* The head of the list: the cached key with none before it.
Eldest(m, o) == CHOOSE e \in Cached(m) : \A k \in Cached(m) : <<k, e>> \notin o

\* o puts the elements of S in one line.
LinearOrder(S, o) ==
  /\ o \subseteq S \X S
  /\ \A a \in S : <<a, a>> \notin o
  /\ \A a, b \in S : a # b => <<a, b>> \in o \/ <<b, a>> \in o
  /\ \A a, b, c \in S : <<a, b>> \in o /\ <<b, c>> \in o => <<a, c>> \in o

-----------------------------------------------------------------------------
(* The methods. *)

\* Slip: the map is in insertion order (accessOrder is false).
GetWithoutRefresh(k) == UNCHANGED cacheVars

\* get refreshes the entry; its result is cacheMap[k].
Get(k) ==
  /\ older' = IF cacheMap[k] = Null THEN older ELSE MoveToEnd(cacheMap, older, k)
  /\ UNCHANGED cacheMap

\* A key the map holds gets the new file, and the old file stays on the disk.
PutExisting(k, f) ==
  /\ cacheMap[k] # Null
  /\ cacheMap' = [cacheMap EXCEPT ![k] = f]
  /\ older' = MoveToEnd(cacheMap, older, k)
  /\ UNCHANGED disk

\* Slip: the size is compared before the new key is counted.
PutNewCountingBefore(k, f) ==
  LET m == [cacheMap EXCEPT ![k] = f]
      o == MoveToEnd(cacheMap, older, k)
      eldest == Eldest(m, o)
      TooLarge == Cardinality(Cached(cacheMap)) > max_cache
  IN /\ cacheMap[k] = Null
     /\ cacheMap' = IF TooLarge THEN [m EXCEPT ![eldest] = Null] ELSE m
     /\ older' = IF TooLarge THEN Unlink(o, eldest) ELSE o
     /\ disk' = IF TooLarge THEN [disk EXCEPT ![m[eldest]] = Absent] ELSE disk

\* A new key; then removeEldestEntry looks at the size with the new key in.
PutNew(k, f) ==
  LET m == [cacheMap EXCEPT ![k] = f]
      o == MoveToEnd(cacheMap, older, k)
      eldest == Eldest(m, o)
      TooLarge == Cardinality(Cached(m)) > max_cache
  IN /\ cacheMap[k] = Null
     /\ cacheMap' = IF TooLarge THEN [m EXCEPT ![eldest] = Null] ELSE m
     /\ older' = IF TooLarge THEN Unlink(o, eldest) ELSE o
     /\ disk' = IF TooLarge THEN [disk EXCEPT ![m[eldest]] = Absent] ELSE disk

Put(k, f) == PutExisting(k, f) \/ PutNew(k, f)

\* remove deletes the file of the entry before it drops the entry.
Remove(k) ==
  /\ cacheMap' = [cacheMap EXCEPT ![k] = Null]
  /\ older' = Unlink(older, k)
  /\ disk' = IF cacheMap[k] = Null THEN disk
             ELSE [disk EXCEPT ![cacheMap[k]] = Absent]

\* clear empties the map and leaves every file where it is.
Clear ==
  /\ cacheMap' = [k \in Keys |-> Null]
  /\ older' = {}
  /\ UNCHANGED disk

-----------------------------------------------------------------------------
(* The cache on its own, with callers that do what the program's callers do: *)
(* they put a file they have just created, and they move files away.         *)

Init ==
  /\ cacheMap = [k \in Keys |-> Null]
  /\ older = {}
  /\ disk = [f \in Paths |-> Absent]

\* File.createTempFile: a name no entry uses.
CreateFile(f) ==
  /\ disk[f] = Absent
  /\ f \notin MappedFiles
  /\ disk' = [disk EXCEPT ![f] = Empty]
  /\ UNCHANGED cacheVars

\* Slip: the file is put first and the picture extracted later.
FillFileLate(f, k) ==
  /\ disk[f] = Empty
  /\ disk' = [disk EXCEPT ![f] = k]
  /\ UNCHANGED cacheVars

\* The extraction writes the picture of a key.
FillFile(f, k) ==
  /\ disk[f] = Empty
  /\ f \notin MappedFiles
  /\ disk' = [disk EXCEPT ![f] = k]
  /\ UNCHANGED cacheVars

\* cacheNewImage renames a file, mapped or not.
MoveFile(f) ==
  /\ disk[f] # Absent
  /\ disk' = [disk EXCEPT ![f] = Absent]
  /\ UNCHANGED cacheVars

\* resolve puts the file it has made.
PutFresh(k, f) ==
  /\ disk[f] \in {k, Empty}
  /\ f \notin MappedFiles
  /\ Put(k, f)

Next ==
  \/ \E k \in Keys : (Get(k) /\ UNCHANGED disk) \/ Remove(k)
  \/ \E k \in Keys, f \in Paths : PutFresh(k, f) \/ FillFile(f, k)
  \/ \E f \in Paths : CreateFile(f) \/ MoveFile(f)
  \/ Clear

Spec == Init /\ [][Next]_tileVars

-----------------------------------------------------------------------------
(* Properties *)

\* Every variable has its type.
TypeOK ==
  /\ cacheMap \in [Keys -> Paths \cup {Null}]
  /\ older \subseteq Keys \X Keys
  /\ disk \in [Paths -> Contents]

\* The cache never keeps more entries than its size, although put adds the new
\* entry before removeEldestEntry takes the eldest one out, and one at most.
SizeBounded == Cardinality(Cached(cacheMap)) <= max_cache

\* The access order is one line through exactly the cached keys: the eldest
\* entry removeEldestEntry is given is defined whenever there is an entry.
RecencyIsLinear == LinearOrder(Cached(cacheMap), older)

\* No two keys share a file, as long as callers put fresh files: the file an
\* eviction or a remove deletes is never the file of another entry.
FilesNotShared ==
  \A a, b \in Cached(cacheMap) : cacheMap[a] = cacheMap[b] => a = b

\* A file that an entry names is either gone (moved by its user) or holds the
\* picture of that entry's key, or nothing.
FilesMatchKeys ==
  \A k \in Cached(cacheMap) : disk[cacheMap[k]] \in {k, Empty, Absent}
=============================================================================
