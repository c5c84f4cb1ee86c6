-------------------------- MODULE TileCacheHistory --------------------------
(***************************************************************************)
(* TileCacheManager with a history variable, and the refinement mapping to *)
(* LRUCache.                                                               *)
(***************************************************************************)
EXTENDS TileCacheManager, Sequences

\* The cached keys by their last get or put, kept without a look at the map's
\* own order: what was used is known from the call that was made.
VARIABLE lastUse

historyVars == <<tileVars, lastUse>>

FileOf == [k \in Cached(cacheMap) |-> cacheMap[k]]
OnDisk == {f \in Paths : disk[f] # Absent}

LRU == INSTANCE LRUCache WITH
  Capacity <- max_cache, recency <- lastUse, fileOf <- FileOf, onDisk <- OnDisk

\* The key an insertion has cost, if any, goes from the list.
StillCached(s) ==
  LET Gone == {k \in LRU!ToSet(s) : cacheMap'[k] = Null}
  IN IF Gone = {} THEN s ELSE LRU!RemoveFirst(s, CHOOSE k \in Gone : TRUE)

GetEntry(k) ==
  /\ Get(k) /\ UNCHANGED disk
  /\ lastUse' = IF cacheMap[k] = Null THEN lastUse ELSE LRU!Used(lastUse, k)

PutEntry(k, f) ==
  /\ PutFresh(k, f)
  /\ lastUse' = StillCached(LRU!Used(lastUse, k))

RemoveEntry(k) ==
  /\ Remove(k)
  /\ lastUse' = LRU!RemoveFirst(lastUse, k)

ClearEntries ==
  /\ Clear
  /\ lastUse' = <<>>

TouchFile(f) ==
  /\ CreateFile(f) \/ MoveFile(f) \/ \E k \in Keys : FillFile(f, k)
  /\ UNCHANGED lastUse

HistoryInit ==
  /\ Init
  /\ lastUse = <<>>

HistoryNext ==
  \/ \E k \in Keys : GetEntry(k) \/ RemoveEntry(k)
  \/ \E k \in Keys, f \in Paths : PutEntry(k, f)
  \/ \E f \in Paths : TouchFile(f)
  \/ ClearEntries

HistorySpec == HistoryInit /\ [][HistoryNext]_historyVars

\* The map with its removeEldestEntry is an LRU cache: an insertion evicts the
\* key whose last get or put is longest ago and deletes that key's file only.
ImplementsLRU == LRU!Spec
=============================================================================
