--------------------------- MODULE TileCache_proofs ---------------------------
(***************************************************************************)
(* The tile cache keeps its types, its access order and its size, and is   *)
(* an LRU cache, for any finite set of keys, any set of files and any      *)
(* capacity. The region service over it never serves one tile's bytes for  *)
(* another's, for any number of threads and any faults. The image servlet  *)
(* over both stores and sends the right tiles, as long as scales are given *)
(* in pixels.                                                              *)
(***************************************************************************)
EXTENDS ImageServlet, TileCacheHistory, FiniteSetTheorems, SequenceTheorems,
        WellFoundedInduction, TLAPS

-----------------------------------------------------------------------------
(* The access order *)

\* A line through a finite set has a first element: the smallest of the sets of
\* predecessors belongs to it.
LEMMA FirstElement ==
  ASSUME NEW S, IsFiniteSet(S), S # {}, NEW o, LinearOrder(S, o)
  PROVE  \E e \in S : \A k \in S : <<k, e>> \notin o
<1> DEFINE Before(e) == {k \in S : <<k, e>> \in o}
           T == {Before(e) : e \in S}
<1>1. T # {} /\ T \subseteq FiniteSubsetsOf(S)
  <2>1. \A e \in S : Before(e) \subseteq S /\ IsFiniteSet(Before(e))
    BY FS_Subset
  <2> QED BY <2>1 DEF FiniteSubsetsOf
<1>2. PICK x \in T : \A y \in T : ~ (<<y, x>> \in StrictSubsetOrdering(S))
  <2> HIDE DEF T
  <2> QED BY <1>1, FS_StrictSubsetOrderingWellFounded, WFMin
<1>3. PICK e \in S : x = Before(e)
  OBVIOUS
<1>4. SUFFICES ASSUME NEW k \in S, <<k, e>> \in o PROVE FALSE
  OBVIOUS
<1>5. Before(k) \subseteq Before(e) /\ k \in Before(e) /\ k \notin Before(k)
  BY <1>4 DEF LinearOrder
<1>6. <<Before(k), Before(e)>> \in StrictSubsetOrdering(S)
  BY <1>5 DEF StrictSubsetOrdering
<1> QED BY <1>2, <1>3, <1>6

\* Moving an element, old or new, to the end of a line leaves a line.
LEMMA MovedToEnd ==
  ASSUME NEW m, NEW o, LinearOrder(Cached(m), o), NEW k
  PROVE  LinearOrder(Cached(m) \cup {k}, MoveToEnd(m, o, k))
<1> DEFINE S == Cached(m)
           n == MoveToEnd(m, o, k)
<1>1. \A a, b : <<a, b>> \in n <=>
        \/ <<a, b>> \in o /\ a # k /\ b # k
        \/ a \in S /\ a # k /\ b = k
  BY DEF Unlink, MoveToEnd
<1>2. n \subseteq (S \cup {k}) \X (S \cup {k})
  BY DEF Unlink, MoveToEnd, LinearOrder
<1>3. LinearOrder(S, o)
  OBVIOUS
<1> HIDE DEF S, n
<1>4. LinearOrder(S \cup {k}, n)
  BY <1>1, <1>2, <1>3 DEF LinearOrder
<1> QED BY <1>4 DEF S, n

\* Taking an element out of a line leaves a line.
LEMMA Unlinked ==
  ASSUME NEW S, NEW o, LinearOrder(S, o), NEW k
  PROVE  LinearOrder(S \ {k}, Unlink(o, k))
<1>1. \A a, b : <<a, b>> \in Unlink(o, k) <=> <<a, b>> \in o /\ a # k /\ b # k
  BY DEF Unlink
<1>2. Unlink(o, k) \subseteq (S \ {k}) \X (S \ {k})
  BY DEF Unlink, LinearOrder
<1> QED BY <1>1, <1>2 DEF LinearOrder

-----------------------------------------------------------------------------
(* The methods *)

\* What every method keeps: the map and its order fit together and stay small.
CacheInv ==
  /\ cacheMap \in [Keys -> Paths \cup {Null}]
  /\ RecencyIsLinear
  /\ SizeBounded

LEMMA CachedIsFinite ==
  ASSUME NEW m
  PROVE  IsFiniteSet(Cached(m)) /\ Cardinality(Cached(m)) \in Nat
BY KeysAssumption, FS_Subset, FS_CardinalityType DEF Cached

\* The keys of the map after an entry is set, and after one is dropped.
LEMMA CachedAfterSet ==
  ASSUME NEW m \in [Keys -> Paths \cup {Null}], NEW k \in Keys, NEW f \in Paths
  PROVE  /\ [m EXCEPT ![k] = f] \in [Keys -> Paths \cup {Null}]
         /\ Cached([m EXCEPT ![k] = f]) = Cached(m) \cup {k}
BY NullAssumption DEF Cached

LEMMA CachedAfterDrop ==
  ASSUME NEW m \in [Keys -> Paths \cup {Null}], NEW k \in Keys
  PROVE  /\ [m EXCEPT ![k] = Null] \in [Keys -> Paths \cup {Null}]
         /\ Cached([m EXCEPT ![k] = Null]) = Cached(m) \ {k}
BY DEF Cached

LEMMA MovedInCache ==
  ASSUME CacheInv, NEW k
  PROVE  LinearOrder(Cached(cacheMap) \cup {k}, MoveToEnd(cacheMap, older, k))
<1>1. LinearOrder(Cached(cacheMap), older)
  BY DEF CacheInv, RecencyIsLinear
<1> QED BY <1>1, MovedToEnd

LEMMA GetKeepsCache ==
  ASSUME CacheInv, NEW k \in Keys, Get(k)
  PROVE  CacheInv'
<1>1. cacheMap' = cacheMap /\ Cached(cacheMap') = Cached(cacheMap)
  BY DEF Get, Cached
<1>2. CASE cacheMap[k] = Null
  BY <1>1, <1>2 DEF CacheInv, Get, RecencyIsLinear, SizeBounded
<1>3. CASE cacheMap[k] # Null
  <2>1. Cached(cacheMap) \cup {k} = Cached(cacheMap)
    BY <1>3 DEF Cached
  <2>2. older' = MoveToEnd(cacheMap, older, k)
    BY <1>3 DEF Get
  <2>3. LinearOrder(Cached(cacheMap), older')
    BY <2>1, <2>2, MovedInCache
  <2> QED BY <1>1, <2>3 DEF CacheInv, RecencyIsLinear, SizeBounded
<1> QED BY <1>2, <1>3

LEMMA PutExistingKeepsCache ==
  ASSUME CacheInv, NEW k \in Keys, NEW f \in Paths, PutExisting(k, f)
  PROVE  CacheInv'
<1>1. /\ cacheMap' = [cacheMap EXCEPT ![k] = f]
      /\ cacheMap' \in [Keys -> Paths \cup {Null}]
      /\ Cached(cacheMap') = Cached(cacheMap) \cup {k}
  BY CachedAfterSet DEF CacheInv, PutExisting
<1>2. Cached(cacheMap') = Cached(cacheMap)
  BY <1>1 DEF PutExisting, Cached
<1>3. LinearOrder(Cached(cacheMap'), older')
  BY <1>1, MovedInCache DEF PutExisting
<1> QED BY <1>1, <1>2, <1>3 DEF CacheInv, RecencyIsLinear, SizeBounded

\* A new key either fits, or exactly one entry - the first of the line that the
\* new key ends - is dropped, and its file deleted.
LEMMA PutNewEffect ==
  ASSUME CacheInv, NEW k \in Keys, NEW f \in Paths, PutNew(k, f)
  PROVE  \/ /\ cacheMap' = [cacheMap EXCEPT ![k] = f]
            /\ Cardinality(Cached(cacheMap) \cup {k}) <= max_cache
            /\ older' = MoveToEnd(cacheMap, older, k)
            /\ disk' = disk
         \/ \E e \in Cached(cacheMap) \cup {k} :
            /\ Cardinality(Cached(cacheMap) \cup {k}) > max_cache
            /\ \A j \in Cached(cacheMap) \cup {k} : <<j, e>> \notin MoveToEnd(cacheMap, older, k)
            /\ cacheMap' = [[cacheMap EXCEPT ![k] = f] EXCEPT ![e] = Null]
            /\ older' = Unlink(MoveToEnd(cacheMap, older, k), e)
            /\ disk' = [disk EXCEPT ![[cacheMap EXCEPT ![k] = f][e]] = Absent]
<1> DEFINE m == [cacheMap EXCEPT ![k] = f]
           o == MoveToEnd(cacheMap, older, k)
<1>1. Cached(m) = Cached(cacheMap) \cup {k}
  BY CachedAfterSet DEF CacheInv
<1>2. Cardinality(Cached(m)) \in Nat /\ IsFiniteSet(Cached(m))
  BY CachedIsFinite
<1>3. CASE Cardinality(Cached(m)) > max_cache
  <2>1. LinearOrder(Cached(m), o)
    BY <1>1, MovedInCache
  <2>2. Eldest(m, o) \in Cached(m) /\ \A j \in Cached(m) : <<j, Eldest(m, o)>> \notin o
    <3> HIDE DEF m, o
    <3>1. Cached(m) # {}
      BY <1>1
    <3> QED BY <1>2, <2>1, <3>1, FirstElement DEF Eldest
  <2> QED BY <1>1, <1>3, <2>2 DEF PutNew
<1>4. CASE ~ (Cardinality(Cached(m)) > max_cache)
  <2>1. Cardinality(Cached(m)) <= max_cache
    BY <1>2, <1>4, CapacityAssumption
  <2>2. cacheMap' = m /\ older' = o /\ disk' = disk
    BY <1>4 DEF PutNew
  <2> QED BY <1>1, <2>1, <2>2
<1> QED BY <1>3, <1>4

\* Unless the capacity is 0 the new key is not the one that is dropped: others stand
\* before it.
LEMMA NewKeyStays ==
  ASSUME CacheInv, NEW k \in Keys, NEW f \in Paths, PutNew(k, f), max_cache # 0
  PROVE  \/ cacheMap' = [cacheMap EXCEPT ![k] = f] /\ disk' = disk
         \/ \E e \in Cached(cacheMap) :
              /\ cacheMap' = [[cacheMap EXCEPT ![k] = f] EXCEPT ![e] = Null]
              /\ disk' = [disk EXCEPT ![cacheMap[e]] = Absent]
<1>1. k \notin Cached(cacheMap) /\ cacheMap \in [Keys -> Paths \cup {Null}]
  BY DEF PutNew, Cached, CacheInv
<1>2. ASSUME NEW e \in Cached(cacheMap) \cup {k},
             Cardinality(Cached(cacheMap) \cup {k}) > max_cache,
             \A j \in Cached(cacheMap) \cup {k} : <<j, e>> \notin MoveToEnd(cacheMap, older, k)
      PROVE  e # k
  <2> SUFFICES ASSUME e = k PROVE FALSE
    OBVIOUS
  <2>1. Cached(cacheMap) \cup {k} = {k}
    BY <1>2 DEF MoveToEnd
  <2>2. Cardinality({k}) = 1
    BY FS_Singleton
  <2> QED BY <1>2, <2>1, <2>2, CapacityAssumption
<1>3. ASSUME NEW e \in Cached(cacheMap) PROVE [cacheMap EXCEPT ![k] = f][e] = cacheMap[e]
  BY <1>1, <1>3 DEF Cached
<1>4. CASE cacheMap' = [cacheMap EXCEPT ![k] = f] /\ disk' = disk
  BY <1>4
<1>5. ASSUME NEW e \in Cached(cacheMap) \cup {k}, e # k,
             cacheMap' = [[cacheMap EXCEPT ![k] = f] EXCEPT ![e] = Null],
             disk' = [disk EXCEPT ![[cacheMap EXCEPT ![k] = f][e]] = Absent]
      PROVE  disk' = [disk EXCEPT ![cacheMap[e]] = Absent] /\ e \in Cached(cacheMap)
  BY <1>3, <1>5
<1> QED BY <1>2, <1>4, <1>5, PutNewEffect

LEMMA PutNewKeepsCache ==
  ASSUME CacheInv, NEW k \in Keys, NEW f \in Paths, PutNew(k, f)
  PROVE  CacheInv'
<1> DEFINE m == [cacheMap EXCEPT ![k] = f]
           o == MoveToEnd(cacheMap, older, k)
<1>1. /\ m \in [Keys -> Paths \cup {Null}]
      /\ Cached(m) = Cached(cacheMap) \cup {k}
  BY CachedAfterSet DEF CacheInv
<1>2. LinearOrder(Cached(m), o)
  BY <1>1, MovedInCache
<1>3. CASE /\ cacheMap' = m
           /\ Cardinality(Cached(m)) <= max_cache
           /\ older' = o
  BY <1>1, <1>2, <1>3 DEF CacheInv, RecencyIsLinear, SizeBounded
<1>4. ASSUME NEW e \in Cached(m),
             cacheMap' = [m EXCEPT ![e] = Null],
             older' = Unlink(o, e)
      PROVE  CacheInv'
  <2> HIDE DEF m, o
  <2>1. e \in Keys
    BY <1>4 DEF Cached
  <2>2. /\ cacheMap' \in [Keys -> Paths \cup {Null}]
        /\ Cached(cacheMap') = Cached(m) \ {e}
    BY <1>1, <1>4, <2>1, CachedAfterDrop
  <2>3. LinearOrder(Cached(cacheMap'), older')
    <3>1. LinearOrder(Cached(m) \ {e}, Unlink(o, e))
      BY <1>2, Unlinked
    <3> QED BY <1>4, <2>2, <3>1
  <2>4. Cardinality(Cached(cacheMap')) <= max_cache
    <3>1. Cardinality(Cached(m)) <= Cardinality(Cached(cacheMap)) + 1
      BY <1>1, CachedIsFinite, FS_AddElement
    <3>2. Cardinality(Cached(m) \ {e}) = Cardinality(Cached(m)) - 1
      BY CachedIsFinite, FS_RemoveElement
    <3> QED BY <2>2, <3>1, <3>2, CachedIsFinite, CapacityAssumption
            DEF CacheInv, SizeBounded
  <2> QED BY <2>2, <2>3, <2>4 DEF CacheInv, RecencyIsLinear, SizeBounded
<1> QED BY <1>1, <1>3, <1>4, PutNewEffect

\* What a put of a file no entry names does to the entries and to the files.
LEMMA PutEffect ==
  ASSUME CacheInv, TypeOK, NEW k \in Keys, NEW f \in Paths, Put(k, f),
         FilesNotShared, f \notin MappedFiles
  PROVE  /\ \A j \in Cached(cacheMap') :
              cacheMap'[j] = IF j = k THEN f ELSE cacheMap[j]
         /\ Cached(cacheMap') \subseteq Cached(cacheMap) \cup {k}
         /\ \A j \in Cached(cacheMap') : disk'[cacheMap'[j]] = disk[cacheMap'[j]]
         /\ \A g \in Paths : disk'[g] \in {disk[g], Absent}
         /\ \A g \in Paths : g \notin MappedFiles \cup {f} => disk'[g] = disk[g]
<1> DEFINE m == [cacheMap EXCEPT ![k] = f]
<1>1. /\ m \in [Keys -> Paths \cup {Null}]
      /\ Cached(m) = Cached(cacheMap) \cup {k}
      /\ \A j \in Keys : m[j] = IF j = k THEN f ELSE cacheMap[j]
  BY CachedAfterSet DEF CacheInv
<1>2. \A i, j \in Cached(m) : m[i] = m[j] => i = j
  BY <1>1 DEF FilesNotShared, MappedFiles, Cached
<1>3. Cached(m) \subseteq Keys /\ \A j \in Cached(m) : m[j] \in Paths
  BY <1>1 DEF Cached
<1>4. CASE cacheMap' = m /\ disk' = disk
  BY <1>1, <1>3, <1>4
<1>5. ASSUME NEW e \in Cached(m),
             cacheMap' = [m EXCEPT ![e] = Null],
             disk' = [disk EXCEPT ![m[e]] = Absent]
      PROVE  /\ Cached(cacheMap') = Cached(m) \ {e}
             /\ \A j \in Cached(cacheMap') : cacheMap'[j] = m[j]
             /\ \A j \in Cached(cacheMap') : disk'[m[j]] = disk[m[j]]
             /\ \A g \in Paths : disk'[g] \in {disk[g], Absent}
             /\ \A g \in Paths : g # m[e] => disk'[g] = disk[g]
  <2> HIDE DEF m
  <2>1. Cached(cacheMap') = Cached(m) \ {e}
    BY <1>1, <1>3, <1>5, CachedAfterDrop
  <2>2. \A j \in Cached(cacheMap') : cacheMap'[j] = m[j]
    BY <1>1, <1>3, <1>5, <2>1
  <2>3. \A g \in Paths : disk'[g] = IF g = m[e] THEN Absent ELSE disk[g]
    BY <1>5 DEF TypeOK
  <2> QED BY <1>2, <1>3, <2>1, <2>2, <2>3
<1>6. ASSUME NEW e \in Cached(m)
      PROVE  m[e] \in MappedFiles \cup {f}
  BY <1>1, <1>6 DEF MappedFiles, Cached
<1>7. \/ cacheMap' = m /\ disk' = disk
      \/ \E e \in Cached(m) :
           /\ cacheMap' = [m EXCEPT ![e] = Null]
           /\ disk' = [disk EXCEPT ![m[e]] = Absent]
  <2>1. CASE PutExisting(k, f)
    BY <2>1 DEF PutExisting
  <2>2. CASE PutNew(k, f)
    <3>1. \/ cacheMap' = m /\ disk' = disk
          \/ \E e \in Cached(cacheMap) \cup {k} :
               /\ cacheMap' = [m EXCEPT ![e] = Null]
               /\ disk' = [disk EXCEPT ![m[e]] = Absent]
      <4>1. \/ /\ cacheMap' = [cacheMap EXCEPT ![k] = f]
               /\ Cardinality(Cached(cacheMap) \cup {k}) <= max_cache
               /\ older' = MoveToEnd(cacheMap, older, k)
               /\ disk' = disk
            \/ \E e \in Cached(cacheMap) \cup {k} :
               /\ Cardinality(Cached(cacheMap) \cup {k}) > max_cache
               /\ \A j \in Cached(cacheMap) \cup {k} :
                    <<j, e>> \notin MoveToEnd(cacheMap, older, k)
               /\ cacheMap' = [[cacheMap EXCEPT ![k] = f] EXCEPT ![e] = Null]
               /\ older' = Unlink(MoveToEnd(cacheMap, older, k), e)
               /\ disk' = [disk EXCEPT ![[cacheMap EXCEPT ![k] = f][e]] = Absent]
        BY <2>2, PutNewEffect
      <4> QED BY <4>1
    <3> HIDE DEF m
    <3> QED BY <3>1, <1>1
  <2> QED BY <2>1, <2>2 DEF Put
<1> HIDE DEF m
<1>8. CASE \E e \in Cached(m) :
             /\ cacheMap' = [m EXCEPT ![e] = Null]
             /\ disk' = [disk EXCEPT ![m[e]] = Absent]
  <2>1. PICK e \in Cached(m) :
             /\ cacheMap' = [m EXCEPT ![e] = Null]
             /\ disk' = [disk EXCEPT ![m[e]] = Absent]
    BY <1>8
  <2>2. /\ Cached(cacheMap') = Cached(m) \ {e}
        /\ \A j \in Cached(cacheMap') : cacheMap'[j] = m[j]
        /\ \A j \in Cached(cacheMap') : disk'[m[j]] = disk[m[j]]
        /\ \A g \in Paths : disk'[g] \in {disk[g], Absent}
        /\ \A g \in Paths : g # m[e] => disk'[g] = disk[g]
    BY <1>5, <2>1
  <2>3. m[e] \in MappedFiles \cup {f}
    BY <1>6
  <2>4. \A j \in Cached(cacheMap') : cacheMap'[j] = IF j = k THEN f ELSE cacheMap[j]
    BY <1>1, <1>3, <2>2
  <2>5. Cached(cacheMap') \subseteq Cached(cacheMap) \cup {k}
    BY <1>1, <2>2
  <2>6. \A j \in Cached(cacheMap') : disk'[cacheMap'[j]] = disk[cacheMap'[j]]
    BY <2>2
  <2>7. \A g \in Paths : g \notin MappedFiles \cup {f} => disk'[g] = disk[g]
    BY <2>2, <2>3
  <2> QED BY <2>2, <2>4, <2>5, <2>6, <2>7
<1> QED BY <1>4, <1>7, <1>8

LEMMA RemoveKeepsCache ==
  ASSUME CacheInv, NEW k \in Keys, Remove(k)
  PROVE  CacheInv'
<1>1. /\ cacheMap' \in [Keys -> Paths \cup {Null}]
      /\ Cached(cacheMap') = Cached(cacheMap) \ {k}
  BY CachedAfterDrop DEF CacheInv, Remove
<1>2. LinearOrder(Cached(cacheMap'), older')
  <2>1. LinearOrder(Cached(cacheMap), older)
    BY DEF CacheInv, RecencyIsLinear
  <2>2. LinearOrder(Cached(cacheMap) \ {k}, Unlink(older, k))
    BY <2>1, Unlinked
  <2> QED BY <1>1, <2>2 DEF Remove
<1>3. Cardinality(Cached(cacheMap')) <= Cardinality(Cached(cacheMap))
  BY <1>1, CachedIsFinite, FS_Subset
<1> QED BY <1>1, <1>2, <1>3, CachedIsFinite, CapacityAssumption
        DEF CacheInv, RecencyIsLinear, SizeBounded

LEMMA ClearKeepsCache ==
  ASSUME Clear
  PROVE  CacheInv'
<1>1. cacheMap' \in [Keys -> Paths \cup {Null}] /\ Cached(cacheMap') = {}
  BY DEF Clear, Cached
<1>2. Cardinality(Cached(cacheMap')) <= max_cache
  BY <1>1, FS_EmptySet, CapacityAssumption
<1>3. LinearOrder(Cached(cacheMap'), older')
  BY <1>1 DEF Clear, LinearOrder
<1> QED BY <1>1, <1>2, <1>3 DEF CacheInv, RecencyIsLinear, SizeBounded

LEMMA InitCache ==
  ASSUME Init
  PROVE  CacheInv
<1>1. cacheMap \in [Keys -> Paths \cup {Null}] /\ Cached(cacheMap) = {}
  BY DEF Init, Cached
<1>2. Cardinality(Cached(cacheMap)) <= max_cache
  BY <1>1, FS_EmptySet, CapacityAssumption
<1>3. LinearOrder(Cached(cacheMap), older)
  BY <1>1 DEF Init, LinearOrder
<1> QED BY <1>1, <1>2, <1>3 DEF CacheInv, RecencyIsLinear, SizeBounded

-----------------------------------------------------------------------------
(* The specification *)

\* The size bound alone is not inductive: that an eviction takes out an entry
\* that is there needs the access order, and that the order stays a line needs
\* the type of the map.
IInv == CacheInv /\ TypeOK

LEMMA IInvStep ==
  ASSUME IInv, [Next]_tileVars
  PROVE  IInv'
<1> USE DEF IInv
<1>1. ASSUME NEW k \in Keys, Get(k), UNCHANGED disk
      PROVE  IInv'
  <2>1. CacheInv'
    BY <1>1, GetKeepsCache
  <2>2. older' \subseteq Keys \X Keys
    BY <2>1 DEF CacheInv, RecencyIsLinear, LinearOrder, Cached
  <2> QED BY <1>1, <2>1, <2>2 DEF CacheInv, TypeOK
<1>2. ASSUME NEW k \in Keys, Remove(k)
      PROVE  IInv'
  <2>1. CacheInv'
    BY <1>2, RemoveKeepsCache
  <2>2. older' \subseteq Keys \X Keys
    BY <2>1 DEF CacheInv, RecencyIsLinear, LinearOrder, Cached
  <2>3. disk' \in [Paths -> Contents]
    BY <1>2 DEF Remove, TypeOK, Contents
  <2> QED BY <2>1, <2>2, <2>3 DEF CacheInv, TypeOK
<1>3. ASSUME NEW k \in Keys, NEW f \in Paths, Put(k, f)
      PROVE  IInv'
  <2>1. CacheInv'
    BY <1>3, PutExistingKeepsCache, PutNewKeepsCache DEF Put
  <2>2. older' \subseteq Keys \X Keys
    BY <2>1 DEF CacheInv, RecencyIsLinear, LinearOrder, Cached
  <2>3. disk' \in [Paths -> Contents]
    <3>1. CASE PutExisting(k, f)
      BY <3>1 DEF PutExisting, TypeOK
    <3>2. CASE PutNew(k, f)
      BY <3>2 DEF PutNew, TypeOK, Contents
    <3> QED BY <1>3, <3>1, <3>2 DEF Put
  <2> QED BY <2>1, <2>2, <2>3 DEF CacheInv, TypeOK
<1>4. ASSUME Clear
      PROVE  IInv'
  <2>1. CacheInv'
    BY <1>4, ClearKeepsCache
  <2> QED BY <1>4, <2>1 DEF Clear, CacheInv, TypeOK
<1>5. ASSUME UNCHANGED cacheVars, disk' \in [Paths -> Contents]
      PROVE  IInv'
  BY <1>5 DEF cacheVars, CacheInv, RecencyIsLinear, SizeBounded, TypeOK, Cached
<1>6. ASSUME NEW k \in Keys, NEW f \in Paths, CreateFile(f) \/ FillFile(f, k) \/ MoveFile(f)
      PROVE  UNCHANGED cacheVars /\ disk' \in [Paths -> Contents]
  BY <1>6 DEF CreateFile, FillFile, MoveFile, TypeOK, Contents
<1>7. ASSUME NEW f \in Paths, CreateFile(f) \/ MoveFile(f)
      PROVE  UNCHANGED cacheVars /\ disk' \in [Paths -> Contents]
  BY <1>7 DEF CreateFile, MoveFile, TypeOK, Contents
<1>8. CASE UNCHANGED tileVars
  <2>1. UNCHANGED cacheVars /\ disk' \in [Paths -> Contents]
    BY <1>8 DEF tileVars, cacheVars, TypeOK
  <2> QED BY <1>5, <2>1
<1> QED BY <1>1, <1>2, <1>3, <1>4, <1>5, <1>6, <1>7, <1>8 DEF Next, PutFresh

LEMMA IInvHolds == Spec => []IInv
<1>1. Init => IInv
  BY InitCache DEF IInv, Init, TypeOK, CacheInv, Contents
<1>2. IInv /\ [Next]_tileVars => IInv'
  BY IInvStep
<1> QED BY <1>1, <1>2, PTL DEF Spec

\* Whatever the callers do, the map, its order and the files keep their types.
THEOREM TypeCorrect == Spec => []TypeOK
<1>1. IInv => TypeOK
  BY DEF IInv
<1> QED BY <1>1, IInvHolds, PTL

\* TileCacheManager never keeps more than max_cache entries.
THEOREM SizeIsBounded == Spec => []SizeBounded
<1>1. IInv => SizeBounded
  BY DEF IInv, CacheInv
<1> QED BY <1>1, IInvHolds, PTL

\* The linked list always runs once through exactly the cached keys.
THEOREM RecencyStaysLinear == Spec => []RecencyIsLinear
<1>1. IInv => RecencyIsLinear
  BY DEF IInv, CacheInv
<1> QED BY <1>1, IInvHolds, PTL
-----------------------------------------------------------------------------
(* The files *)

\* Neither part is inductive without the other facts: that an eviction spares the
\* files of other entries needs the entries to be apart.
FilesInv == FilesNotShared /\ FilesMatchKeys

LEMMA FilesInvStep ==
  ASSUME IInv, FilesInv, [Next]_tileVars
  PROVE  FilesInv'
<1>1. ASSUME UNCHANGED cacheMap,
             \A g \in MappedFiles : disk'[g] \in {disk[g], Absent}
      PROVE  FilesInv'
  <2>1. \A j \in Cached(cacheMap) : cacheMap[j] \in MappedFiles
    BY DEF MappedFiles
  <2> QED BY <1>1, <2>1 DEF FilesInv, FilesNotShared, FilesMatchKeys, Cached
<1>2. ASSUME NEW k \in Keys, Remove(k)
      PROVE  FilesInv'
  <2>1. Cached(cacheMap') = Cached(cacheMap) \ {k}
    BY <1>2, CachedAfterDrop DEF Remove, IInv, CacheInv
  <2>2. \A j \in Cached(cacheMap') : cacheMap'[j] = cacheMap[j] /\ j # k
    BY <1>2, <2>1 DEF Remove, IInv, CacheInv, Cached
  <2>3. \A j \in Cached(cacheMap) : disk'[cacheMap[j]] \in {disk[cacheMap[j]], Absent}
    BY <1>2 DEF Remove, IInv, TypeOK, Cached
  <2> QED BY <2>1, <2>2, <2>3 DEF FilesInv, FilesNotShared, FilesMatchKeys
<1>3. ASSUME NEW k \in Keys, NEW f \in Paths, PutFresh(k, f)
      PROVE  FilesInv'
  <2>1. /\ \A j \in Cached(cacheMap') :
             cacheMap'[j] = IF j = k THEN f ELSE cacheMap[j]
        /\ Cached(cacheMap') \subseteq Cached(cacheMap) \cup {k}
        /\ \A j \in Cached(cacheMap') : disk'[cacheMap'[j]] = disk[cacheMap'[j]]
    BY <1>3, PutEffect DEF PutFresh, IInv, FilesInv
  <2>2. disk[f] \in {k, Empty} /\ \A j \in Cached(cacheMap) : cacheMap[j] # f
    BY <1>3 DEF PutFresh, MappedFiles
  <2> QED BY <2>1, <2>2 DEF FilesInv, FilesNotShared, FilesMatchKeys
<1>4. ASSUME Clear
      PROVE  FilesInv'
  BY <1>4 DEF Clear, FilesInv, FilesNotShared, FilesMatchKeys, Cached
<1>5. ASSUME NEW f \in Paths, NEW k \in Keys, FillFile(f, k)
      PROVE  UNCHANGED cacheMap /\ \A g \in MappedFiles : disk'[g] = disk[g]
  <2>1. MappedFiles \subseteq Paths
    BY DEF MappedFiles, Cached, IInv, TypeOK
  <2> QED BY <1>5, <2>1 DEF FillFile, cacheVars, IInv, TypeOK
<1>6. ASSUME NEW f \in Paths, CreateFile(f)
      PROVE  UNCHANGED cacheMap /\ \A g \in MappedFiles : disk'[g] = disk[g]
  BY <1>6 DEF CreateFile, cacheVars, IInv, TypeOK
<1>7. ASSUME NEW f \in Paths, MoveFile(f)
      PROVE  /\ UNCHANGED cacheMap
             /\ \A g \in MappedFiles : disk'[g] \in {disk[g], Absent}
  <2>1. MappedFiles \subseteq Paths
    BY DEF MappedFiles, Cached, IInv, TypeOK
  <2> QED BY <1>7, <2>1 DEF MoveFile, cacheVars, IInv, TypeOK
<1>8. ASSUME NEW k \in Keys, Get(k), UNCHANGED disk
      PROVE  FilesInv'
  BY <1>1, <1>8 DEF Get
<1>9. CASE UNCHANGED tileVars
  BY <1>1, <1>9 DEF tileVars
<1> QED BY <1>1, <1>2, <1>3, <1>4, <1>5, <1>6, <1>7, <1>8, <1>9 DEF Next

LEMMA FilesInvHolds == Spec => []FilesInv
<1>1. Init => FilesInv
  BY DEF Init, FilesInv, FilesNotShared, FilesMatchKeys, Cached
<1>2. IInv /\ FilesInv /\ [Next]_tileVars => FilesInv'
  BY FilesInvStep
<1> QED BY <1>1, <1>2, IInvHolds, PTL DEF Spec

\* No eviction or remove deletes another entry's file: no two entries have one.
THEOREM FilesStayApart == Spec => []FilesNotShared
<1>1. FilesInv => FilesNotShared
  BY DEF FilesInv
<1> QED BY <1>1, FilesInvHolds, PTL

\* An entry's file never holds another key's picture.
THEOREM FilesStayMatched == Spec => []FilesMatchKeys
<1>1. FilesInv => FilesMatchKeys
  BY DEF FilesInv
<1> QED BY <1>1, FilesInvHolds, PTL

-----------------------------------------------------------------------------
(* Lists of keys *)

\* No key twice.
Distinct(s) == \A i, j \in 1..Len(s) : s[i] = s[j] => i = j

\* The list follows the order.
Follows(s, o) == \A i, j \in 1..Len(s) : i < j => <<s[i], s[j]>> \in o

LEMMA RemovedAt ==
  ASSUME NEW S, NEW s \in Seq(S), NEW p \in 1..Len(s)
  PROVE  /\ LRU!RemoveAt(s, p) \in Seq(S) /\ Len(LRU!RemoveAt(s, p)) = Len(s) - 1
         /\ \A i \in 1..Len(s) - 1 :
              LRU!RemoveAt(s, p)[i] = IF i < p THEN s[i] ELSE s[i + 1]
<1> DEFINE a == SubSeq(s, 1, p - 1)
           b == SubSeq(s, p + 1, Len(s))
<1>1. a \in Seq(S) /\ Len(a) = p - 1 /\ \A i \in 1..p - 1 : a[i] = s[i]
  BY SubSeqProperties, ElementOfSeq
<1>2. b \in Seq(S) /\ Len(b) = Len(s) - p /\ \A i \in 1..(Len(s) - p) : b[i] = s[p + i]
  BY SubSeqProperties, ElementOfSeq
<1> HIDE DEF a, b
<1>3. /\ a \o b \in Seq(S) /\ Len(a \o b) = Len(s) - 1
      /\ \A i \in 1..Len(s) - 1 : (a \o b)[i] = IF i <= p - 1 THEN a[i] ELSE b[i - (p - 1)]
  BY <1>1, <1>2, ConcatProperties
<1>4. \A i \in 1..Len(s) - 1 : (a \o b)[i] = IF i < p THEN s[i] ELSE s[i + 1]
  BY <1>1, <1>2, <1>3
<1> QED BY <1>3, <1>4 DEF LRU!RemoveAt, a, b

LEMMA SetOfList ==
  ASSUME NEW S, NEW s \in Seq(S), NEW x
  PROVE  x \in LRU!ToSet(s) <=> \E i \in 1..Len(s) : s[i] = x
BY DEF LRU!ToSet

\* Dropping a key drops its one place, or nothing.
LEMMA DroppedFrom ==
  ASSUME NEW S, NEW s \in Seq(S), Distinct(s), NEW k
  PROVE  \/ k \notin LRU!ToSet(s) /\ LRU!RemoveFirst(s, k) = s
         \/ \E p \in 1..Len(s) : s[p] = k /\ LRU!RemoveFirst(s, k) = LRU!RemoveAt(s, p)
<1>1. CASE \A i \in 1..Len(s) : s[i] # k
  <2>1. LRU!RemoveFirst(s, k) = s
    BY <1>1 DEF LRU!RemoveFirst
  <2>2. k \notin LRU!ToSet(s)
    BY <1>1, SetOfList
  <2> QED BY <2>1, <2>2
<1>2. ASSUME NEW p \in 1..Len(s), s[p] = k PROVE LRU!RemoveFirst(s, k) = LRU!RemoveAt(s, p)
  <2>1. LRU!SelectInSeq(s, LAMBDA v : v = k) = p
    BY <1>2 DEF LRU!SelectInSeq, LRU!Min, Distinct
  <2> QED BY <1>2, <2>1 DEF LRU!RemoveFirst
<1> QED BY <1>1, <1>2

LEMMA KeyDropped ==
  ASSUME NEW S, NEW s \in Seq(S), Distinct(s), NEW k
  PROVE  LET r == LRU!RemoveFirst(s, k)
         IN /\ r \in Seq(S) /\ Distinct(r) /\ LRU!ToSet(r) = LRU!ToSet(s) \ {k}
            /\ \A o : Follows(s, o) => Follows(r, Unlink(o, k))
<1> DEFINE r == LRU!RemoveFirst(s, k)
<1>1. CASE k \notin LRU!ToSet(s) /\ r = s
  BY <1>1 DEF Follows, Unlink, LRU!ToSet
<1>2. ASSUME NEW p \in 1..Len(s), s[p] = k, r = LRU!RemoveAt(s, p)
      PROVE  /\ r \in Seq(S) /\ Distinct(r) /\ LRU!ToSet(r) = LRU!ToSet(s) \ {k}
             /\ \A o : Follows(s, o) => Follows(r, Unlink(o, k))
  <2> HIDE DEF r
  <2>1. /\ r \in Seq(S) /\ Len(r) = Len(s) - 1
        /\ \A i \in 1..Len(s) - 1 : r[i] = IF i < p THEN s[i] ELSE s[i + 1]
    BY <1>2, RemovedAt
  <2>2. Distinct(r)
    <3> SUFFICES ASSUME NEW i \in 1..Len(r), NEW j \in 1..Len(r), r[i] = r[j]
                 PROVE  i = j
      BY DEF Distinct
    <3> DEFINE At(x) == IF x < p THEN x ELSE x + 1
    <3>1. /\ At(i) \in 1..Len(s) /\ At(j) \in 1..Len(s)
          /\ i \in 1..Len(s) - 1 /\ j \in 1..Len(s) - 1
      BY <2>1, LenProperties
    <3>2. s[At(i)] = s[At(j)]
      BY <2>1, <3>1
    <3>3. At(i) = At(j)
      <4> HIDE DEF At
      <4> QED BY <3>1, <3>2 DEF Distinct
    <3> QED BY <3>1, <3>3
  <2>3. \A i \in 1..Len(r) : r[i] # k
    BY <1>2, <2>1 DEF Distinct
  <2>4. ASSUME NEW o, Follows(s, o) PROVE Follows(r, o)
    <3> SUFFICES ASSUME NEW i \in 1..Len(r), NEW j \in 1..Len(r), i < j
                 PROVE  <<r[i], r[j]>> \in o
      BY DEF Follows
    <3> DEFINE At(x) == IF x < p THEN x ELSE x + 1
    <3>1. /\ At(i) \in 1..Len(s) /\ At(j) \in 1..Len(s) /\ At(i) < At(j)
          /\ i \in 1..Len(s) - 1 /\ j \in 1..Len(s) - 1
      BY <2>1, LenProperties
    <3>2. r[i] = s[At(i)] /\ r[j] = s[At(j)]
      BY <2>1, <3>1
    <3> HIDE DEF At
    <3> QED BY <2>4, <3>1, <3>2 DEF Follows
  <2>5. ASSUME NEW o, Follows(s, o) PROVE Follows(r, Unlink(o, k))
    <3>1. Follows(r, o)
      BY <2>4, <2>5
    <3> QED BY <2>3, <3>1 DEF Follows, Unlink
  <2>6. ASSUME NEW i \in 1..Len(s), s[i] # k PROVE \E j \in 1..Len(r) : r[j] = s[i]
    <3>1. CASE i < p
      BY <2>1, <3>1
    <3>2. CASE i > p
      <4>1. i - 1 \in 1..Len(s) - 1 /\ ~ (i - 1 < p) /\ (i - 1) + 1 = i
        BY <3>2
      <4> QED BY <2>1, <4>1
    <3> QED BY <1>2, <2>6, <3>1, <3>2
  <2>7. \A j \in 1..Len(r) : \E i \in 1..Len(s) : s[i] = r[j]
    BY <2>1
  <2>8. ASSUME NEW x PROVE x \in LRU!ToSet(r) <=> x \in LRU!ToSet(s) /\ x # k
    <3>1. x \in LRU!ToSet(r) <=> \E j \in 1..Len(r) : r[j] = x
      BY <2>1, SetOfList
    <3>2. x \in LRU!ToSet(s) <=> \E i \in 1..Len(s) : s[i] = x
      BY SetOfList
    <3> QED BY <2>3, <2>6, <2>7, <3>1, <3>2
  <2> QED BY <2>1, <2>2, <2>5, <2>8
<1> QED BY <1>1, <1>2, DroppedFrom

LEMMA KeyUsed ==
  ASSUME NEW S, NEW s \in Seq(S), Distinct(s), NEW k \in S
  PROVE  /\ LRU!Used(s, k) \in Seq(S) /\ Distinct(LRU!Used(s, k)) /\ LRU!Used(s, k) # <<>>
         /\ \A x : x \in LRU!ToSet(LRU!Used(s, k)) <=> x \in LRU!ToSet(s) \/ x = k
         /\ \A o : Follows(s, o) =>
              Follows(LRU!Used(s, k), Unlink(o, k) \cup ((LRU!ToSet(s) \ {k}) \X {k}))
<1> DEFINE d == LRU!RemoveFirst(s, k)
           r == LRU!Used(s, k)
<1>1. /\ d \in Seq(S) /\ Distinct(d) /\ LRU!ToSet(d) = LRU!ToSet(s) \ {k}
      /\ \A o : Follows(s, o) => Follows(d, Unlink(o, k))
  BY KeyDropped
<1>2. r = Append(d, k)
  BY DEF LRU!Used
<1> HIDE DEF d, r
<1>3. /\ r \in Seq(S) /\ Len(r) = Len(d) + 1 /\ r # <<>> /\ Len(d) \in Nat
      /\ \A i \in 1..Len(d) : r[i] = d[i]
      /\ r[Len(d) + 1] = k
  BY <1>1, <1>2, AppendProperties
<1>4. \A i \in 1..Len(d) : d[i] \in LRU!ToSet(s) \ {k}
  BY <1>1, SetOfList
<1>5. Distinct(r)
  BY <1>1, <1>3, <1>4 DEF Distinct
<1>6. ASSUME NEW o, Follows(s, o)
      PROVE  Follows(r, Unlink(o, k) \cup ((LRU!ToSet(s) \ {k}) \X {k}))
  <2>1. Follows(d, Unlink(o, k))
    BY <1>1, <1>6
  <2> QED BY <1>3, <1>4, <2>1 DEF Follows
<1>7. LRU!ToSet(r) = LRU!ToSet(d) \cup {k}
  BY <1>3 DEF LRU!ToSet
<1> QED BY <1>1, <1>3, <1>5, <1>6, <1>7 DEF r

LEMMA ListLength ==
  ASSUME NEW S, NEW s \in Seq(S), Distinct(s)
  PROVE  Cardinality(LRU!ToSet(s)) = Len(s)
<1> DEFINE T == LRU!ToSet(s)
<1>1. Len(s) \in Nat /\ s \in [1..Len(s) -> T]
  BY LenProperties, SetOfList
<1>2. s \in Bijection(1..Len(s), T)
  <2>1. s \in Injection(1..Len(s), T)
    BY <1>1 DEF Injection, IsInjective, Distinct
  <2>2. s \in Surjection(1..Len(s), T)
    BY <1>1, SetOfList DEF Surjection
  <2> QED BY <2>1, <2>2 DEF Bijection
<1>3. ExistsBijection(1..Len(s), T)
  BY <1>2 DEF ExistsBijection
<1> QED BY <1>1, <1>3, FS_CountingElements

\* The element with nothing before it is the head.
LEMMA HeadOfList ==
  ASSUME NEW S, NEW s \in Seq(S), Distinct(s), s # <<>>, NEW o, Follows(s, o),
         NEW e \in LRU!ToSet(s), \A x \in LRU!ToSet(s) : <<x, e>> \notin o
  PROVE  e = Head(s) /\ LRU!RemoveFirst(s, e) = Tail(s)
<1>1. Len(s) \in Nat \ {0} /\ 1 \in 1..Len(s)
  BY EmptySeq
<1>2. PICK i \in 1..Len(s) : s[i] = e
  BY SetOfList
<1>3. s[1] \in LRU!ToSet(s)
  BY <1>1, SetOfList
<1>4. i = 1
  <2>1. ~ (1 < i)
    BY <1>1, <1>2, <1>3 DEF Follows
  <2> QED BY <1>1, <1>2, <2>1
<1>5. e = Head(s)
  BY <1>2, <1>4, HeadTailProperties
<1>6. PICK p \in 1..Len(s) : s[p] = e /\ LRU!RemoveFirst(s, e) = LRU!RemoveAt(s, p)
  BY DroppedFrom
<1>7. p = 1
  BY <1>2, <1>4, <1>6 DEF Distinct
<1>8. LRU!RemoveAt(s, 1) = Tail(s)
  <2>1. /\ LRU!RemoveAt(s, 1) \in Seq(S) /\ Len(LRU!RemoveAt(s, 1)) = Len(s) - 1
        /\ \A j \in 1..Len(s) - 1 : LRU!RemoveAt(s, 1)[j] = s[j + 1]
    BY <1>1, RemovedAt
  <2>2. Tail(s) \in Seq(S) /\ Len(Tail(s)) = Len(s) - 1
        /\ \A j \in 1..Len(s) - 1 : Tail(s)[j] = s[j + 1]
    BY <1>1, HeadTailProperties
  <2> QED BY <2>1, <2>2, SeqEqual
<1> QED BY <1>5, <1>6, <1>7, <1>8

-----------------------------------------------------------------------------
(* The refinement of LRUCache *)

\* The map's access order is the order of the last calls.
Line ==
  /\ lastUse \in Seq(Keys) /\ Distinct(lastUse) /\ Follows(lastUse, older)
  /\ LRU!ToSet(lastUse) = Cached(cacheMap)

HInv == IInv /\ Line

\* The list and the map's order move a used key to their ends alike.
LEMMA EntryUsed ==
  ASSUME Line, NEW k \in Keys
  PROVE  /\ LRU!Used(lastUse, k) \in Seq(Keys) /\ Distinct(LRU!Used(lastUse, k))
         /\ LRU!Used(lastUse, k) # <<>>
         /\ Follows(LRU!Used(lastUse, k), MoveToEnd(cacheMap, older, k))
         /\ LRU!ToSet(LRU!Used(lastUse, k)) = Cached(cacheMap) \cup {k}
<1>1. /\ lastUse \in Seq(Keys) /\ Distinct(lastUse) /\ Follows(lastUse, older)
      /\ LRU!ToSet(lastUse) = Cached(cacheMap)
  BY DEF Line
<1>2. /\ LRU!Used(lastUse, k) \in Seq(Keys) /\ Distinct(LRU!Used(lastUse, k))
      /\ LRU!Used(lastUse, k) # <<>>
      /\ LRU!ToSet(LRU!Used(lastUse, k)) = LRU!ToSet(lastUse) \cup {k}
  <2>1. LRU!Used(lastUse, k) \in Seq(Keys)
    BY <1>1, KeyUsed
  <2>2. Distinct(LRU!Used(lastUse, k))
    BY <1>1, KeyUsed
  <2>3. LRU!Used(lastUse, k) # <<>>
    BY <1>1, KeyUsed
  <2>4. LRU!ToSet(LRU!Used(lastUse, k)) = LRU!ToSet(lastUse) \cup {k}
    BY <1>1, KeyUsed
  <2> QED BY <2>1, <2>2, <2>3, <2>4
<1>3. Follows(LRU!Used(lastUse, k), Unlink(older, k) \cup ((LRU!ToSet(lastUse) \ {k}) \X {k}))
  BY <1>1, KeyUsed
<1>4. Unlink(older, k) \cup ((LRU!ToSet(lastUse) \ {k}) \X {k}) = MoveToEnd(cacheMap, older, k)
  BY <1>1 DEF MoveToEnd
<1> QED BY <1>1, <1>2, <1>3, <1>4

LEMMA GetRefines ==
  ASSUME HInv, NEW k \in Keys, GetEntry(k)
  PROVE  Line' /\ (LRU!Use(k) \/ UNCHANGED LRU!vars)
<1> USE DEF HInv, GetEntry
<1>1. UNCHANGED <<cacheMap, disk>> /\ UNCHANGED <<FileOf, OnDisk>>
  BY DEF Get, FileOf, OnDisk, Cached
<1>2. CASE cacheMap[k] = Null
  <2>1. UNCHANGED <<lastUse, older>>
    BY <1>2 DEF Get
  <2> QED BY <1>1, <2>1 DEF Line, LRU!vars, Cached
<1>3. CASE cacheMap[k] # Null
  <2>1. lastUse' = LRU!Used(lastUse, k) /\ older' = MoveToEnd(cacheMap, older, k)
    BY <1>3 DEF Get
  <2>2. k \in Cached(cacheMap)
    BY <1>3 DEF Cached
  <2>3. Line'
    <3>1. Cached(cacheMap)' = Cached(cacheMap)
      BY <1>1 DEF Cached
    <3>2. /\ lastUse' \in Seq(Keys) /\ Distinct(lastUse') /\ Follows(lastUse', older')
          /\ LRU!ToSet(lastUse') = Cached(cacheMap) \cup {k}
      BY <2>1, EntryUsed
    <3> QED BY <2>2, <3>1, <3>2 DEF Line
  <2>4. LRU!Use(k)
    BY <1>1, <2>1, <2>2 DEF LRU!Use, LRU!Cached, Line
  <2> QED BY <2>3, <2>4
<1> QED BY <1>2, <1>3

LEMMA RemoveRefines ==
  ASSUME HInv, NEW k \in Keys, RemoveEntry(k)
  PROVE  Line' /\ (LRU!Discard(k) \/ UNCHANGED LRU!vars)
<1> USE DEF HInv, RemoveEntry
<1>1. /\ Cached(cacheMap') = Cached(cacheMap) \ {k}
      /\ cacheMap \in [Keys -> Paths \cup {Null}] /\ disk \in [Paths -> Contents]
      /\ cacheMap' = [cacheMap EXCEPT ![k] = Null]
  BY CachedAfterDrop DEF Remove, IInv, TypeOK
<1>2. /\ lastUse' \in Seq(Keys) /\ Distinct(lastUse') /\ Follows(lastUse', older')
      /\ LRU!ToSet(lastUse') = Cached(cacheMap) \ {k}
  BY KeyDropped DEF Line, Remove
<1>3. Line'
  BY <1>1, <1>2 DEF Line
<1>4. CASE cacheMap[k] = Null
  <2>1. k \notin Cached(cacheMap)
    BY <1>4 DEF Cached
  <2>2. lastUse' = lastUse
    BY <2>1, DroppedFrom, SetOfList DEF Line
  <2>3. cacheMap' = cacheMap /\ disk' = disk
    BY <1>1, <1>4 DEF Remove
  <2> QED BY <1>3, <2>2, <2>3 DEF LRU!vars, FileOf, OnDisk, Cached
<1>5. CASE cacheMap[k] # Null
  <2>1. k \in Cached(cacheMap)
    BY <1>5 DEF Cached
  <2>2. FileOf' = [c \in Cached(cacheMap) \ {k} |-> FileOf[c]]
    <3>1. \A c \in Cached(cacheMap) \ {k} : cacheMap'[c] = cacheMap[c] /\ FileOf[c] = cacheMap[c]
      BY <1>1 DEF FileOf, Cached
    <3>2. FileOf' = [c \in Cached(cacheMap') |-> cacheMap'[c]]
      BY DEF FileOf
    <3> QED BY <1>1, <3>1, <3>2
  <2>3. OnDisk' = OnDisk \ {FileOf[k]}
    BY <1>1, <1>5, <2>1 DEF OnDisk, FileOf, Remove
  <2> QED BY <1>3, <2>1, <2>2, <2>3 DEF LRU!Discard, LRU!Cached, Line
<1> QED BY <1>4, <1>5

\* The map and the file list after an entry is set: what a put writes before the eviction.
LEMMA EntrySet ==
  ASSUME HInv, NEW k \in Keys, NEW f \in Paths
  PROVE  LET m == [cacheMap EXCEPT ![k] = f]
             u == LRU!Used(lastUse, k)
         IN /\ m \in [Keys -> Paths \cup {Null}] /\ Cached(m) = Cached(cacheMap) \cup {k}
            /\ u \in Seq(Keys) /\ Distinct(u) /\ u # <<>>
            /\ Follows(u, MoveToEnd(cacheMap, older, k)) /\ LRU!ToSet(u) = Cached(m)
            /\ \A c \in Cached(m) : m[c] = IF c = k THEN f ELSE FileOf[c]
<1> DEFINE u == LRU!Used(lastUse, k)
<1>1. /\ u \in Seq(Keys) /\ Distinct(u) /\ u # <<>>
      /\ Follows(u, MoveToEnd(cacheMap, older, k))
      /\ LRU!ToSet(u) = Cached(cacheMap) \cup {k}
  BY EntryUsed DEF HInv
<1> HIDE DEF u
<1> DEFINE m == [cacheMap EXCEPT ![k] = f]
<1>3. m \in [Keys -> Paths \cup {Null}] /\ Cached(m) = Cached(cacheMap) \cup {k}
  BY CachedAfterSet DEF HInv, IInv, TypeOK
<1>4. \A c \in Cached(m) : m[c] = IF c = k THEN f ELSE FileOf[c]
  <2> SUFFICES ASSUME NEW c \in Cached(m) PROVE m[c] = IF c = k THEN f ELSE FileOf[c]
    OBVIOUS
  <2>1. c \in Keys /\ (c # k => c \in Cached(cacheMap))
    BY <1>3 DEF Cached
  <2> QED BY <2>1 DEF FileOf, HInv, IInv, TypeOK
<1> HIDE DEF m
<1> QED BY <1>1, <1>3, <1>4 DEF m, u

LEMMA PutExistingRefines ==
  ASSUME HInv, NEW k \in Keys, NEW f \in Paths, PutExisting(k, f),
         lastUse' = StillCached(LRU!Used(lastUse, k))
  PROVE  Line' /\ LRU!Refile(k, f)
<1> DEFINE m == [cacheMap EXCEPT ![k] = f]
           u == LRU!Used(lastUse, k)
<1>1. /\ cacheMap' = m /\ older' = MoveToEnd(cacheMap, older, k) /\ disk' = disk
      /\ k \in Cached(cacheMap)
  BY DEF PutExisting, Cached
<1>0. /\ Cached(m) = Cached(cacheMap) \cup {k}
      /\ u \in Seq(Keys) /\ Distinct(u) /\ Follows(u, MoveToEnd(cacheMap, older, k))
      /\ LRU!ToSet(u) = Cached(m)
      /\ \A c \in Cached(m) : m[c] = IF c = k THEN f ELSE FileOf[c]
  BY EntrySet
<1> HIDE DEF m, u
<1>2. Cached(m) = Cached(cacheMap)
  BY <1>0, <1>1
<1>3. lastUse' = u
  <2>1. \A c \in LRU!ToSet(u) : cacheMap'[c] # Null
    BY <1>0, <1>1 DEF Cached
  <2> QED BY <2>1 DEF StillCached, u
<1>4. Line'
  BY <1>0, <1>1, <1>3 DEF Line
<1>5. FileOf' = [FileOf EXCEPT ![k] = f]
  <2>1. FileOf' = [c \in Cached(m) |-> m[c]]
    BY <1>1 DEF FileOf
  <2>2. [FileOf EXCEPT ![k] = f] = [c \in Cached(cacheMap) |-> IF c = k THEN f ELSE FileOf[c]]
    BY DEF FileOf
  <2> QED BY <1>0, <1>2, <2>1, <2>2
<1>6. OnDisk' = OnDisk
  BY <1>1 DEF OnDisk
<1> QED BY <1>1, <1>3, <1>4, <1>5, <1>6 DEF LRU!Refile, LRU!Cached, HInv, Line, u

LEMMA PutNewRefines ==
  ASSUME HInv, NEW k \in Keys, NEW f \in Paths, PutNew(k, f),
         lastUse' = StillCached(LRU!Used(lastUse, k))
  PROVE  Line' /\ (LRU!Insert(k, f) \/ LRU!Replace(k, f))
<1> DEFINE m == [cacheMap EXCEPT ![k] = f]
           o == MoveToEnd(cacheMap, older, k)
           u == LRU!Used(lastUse, k)
           files == [c \in LRU!Cached \cup {k} |-> IF c = k THEN f ELSE FileOf[c]]
<1>1. /\ m \in [Keys -> Paths \cup {Null}] /\ Cached(m) = Cached(cacheMap) \cup {k}
      /\ u \in Seq(Keys) /\ Distinct(u) /\ u # <<>> /\ Follows(u, o) /\ LRU!ToSet(u) = Cached(m)
      /\ \A c \in Cached(m) : m[c] = IF c = k THEN f ELSE FileOf[c]
  BY EntrySet
<1>2. LRU!Cached = Cached(cacheMap) /\ k \notin LRU!Cached
  BY DEF LRU!Cached, HInv, Line, PutNew, Cached
<1>3. u = Append(lastUse, k)
  <2>1. LRU!RemoveFirst(lastUse, k) = lastUse
    BY <1>2, DroppedFrom, SetOfList DEF HInv, Line, LRU!Cached
  <2> QED BY <2>1 DEF LRU!Used
<1>4. /\ Cardinality(Cached(cacheMap)) = Len(lastUse) /\ Len(lastUse) \in Nat
      /\ Cardinality(Cached(cacheMap) \cup {k}) = Len(lastUse) + 1
      /\ Len(lastUse) <= max_cache
  <2>1. Cardinality(Cached(cacheMap)) = Len(lastUse)
    BY ListLength DEF HInv, Line
  <2>2. Cardinality(Cached(cacheMap) \cup {k}) = Cardinality(Cached(cacheMap)) + 1
    BY <1>2, CachedIsFinite, FS_AddElement
  <2>3. Cardinality(Cached(cacheMap)) <= max_cache
    BY DEF HInv, IInv, CacheInv, SizeBounded
  <2> QED BY <2>1, <2>2, <2>3, CachedIsFinite
<1>5. \A c \in Cached(m) : m[c] = files[c]
  BY <1>1, <1>2
<1>6. CASE /\ cacheMap' = m /\ older' = o /\ disk' = disk
           /\ Cardinality(Cached(cacheMap) \cup {k}) <= max_cache
  <2> HIDE DEF m, o, u, files
  <2>1. lastUse' = u
    <3>1. \A c \in LRU!ToSet(u) : cacheMap'[c] # Null
      BY <1>1, <1>6 DEF Cached
    <3> QED BY <3>1 DEF StillCached, u
  <2>2. Line'
    BY <1>1, <1>6, <2>1 DEF Line
  <2>3. FileOf' = files
    <3>1. FileOf' = [c \in Cached(m) |-> m[c]]
      BY <1>6 DEF FileOf
    <3>2. files = [c \in Cached(m) |-> files[c]]
      BY <1>1, <1>2 DEF files
    <3> QED BY <1>5, <3>1, <3>2
  <2>4. OnDisk' = OnDisk
    BY <1>6 DEF OnDisk
  <2>5. Len(lastUse) < max_cache
    BY <1>4, <1>6, CapacityAssumption
  <2>6. LRU!Insert(k, f)
    BY <1>2, <1>3, <2>1, <2>3, <2>4, <2>5 DEF LRU!Insert, files
  <2> QED BY <2>2, <2>6
<1>7. ASSUME NEW e \in Cached(m),
             Cardinality(Cached(cacheMap) \cup {k}) > max_cache,
             \A j \in Cached(m) : <<j, e>> \notin o,
             cacheMap' = [m EXCEPT ![e] = Null],
             older' = Unlink(o, e),
             disk' = [disk EXCEPT ![m[e]] = Absent]
      PROVE  Line' /\ LRU!Replace(k, f)
  <2> HIDE DEF m, o, u, files
  <2>1. e = Head(u) /\ LRU!RemoveFirst(u, e) = Tail(u)
    BY <1>1, <1>7, HeadOfList
  <2>2. Cached(cacheMap') = Cached(m) \ {e} /\ \A c \in Keys \ {e} : cacheMap'[c] = m[c]
    <3>1. e \in Keys
      BY <1>7 DEF Cached
    <3> QED BY <1>1, <1>7, <3>1, CachedAfterDrop
  <2>3. lastUse' = Tail(u)
    <3>1. {c \in LRU!ToSet(u) : cacheMap'[c] = Null} = {e}
      BY <1>1, <1>7, <2>2 DEF Cached
    <3>2. StillCached(u) = LRU!RemoveFirst(u, e)
      BY <3>1 DEF StillCached
    <3> QED BY <2>1, <3>2 DEF u
  <2>4. Line'
    <3>1. LET r == LRU!RemoveFirst(u, e)
          IN /\ r \in Seq(Keys) /\ Distinct(r) /\ LRU!ToSet(r) = LRU!ToSet(u) \ {e}
             /\ Follows(r, Unlink(o, e))
      BY <1>1, KeyDropped
    <3> QED BY <1>1, <1>7, <2>1, <2>2, <2>3, <3>1 DEF Line
  <2>5. FileOf' = [c \in (LRU!Cached \cup {k}) \ {e} |-> files[c]]
    <3>1. FileOf' = [c \in Cached(m) \ {e} |-> cacheMap'[c]]
      BY <2>2 DEF FileOf
    <3>2. \A c \in Cached(m) \ {e} : cacheMap'[c] = files[c]
      BY <1>5, <2>2 DEF Cached
    <3> QED BY <1>1, <1>2, <3>1, <3>2
  <2>6. OnDisk' = OnDisk \ {files[e]}
    <3>1. \A g \in Paths : disk'[g] = IF g = m[e] THEN Absent ELSE disk[g]
      BY <1>7 DEF HInv, IInv, TypeOK
    <3> QED BY <1>5, <1>7, <3>1 DEF OnDisk
  <2>7. Len(lastUse) = max_cache
    BY <1>4, <1>7, CapacityAssumption
  <2>8. LRU!Replace(k, f)
    BY <1>2, <1>3, <2>1, <2>3, <2>5, <2>6, <2>7 DEF LRU!Replace, files
  <2> QED BY <2>4, <2>8
<1> QED
  <2>1. \/ /\ cacheMap' = m /\ older' = o /\ disk' = disk
           /\ Cardinality(Cached(cacheMap) \cup {k}) <= max_cache
        \/ \E e \in Cached(cacheMap) \cup {k} :
           /\ Cardinality(Cached(cacheMap) \cup {k}) > max_cache
           /\ \A j \in Cached(cacheMap) \cup {k} : <<j, e>> \notin o
           /\ cacheMap' = [m EXCEPT ![e] = Null]
           /\ older' = Unlink(o, e)
           /\ disk' = [disk EXCEPT ![m[e]] = Absent]
    <3>1. CacheInv
      BY DEF HInv, IInv
    <3>2. \/ /\ cacheMap' = [cacheMap EXCEPT ![k] = f]
             /\ Cardinality(Cached(cacheMap) \cup {k}) <= max_cache
             /\ older' = MoveToEnd(cacheMap, older, k)
             /\ disk' = disk
          \/ \E e \in Cached(cacheMap) \cup {k} :
             /\ Cardinality(Cached(cacheMap) \cup {k}) > max_cache
             /\ \A j \in Cached(cacheMap) \cup {k} :
                  <<j, e>> \notin MoveToEnd(cacheMap, older, k)
             /\ cacheMap' = [[cacheMap EXCEPT ![k] = f] EXCEPT ![e] = Null]
             /\ older' = Unlink(MoveToEnd(cacheMap, older, k), e)
             /\ disk' = [disk EXCEPT ![[cacheMap EXCEPT ![k] = f][e]] = Absent]
      BY <3>1, PutNewEffect
    <3> QED BY <3>2
  <2> HIDE DEF m, o, u, files
  <2> QED BY <1>1, <1>6, <1>7, <2>1

LEMMA ClearRefines ==
  ASSUME ClearEntries
  PROVE  Line' /\ LRU!Forget
<1>1. lastUse' = <<>> /\ <<>> \in Seq(Keys) /\ Len(<<>>) = 0
  BY DEF ClearEntries
<1>2. Cached(cacheMap') = {} /\ disk' = disk
  BY DEF ClearEntries, Clear, Cached
<1>3. LRU!ToSet(<<>>) = {}
  BY DEF LRU!ToSet
<1>4. Line'
  BY <1>1, <1>2, <1>3 DEF Line, Distinct, Follows
<1>5. FileOf' = [k \in {} |-> {}] /\ OnDisk' = OnDisk
  BY <1>2 DEF FileOf, OnDisk
<1> QED BY <1>1, <1>4, <1>5 DEF LRU!Forget

\* The callers' own steps on the disk.
LEMMA TouchRefines ==
  ASSUME HInv, NEW f \in Paths, TouchFile(f)
  PROVE  Line' /\ LRU!Outside(f)
<1>1. UNCHANGED <<cacheMap, older, lastUse>> /\ disk \in [Paths -> Contents]
  BY DEF TouchFile, CreateFile, MoveFile, FillFile, cacheVars, HInv, IInv, TypeOK
<1>2. Line' /\ FileOf' = FileOf
  BY <1>1 DEF HInv, Line, FileOf, Cached
<1>3. CASE CreateFile(f)
  <2>1. OnDisk' = OnDisk \cup {f}
    BY <1>1, <1>3, NullAssumption DEF OnDisk, CreateFile
  <2> QED BY <1>1, <1>2, <2>1 DEF LRU!Outside
<1>4. CASE MoveFile(f)
  <2>1. OnDisk' = OnDisk \ {f}
    BY <1>1, <1>4 DEF OnDisk, MoveFile
  <2> QED BY <1>1, <1>2, <2>1 DEF LRU!Outside
<1>5. ASSUME NEW k \in Keys, FillFile(f, k) PROVE Line' /\ LRU!Outside(f)
  <2>1. OnDisk' = OnDisk \cup {f}
    BY <1>1, <1>5, NullAssumption DEF OnDisk, FillFile
  <2> QED BY <1>1, <1>2, <2>1 DEF LRU!Outside
<1> QED BY <1>3, <1>4, <1>5 DEF TouchFile

LEMMA HistoryInitRefines == HistoryInit => HInv /\ LRU!Init
<1> SUFFICES ASSUME HistoryInit PROVE HInv /\ LRU!Init
  OBVIOUS
<1>1. /\ cacheMap = [k \in Keys |-> Null] /\ older = {} /\ disk = [f \in Paths |-> Absent]
      /\ lastUse = <<>> /\ <<>> \in Seq(Keys) /\ Len(<<>>) = 0 /\ LRU!ToSet(<<>>) = {}
  BY DEF HistoryInit, Init, LRU!ToSet
<1>2. Cached(cacheMap) = {} /\ OnDisk = {}
  BY <1>1 DEF Cached, OnDisk
<1>3. IInv
  BY <1>1, InitCache DEF HistoryInit, Init, IInv, TypeOK, Contents
<1>4. Line
  <2>1. Distinct(lastUse) /\ Follows(lastUse, older)
    BY <1>1 DEF Distinct, Follows
  <2>2. lastUse \in Seq(Keys) /\ LRU!ToSet(lastUse) = Cached(cacheMap)
    BY <1>1, <1>2
  <2> QED BY <2>1, <2>2 DEF Line
<1>5. FileOf = [k \in {} |-> {}]
  BY <1>2 DEF FileOf
<1> QED BY <1>1, <1>2, <1>3, <1>4, <1>5 DEF HInv, LRU!Init

LEMMA HistoryStepRefines ==
  ASSUME HInv, [HistoryNext]_historyVars
  PROVE  HInv' /\ [LRU!Next]_(LRU!vars)
<1>1. ASSUME NEW k \in Keys, GetEntry(k) PROVE HInv' /\ [LRU!Next]_(LRU!vars)
  <2>1. Next
    BY <1>1 DEF GetEntry, Next
  <2>2. IInv'
    BY <2>1, IInvStep DEF HInv
  <2>3. Line' /\ (LRU!Use(k) \/ UNCHANGED LRU!vars)
    BY <1>1, GetRefines
  <2> QED BY <2>2, <2>3 DEF HInv, LRU!Next
<1>2. ASSUME NEW k \in Keys, RemoveEntry(k) PROVE HInv' /\ [LRU!Next]_(LRU!vars)
  <2>1. Next
    BY <1>2 DEF RemoveEntry, Next
  <2>2. IInv'
    BY <2>1, IInvStep DEF HInv
  <2>3. Line' /\ (LRU!Discard(k) \/ UNCHANGED LRU!vars)
    BY <1>2, RemoveRefines
  <2> QED BY <2>2, <2>3 DEF HInv, LRU!Next
<1>3. ASSUME NEW k \in Keys, NEW f \in Paths, PutEntry(k, f)
      PROVE  HInv' /\ [LRU!Next]_(LRU!vars)
  <2>1. Next
    BY <1>3 DEF PutEntry, Next
  <2>2. IInv'
    BY <2>1, IInvStep DEF HInv
  <2>3. /\ PutExisting(k, f) \/ PutNew(k, f)
        /\ lastUse' = StillCached(LRU!Used(lastUse, k))
    BY <1>3 DEF PutEntry, PutFresh, Put
  <2>4. Line' /\ (LRU!Refile(k, f) \/ LRU!Insert(k, f) \/ LRU!Replace(k, f))
    BY <2>3, PutExistingRefines, PutNewRefines
  <2> QED BY <2>2, <2>4 DEF HInv, LRU!Next
<1>4. ASSUME NEW f \in Paths, TouchFile(f) PROVE HInv' /\ [LRU!Next]_(LRU!vars)
  <2>1. Next
    BY <1>4 DEF TouchFile, Next
  <2>2. IInv'
    BY <2>1, IInvStep DEF HInv
  <2>3. Line' /\ LRU!Outside(f)
    BY <1>4, TouchRefines
  <2> QED BY <2>2, <2>3 DEF HInv, LRU!Next
<1>5. CASE ClearEntries
  <2>1. Next
    BY <1>5 DEF ClearEntries, Next
  <2>2. IInv'
    BY <2>1, IInvStep DEF HInv
  <2> QED BY <1>5, <2>2, ClearRefines DEF HInv, LRU!Next
<1>6. CASE UNCHANGED historyVars
  <2>1. IInv'
    BY <1>6, IInvStep DEF HInv, historyVars, tileVars
  <2>2. Line' /\ UNCHANGED LRU!vars
    BY <1>6 DEF historyVars, tileVars, HInv, Line, LRU!vars, FileOf, OnDisk, Cached
  <2> QED BY <2>1, <2>2 DEF HInv
<1> QED BY <1>1, <1>2, <1>3, <1>4, <1>5, <1>6 DEF HistoryNext

\* The access-ordered map with its removeEldestEntry is an LRU cache, whatever the
\* capacity: an insertion that does not fit costs the key whose last get or put is
\* longest ago, and deletes that key's file only; clear deletes none.
THEOREM TileCacheIsLRU == HistorySpec => ImplementsLRU
<1>1. HistoryInit => HInv /\ LRU!Init
  BY HistoryInitRefines
<1>2. HInv /\ [HistoryNext]_historyVars => HInv' /\ [LRU!Next]_(LRU!vars)
  BY HistoryStepRefines
<1> QED BY <1>1, <1>2, PTL DEF HistorySpec, ImplementsLRU, LRU!Spec

-----------------------------------------------------------------------------
(* The region service over the cache: the inductive invariant *)

\* The thread reads the file it made although another thread's is in the cache.
Simultaneous(t) == pc[t] \in {"open", "measure"} /\ branch[t] = "simultaneous"

\* The file named after the thread's request is no other thread's business.
Private(t) ==
  \/ pc[t] \in {"record", "render", "lookup", "create", "extract", "recheck", "put"}
  \/ Simultaneous(t)

\* The files of later requests, and the private files of those under way.
FreeFiles ==
  ((asked + 1)..MaxRequests) \cup {id[t] : t \in {u \in Threads : Private(u)}}

\* What an entry's file may hold.
Holds(content, k) == content = k \/ ("exec" \in Faults /\ content = Empty)

RequestInv ==
  /\ \A t \in Threads : pc[t] # "idle" => id[t] \in 1..asked /\ view[t] \in Views
  /\ \A t, u \in Threads :
       pc[t] # "idle" /\ pc[u] # "idle" /\ id[t] = id[u] => t = u
  /\ \A t \in Threads : pc[t] # "respond" => status[t] = "none"
  /\ \A t \in Threads :
       pc[t] \in {"extract", "recheck", "put"} \/ Simultaneous(t) => file[t] = id[t]
  /\ \A t \in Threads : pc[t] = "put" => branch[t] = "made"

\* The files a thread deals with hold what it believes they hold.
OwnFile(t) ==
  /\ pc[t] = "extract" => disk[id[t]] = Empty
  /\ pc[t] \in {"recheck", "put"} \/ Simultaneous(t) => Holds(disk[id[t]], Hash(t))
  /\ pc[t] \in {"open", "measure"} /\ ~ Simultaneous(t) =>
       /\ file[t] \in Paths \ FreeFiles
       /\ disk[file[t]] \in {Hash(t), Empty, Absent}

FileInv ==
  /\ FilesNotShared
  /\ EntriesHoldTheirTile
  /\ MappedFiles \cap FreeFiles = {}
  /\ \A t \in Threads : OwnFile(t)

AnswerInv == ServedTileIsRequested /\ SimultaneousBranchIsSafe

ServiceInv == ServiceTypeOK /\ CacheInv /\ RequestInv /\ FileInv /\ AnswerInv

-----------------------------------------------------------------------------
(* Types and the cache *)

\* What a thread does to the tile cache, if anything.
TileStep(t) ==
  \/ UNCHANGED tileVars
  \/ Get(Hash(t)) /\ UNCHANGED disk
  \/ Put(Hash(t), file[t]) /\ pc[t] = "put"
  \/ UNCHANGED cacheVars /\ \E c \in Contents : disk' = [disk EXCEPT ![id[t]] = c]

LEMMA HashIsKey ==
  ASSUME NEW t \in Threads, view[t] \in Views
  PROVE  Hash(t) \in Keys /\ Picture(view[t]) = Hash(t) /\ Hash(t) # Empty /\ Hash(t) # Absent
BY HashAssumption, NullAssumption DEF Hash, Picture, TileHash

LEMMA IdIsPath ==
  ASSUME NEW n \in 1..MaxRequests
  PROVE  n \in Paths /\ n # Null
BY RequestAssumption, NullAssumption

LEMMA ResolveType ==
  ASSUME ServiceInv, NEW t \in Threads, Resolve(t)
  PROVE  /\ pc' \in [Threads -> ServicePCs \cup {"idle"}]
         /\ asked' \in 0..MaxRequests
         /\ id' \in [Threads -> 0..MaxRequests]
         /\ view' \in [Threads -> Views \cup {Null}]
         /\ file' \in [Threads -> Paths \cup {Null}]
         /\ branch' \in [Threads -> {"none", "hit", "made", "simultaneous"}]
         /\ cacheFile' \in [Threads -> Paths \cup {Null}]
         /\ status' \in [Threads -> {"none", "ok", "notFound", "error"}]
         /\ bytes' \in [Threads -> Contents]
<1> USE DEF ServiceInv, ServiceTypeOK, TypeOK, GoTo, requestVars, responseVars, tileVars, cacheVars, ServicePCs
<1>1. CASE FindRecord(t)
  BY <1>1 DEF FindRecord
<1>2. CASE RecordMissing(t)
  BY <1>2 DEF RecordMissing, Fail
<1>3. CASE Render(t)
  <2>1. Picture(view[t]) \in Contents
    BY <1>3, HashIsKey DEF Render, RequestInv, Contents
  <2> QED BY <1>3, <2>1 DEF Render
<1>4. CASE RenderFails(t)
  BY <1>4 DEF RenderFails, Fail
<1>5. CASE Lookup(t)
  <2>1. cacheMap[Hash(t)] \in Paths \cup {Null}
    BY <1>5, HashIsKey DEF Lookup, RequestInv
  <2> QED BY <1>5, <2>1 DEF Lookup
<1>6. CASE CreateTempFile(t)
  <2>1. id[t] \in Paths
    BY <1>6, IdIsPath, RequestAssumption DEF CreateTempFile, RequestInv
  <2> QED BY <1>6, <2>1 DEF CreateTempFile, TempFile
<1>7. CASE Extract(t)
  BY <1>7 DEF Extract
<1>8. CASE ExtractNothing(t)
  BY <1>8 DEF ExtractNothing
<1>9. CASE ExtractFails(t)
  BY <1>9 DEF ExtractFails, Fail
<1>10. CASE Recheck(t)
  BY <1>10 DEF Recheck
<1>11. CASE PutTile(t)
  BY <1>11 DEF PutTile
<1>12. CASE Open(t)
  BY <1>12 DEF Open
<1>13. CASE OpenFails(t)
  BY <1>13 DEF OpenFails, Fail
<1>14. CASE Measure(t)
  <2>1. file[t] \in Paths
    BY <1>14, IdIsPath, RequestAssumption DEF Measure, RequestInv, FileInv, OwnFile
  <2>2. disk[file[t]] \in Contents /\ Empty \in Contents
    BY <2>1 DEF Contents
  <2> QED BY <1>14, <2>1, <2>2 DEF Measure
<1> QED BY <1>1, <1>2, <1>3, <1>4, <1>5, <1>6, <1>7, <1>8, <1>9, <1>10, <1>11,
           <1>12, <1>13, <1>14 DEF Resolve, Outside, Local

\* Every step of resolve uses the cache through one method at most, or changes
\* the file named after its request.
LEMMA ResolveTiles ==
  ASSUME ServiceInv, NEW t \in Threads, Resolve(t)
  PROVE  TileStep(t)
<1> USE DEF TileStep, tileVars, cacheVars
<1>1. CASE FindRecord(t) \/ RecordMissing(t) \/ Render(t) \/ RenderFails(t)
  BY <1>1 DEF FindRecord, RecordMissing, Render, RenderFails
<1>2. CASE Lookup(t) \/ Recheck(t)
  BY <1>2 DEF Lookup, Recheck
<1>3. CASE CreateTempFile(t)
  BY <1>3 DEF CreateTempFile, TempFile, Contents
<1>4. CASE Extract(t)
  <2>1. file[t] = id[t] /\ Picture(view[t]) \in Contents
    BY <1>4, HashIsKey DEF Extract, ServiceInv, RequestInv, Contents
  <2> QED BY <1>4, <2>1 DEF Extract
<1>5. CASE ExtractNothing(t) \/ ExtractFails(t)
  BY <1>5 DEF ExtractNothing, ExtractFails
<1>6. CASE PutTile(t)
  BY <1>6 DEF PutTile
<1>7. CASE Open(t) \/ OpenFails(t)
  BY <1>7 DEF Open, OpenFails
<1>8. CASE Measure(t)
  <2>1. CASE branch[t] = "simultaneous"
    <3>1. file[t] = id[t]
      BY <1>8, <2>1 DEF Measure, ServiceInv, RequestInv, Simultaneous
    <3> QED BY <1>8, <2>1, <3>1 DEF Measure, Contents
  <2>2. CASE branch[t] # "simultaneous"
    BY <1>8, <2>2 DEF Measure
  <2> QED BY <2>1, <2>2
<1> QED BY <1>1, <1>2, <1>3, <1>4, <1>5, <1>6, <1>7, <1>8 DEF Resolve, Outside, Local

LEMMA TileStepKeepsCache ==
  ASSUME ServiceInv, NEW t \in Threads, TileStep(t), pc[t] # "idle"
  PROVE  CacheInv' /\ TypeOK'
<1>1. Hash(t) \in Keys /\ id[t] \in Paths
  BY HashIsKey, IdIsPath, RequestAssumption DEF ServiceInv, RequestInv, ServiceTypeOK
<1>2. CASE UNCHANGED tileVars
  BY <1>2 DEF ServiceInv, ServiceTypeOK, TypeOK, tileVars, CacheInv, RecencyIsLinear, SizeBounded, Cached
<1>3. CASE Get(Hash(t)) /\ UNCHANGED disk
  <2>1. CacheInv'
    BY <1>1, <1>3, GetKeepsCache DEF ServiceInv
  <2>2. older' \subseteq Keys \X Keys
    BY <2>1 DEF CacheInv, RecencyIsLinear, LinearOrder, Cached
  <2> QED BY <1>3, <2>1, <2>2 DEF CacheInv, TypeOK, ServiceInv, ServiceTypeOK
<1>4. CASE Put(Hash(t), file[t]) /\ pc[t] = "put"
  <2>1. file[t] \in Paths
    BY <1>1, <1>4 DEF ServiceInv, RequestInv
  <2>2. CacheInv'
    BY <1>1, <1>4, <2>1, PutExistingKeepsCache, PutNewKeepsCache DEF Put, ServiceInv
  <2>3. older' \subseteq Keys \X Keys
    BY <2>2 DEF CacheInv, RecencyIsLinear, LinearOrder, Cached
  <2>4. disk' \in [Paths -> Contents]
    <3>1. CASE PutExisting(Hash(t), file[t])
      BY <3>1 DEF PutExisting, TypeOK, ServiceInv, ServiceTypeOK
    <3>2. CASE PutNew(Hash(t), file[t])
      BY <3>2 DEF PutNew, TypeOK, Contents, ServiceInv, ServiceTypeOK
    <3> QED BY <1>4, <3>1, <3>2 DEF Put
  <2> QED BY <2>2, <2>3, <2>4 DEF CacheInv, TypeOK
<1>5. CASE UNCHANGED cacheVars /\ \E c \in Contents : disk' = [disk EXCEPT ![id[t]] = c]
  <2>1. disk' \in [Paths -> Contents]
    BY <1>5 DEF ServiceInv, ServiceTypeOK, TypeOK
  <2> QED BY <1>5, <2>1 DEF ServiceInv, ServiceTypeOK, TypeOK, cacheVars, CacheInv, RecencyIsLinear, SizeBounded, Cached
<1> QED BY <1>2, <1>3, <1>4, <1>5 DEF TileStep

-----------------------------------------------------------------------------
(* One thread's step and the other threads *)

\* A step of one thread leaves the other threads' variables alone.
ThreadStep(t) == Resolve(t) \/ Respond(t) \/ \E v \in Views : Receive(t, v, "record")

LEMMA OthersKept ==
  ASSUME ServiceInv, NEW t \in Threads, ThreadStep(t)
  PROVE  \A u \in Threads \ {t} :
           /\ pc'[u] = pc[u] /\ id'[u] = id[u] /\ view'[u] = view[u]
           /\ file'[u] = file[u] /\ branch'[u] = branch[u]
           /\ status'[u] = status[u] /\ bytes'[u] = bytes[u]
<1> USE DEF ServiceInv, ServiceTypeOK, GoTo, requestVars, responseVars, Fail
<1>1. CASE FindRecord(t) \/ RecordMissing(t) \/ Render(t) \/ RenderFails(t)
  BY <1>1 DEF FindRecord, RecordMissing, Render, RenderFails
<1>2. CASE Lookup(t) \/ CreateTempFile(t) \/ Recheck(t) \/ PutTile(t)
  BY <1>2 DEF Lookup, CreateTempFile, Recheck, PutTile
<1>3. CASE Extract(t) \/ ExtractNothing(t) \/ ExtractFails(t)
  BY <1>3 DEF Extract, ExtractNothing, ExtractFails
<1>4. CASE Open(t) \/ OpenFails(t) \/ Measure(t)
  BY <1>4 DEF Open, OpenFails, Measure
<1>5. CASE Respond(t)
  BY <1>5 DEF Respond, Release
<1>6. CASE \E v \in Views : Receive(t, v, "record")
  BY <1>6 DEF Receive
<1> QED BY <1>1, <1>2, <1>3, <1>4, <1>5, <1>6 DEF ThreadStep, Resolve, Outside, Local

\* resolve changes no request, and leads from place to place in one way only.
LEMMA ResolvePlaces ==
  ASSUME ServiceInv, NEW t \in Threads, Resolve(t)
  PROVE  /\ UNCHANGED requestVars
         /\ pc[t] # "idle" /\ pc'[t] # "idle"
         /\ pc[t] # "respond"
         /\ pc'[t] # "respond" => status'[t] = status[t]
         /\ Private(t)' => Private(t)
         /\ pc'[t] = "put" => branch'[t] = "made"
         /\ pc'[t] \in {"extract", "recheck", "put"} \/ Simultaneous(t)' =>
              \/ pc[t] = "create" /\ file'[t] = id[t]
              \/ pc[t] \in {"extract", "recheck", "put"} /\ file'[t] = file[t]
              \/ Simultaneous(t) /\ file'[t] = file[t]
<1> USE DEF ServiceInv, ServiceTypeOK, GoTo, requestVars, responseVars, Fail, Private, Simultaneous
<1>1. CASE FindRecord(t) \/ RecordMissing(t) \/ Render(t) \/ RenderFails(t)
  BY <1>1 DEF FindRecord, RecordMissing, Render, RenderFails
<1>2. CASE Lookup(t)
  BY <1>2 DEF Lookup
<1>3. CASE CreateTempFile(t)
  BY <1>3 DEF CreateTempFile, TempFile
<1>4. CASE Extract(t) \/ ExtractNothing(t) \/ ExtractFails(t)
  BY <1>4 DEF Extract, ExtractNothing, ExtractFails
<1>5. CASE Recheck(t)
  BY <1>5 DEF Recheck
<1>6. CASE PutTile(t)
  BY <1>6 DEF PutTile
<1>7. CASE Open(t) \/ OpenFails(t) \/ Measure(t)
  BY <1>7 DEF Open, OpenFails, Measure
<1> QED BY <1>1, <1>2, <1>3, <1>4, <1>5, <1>6, <1>7 DEF Resolve, Outside, Local

LEMMA ReceiveEffect ==
  ASSUME ServiceInv, NEW t \in Threads, NEW v \in Views, Receive(t, v, "record")
  PROVE  /\ pc[t] = "idle" /\ pc'[t] = "record"
         /\ asked' = asked + 1 /\ id'[t] = asked + 1 /\ asked + 1 \in 1..MaxRequests
         /\ view'[t] = v
         /\ status'[t] = status[t] /\ branch'[t] = branch[t]
         /\ UNCHANGED tileVars
BY RequestAssumption DEF Receive, ServiceInv, ServiceTypeOK, GoTo, responseVars

LEMMA RespondEffect ==
  ASSUME ServiceInv, NEW t \in Threads, Respond(t)
  PROVE  /\ pc[t] = "respond" /\ pc'[t] = "idle"
         /\ asked' = asked
         /\ status'[t] = "none" /\ branch'[t] = "none"
         /\ UNCHANGED tileVars
BY DEF Respond, Release, ServiceInv, ServiceTypeOK, GoTo

LEMMA RequestsStayApart ==
  ASSUME ServiceInv, NEW t \in Threads, ThreadStep(t)
  PROVE  RequestInv'
<1>1. \A u \in Threads \ {t} :
           /\ pc'[u] = pc[u] /\ id'[u] = id[u] /\ view'[u] = view[u]
           /\ file'[u] = file[u] /\ branch'[u] = branch[u]
           /\ status'[u] = status[u]
  BY OthersKept
<1>2. asked \in Nat /\ \A u \in Threads : id[u] \in Nat
  BY RequestAssumption DEF ServiceInv, ServiceTypeOK
<1>3. RequestInv
  BY DEF ServiceInv
<1>4. CASE Resolve(t)
  BY <1>1, <1>3, <1>4, ResolvePlaces DEF RequestInv, requestVars, Simultaneous
<1>5. CASE Respond(t)
  BY <1>1, <1>3, <1>5, RespondEffect DEF RequestInv, Simultaneous
<1>6. ASSUME NEW v \in Views, Receive(t, v, "record")
      PROVE  RequestInv'
  BY <1>1, <1>2, <1>3, <1>6, ReceiveEffect DEF RequestInv, Simultaneous
<1> QED BY <1>4, <1>5, <1>6 DEF ThreadStep

\* No file becomes free again.
LEMMA FreeFilesShrink ==
  ASSUME ServiceInv, NEW t \in Threads, ThreadStep(t)
  PROVE  FreeFiles' \subseteq FreeFiles
<1>1. \A u \in Threads \ {t} :
         pc'[u] = pc[u] /\ id'[u] = id[u] /\ branch'[u] = branch[u]
  BY OthersKept
<1>2. \A u \in Threads \ {t} : Private(u)' => Private(u)
  BY <1>1 DEF Private, Simultaneous
<1>3. asked \in Nat
  BY RequestAssumption DEF ServiceInv, ServiceTypeOK
<1>4. CASE Resolve(t)
  BY <1>1, <1>2, <1>4, ResolvePlaces DEF FreeFiles, requestVars
<1>5. CASE Respond(t)
  <2>1. ~ Private(t)'
    BY <1>5, RespondEffect DEF Private, Simultaneous
  <2> QED BY <1>1, <1>2, <1>5, <2>1, RespondEffect DEF FreeFiles
<1>6. ASSUME NEW v \in Views, Receive(t, v, "record")
      PROVE  FreeFiles' \subseteq FreeFiles
  <2>1. asked' = asked + 1 /\ id'[t] = asked + 1 /\ asked + 1 \in 1..MaxRequests
    BY <1>6, ReceiveEffect
  <2>2. ((asked' + 1)..MaxRequests) \subseteq ((asked + 1)..MaxRequests)
    BY <1>3, <2>1, RequestAssumption
  <2>3. id'[t] \in ((asked + 1)..MaxRequests)
    BY <1>3, <2>1, RequestAssumption
  <2> QED BY <1>1, <1>2, <2>2, <2>3 DEF FreeFiles
<1> QED BY <1>4, <1>5, <1>6 DEF ThreadStep

-----------------------------------------------------------------------------
(* The files *)

\* As long as the cache's map stays, and no file but one that is free, a step
\* of one thread is no other thread's business.
LEMMA FreeFileChanged ==
  ASSUME ServiceInv, NEW t \in Threads, ThreadStep(t), cacheMap' = cacheMap,
         NEW f \in FreeFiles, \A g \in Paths \ {f} : disk'[g] = disk[g],
         \A u \in Threads \ {t} : pc[u] # "idle" /\ Private(u) => id[u] # f
  PROVE  /\ FilesNotShared' /\ EntriesHoldTheirTile'
         /\ MappedFiles' \cap FreeFiles' = {}
         /\ \A u \in Threads \ {t} : OwnFile(u)'
<1>1. FileInv
  BY DEF ServiceInv
<1>2. FilesNotShared' /\ MappedFiles' \cap FreeFiles' = {}
  BY <1>1, FreeFilesShrink DEF FileInv, FilesNotShared, MappedFiles, Cached
<1>3. EntriesHoldTheirTile'
  <2>1. \A k \in Cached(cacheMap) : cacheMap[k] \in Paths \ {f}
    BY <1>1 DEF FileInv, MappedFiles, Cached, ServiceInv, CacheInv
  <2> QED BY <1>1, <2>1 DEF FileInv, EntriesHoldTheirTile, Cached
<1>4. ASSUME NEW u \in Threads \ {t}
      PROVE  OwnFile(u)'
  <2>1. /\ pc'[u] = pc[u] /\ id'[u] = id[u] /\ view'[u] = view[u]
        /\ file'[u] = file[u] /\ branch'[u] = branch[u]
    BY <1>4, OthersKept
  <2>2. Simultaneous(u)' <=> Simultaneous(u)
    BY <2>1 DEF Simultaneous
  <2>3. Hash(u)' = Hash(u)
    BY <2>1 DEF Hash
  <2>4. OwnFile(u)
    BY <1>1, <1>4 DEF FileInv
  <2>5. CASE pc[u] \in {"extract", "recheck", "put"} \/ Simultaneous(u)
    <3>1. pc[u] # "idle" /\ Private(u)
      BY <2>5 DEF Private, Simultaneous
    <3>2. id[u] \in Paths \ {f}
      BY <1>4, <3>1, IdIsPath, RequestAssumption DEF ServiceInv, RequestInv, ServiceTypeOK
    <3>3. disk'[id'[u]] = disk[id[u]]
      BY <2>1, <3>2
    <3> QED BY <2>1, <2>2, <2>3, <2>4, <2>5, <3>3 DEF OwnFile, Holds, Simultaneous
  <2>6. CASE pc[u] \in {"open", "measure"} /\ ~ Simultaneous(u)
    <3>1. file[u] \in Paths \ FreeFiles
      BY <2>4, <2>6 DEF OwnFile
    <3>2. disk'[file'[u]] = disk[file[u]] /\ file'[u] \notin FreeFiles'
      BY <2>1, <3>1, FreeFilesShrink
    <3> QED BY <2>1, <2>2, <2>3, <2>4, <2>6, <3>1, <3>2 DEF OwnFile
  <2>7. CASE pc[u] \notin {"extract", "recheck", "put", "open", "measure"}
    BY <2>1, <2>2, <2>7 DEF OwnFile, Simultaneous
  <2> QED BY <2>5, <2>6, <2>7
<1> QED BY <1>2, <1>3, <1>4

\* The same for a step that changes no file.
LEMMA NoFileChanged ==
  ASSUME ServiceInv, NEW t \in Threads, ThreadStep(t), UNCHANGED <<cacheMap, disk>>
  PROVE  /\ FilesNotShared' /\ EntriesHoldTheirTile'
         /\ MappedFiles' \cap FreeFiles' = {}
         /\ \A u \in Threads \ {t} : OwnFile(u)'
<1>1. FileInv
  BY DEF ServiceInv
<1>2. /\ FilesNotShared' /\ EntriesHoldTheirTile'
      /\ MappedFiles' \cap FreeFiles' = {}
  BY <1>1, FreeFilesShrink
     DEF FileInv, FilesNotShared, EntriesHoldTheirTile, MappedFiles, Cached
<1>3. ASSUME NEW u \in Threads \ {t}
      PROVE  OwnFile(u)'
  <2>1. /\ pc'[u] = pc[u] /\ id'[u] = id[u] /\ view'[u] = view[u]
        /\ file'[u] = file[u] /\ branch'[u] = branch[u]
    BY <1>3, OthersKept
  <2>2. OwnFile(u)
    BY <1>1, <1>3 DEF FileInv
  <2> QED BY <2>1, <2>2, FreeFilesShrink DEF OwnFile, Simultaneous, Holds, Hash
<1> QED BY <1>2, <1>3

\* A private file is free, and belongs to one thread under way.
LEMMA PrivateFileIsFree ==
  ASSUME ServiceInv, NEW t \in Threads, pc[t] # "idle", Private(t)
  PROVE  /\ id[t] \in FreeFiles /\ id[t] \in Paths
         /\ \A u \in Threads \ {t} : pc[u] # "idle" /\ Private(u) => id[u] # id[t]
BY IdIsPath, RequestAssumption DEF FreeFiles, ServiceInv, RequestInv, ServiceTypeOK

-----------------------------------------------------------------------------
(* The steps, one by one *)

\* The steps that use no file.
LEMMA FilesAfterQuietStep ==
  ASSUME ServiceInv, NEW t \in Threads,
         \/ FindRecord(t) \/ RecordMissing(t) \/ Render(t) \/ RenderFails(t)
         \/ ExtractNothing(t) \/ ExtractFails(t)
         \/ Open(t) \/ OpenFails(t)
         \/ Respond(t) \/ \E v \in Views : Receive(t, v, "record")
  PROVE  FileInv'
<1>1. ThreadStep(t) /\ UNCHANGED <<cacheMap, disk>>
  BY DEF ThreadStep, Resolve, Outside, Local, FindRecord, RecordMissing, Render, RenderFails,
         Respond,
         ExtractNothing, ExtractFails, Open, OpenFails, Receive, tileVars
<1>2. OwnFile(t) /\ RequestInv
  BY DEF ServiceInv, FileInv
<1>3. OwnFile(t)'
  <2> USE DEF ServiceInv, ServiceTypeOK, GoTo, requestVars, Fail, OwnFile, Simultaneous
  <2>1. CASE FindRecord(t) \/ RecordMissing(t) \/ Render(t) \/ RenderFails(t)
    BY <2>1 DEF FindRecord, RecordMissing, Render, RenderFails
  <2>2. CASE ExtractNothing(t)
    BY <1>1, <1>2, <2>2 DEF ExtractNothing, Holds
  <2>3. CASE ExtractFails(t) \/ OpenFails(t)
    BY <2>3 DEF ExtractFails, OpenFails
  <2>4. CASE Open(t)
    BY <1>1, <1>2, <2>4, FreeFilesShrink DEF Open, Holds, Hash
  <2>5. CASE Respond(t)
    BY <2>5, RespondEffect
  <2>6. CASE \E v \in Views : Receive(t, v, "record")
    BY <2>6, ReceiveEffect
  <2> QED BY <2>1, <2>2, <2>3, <2>4, <2>5, <2>6
<1> QED BY <1>1, <1>3, NoFileChanged DEF FileInv

\* The two lookups: an entry's file holds the entry's tile.
LEMMA FilesAfterLookup ==
  ASSUME ServiceInv, NEW t \in Threads, Lookup(t) \/ Recheck(t)
  PROVE  FileInv'
<1>1. ThreadStep(t) /\ UNCHANGED <<cacheMap, disk>> /\ UNCHANGED requestVars
  BY DEF ThreadStep, Resolve, Outside, Local, Lookup, Recheck, Get
<1>2. OwnFile(t) /\ RequestInv /\ FileInv
  BY DEF ServiceInv, FileInv
<1>3. Hash(t)' = Hash(t)
  BY <1>1 DEF Hash, requestVars
<1>4. OwnFile(t)'
  <2> USE DEF ServiceInv, ServiceTypeOK, GoTo, requestVars, Simultaneous
  <2>1. CASE Lookup(t)
    <3>1. Hash(t) \in Keys
      BY <1>2, <2>1, HashIsKey DEF Lookup, RequestInv
    <3>2. pc'[t] = "create" \/ (pc'[t] = "open" /\ branch'[t] = "hit")
      BY <2>1 DEF Lookup
    <3>3. CASE pc'[t] = "open" /\ branch'[t] = "hit"
      <4>1. cacheMap[Hash(t)] # Null /\ file'[t] = cacheMap[Hash(t)]
        BY <2>1, <3>3 DEF Lookup
      <4>2. Hash(t) \in Cached(cacheMap) /\ file'[t] \in MappedFiles
        BY <3>1, <4>1 DEF Cached, MappedFiles
      <4>3. file'[t] \in Paths
        BY <3>1, <4>1 DEF CacheInv
      <4>4. file'[t] \in Paths \ FreeFiles'
        BY <1>1, <1>2, <4>2, <4>3, FreeFilesShrink DEF FileInv
      <4>5. disk'[file'[t]] \in {Hash(t)', Empty, Absent}
        BY <1>1, <1>2, <1>3, <4>1, <4>2 DEF FileInv, EntriesHoldTheirTile
      <4> QED BY <3>3, <4>4, <4>5 DEF OwnFile
    <3>4. CASE pc'[t] = "create"
      BY <3>4 DEF OwnFile
    <3> QED BY <3>2, <3>3, <3>4
  <2>2. CASE Recheck(t)
    <3>1. /\ pc[t] = "recheck"
          /\ pc'[t] = "put" \/ (pc'[t] = "open" /\ branch'[t] = "simultaneous")
      BY <2>2 DEF Recheck
    <3>2. Holds(disk[id[t]], Hash(t))
      BY <1>2, <3>1 DEF OwnFile
    <3>3. Holds(disk[id[t]], Hash(t))'
      BY <1>1, <1>3, <3>2 DEF Holds
    <3> QED BY <3>1, <3>3 DEF OwnFile
  <2> QED BY <2>1, <2>2
<1> QED BY <1>1, <1>4, NoFileChanged DEF FileInv

\* A thread writes and deletes its private file only.
LEMMA FilesAfterOwnFile ==
  ASSUME ServiceInv, NEW t \in Threads, CreateTempFile(t) \/ Extract(t) \/ Measure(t)
  PROVE  FileInv'
<1>1. ThreadStep(t) /\ cacheMap' = cacheMap /\ UNCHANGED requestVars
  BY DEF ThreadStep, Resolve, Outside, Local, CreateTempFile, Extract, Measure, cacheVars
<1>2. OwnFile(t) /\ RequestInv /\ disk \in [Paths -> Contents]
  BY DEF ServiceInv, FileInv, ServiceTypeOK, TypeOK
<1>3. Hash(t)' = Hash(t) /\ id'[t] = id[t]
  BY <1>1 DEF Hash, requestVars
<1>4. CASE Measure(t) /\ branch[t] # "simultaneous"
  <2>1. UNCHANGED disk /\ pc'[t] = "respond"
    BY <1>4 DEF Measure, ServiceInv, ServiceTypeOK, GoTo
  <2>2. OwnFile(t)'
    BY <2>1 DEF OwnFile, Simultaneous
  <2> QED BY <1>1, <2>1, <2>2, NoFileChanged DEF FileInv
<1>5. ASSUME Private(t), pc[t] # "idle", OwnFile(t)',
             \A g \in Paths \ {id[t]} : disk'[g] = disk[g]
      PROVE  FileInv'
  <2>1. /\ FilesNotShared' /\ EntriesHoldTheirTile'
        /\ MappedFiles' \cap FreeFiles' = {}
        /\ \A u \in Threads \ {t} : OwnFile(u)'
    BY <1>1, <1>5, PrivateFileIsFree, FreeFileChanged
  <2> QED BY <1>5, <2>1 DEF FileInv
<1>6. CASE Measure(t) /\ branch[t] = "simultaneous"
  <2>1. /\ pc[t] = "measure" /\ pc'[t] = "respond"
        /\ disk' = [disk EXCEPT ![file[t]] = Absent]
    BY <1>6 DEF Measure, ServiceInv, ServiceTypeOK, GoTo
  <2>2. Private(t) /\ file[t] = id[t]
    BY <1>2, <1>6, <2>1 DEF RequestInv, Private, Simultaneous
  <2>3. OwnFile(t)'
    BY <2>1 DEF OwnFile, Simultaneous
  <2> QED BY <1>2, <1>5, <2>1, <2>2, <2>3
<1>7. CASE CreateTempFile(t)
  <2>1. /\ pc[t] = "create" /\ pc'[t] = "extract"
        /\ disk' = [disk EXCEPT ![id[t]] = Empty]
    BY <1>7 DEF CreateTempFile, TempFile, ServiceInv, ServiceTypeOK, GoTo
  <2>2. Private(t)
    BY <2>1 DEF Private
  <2>3. id[t] \in Paths
    BY <2>1, <2>2, PrivateFileIsFree
  <2>4. OwnFile(t)'
    BY <1>2, <1>3, <2>1, <2>3 DEF OwnFile, Simultaneous
  <2> QED BY <1>2, <1>5, <2>1, <2>2, <2>4
<1>8. CASE Extract(t)
  <2>1. /\ pc[t] = "extract" /\ pc'[t] = "recheck" /\ file[t] = id[t]
        /\ disk' = [disk EXCEPT ![id[t]] = Hash(t)]
    <3>1. pc[t] = "extract" /\ file[t] = id[t] /\ Picture(view[t]) = Hash(t)
      BY <1>2, <1>8, HashIsKey DEF Extract, RequestInv
    <3> QED BY <1>8, <3>1 DEF Extract, ServiceInv, ServiceTypeOK, GoTo
  <2>2. Private(t)
    BY <2>1 DEF Private
  <2>3. id[t] \in Paths
    BY <2>1, <2>2, PrivateFileIsFree
  <2>4. OwnFile(t)'
    BY <1>2, <1>3, <2>1, <2>3 DEF OwnFile, Simultaneous, Holds
  <2> QED BY <1>2, <1>5, <2>1, <2>2, <2>4
<1> QED BY <1>4, <1>6, <1>7, <1>8

\* A put: the file stops being private, and stays the thread's to read, even if
\* it takes another thread's entry out or is itself taken out at once.
LEMMA FilesAfterPut ==
  ASSUME ServiceInv, NEW t \in Threads, PutTile(t)
  PROVE  FileInv'
<1> DEFINE k == Hash(t)
           f == file[t]
<1>1. ThreadStep(t) /\ UNCHANGED <<requestVars, file, branch>>
  BY DEF ThreadStep, Resolve, Outside, Local, PutTile
<1>2. /\ pc[t] = "put" /\ pc'[t] = "open" /\ f = id[t] /\ Private(t)
      /\ Put(k, f) /\ k \in Keys /\ Holds(disk[f], k)
  <2>1. pc[t] = "put" /\ pc'[t] = "open" /\ Put(k, f)
    BY DEF PutTile, ServiceInv, ServiceTypeOK, GoTo
  <2>2. f = id[t] /\ k \in Keys
    BY <2>1, HashIsKey DEF ServiceInv, RequestInv
  <2>3. Holds(disk[f], k)
    BY <2>1, <2>2 DEF ServiceInv, FileInv, OwnFile
  <2> QED BY <2>1, <2>2, <2>3 DEF Private
<1>3. f \in Paths /\ f \in FreeFiles /\ f \notin MappedFiles
  BY <1>2, PrivateFileIsFree DEF ServiceInv, FileInv
<1>4. CacheInv /\ TypeOK /\ RequestInv /\ FileInv
  BY DEF ServiceInv, ServiceTypeOK
<1> HIDE DEF k, f
<1>5. /\ \A j \in Cached(cacheMap') :
            cacheMap'[j] = IF j = k THEN f ELSE cacheMap[j]
      /\ Cached(cacheMap') \subseteq Cached(cacheMap) \cup {k}
      /\ \A j \in Cached(cacheMap') : disk'[cacheMap'[j]] = disk[cacheMap'[j]]
      /\ \A g \in Paths : disk'[g] \in {disk[g], Absent}
      /\ \A g \in Paths : g \notin MappedFiles \cup {f} => disk'[g] = disk[g]
  BY <1>2, <1>3, <1>4, PutEffect DEF FileInv
<1>6. \A j \in Cached(cacheMap') : j # k => j \in Cached(cacheMap) /\ cacheMap[j] \in MappedFiles
  BY <1>5 DEF MappedFiles
<1>7. FilesNotShared'
  BY <1>3, <1>4, <1>5, <1>6 DEF FileInv, FilesNotShared
<1>8. EntriesHoldTheirTile'
  <2>1. ASSUME NEW j \in Cached(cacheMap')
        PROVE  Holds(disk'[cacheMap'[j]], j)
    <3>1. CASE j = k
      BY <1>2, <1>5, <2>1, <3>1
    <3>2. CASE j # k
      <4>1. Holds(disk[cacheMap[j]], j)
        BY <1>4, <1>6, <2>1, <3>2 DEF FileInv, EntriesHoldTheirTile, Holds
      <4> QED BY <1>5, <2>1, <3>2, <4>1
    <3> QED BY <3>1, <3>2
  <2> QED BY <2>1 DEF EntriesHoldTheirTile, Holds
<1>9. f \notin FreeFiles'
  <2>1. \A u \in Threads \ {t} : Private(u)' => Private(u) /\ id'[u] = id[u] /\ pc[u] # "idle"
    BY <1>1, OthersKept DEF Private, Simultaneous
  <2>2. ~ Private(t)'
    BY <1>1, <1>2, <1>4 DEF RequestInv, Private, Simultaneous
  <2>3. \A u \in Threads \ {t} : Private(u)' => id'[u] # f
    BY <1>2, <1>4, <2>1 DEF RequestInv
  <2>4. f \notin ((asked' + 1)..MaxRequests)
    <3>1. asked' = asked /\ asked \in Nat /\ f \in 1..asked
      BY <1>1, <1>2, <1>4, RequestAssumption DEF RequestInv, requestVars, ServiceInv, ServiceTypeOK
    <3> QED BY <3>1
  <2> QED BY <2>2, <2>3, <2>4 DEF FreeFiles
<1>10. MappedFiles' \cap FreeFiles' = {}
  <2>1. MappedFiles' \subseteq MappedFiles \cup {f}
    BY <1>5, <1>6 DEF MappedFiles
  <2> QED BY <1>1, <1>4, <1>9, <2>1, FreeFilesShrink DEF FileInv
<1>11. OwnFile(t)'
  <2>1. /\ pc'[t] = "open" /\ ~ Simultaneous(t)' /\ file'[t] = f /\ Hash(t)' = k
    BY <1>1, <1>2, <1>4 DEF RequestInv, Simultaneous, Hash, requestVars, k, f
  <2>2. disk'[f] \in {k, Empty, Absent}
    BY <1>2, <1>3, <1>5 DEF Holds
  <2> QED BY <1>3, <1>9, <2>1, <2>2 DEF OwnFile
<1>12. ASSUME NEW u \in Threads \ {t}
       PROVE  OwnFile(u)'
  <2>1. /\ pc'[u] = pc[u] /\ id'[u] = id[u] /\ view'[u] = view[u]
        /\ file'[u] = file[u] /\ branch'[u] = branch[u]
    BY <1>1, <1>12, OthersKept
  <2>2. (Simultaneous(u)' <=> Simultaneous(u)) /\ Hash(u)' = Hash(u)
    BY <2>1 DEF Simultaneous, Hash
  <2>3. OwnFile(u)
    BY <1>4, <1>12 DEF FileInv
  <2>4. CASE pc[u] \in {"extract", "recheck", "put"} \/ Simultaneous(u)
    <3>1. pc[u] # "idle" /\ Private(u)
      BY <2>4 DEF Private, Simultaneous
    <3>2. id[u] \in FreeFiles /\ id[u] \in Paths /\ id[u] # f
      BY <1>2, <1>12, <3>1, PrivateFileIsFree
    <3>3. disk'[id'[u]] = disk[id[u]]
      BY <1>4, <1>5, <2>1, <3>2 DEF FileInv
    <3> QED BY <2>1, <2>2, <2>3, <2>4, <3>3 DEF OwnFile, Holds, Simultaneous
  <2>5. CASE pc[u] \in {"open", "measure"} /\ ~ Simultaneous(u)
    <3>1. file[u] \in Paths \ FreeFiles
      BY <2>3, <2>5 DEF OwnFile
    <3>2. file'[u] \in Paths \ FreeFiles' /\ disk'[file'[u]] \in {disk[file[u]], Absent}
      BY <1>1, <1>5, <2>1, <3>1, FreeFilesShrink
    <3> QED BY <2>1, <2>2, <2>3, <2>5, <3>2 DEF OwnFile
  <2>6. CASE pc[u] \notin {"extract", "recheck", "put", "open", "measure"}
    BY <2>1, <2>2, <2>6 DEF OwnFile, Simultaneous
  <2> QED BY <2>4, <2>5, <2>6
<1> QED BY <1>7, <1>8, <1>10, <1>11, <1>12 DEF FileInv

\* The bytes of a 200 are those of a file that holds the tile, and the file of
\* the simultaneous branch is there to be opened.
LEMMA AnswersAfterStep ==
  ASSUME ServiceInv, NEW t \in Threads, ThreadStep(t)
  PROVE  AnswerInv'
<1>1. \A u \in Threads \ {t} :
         /\ view'[u] = view[u] /\ branch'[u] = branch[u]
         /\ status'[u] = status[u] /\ bytes'[u] = bytes[u]
  BY OthersKept
<1>2. AnswerInv /\ RequestInv /\ OwnFile(t)
  BY DEF ServiceInv, FileInv
<1>3. SUFFICES /\ status'[t] = "ok" => bytes'[t] = Picture(view'[t])
               /\ branch'[t] = "simultaneous" => status'[t] # "error"
  BY <1>1, <1>2 DEF AnswerInv, ServedTileIsRequested, SimultaneousBranchIsSafe, Picture, ScalingFactor, ScalingDims
<1> USE DEF ServiceInv, ServiceTypeOK, GoTo, requestVars, responseVars, Fail
<1>4. CASE Respond(t) \/ \E v \in Views : Receive(t, v, "record")
  BY <1>2, <1>4, RespondEffect, ReceiveEffect DEF RequestInv
<1>5. CASE Resolve(t) /\ pc'[t] # "respond"
  BY <1>2, <1>5, ResolvePlaces DEF RequestInv
<1>6. CASE Render(t) \/ RecordMissing(t) \/ RenderFails(t) \/ ExtractFails(t)
  BY <1>6 DEF Render, RecordMissing, RenderFails, ExtractFails
<1>7. CASE OpenFails(t)
  <2>1. ~ Simultaneous(t)
    <3>1. SUFFICES ASSUME Simultaneous(t) PROVE FALSE
      OBVIOUS
    <3>2. file[t] = id[t] /\ Holds(disk[id[t]], Hash(t)) /\ Hash(t) # Absent
      BY <1>2, <1>7, <3>1, HashIsKey DEF RequestInv, OwnFile, OpenFails
    <3> QED BY <1>7, <3>2, NullAssumption DEF OpenFails, Holds
  <2> QED BY <1>7, <2>1 DEF OpenFails, Simultaneous
<1>8. CASE Measure(t)
  <2>1. view[t] \in Views /\ pc[t] = "measure"
    BY <1>2, <1>8 DEF RequestInv, Measure
  <2>2. disk[file[t]] \in {Hash(t), Empty, Absent}
    BY <1>2, <2>1 DEF OwnFile, RequestInv, Holds
  <2>3. Length(disk[file[t]]) > 0 => disk[file[t]] = Picture(view[t])
    BY <2>1, <2>2, HashIsKey DEF Length
  <2> QED BY <1>8, <2>3 DEF Measure
<1>9. CASE Resolve(t) /\ pc'[t] = "respond"
  BY <1>6, <1>7, <1>8, <1>9
     DEF Resolve, Outside, Local, FindRecord, Lookup, CreateTempFile, Extract, ExtractNothing,
         Recheck, PutTile, Open
<1> QED BY <1>4, <1>5, <1>9 DEF ThreadStep

-----------------------------------------------------------------------------
(* The invariant *)

LEMMA TypesAfterStep ==
  ASSUME ServiceInv, NEW t \in Threads, ThreadStep(t)
  PROVE  ServiceTypeOK' /\ CacheInv'
<1>1. CASE Resolve(t)
  BY <1>1, ResolveType, ResolveTiles, ResolvePlaces, TileStepKeepsCache DEF ServiceTypeOK
<1>2. CASE Respond(t) \/ \E v \in Views : Receive(t, v, "record")
  <2>1. UNCHANGED tileVars
    BY <1>2 DEF Respond, Receive
  <2>2. CacheInv' /\ TypeOK'
    BY <2>1 DEF ServiceInv, ServiceTypeOK, TypeOK, tileVars, CacheInv, RecencyIsLinear, SizeBounded, Cached
  <2>3. CASE Respond(t)
    BY <2>2, <2>3, RequestAssumption
       DEF Respond, Release, ServiceInv, ServiceTypeOK, GoTo, Contents
  <2>4. CASE \E v \in Views : Receive(t, v, "record")
    <3>1. PICK v \in Views : Receive(t, v, "record")
      BY <2>4
    <3>2. asked + 1 \in 0..MaxRequests
      BY <3>1, ReceiveEffect, RequestAssumption
    <3> QED BY <2>2, <3>1, <3>2
            DEF Receive, ServiceInv, ServiceTypeOK, GoTo, ServicePCs, responseVars
  <2> QED BY <1>2, <2>3, <2>4
<1> QED BY <1>1, <1>2 DEF ThreadStep

LEMMA ServiceInvStep ==
  ASSUME ServiceInv, [ServiceNext]_serviceVars
  PROVE  ServiceInv'
<1>1. CASE UNCHANGED serviceVars
  BY <1>1 DEF ServiceInv, serviceVars, tileVars, localVars, requestVars, responseVars,
     ServiceTypeOK, TypeOK, CacheInv, RecencyIsLinear, SizeBounded, Cached,
     RequestInv, FileInv, OwnFile, Holds, Simultaneous, Private, FreeFiles, Hash,
     FilesNotShared, EntriesHoldTheirTile, MappedFiles,
     AnswerInv, ServedTileIsRequested, SimultaneousBranchIsSafe
<1>2. ASSUME NEW t \in Threads, ThreadStep(t)
      PROVE  ServiceInv'
  <2>1. FileInv'
    <3>1. CASE Lookup(t) \/ Recheck(t)
      BY <3>1, FilesAfterLookup
    <3>2. CASE CreateTempFile(t) \/ Extract(t) \/ Measure(t)
      BY <3>2, FilesAfterOwnFile
    <3>3. CASE PutTile(t)
      BY <3>3, FilesAfterPut
    <3> QED BY <1>2, <3>1, <3>2, <3>3, FilesAfterQuietStep DEF ThreadStep, Resolve, Outside, Local
  <2> QED BY <1>2, <2>1, TypesAfterStep, RequestsStayApart, AnswersAfterStep DEF ServiceInv
<1> QED BY <1>1, <1>2 DEF ServiceNext, ThreadStep

LEMMA ServiceInvInit ==
  ASSUME ServiceInit
  PROVE  ServiceInv
<1>1. CacheInv /\ TypeOK /\ Cached(cacheMap) = {}
  <2>1. CacheInv
    BY InitCache DEF ServiceInit
  <2> QED BY <2>1 DEF ServiceInit, Init, TypeOK, Cached, Contents
<1>2. \A t \in Threads : pc[t] = "idle"
  BY DEF ServiceInit
<1>3. ServiceTypeOK
  BY <1>1, RequestAssumption DEF ServiceInit, ServiceTypeOK, Contents
<1>4. RequestInv
  BY <1>2 DEF ServiceInit, RequestInv, Simultaneous
<1>5. FileInv
  BY <1>1, <1>2 DEF FileInv, FilesNotShared, EntriesHoldTheirTile, MappedFiles, OwnFile, Simultaneous
<1>6. AnswerInv
  BY DEF ServiceInit, AnswerInv, ServedTileIsRequested, SimultaneousBranchIsSafe
<1> QED BY <1>1, <1>3, <1>4, <1>5, <1>6 DEF ServiceInv

LEMMA ServiceInvHolds == ServiceSpec => []ServiceInv
BY ServiceInvInit, ServiceInvStep, PTL DEF ServiceSpec

-----------------------------------------------------------------------------
(* Theorems *)

\* resolve's locals and the cache's fields keep their types.
THEOREM ServiceTypeCorrect == ServiceSpec => []ServiceTypeOK
<1>1. ServiceInv => ServiceTypeOK
  BY DEF ServiceInv
<1> QED BY <1>1, ServiceInvHolds, PTL

\* However many threads share the cache, and whatever they put, overwrite and
\* evict, its entries name files that exist and hold the right picture.
THEOREM EntriesStayTrue == ServiceSpec => []EntriesHoldTheirTile
<1>1. ServiceInv => EntriesHoldTheirTile
  BY DEF ServiceInv, FileInv
<1> QED BY <1>1, ServiceInvHolds, PTL

\* A 200 carries the picture that was asked for: an eviction between the lookup
\* and the read may cost a request its answer, never change it.
THEOREM NoWrongTileServed == ServiceSpec => []ServedTileIsRequested
<1>1. ServiceInv => ServedTileIsRequested
  BY DEF ServiceInv, AnswerInv
<1> QED BY <1>1, ServiceInvHolds, PTL

\* A thread that lost the race to put its tile reads its own file, which no
\* eviction deletes.
THEOREM LosersReadTheirOwn == ServiceSpec => []SimultaneousBranchIsSafe
<1>1. ServiceInv => SimultaneousBranchIsSafe
  BY DEF ServiceInv, AnswerInv
<1> QED BY <1>1, ServiceInvHolds, PTL

-----------------------------------------------------------------------------
(***************************************************************************)
(* The servlet stores and sends the right tiles, for any number of threads *)
(* and sessions, any capacity of the tile cache and any faults. "Right" is *)
(* as right as a session's names are: they leave a factor out, so that the *)
(* name of the full size may come to stand for a region's smaller picture, *)
(* but only if that picture has been asked for.                            *)
(*                                                                         *)
(* Every file is made for one tile, and whatever refers to the file - an   *)
(* entry of the tile cache, a local of a request, an attribute of a        *)
(* session - is about that tile. The program keeps no record of it: the    *)
(* invariant says that some function m from files to tiles is respected.   *)
(*                                                                         *)
(* While requests come one after the other and nothing fails, the one      *)
(* request also finds every entry's file in its place (QuietInv): then it  *)
(* is never refused, and what it was answered with ends in the permanent   *)
(* cache.                                                                  *)
(***************************************************************************)

(* The inductive invariant *)

\* Where a thread has not written the file named after its request, if any.
Early == {"check", "record", "render", "lookup", "create", "extract"}

\* Where a thread uses a file it found or made, and where it moves one.
Reading == {"recheck", "put", "open", "measure"}
Moving == {"fetchKey", "exists", "rename", "untile", "forgetFile", "forgetKey"}

\* The files of requests that are still to come, or have not written theirs.
Unwritten ==
  ((asked + 1)..MaxRequests) \cup {id[u] : u \in {w \in Threads : pc[w] \in Early}}

\* A local of thread u names a file of the tile it is asked for, and no file that
\* another thread is about to write.
IsFor(m, u, f) == f # Null => m[f] = Hash(u) /\ (f = id[u] \/ f \notin Unwritten)

ThreadInv(m, u) ==
  /\ pc[u] = "idle" =>
       file[u] = Null /\ cacheFile[u] = Null /\ fileName[u] = Null /\ status[u] = "none"
  /\ pc[u] # "idle" =>
       /\ view[u] \in Views /\ session[u] \in Sessions
       /\ id[u] \in 1..asked /\ m[id[u]] = Hash(u)
  /\ IsFor(m, u, file[u])
  /\ IsFor(m, u, cacheFile[u])
  /\ fileName[u] # Null => fileName[u] \notin Unwritten
  /\ pc[u] = "extract" => file[u] = id[u]
  /\ pc[u] \in Reading => file[u] # Null
  /\ pc[u] \in {"setFile", "setKey"} => cacheFile[u] # Null
  /\ pc[u] \in Moving => fileName[u] # Null

\* The names without a factor: a session has files under no other.
Plain(n) == n[2] \in Dims \cup {Full}

\* What a file may hold that a session has under the name n.
MayHold(n) == {NamedPicture(n)} \cup ScaledPictures(n)

\* What a thread announces, moves and sends.
SendInv(m, u) ==
  /\ pc[u] # "idle" => Hash(u) \in MayHold(SessionKey(view[u]))
  /\ fileName[u] # Null =>
       Plain(FileName(view[u])) /\ m[fileName[u]] \in MayHold(FileName(view[u]))
  /\ status[u] = "ok" =>
       bytes[u] \in {Picture(view[u])} \cup ScaledPictures(FileName(view[u]))
                    \cup NoneIfDecodingFails

SendsInv(m) == \A u \in Threads : SendInv(m, u)

IdsInv ==
  \A u, w \in Threads : pc[u] # "idle" /\ pc[w] # "idle" /\ id[u] = id[w] => u = w

\* The tile cache, the sessions and the disk respect m.
CacheAgrees(m) ==
  \A k \in Keys : cacheMap[k] # Null => m[cacheMap[k]] = k /\ cacheMap[k] \notin Unwritten

SessionsAgree(m) ==
  \A s \in Sessions, n \in Names : tileFile[s][n] # Null =>
    /\ Plain(n) /\ m[tileFile[s][n]] \in MayHold(n)
    /\ tileFile[s][n] \notin Unwritten

DiskAgrees(m) ==
  /\ \A f \in Paths : disk[f] \in {m[f], Empty, Absent}
  /\ \A f \in (asked + 1)..MaxRequests : disk[f] = Absent

\* An empty file is one that is being written, unless extractions may fail.
EmptyFiles ==
  NoneIfDecodingFails = {} =>
    \A f \in Paths : disk[f] = Empty => \E u \in Threads : pc[u] = "extract" /\ id[u] = f

AgreeInv(m) ==
  /\ \A u \in Threads : ThreadInv(m, u)
  /\ SendsInv(m)
  /\ IdsInv
  /\ CacheAgrees(m) /\ SessionsAgree(m) /\ DiskAgrees(m)
  /\ EmptyFiles
  /\ StoredTilesAreRight

Meanings == [Paths -> Keys \cup {Null}]

SInv == ServletTypeOK /\ \E m \in Meanings : AgreeInv(m)

-----------------------------------------------------------------------------
(* Names and tiles *)

\* The session's name of a tile is the servlet's unless the servlet's has a factor; then
\* the name tells the picture.
LEMMA NamesTellTiles ==
  ASSUME NEW v \in Views
  PROVE  /\ FileName(v) \in Names /\ SessionKey(v) \in Names /\ Plain(SessionKey(v))
         /\ Plain(FileName(v)) <=> FileName(v) = SessionKey(v)
         /\ Plain(FileName(v)) => NamedPicture(FileName(v)) = TileHash(v) /\ IsCacheable(v)
         /\ v.scale \notin Factors => NamedPicture(SessionKey(v)) = TileHash(v)
         /\ Picture(v) = TileHash(v)
BY DEF FileName, SessionKey, NamedPicture, Picture, TileHash, ScalingFactor, ScalingDims,
       Views, Names, Plain, IsCacheable

LEMMA ViewHasKey ==
  ASSUME NEW v \in Views
  PROVE  /\ Picture(v) = TileHash(v) /\ TileHash(v) \in Keys
         /\ TileHash(v) # Empty /\ TileHash(v) # Absent
BY HashAssumption, NullAssumption DEF Picture, TileHash

-----------------------------------------------------------------------------
(* What a step leaves alone *)

\* The other threads keep their locals.
OthersKeep(t) ==
  \A u \in Threads \ {t} :
    /\ pc'[u] = pc[u] /\ id'[u] = id[u] /\ view'[u] = view[u] /\ session'[u] = session[u]
    /\ file'[u] = file[u] /\ cacheFile'[u] = cacheFile[u] /\ fileName'[u] = fileName[u]
    /\ status'[u] = status[u] /\ bytes'[u] = bytes[u]

\* A request keeps its number, its session and what it asks for.
RequestStays(t) ==
  /\ UNCHANGED <<asked, id, view, session>>
  /\ pc'[t] \in Early => pc[t] \in Early

\* No step but an arrival adds to the views asked for.
HistoryKept == disturbed' \in BOOLEAN /\ scaled' = scaled

\* The pictures a name may stand for only become more.
LEMMA PicturesGrow ==
  ASSUME NEW u \in Threads, view'[u] = view[u], scaled \subseteq scaled'
  PROVE  /\ Hash(u)' = Hash(u) /\ Picture(view[u])' = Picture(view[u])
         /\ NoneIfDecodingFails' = NoneIfDecodingFails
         /\ Plain(FileName(view[u]))' = Plain(FileName(view[u]))
         /\ MayHold(SessionKey(view[u])) \subseteq MayHold(SessionKey(view[u]))'
         /\ MayHold(FileName(view[u])) \subseteq MayHold(FileName(view[u]))'
         /\ ScaledPictures(FileName(view[u])) \subseteq ScaledPictures(FileName(view[u]))'
BY DEF Hash, TileHash, Picture, ScalingFactor, ScalingDims, NoneIfDecodingFails, Plain,
       FileName, SessionKey, MayHold, NamedPicture, ScaledPictures

LEMMA NamesGrow ==
  ASSUME scaled \subseteq scaled', NEW n
  PROVE  /\ Plain(n)' = Plain(n) /\ NoneIfDecodingFails' = NoneIfDecodingFails
         /\ MayHold(n) \subseteq MayHold(n)'
BY DEF Plain, NoneIfDecodingFails, MayHold, NamedPicture, ScaledPictures, Picture, SessionKey,
       ScalingFactor, ScalingDims

LEMMA SessionsKept ==
  ASSUME NEW m \in Meanings, SessionsAgree(m), UNCHANGED tileFile, scaled \subseteq scaled',
         Unwritten' \subseteq Unwritten
  PROVE  SessionsAgree(m)'
<1> SUFFICES ASSUME NEW s \in Sessions, NEW n \in Names, tileFile'[s][n] # Null
             PROVE  /\ Plain(n)' /\ m[tileFile'[s][n]] \in MayHold(n)'
                    /\ tileFile'[s][n] \notin Unwritten'
  BY DEF SessionsAgree, Names
<1> QED BY NamesGrow DEF SessionsAgree

LEMMA StoredIsPlain ==
  StoredTilesAreRight <=>
    \A n \in Names : stored[n] # Absent =>
      Plain(n) /\ stored[n] \in MayHold(n) \cup NoneIfDecodingFails
BY DEF StoredTilesAreRight, Plain, MayHold

LEMMA StoredKept ==
  ASSUME StoredTilesAreRight, UNCHANGED stored, scaled \subseteq scaled'
  PROVE  StoredTilesAreRight'
<1>1. ASSUME NEW n \in Names, stored'[n] # Absent
      PROVE  Plain(n)' /\ stored'[n] \in MayHold(n)' \cup NoneIfDecodingFails'
  BY <1>1, NamesGrow, StoredIsPlain
<1> QED BY <1>1 DEF StoredTilesAreRight, Plain, MayHold, Names

LEMMA OthersAgree ==
  ASSUME NEW m \in Meanings, NEW t \in Threads, NEW u \in Threads \ {t},
         ServletTypeOK, ThreadInv(m, u), OthersKeep(t),
         Unwritten' \subseteq Unwritten, asked' \in Nat, asked <= asked'
  PROVE  ThreadInv(m, u)'
<1>1. Hash(u)' = Hash(u)
  BY DEF Hash, OthersKeep, TileHash, ScalingFactor, ScalingDims
<1>2. IsFor(m, u, file[u])' /\ IsFor(m, u, cacheFile[u])'
  BY <1>1 DEF IsFor, OthersKeep, ThreadInv
<1>3. asked \in Nat
  BY RequestAssumption DEF ServletTypeOK
<1> QED BY <1>1, <1>2, <1>3 DEF ThreadInv, OthersKeep

LEMMA UnwrittenShrinks ==
  ASSUME NEW t \in Threads, OthersKeep(t), asked' = asked,
         pc'[t] \in Early => pc[t] \in Early /\ id'[t] = id[t]
  PROVE  Unwritten' \subseteq Unwritten
BY DEF Unwritten, OthersKeep

\* A file that its thread has written is no longer unwritten.
LEMMA Written ==
  ASSUME NEW m \in Meanings, NEW t \in Threads, ServletTypeOK, AgreeInv(m),
         pc[t] \notin Early, pc[t] # "idle", NEW f \in Paths, IsFor(m, t, f)
  PROVE  m[f] = Hash(t) /\ f \notin Unwritten
<1>1. f # Null
  BY NullAssumption
<1>2. id[t] \notin Unwritten
  <2>1. id[t] \in 1..asked /\ asked \in Nat
    BY RequestAssumption DEF AgreeInv, ThreadInv, ServletTypeOK
  <2>2. \A w \in Threads : pc[w] \in Early => id[w] # id[t]
    BY DEF AgreeInv, IdsInv, Early
  <2> QED BY <2>1, <2>2 DEF Unwritten
<1> QED BY <1>1, <1>2 DEF IsFor

-----------------------------------------------------------------------------
(* What each step changes *)

LEMMA ResolveFrame ==
  ASSUME ServletTypeOK, NEW t \in Threads, Resolve(t), UNCHANGED <<callVars, moveVars>>
  PROVE  OthersKeep(t) /\ RequestStays(t)
<1> USE DEF ServletTypeOK, GoTo, Fail, requestVars, responseVars, callVars, moveVars,
            OthersKeep, RequestStays, Early
<1>1. CASE FindRecord(t) \/ RecordMissing(t) \/ Render(t) \/ RenderFails(t)
  BY <1>1 DEF FindRecord, RecordMissing, Render, RenderFails
<1>2. CASE Lookup(t) \/ Recheck(t) \/ PutTile(t)
  BY <1>2 DEF Lookup, Recheck, PutTile
<1>3. CASE CreateTempFile(t) \/ Extract(t) \/ ExtractNothing(t) \/ ExtractFails(t)
  BY <1>3 DEF CreateTempFile, Extract, ExtractNothing, ExtractFails
<1>4. CASE Open(t) \/ OpenFails(t) \/ Measure(t)
  BY <1>4 DEF Open, OpenFails, Measure
<1> QED BY <1>1, <1>2, <1>3, <1>4 DEF Resolve, Outside, Local

LEMMA ServletFrame ==
  ASSUME ServletTypeOK, NEW t \in Threads, Step(t)
  PROVE  OthersKeep(t) /\ HistoryKept /\ (Finish(t) \/ RequestStays(t))
<1> USE DEF ServletTypeOK, GoTo, KeepService, requestVars, responseVars, callVars, moveVars,
            noteVars, servletVars, OthersKeep, RequestStays, HistoryKept, Early
<1>1. CASE ServeStored(t) \/ Forward(t)
  BY <1>1 DEF ServeStored, Forward
<1>2. CASE ResolveStep(t)
  BY <1>2, ResolveFrame DEF ResolveStep
<1>3. CASE SetTileFile(t) \/ SetTileKey(t) \/ NoSessionData(t)
  BY <1>3 DEF SetTileFile, SetTileKey, NoSessionData, AfterResponse
<1>4. CASE FetchFile(t) \/ FetchKey(t) \/ CheckExists(t)
  BY <1>4 DEF FetchFile, FetchKey, CheckExists
<1>5. CASE Rename(t) \/ RenameFails(t) \/ Untile(t)
  BY <1>5 DEF Rename, RenameFails, Untile
<1>6. CASE ForgetFile(t) \/ ForgetKey(t)
  BY <1>6 DEF ForgetFile, ForgetKey
<1>7. CASE Finish(t)
  BY <1>7 DEF Finish, Release
<1> QED BY <1>1, <1>2, <1>3, <1>4, <1>5, <1>6, <1>7 DEF Step

-----------------------------------------------------------------------------
(* The tile cache: entries go, files are deleted, and one entry may come. *)

CacheStep(k, f) ==
  /\ \A j \in Keys : cacheMap'[j] \in {cacheMap[j], Null} \/ (j = k /\ cacheMap'[j] = f)
  /\ \A g \in Paths : disk'[g] \in {disk[g], Absent}

LEMMA OrderStaysOfKeys ==
  ASSUME NEW o \in SUBSET (Keys \X Keys), NEW S \in SUBSET Keys, NEW k \in Keys, NEW e
  PROVE  /\ Unlink(o, e) \in SUBSET (Keys \X Keys)
         /\ Unlink(o, k) \cup (S \X {k}) \in SUBSET (Keys \X Keys)
BY DEF Unlink

LEMMA PutStep ==
  ASSUME TypeOK, NEW k \in Keys, NEW f \in Paths, Put(k, f)
  PROVE  TypeOK' /\ CacheStep(k, f)
<1> DEFINE o == MoveToEnd(cacheMap, older, k)
           m == [cacheMap EXCEPT ![k] = f]
           e == Eldest(m, o)
<1>1. o \in SUBSET (Keys \X Keys)
  BY OrderStaysOfKeys DEF TypeOK, MoveToEnd, Cached
<1>2. m \in [Keys -> Paths \cup {Null}]
  BY DEF TypeOK
<1>3. CASE PutExisting(k, f)
  BY <1>1, <1>2, <1>3 DEF PutExisting, TypeOK, CacheStep
<1>4. CASE PutNew(k, f)
  <2>1. CASE UNCHANGED disk /\ cacheMap' = m /\ older' = o
    BY <1>1, <1>2, <2>1 DEF TypeOK, CacheStep
  <2>2. CASE /\ cacheMap' = [m EXCEPT ![e] = Null] /\ older' = Unlink(o, e)
             /\ disk' = [disk EXCEPT ![m[e]] = Absent]
    <3>1. older' \in SUBSET (Keys \X Keys)
      BY <1>1, <2>2, OrderStaysOfKeys
    <3>2. cacheMap' \in [Keys -> Paths \cup {Null}]
      BY <1>2, <2>2
    <3>3. disk' \in [Paths -> Contents]
      BY <2>2 DEF TypeOK, Contents
    <3>4. \A j \in Keys : cacheMap'[j] \in {m[j], Null}
      BY <1>2, <2>2
    <3>5. \A j \in Keys : m[j] = cacheMap[j] \/ (j = k /\ m[j] = f)
      BY DEF TypeOK
    <3>6. \A g \in Paths : disk'[g] \in {disk[g], Absent}
      BY <2>2 DEF TypeOK
    <3> QED BY <3>1, <3>2, <3>3, <3>4, <3>5, <3>6 DEF TypeOK, CacheStep
  <2>3. \/ UNCHANGED disk /\ cacheMap' = m /\ older' = o
        \/ /\ cacheMap' = [m EXCEPT ![e] = Null] /\ older' = Unlink(o, e)
           /\ disk' = [disk EXCEPT ![m[e]] = Absent]
    BY <1>4 DEF PutNew
  <2> QED BY <2>1, <2>2, <2>3
<1> QED BY <1>3, <1>4 DEF Put

LEMMA GetStep ==
  ASSUME TypeOK, NEW k \in Keys, NEW f, Get(k), UNCHANGED disk
  PROVE  TypeOK' /\ CacheStep(k, f)
<1>1. older' \in SUBSET (Keys \X Keys)
  BY OrderStaysOfKeys DEF TypeOK, Get, MoveToEnd, Cached
<1> QED BY <1>1 DEF TypeOK, Get, CacheStep

LEMMA RemoveStep ==
  ASSUME TypeOK, NEW k \in Keys, NEW f, Remove(k)
  PROVE  TypeOK' /\ CacheStep(k, f)
<1>1. older' \in SUBSET (Keys \X Keys)
  BY OrderStaysOfKeys DEF TypeOK, Remove
<1>2. cacheMap' \in [Keys -> Paths \cup {Null}]
  BY DEF TypeOK, Remove
<1>3. disk' \in [Paths -> Contents]
  BY DEF TypeOK, Remove, Contents
<1> QED BY <1>1, <1>2, <1>3 DEF TypeOK, Remove, CacheStep

\* A step that uses the tile cache, or deletes a file, disturbs no agreement; what it
\* puts must be a file of the key.
LEMMA TilesKept ==
  ASSUME NEW m \in Meanings, NEW t \in Threads, ServletTypeOK, AgreeInv(m),
         OthersKeep(t), Unwritten' \subseteq Unwritten, asked' = asked, pc[t] # "extract",
         NEW k, NEW f, f = Null \/ (m[f] = k /\ f \notin Unwritten'),
         CacheStep(k, f), UNCHANGED <<tileFile, stored, scaled>>
  PROVE  /\ CacheAgrees(m)' /\ SessionsAgree(m)' /\ DiskAgrees(m)'
         /\ EmptyFiles' /\ StoredTilesAreRight'
<1>1. CacheAgrees(m)'
  BY DEF AgreeInv, CacheAgrees, CacheStep
<1>2. SessionsAgree(m)'
  BY SessionsKept DEF AgreeInv
<1>3. DiskAgrees(m)'
  <2>1. \A g \in Paths : disk'[g] \in {m[g], Empty, Absent}
    BY DEF AgreeInv, DiskAgrees, CacheStep
  <2>2. ASSUME NEW g \in (asked + 1)..MaxRequests PROVE disk'[g] = Absent
    <3>1. g \in Paths
      BY IdIsPath, RequestAssumption DEF ServletTypeOK
    <3> QED BY <3>1 DEF AgreeInv, DiskAgrees, CacheStep
  <2> QED BY <2>1, <2>2 DEF DiskAgrees
<1>4. EmptyFiles'
  <2> SUFFICES ASSUME NoneIfDecodingFails = {}, NEW g \in Paths, disk'[g] = Empty
               PROVE  \E u \in Threads : pc'[u] = "extract" /\ id'[u] = g
    BY DEF EmptyFiles, NoneIfDecodingFails
  <2>1. disk[g] = Empty
    BY NullAssumption DEF CacheStep
  <2>2. PICK u \in Threads : pc[u] = "extract" /\ id[u] = g
    BY <2>1 DEF AgreeInv, EmptyFiles
  <2> QED BY <2>2 DEF OthersKeep
<1>5. StoredTilesAreRight'
  BY StoredKept DEF AgreeInv
<1> QED BY <1>1, <1>2, <1>3, <1>4, <1>5

\* The rest of the invariant follows from what a step does to its own thread.
LEMMA StepAgrees ==
  ASSUME NEW m \in Meanings, NEW t \in Threads, ServletTypeOK, AgreeInv(m),
         OthersKeep(t), RequestStays(t), ThreadInv(m, t)', pc[t] # "idle"
  PROVE  /\ \A u \in Threads : ThreadInv(m, u)'
         /\ IdsInv'
<1>1. Unwritten' \subseteq Unwritten
  BY UnwrittenShrinks DEF RequestStays
<1>2. asked \in Nat
  BY RequestAssumption DEF ServletTypeOK
<1>3. ASSUME NEW u \in Threads \ {t} PROVE ThreadInv(m, u)'
  BY <1>1, <1>2, OthersAgree DEF AgreeInv, RequestStays
<1>4. IdsInv'
  BY DEF AgreeInv, IdsInv, OthersKeep, RequestStays
<1> QED BY <1>3, <1>4

-----------------------------------------------------------------------------
(* The steps of resolve *)

\* The state of one request that is under way, after a step of its thread.
LEMMA RequestStep ==
  ASSUME NEW m \in Meanings, NEW t \in Threads, ServletTypeOK, AgreeInv(m),
         OthersKeep(t), RequestStays(t), pc[t] # "idle"
  PROVE  /\ Unwritten' \subseteq Unwritten
         /\ Hash(t)' = Hash(t) /\ Picture(view[t])' = Picture(view[t])
         /\ view[t] \in Views /\ session[t] \in Sessions
         /\ id[t] \in 1..asked /\ id[t] \in Paths /\ m[id[t]] = Hash(t)
         /\ IsFor(m, t, file[t])' <=> (file'[t] # Null =>
              m[file'[t]] = Hash(t) /\ (file'[t] = id[t] \/ file'[t] \notin Unwritten'))
         /\ IsFor(m, t, cacheFile[t])' <=> (cacheFile'[t] # Null =>
              m[cacheFile'[t]] = Hash(t) /\ (cacheFile'[t] = id[t] \/ cacheFile'[t] \notin Unwritten'))
<1>1. Unwritten' \subseteq Unwritten
  BY UnwrittenShrinks DEF RequestStays
<1>2. Hash(t)' = Hash(t) /\ Picture(view[t])' = Picture(view[t])
  BY DEF RequestStays, Hash, TileHash, Picture, ScalingFactor, ScalingDims
<1>3. view[t] \in Views /\ session[t] \in Sessions /\ id[t] \in 1..asked /\ m[id[t]] = Hash(t)
  BY DEF AgreeInv, ThreadInv
<1>4. id[t] \in Paths
  BY <1>3, IdIsPath, RequestAssumption DEF ServletTypeOK
<1> QED BY <1>1, <1>2, <1>3, <1>4 DEF IsFor, RequestStays

\* The steps that change neither the tile cache nor the disk.
LEMMA QuietResolve ==
  ASSUME NEW m \in Meanings, NEW t \in Threads, ServletTypeOK, AgreeInv(m), SendsInv(m)',
         OthersKeep(t), RequestStays(t), HistoryKept,
         UNCHANGED <<callVars, sessionVars, moveVars, stored>>,
         \/ FindRecord(t) \/ RecordMissing(t) \/ Render(t) \/ RenderFails(t)
         \/ Open(t) \/ OpenFails(t)
  PROVE  ServletTypeOK' /\ AgreeInv(m)'
<1> USE DEF HistoryKept, GoTo, Fail, requestVars, responseVars, callVars, sessionVars, moveVars, tileVars,
            cacheVars
<1>0. pc[t] \in {"record", "render", "open"} /\ UNCHANGED tileVars
  BY DEF FindRecord, RecordMissing, Render, RenderFails, Open, OpenFails
<1>1. Picture(view[t]) \in Contents
  BY <1>0, ViewHasKey, RequestStep DEF Contents
<1>2. ServletTypeOK'
  <2>1. CASE FindRecord(t) \/ RecordMissing(t) \/ Open(t) \/ OpenFails(t)
    BY <2>1 DEF ServletTypeOK, TypeOK, ServicePCs, FindRecord, RecordMissing, Open, OpenFails
  <2>2. CASE Render(t)
    BY <1>1, <2>2 DEF ServletTypeOK, TypeOK, ServicePCs, Render
  <2>3. CASE RenderFails(t)
    BY <2>3 DEF ServletTypeOK, TypeOK, ServicePCs, RenderFails
  <2> QED BY <2>1, <2>2, <2>3
<1>3. ThreadInv(m, t)'
  <2>0. ThreadInv(m, t) /\ asked' = asked /\ view' = view /\ session' = session /\ id' = id
        /\ Unwritten' \subseteq Unwritten
    BY <1>0, RequestStep DEF AgreeInv, RequestStays
  <2>1. CASE FindRecord(t) \/ RecordMissing(t)
    BY <1>0, <2>0, <2>1, RequestStep DEF FindRecord, RecordMissing, ThreadInv, IsFor, Reading,
       Moving, ServletTypeOK
  <2>2. CASE Render(t) \/ RenderFails(t)
    BY <1>0, <2>0, <2>2, RequestStep DEF Render, RenderFails, ThreadInv, IsFor, Reading,
       Moving, ServletTypeOK
  <2>3. CASE Open(t) \/ OpenFails(t)
    BY <1>0, <2>0, <2>3, RequestStep DEF Open, OpenFails, ThreadInv, IsFor, Reading,
       Moving, ServletTypeOK
  <2> QED BY <2>1, <2>2, <2>3
<1>4. CacheStep(Hash(t), Null)
  BY <1>0 DEF CacheStep
<1>5. /\ CacheAgrees(m)' /\ SessionsAgree(m)' /\ DiskAgrees(m)'
      /\ EmptyFiles' /\ StoredTilesAreRight'
  BY <1>0, <1>4, RequestStep, TilesKept DEF RequestStays
<1> QED BY <1>0, <1>2, <1>3, <1>5, StepAgrees DEF AgreeInv

LEMMA LookupAgrees ==
  ASSUME NEW m \in Meanings, NEW t \in Threads, ServletTypeOK, AgreeInv(m), SendsInv(m)',
         OthersKeep(t), RequestStays(t), HistoryKept,
         UNCHANGED <<callVars, sessionVars, moveVars, stored>>,
         Lookup(t) \/ Recheck(t)
  PROVE  ServletTypeOK' /\ AgreeInv(m)'
<1> USE DEF HistoryKept, GoTo, requestVars, responseVars, callVars, sessionVars, moveVars
<1> DEFINE f == cacheMap[Hash(t)]
<1>0. pc[t] \in {"lookup", "recheck"} /\ Get(Hash(t)) /\ UNCHANGED disk
  BY DEF Lookup, Recheck
<1>1. Hash(t) \in Keys
  BY <1>0, ViewHasKey, RequestStep DEF Hash
<1>2. TypeOK' /\ CacheStep(Hash(t), Null)
  BY <1>0, <1>1, GetStep DEF ServletTypeOK
<1>3. f \in Paths \cup {Null} /\ (f # Null => m[f] = Hash(t) /\ f \notin Unwritten)
  BY <1>1 DEF ServletTypeOK, TypeOK, AgreeInv, CacheAgrees
<1>4. ServletTypeOK'
  BY <1>2, <1>3 DEF ServletTypeOK, ServicePCs, Lookup, Recheck
<1>5. ThreadInv(m, t)'
  <2>0. ThreadInv(m, t) /\ asked' = asked /\ view' = view /\ session' = session /\ id' = id
        /\ Unwritten' \subseteq Unwritten
    BY <1>0, RequestStep DEF AgreeInv, RequestStays
  <2>1. CASE Lookup(t)
    <3>1. pc'[t] \in {"create", "open"} /\ (f = Null => pc'[t] = "create")
      BY <2>1 DEF Lookup, Length, ServletTypeOK
    <3>2. file'[t] = f
      BY <2>1 DEF Lookup, ServletTypeOK
    <3>3. file'[t] # Null => m[file'[t]] = Hash(t) /\ file'[t] \notin Unwritten'
      BY <1>3, <2>0, <3>2
    <3>4. UNCHANGED <<cacheFile, fileName, status, bytes>> /\ pc'[t] = "open" => file'[t] # Null
      BY <2>1, <3>1, <3>2 DEF Lookup
    <3>5. UNCHANGED <<cacheFile, fileName, status, bytes>>
      BY <2>1 DEF Lookup
    <3> QED BY <1>0, <2>0, <3>1, <3>3, <3>4, <3>5, RequestStep DEF ThreadInv, IsFor, Reading, Moving
  <2>2. CASE Recheck(t)
    <3>1. pc'[t] \in {"put", "open"} /\ UNCHANGED <<file, cacheFile, fileName, status, bytes>>
      BY <2>2 DEF Recheck, ServletTypeOK
    <3>2. pc[t] \in Reading /\ pc[t] # "idle"
      BY <2>2 DEF Recheck, Reading
    <3> QED BY <2>0, <3>1, <3>2, RequestStep DEF ThreadInv, IsFor, Reading, Moving
  <2> QED BY <2>1, <2>2
<1>6. /\ CacheAgrees(m)' /\ SessionsAgree(m)' /\ DiskAgrees(m)'
      /\ EmptyFiles' /\ StoredTilesAreRight'
  BY <1>0, <1>2, RequestStep, TilesKept DEF RequestStays
<1> QED BY <1>0, <1>4, <1>5, <1>6, StepAgrees DEF AgreeInv

LEMMA PutAgrees ==
  ASSUME NEW m \in Meanings, NEW t \in Threads, ServletTypeOK, AgreeInv(m), SendsInv(m)',
         OthersKeep(t), RequestStays(t), HistoryKept,
         UNCHANGED <<callVars, sessionVars, moveVars, stored>>,
         PutTile(t)
  PROVE  ServletTypeOK' /\ AgreeInv(m)'
<1> USE DEF HistoryKept, PutTile, GoTo, requestVars, responseVars, callVars, sessionVars, moveVars
<1>0. pc[t] = "put" /\ Put(Hash(t), file[t]) /\ pc'[t] = "open"
  BY DEF ServletTypeOK
<1>1. Hash(t) \in Keys
  BY <1>0, ViewHasKey, RequestStep DEF Hash
<1>2. ThreadInv(m, t) /\ Unwritten' \subseteq Unwritten
  BY <1>0, RequestStep DEF AgreeInv
<1>3. file[t] \in Paths
  BY <1>0, <1>2 DEF ServletTypeOK, ThreadInv, Reading
<1>4. m[file[t]] = Hash(t) /\ file[t] \notin Unwritten
  BY <1>0, <1>2, <1>3, Written DEF ThreadInv, Early
<1>5. TypeOK' /\ CacheStep(Hash(t), file[t])
  BY <1>0, <1>1, <1>3, PutStep DEF ServletTypeOK
<1>6. ServletTypeOK'
  BY <1>5 DEF ServletTypeOK, ServicePCs
<1>7. ThreadInv(m, t)'
  BY <1>0, <1>2, RequestStep DEF ThreadInv, IsFor, Reading, Moving
<1>8. /\ CacheAgrees(m)' /\ SessionsAgree(m)' /\ DiskAgrees(m)'
      /\ EmptyFiles' /\ StoredTilesAreRight'
  BY <1>0, <1>2, <1>4, <1>5, TilesKept DEF RequestStays
<1> QED BY <1>0, <1>6, <1>7, <1>8, StepAgrees DEF AgreeInv

LEMMA MeasureAgrees ==
  ASSUME NEW m \in Meanings, NEW t \in Threads, ServletTypeOK, AgreeInv(m), SendsInv(m)',
         OthersKeep(t), RequestStays(t), HistoryKept,
         UNCHANGED <<callVars, sessionVars, moveVars, stored>>,
         Measure(t)
  PROVE  ServletTypeOK' /\ AgreeInv(m)'
<1> USE DEF HistoryKept, Measure, GoTo, requestVars, responseVars, callVars, sessionVars, moveVars, cacheVars
<1>0. pc[t] = "measure" /\ pc'[t] = "respond" /\ UNCHANGED cacheVars
  BY DEF ServletTypeOK
<1>2. ThreadInv(m, t) /\ Unwritten' \subseteq Unwritten
  BY <1>0, RequestStep DEF AgreeInv
<1>3. file[t] \in Paths /\ m[file[t]] = Hash(t)
  BY <1>0, <1>2 DEF ServletTypeOK, ThreadInv, Reading, IsFor
<1>4. disk[file[t]] \in Contents /\ disk[file[t]] \in {Hash(t), Empty, Absent}
  BY <1>3 DEF ServletTypeOK, TypeOK, AgreeInv, DiskAgrees
<1>5. CacheStep(Hash(t), Null)
  BY <1>0, <1>3 DEF CacheStep, ServletTypeOK, TypeOK
<1>6. TypeOK'
  BY <1>0, <1>3 DEF ServletTypeOK, TypeOK, Contents
<1>7. ServletTypeOK'
  <2>1. bytes' \in [Threads -> Contents]
    BY <1>4 DEF ServletTypeOK, Contents
  <2>2. status' \in [Threads -> {"none", "ok", "notFound", "error"}]
    BY DEF ServletTypeOK
  <2>3. cacheFile' \in [Threads -> Paths \cup {Null}]
    BY DEF ServletTypeOK
  <2> QED BY <1>6, <2>1, <2>2, <2>3 DEF ServletTypeOK, ServicePCs
<1>8. ThreadInv(m, t)'
  <2>1. cacheFile'[t] \in {file[t], cacheFile[t]} /\ UNCHANGED <<file, fileName>>
    BY DEF ServletTypeOK
  <2> QED BY <1>0, <1>2, <2>1, RequestStep DEF ThreadInv, IsFor, Reading, Moving
<1>9. /\ CacheAgrees(m)' /\ SessionsAgree(m)' /\ DiskAgrees(m)'
      /\ EmptyFiles' /\ StoredTilesAreRight'
  BY <1>0, <1>2, <1>5, TilesKept DEF RequestStays
<1> QED BY <1>0, <1>7, <1>8, <1>9, StepAgrees DEF AgreeInv

\* The steps that write the request's own file.
LEMMA OwnFileAgrees ==
  ASSUME NEW m \in Meanings, NEW t \in Threads, ServletTypeOK, AgreeInv(m), SendsInv(m)',
         OthersKeep(t), RequestStays(t), HistoryKept,
         UNCHANGED <<callVars, sessionVars, moveVars, stored>>,
         CreateTempFile(t) \/ Extract(t) \/ ExtractNothing(t) \/ ExtractFails(t)
  PROVE  ServletTypeOK' /\ AgreeInv(m)'
<1> USE DEF HistoryKept, GoTo, Fail, TempFile, requestVars, responseVars, callVars, sessionVars, moveVars,
            cacheVars, tileVars
<1>0. pc[t] \in {"create", "extract"} /\ UNCHANGED cacheVars
  BY DEF CreateTempFile, Extract, ExtractNothing, ExtractFails
<1>1. /\ ThreadInv(m, t) /\ Unwritten' \subseteq Unwritten
      /\ id[t] \in Paths /\ id[t] \in 1..asked /\ m[id[t]] = Hash(t)
      /\ Picture(view[t]) = Hash(t) /\ Hash(t) \in Keys /\ Hash(t) \notin {Empty, Absent}
  BY <1>0, RequestStep, ViewHasKey DEF AgreeInv, Hash
<1>2. \/ CreateTempFile(t) /\ disk' = [disk EXCEPT ![id[t]] = Empty]
      \/ Extract(t) /\ disk' = [disk EXCEPT ![id[t]] = Hash(t)]
      \/ (ExtractNothing(t) \/ ExtractFails(t)) /\ UNCHANGED disk
  BY <1>1 DEF CreateTempFile, Extract, ExtractNothing, ExtractFails, ThreadInv
<1>3. TypeOK'
  BY <1>0, <1>1, <1>2 DEF ServletTypeOK, TypeOK, Contents
<1>4. ServletTypeOK'
  <2>1. CASE CreateTempFile(t)
    BY <1>1, <1>3, <2>1 DEF ServletTypeOK, ServicePCs, CreateTempFile
  <2>2. CASE Extract(t) \/ ExtractNothing(t)
    BY <1>3, <2>2 DEF ServletTypeOK, ServicePCs, Extract, ExtractNothing
  <2>3. CASE ExtractFails(t)
    BY <1>3, <2>3 DEF ServletTypeOK, ServicePCs, ExtractFails
  <2> QED BY <2>1, <2>2, <2>3
<1>5. ThreadInv(m, t)'
  <2>1. CASE CreateTempFile(t)
    <3>1. /\ pc'[t] = "extract" /\ file'[t] = id[t] /\ cacheFile'[t] = id[t]
          /\ UNCHANGED <<id, view, session, asked, fileName, status, bytes>>
      BY <2>1 DEF CreateTempFile, ServletTypeOK
    <3> QED BY <1>0, <1>1, <3>1, RequestStep DEF ThreadInv, IsFor, Reading, Moving
  <2>2. CASE Extract(t) \/ ExtractNothing(t)
    <3>1. /\ pc[t] = "extract" /\ pc'[t] = "recheck"
          /\ UNCHANGED <<id, view, session, asked, file, cacheFile, fileName, status, bytes>>
      BY <2>2 DEF Extract, ExtractNothing, ServletTypeOK
    <3>2. file[t] = id[t] /\ id[t] # Null
      BY <1>1, <3>1, NullAssumption DEF ThreadInv
    <3> QED BY <1>0, <1>1, <3>1, <3>2, RequestStep DEF ThreadInv, IsFor, Reading, Moving
  <2>3. CASE ExtractFails(t)
    <3>1. /\ pc'[t] = "respond" /\ status'[t] = "notFound"
          /\ UNCHANGED <<id, view, session, asked, file, cacheFile, fileName, bytes>>
      BY <2>3 DEF ExtractFails, ServletTypeOK
    <3> QED BY <1>0, <1>1, <3>1, RequestStep DEF ThreadInv, IsFor, Reading, Moving
  <2> QED BY <2>1, <2>2, <2>3, <1>2
<1>6. CacheAgrees(m)'
  BY <1>0, <1>1 DEF AgreeInv, CacheAgrees
<1>7. SessionsAgree(m)'
  BY <1>1, SessionsKept DEF AgreeInv
<1>8. DiskAgrees(m)'
  <2>1. \A f \in Paths : disk'[f] \in {m[f], Empty, Absent}
    BY <1>1, <1>2 DEF AgreeInv, DiskAgrees, ServletTypeOK, TypeOK
  <2>2. \A f \in (asked + 1)..MaxRequests : f # id[t]
    BY <1>1, RequestAssumption DEF ServletTypeOK
  <2>3. ASSUME NEW f \in (asked + 1)..MaxRequests PROVE disk'[f] = Absent
    <3>1. f \in Paths
      BY IdIsPath, RequestAssumption DEF ServletTypeOK
    <3> QED BY <1>2, <2>2, <3>1 DEF AgreeInv, DiskAgrees, ServletTypeOK, TypeOK
  <2> QED BY <2>1, <2>3 DEF DiskAgrees, RequestStays
<1>9. EmptyFiles'
  <2> SUFFICES ASSUME NoneIfDecodingFails = {}, NEW g \in Paths, disk'[g] = Empty
               PROVE  \E u \in Threads : pc'[u] = "extract" /\ id'[u] = g
    BY DEF EmptyFiles, NoneIfDecodingFails
  <2>0. ~ExtractNothing(t) /\ ~ExtractFails(t)
    BY DEF ExtractNothing, ExtractFails, NoneIfDecodingFails
  <2>1. CASE g = id[t]
    <3>1. CreateTempFile(t)
      BY <1>1, <1>2, <2>0, <2>1 DEF ServletTypeOK, TypeOK
    <3> QED BY <2>1, <3>1 DEF CreateTempFile, ServletTypeOK
  <2>2. CASE g # id[t]
    <3>1. disk[g] = Empty
      BY <1>2, <2>0, <2>2 DEF ServletTypeOK, TypeOK
    <3>2. PICK u \in Threads : pc[u] = "extract" /\ id[u] = g
      BY <3>1 DEF AgreeInv, EmptyFiles
    <3> QED BY <2>2, <3>2 DEF OthersKeep
  <2> QED BY <2>1, <2>2
<1>10. StoredTilesAreRight'
  BY StoredKept DEF AgreeInv
<1> QED BY <1>0, <1>4, <1>5, <1>6, <1>7, <1>8, <1>9, <1>10, StepAgrees DEF AgreeInv

-----------------------------------------------------------------------------
(* The steps of the servlets *)

\* The steps that change neither the tile cache, nor the disk, nor the names of files in
\* a session.
LEMMA QuietServlet ==
  ASSUME NEW m \in Meanings, NEW t \in Threads, ServletTypeOK, AgreeInv(m), SendsInv(m)',
         OthersKeep(t), RequestStays(t), HistoryKept,
         \/ ServeStored(t) \/ Forward(t) \/ SetTileKey(t) \/ NoSessionData(t)
         \/ FetchFile(t) \/ FetchKey(t) \/ CheckExists(t) \/ RenameFails(t) \/ ForgetKey(t)
  PROVE  ServletTypeOK' /\ AgreeInv(m)'
<1> USE DEF GoTo, KeepService, AfterResponse, HistoryKept, requestVars, responseVars, callVars,
            sessionVars, moveVars, noteVars, servletVars, cacheVars
<1> DEFINE n == FileName(view[t])
<1>0. /\ pc[t] \in {"check", "respond", "setKey", "fetchFile", "fetchKey", "exists", "rename",
                    "forgetKey"}
      /\ UNCHANGED <<tileVars, tileFile, stored>>
  BY DEF ServeStored, Forward, SetTileKey, NoSessionData, FetchFile, FetchKey, CheckExists,
         RenameFails, ForgetKey, tileVars
<1>1. /\ ThreadInv(m, t) /\ Unwritten' \subseteq Unwritten
      /\ view[t] \in Views /\ session[t] \in Sessions
      /\ Hash(t) \in Keys /\ Picture(view[t]) = Hash(t)
  BY <1>0, RequestStep, ViewHasKey DEF AgreeInv, Hash
<1>2. n \in Names
  BY <1>1, NamesTellTiles
<1>3. ServletTypeOK'
  <2> USE DEF ServletTypeOK, TypeOK, ServletPCs, ServicePCs, tileVars
  <2>1. CASE ServeStored(t)
    <3>1. stored[n] \in Contents
      BY <1>2
    <3> QED BY <2>1, <3>1 DEF ServeStored
  <2>2. CASE Forward(t) \/ NoSessionData(t) \/ CheckExists(t) \/ RenameFails(t)
    BY <2>2 DEF Forward, NoSessionData, CheckExists, RenameFails
  <2>3. CASE SetTileKey(t)
    BY <1>1, <2>3 DEF SetTileKey
  <2>4. CASE FetchFile(t)
    <3>1. tileFile[session[t]][n] \in Paths \cup {Null}
      BY <1>1, <1>2
    <3> QED BY <2>4, <3>1 DEF FetchFile
  <2>5. CASE FetchKey(t)
    <3>1. fileName[t] \in Paths
      BY <1>1, <2>5 DEF FetchKey, ThreadInv, Moving
    <3>2. tileKey[session[t]][fileName[t]] \in Keys \cup {Null}
      BY <1>1, <3>1
    <3> QED BY <2>5, <3>2 DEF FetchKey
  <2>6. CASE ForgetKey(t)
    BY <2>6 DEF ForgetKey
  <2> QED BY <2>1, <2>2, <2>3, <2>4, <2>5, <2>6
<1>4. ThreadInv(m, t)'
  <2>0. UNCHANGED <<asked, id, view, session, file, cacheFile>> /\ pc[t] # "idle"
    BY <1>0 DEF RequestStays, ServeStored, Forward, SetTileKey, NoSessionData, FetchFile,
                FetchKey, CheckExists, RenameFails, ForgetKey
  <2>1. CASE ServeStored(t)
    <3>1. pc'[t] = "sent" /\ UNCHANGED fileName
      BY <2>1 DEF ServeStored, ServletTypeOK
    <3> QED BY <1>1, <2>0, <3>1, RequestStep DEF ThreadInv, IsFor, Reading, Moving
  <2>2. CASE Forward(t) \/ NoSessionData(t)
    <3>1. UNCHANGED <<fileName, status, bytes>> /\ pc'[t] \in {"record", "fetchFile", "sent"}
      BY <2>2 DEF Forward, NoSessionData, ServletTypeOK
    <3> QED BY <1>1, <2>0, <3>1, RequestStep DEF ThreadInv, IsFor, Reading, Moving
  <2>3. CASE SetTileKey(t)
    <3>1. /\ UNCHANGED <<fileName, status, bytes>>
          /\ pc'[t] \in {"setFile", "fetchFile", "sent"}
          /\ pc'[t] = "setFile" => cacheFile[t] # Null
      BY <2>3 DEF SetTileKey, ServletTypeOK
    <3> QED BY <1>1, <2>0, <3>1, RequestStep DEF ThreadInv, IsFor, Reading, Moving
  <2>4. CASE FetchFile(t)
    <3>1. /\ UNCHANGED <<status, bytes>> /\ fileName'[t] = tileFile[session[t]][n]
          /\ pc'[t] = IF fileName'[t] = Null THEN "sent" ELSE "fetchKey"
      BY <2>4 DEF FetchFile, ServletTypeOK
    <3>2. fileName'[t] # Null => fileName'[t] \notin Unwritten'
      BY <1>1, <1>2, <3>1 DEF AgreeInv, SessionsAgree
    <3> QED BY <1>1, <2>0, <3>1, <3>2, RequestStep DEF ThreadInv, IsFor, Reading, Moving
  <2>5. CASE FetchKey(t) \/ CheckExists(t) \/ RenameFails(t) \/ ForgetKey(t)
    <3>1. /\ UNCHANGED <<fileName, status, bytes>> /\ pc[t] \in Moving
          /\ pc'[t] \in {"exists", "rename", "untile", "sent"}
      BY <2>5 DEF FetchKey, CheckExists, RenameFails, ForgetKey, ServletTypeOK, Moving
    <3> QED BY <1>1, <2>0, <3>1, RequestStep DEF ThreadInv, IsFor, Reading, Moving
  <2> QED BY <2>1, <2>2, <2>3, <2>4, <2>5
<1>5. CacheStep(Hash(t), Null)
  BY <1>0 DEF CacheStep, tileVars
<1>6. /\ CacheAgrees(m)' /\ SessionsAgree(m)' /\ DiskAgrees(m)'
      /\ EmptyFiles' /\ StoredTilesAreRight'
  BY <1>0, <1>1, <1>5, TilesKept DEF RequestStays
<1> QED BY <1>0, <1>3, <1>4, <1>6, StepAgrees DEF AgreeInv

\* SetTileFile, and ForgetFile.
LEMMA SessionAgrees ==
  ASSUME NEW m \in Meanings, NEW t \in Threads, ServletTypeOK, AgreeInv(m), SendsInv(m)',
         OthersKeep(t), RequestStays(t), HistoryKept, SetTileFile(t) \/ ForgetFile(t)
  PROVE  ServletTypeOK' /\ AgreeInv(m)'
<1> USE DEF GoTo, KeepService, AfterResponse, HistoryKept, requestVars, responseVars, callVars,
            sessionVars, moveVars, noteVars, servletVars, cacheVars
<1>0. /\ pc[t] \in {"respond", "setFile", "forgetFile"}
      /\ pc'[t] \in {"setKey", "fetchFile", "sent", "forgetKey"}
      /\ pc'[t] = "setKey" => cacheFile[t] # Null
      /\ pc'[t] = "forgetKey" => pc[t] = "forgetFile"
      /\ UNCHANGED <<tileVars, stored, asked, id, view, session, file, cacheFile, fileName,
                     status, bytes>>
  BY DEF SetTileFile, ForgetFile, tileVars, ServletTypeOK
<1>1. /\ ThreadInv(m, t) /\ Unwritten' \subseteq Unwritten
      /\ view[t] \in Views /\ session[t] \in Sessions
  BY <1>0, RequestStep DEF AgreeInv
<1>2. /\ FileName(view[t]) \in Names /\ SessionKey(view[t]) \in Names
      /\ Plain(SessionKey(view[t])) /\ Hash(t) \in MayHold(SessionKey(view[t]))
  BY <1>0, <1>1, NamesTellTiles DEF AgreeInv, SendsInv, SendInv
<1>3. PICK n \in Names, f \in Paths \cup {Null} :
        /\ tileFile' = [tileFile EXCEPT ![session[t]][n] = f]
        /\ f # Null => Plain(n) /\ m[f] \in MayHold(n) /\ f \notin Unwritten
  <2>1. CASE SetTileFile(t)
    <3>1. cacheFile[t] \in Paths
      BY <1>1, <2>1 DEF SetTileFile, ServletTypeOK, ThreadInv
    <3>2. m[cacheFile[t]] = Hash(t) /\ cacheFile[t] \notin Unwritten
      BY <1>0, <1>1, <3>1, Written DEF ThreadInv, Early
    <3>3. tileFile' = [tileFile EXCEPT ![session[t]][SessionKey(view[t])] = cacheFile[t]]
      BY <2>1 DEF SetTileFile
    <3> QED BY <1>2, <3>1, <3>2, <3>3
  <2>2. CASE ForgetFile(t)
    <3>1. tileFile' = [tileFile EXCEPT ![session[t]][FileName(view[t])] = Null]
      BY <2>2 DEF ForgetFile
    <3> QED BY <1>2, <3>1
  <2> QED BY <2>1, <2>2
<1>4. ServletTypeOK'
  <2>1. tileFile' \in [Sessions -> [Names -> Paths \cup {Null}]]
    BY <1>3 DEF ServletTypeOK
  <2>2. pc' \in [Threads -> ServicePCs \cup ServletPCs \cup {"idle"}]
    BY DEF SetTileFile, ForgetFile, ServletTypeOK, ServletPCs
  <2>3. UNCHANGED <<branch, viaIIIF, tileKey, cacheName>>
    BY DEF SetTileFile, ForgetFile
  <2> QED BY <1>0, <2>1, <2>2, <2>3 DEF ServletTypeOK, TypeOK, tileVars
<1>5. ThreadInv(m, t)'
  BY <1>0, <1>1, RequestStep DEF ThreadInv, IsFor, Reading, Moving
<1>6. SessionsAgree(m)'
  <2> SUFFICES ASSUME NEW s \in Sessions, NEW k \in Names, tileFile'[s][k] # Null
               PROVE  Plain(k) /\ m[tileFile'[s][k]] \in MayHold(k) /\ tileFile'[s][k] \notin Unwritten'
    BY NamesGrow DEF SessionsAgree, Names
  <2>1. CASE s = session[t] /\ k = n
    <3>1. tileFile'[s][k] = f
      BY <1>3, <1>1, <2>1 DEF ServletTypeOK
    <3> QED BY <1>1, <1>3, <2>1, <3>1
  <2>2. CASE ~(s = session[t] /\ k = n)
    <3>1. tileFile'[s][k] = tileFile[s][k]
      BY <1>3, <2>2 DEF ServletTypeOK
    <3> QED BY <1>1, <3>1 DEF AgreeInv, SessionsAgree
  <2> QED BY <2>1, <2>2
<1>7. CacheAgrees(m)'
  BY <1>0, <1>1 DEF AgreeInv, CacheAgrees, tileVars
<1>8. DiskAgrees(m)'
  BY <1>0 DEF AgreeInv, DiskAgrees, tileVars
<1>9. EmptyFiles'
  <2> SUFFICES ASSUME NoneIfDecodingFails = {}, NEW g \in Paths, disk'[g] = Empty
               PROVE  \E u \in Threads : pc'[u] = "extract" /\ id'[u] = g
    BY DEF EmptyFiles, NoneIfDecodingFails
  <2>1. PICK u \in Threads : pc[u] = "extract" /\ id[u] = g
    BY <1>0 DEF AgreeInv, EmptyFiles, tileVars
  <2> QED BY <1>0, <2>1 DEF OthersKeep
<1>10. StoredTilesAreRight'
  BY <1>0, StoredKept DEF AgreeInv
<1> QED BY <1>0, <1>4, <1>5, <1>6, <1>7, <1>8, <1>9, <1>10, StepAgrees DEF AgreeInv

LEMMA RenameAgrees ==
  ASSUME NEW m \in Meanings, NEW t \in Threads, ServletTypeOK, AgreeInv(m), SendsInv(m)',
         OthersKeep(t), RequestStays(t), HistoryKept, Rename(t)
  PROVE  ServletTypeOK' /\ AgreeInv(m)'
<1> USE DEF Rename, GoTo, HistoryKept, requestVars, responseVars, callVars, sessionVars, moveVars,
            cacheVars
<1> DEFINE n == FileName(view[t])
           f == fileName[t]
<1>0. /\ pc[t] = "rename" /\ pc'[t] = "untile" /\ disk[f] # Absent
      /\ stored' = [stored EXCEPT ![n] = disk[f]] /\ disk' = [disk EXCEPT ![f] = Absent]
      /\ UNCHANGED <<cacheVars, tileFile, asked, id, view, session, file, cacheFile, fileName,
                     status, bytes>>
  BY DEF ServletTypeOK
<1>1. /\ ThreadInv(m, t) /\ Unwritten' \subseteq Unwritten
      /\ view[t] \in Views
  BY <1>0, RequestStep DEF AgreeInv
<1>2. n \in Names
  BY <1>1, NamesTellTiles
<1>3. f \in Paths /\ f # Null /\ f \notin Unwritten /\ Plain(n) /\ m[f] \in MayHold(n)
  BY <1>0, <1>1 DEF ServletTypeOK, ThreadInv, Moving, AgreeInv, SendsInv, SendInv
<1>4. disk[f] \in {m[f]} \cup NoneIfDecodingFails
  <2>1. disk[f] \in {m[f], Empty}
    BY <1>0, <1>3 DEF AgreeInv, DiskAgrees
  <2>2. CASE NoneIfDecodingFails = {}
    <3>1. ASSUME disk[f] = Empty PROVE FALSE
      <4>1. PICK u \in Threads : pc[u] = "extract" /\ id[u] = f
        BY <1>3, <2>2, <3>1 DEF AgreeInv, EmptyFiles
      <4> QED BY <1>3, <4>1 DEF Unwritten, Early
    <3> QED BY <2>1, <3>1
  <2>3. CASE NoneIfDecodingFails = {Empty}
    BY <2>1, <2>3
  <2> QED BY <2>2, <2>3 DEF NoneIfDecodingFails
<1>5. ServletTypeOK'
  <2>1. disk[f] \in Contents
    BY <1>3 DEF ServletTypeOK, TypeOK
  <2>2. stored' \in [Names -> Contents] /\ disk' \in [Paths -> Contents]
    BY <1>0, <2>1 DEF ServletTypeOK, TypeOK, Contents
  <2>3. pc' \in [Threads -> ServicePCs \cup ServletPCs \cup {"idle"}]
    BY DEF ServletTypeOK, ServletPCs
  <2> QED BY <1>0, <2>2, <2>3 DEF ServletTypeOK, TypeOK
<1>6. ThreadInv(m, t)'
  BY <1>0, <1>1, RequestStep DEF ThreadInv, IsFor, Reading, Moving
<1>7. CacheAgrees(m)'
  BY <1>0, <1>1 DEF AgreeInv, CacheAgrees
<1>8. SessionsAgree(m)'
  BY <1>0, <1>1, SessionsKept DEF AgreeInv
<1>9. DiskAgrees(m)'
  <2>1. \A g \in Paths : disk'[g] \in {disk[g], Absent}
    BY <1>0 DEF ServletTypeOK, TypeOK
  <2>2. ASSUME NEW g \in (asked + 1)..MaxRequests PROVE disk'[g] = Absent
    <3>1. g \in Paths
      BY IdIsPath, RequestAssumption DEF ServletTypeOK
    <3> QED BY <2>1, <3>1 DEF AgreeInv, DiskAgrees
  <2> QED BY <1>0, <2>1, <2>2 DEF AgreeInv, DiskAgrees
<1>10. EmptyFiles'
  <2> SUFFICES ASSUME NoneIfDecodingFails = {}, NEW g \in Paths, disk'[g] = Empty
               PROVE  \E u \in Threads : pc'[u] = "extract" /\ id'[u] = g
    BY DEF EmptyFiles, NoneIfDecodingFails
  <2>1. disk[g] = Empty
    BY <1>0, NullAssumption DEF ServletTypeOK, TypeOK
  <2>2. PICK u \in Threads : pc[u] = "extract" /\ id[u] = g
    BY <2>1 DEF AgreeInv, EmptyFiles
  <2> QED BY <1>0, <2>2 DEF OthersKeep
<1>11. StoredTilesAreRight'
  <2> SUFFICES ASSUME NEW k \in Names, stored'[k] # Absent
               PROVE  Plain(k) /\ stored'[k] \in MayHold(k) \cup NoneIfDecodingFails
    <3>1. ASSUME NEW k \in Names, stored'[k] # Absent
          PROVE  Plain(k)' /\ stored'[k] \in MayHold(k)' \cup NoneIfDecodingFails'
      BY <3>1, NamesGrow
    <3> QED BY <3>1 DEF StoredTilesAreRight, Plain, MayHold, Names
  <2>1. CASE k = n
    BY <1>0, <1>2, <1>3, <1>4, <2>1 DEF ServletTypeOK
  <2>2. CASE k # n
    BY <1>0, <2>2, StoredIsPlain DEF ServletTypeOK, AgreeInv
  <2> QED BY <2>1, <2>2
<1> QED BY <1>0, <1>5, <1>6, <1>7, <1>8, <1>9, <1>10, <1>11, StepAgrees DEF AgreeInv

LEMMA UntileAgrees ==
  ASSUME NEW m \in Meanings, NEW t \in Threads, ServletTypeOK, AgreeInv(m), SendsInv(m)',
         OthersKeep(t), RequestStays(t), HistoryKept, Untile(t)
  PROVE  ServletTypeOK' /\ AgreeInv(m)'
<1> USE DEF Untile, GoTo, HistoryKept, requestVars, responseVars, callVars, sessionVars, moveVars,
            servletVars
<1>0. /\ pc[t] = "untile" /\ pc'[t] \in {"sent", "forgetFile"}
      /\ UNCHANGED <<tileFile, tileKey, stored, asked, id, view, session, file, branch, cacheFile,
                     fileName, cacheName, status, bytes, viaIIIF>>
  BY DEF ServletTypeOK
<1>1. ThreadInv(m, t) /\ Unwritten' \subseteq Unwritten
  BY <1>0, RequestStep DEF AgreeInv
<1>2. PICK k : TypeOK' /\ CacheStep(k, Null)
  <2>1. CASE cacheName[t] = Null
    BY <2>1 DEF ServletTypeOK, TypeOK, CacheStep, tileVars
  <2>2. CASE cacheName[t] # Null
    <3>1. cacheName[t] \in Keys
      BY <2>2 DEF ServletTypeOK
    <3> QED BY <2>2, <3>1, RemoveStep DEF ServletTypeOK
  <2> QED BY <2>1, <2>2
<1>3. ServletTypeOK'
  <2>1. pc' \in [Threads -> ServicePCs \cup ServletPCs \cup {"idle"}]
    BY DEF ServletTypeOK, ServletPCs
  <2> QED BY <1>0, <1>2, <2>1 DEF ServletTypeOK
<1>4. ThreadInv(m, t)'
  BY <1>0, <1>1, RequestStep DEF ThreadInv, IsFor, Reading, Moving
<1>5. /\ CacheAgrees(m)' /\ SessionsAgree(m)' /\ DiskAgrees(m)'
      /\ EmptyFiles' /\ StoredTilesAreRight'
  BY <1>0, <1>1, <1>2, TilesKept
<1> QED BY <1>0, <1>3, <1>4, <1>5, StepAgrees DEF AgreeInv

LEMMA FinishAgrees ==
  ASSUME NEW m \in Meanings, NEW t \in Threads, ServletTypeOK, AgreeInv(m), SendsInv(m)',
         OthersKeep(t), HistoryKept, Finish(t)
  PROVE  ServletTypeOK' /\ AgreeInv(m)'
<1> USE DEF Finish, Release, GoTo, HistoryKept, sessionVars
<1>0. /\ pc[t] = "sent" /\ pc'[t] = "idle"
      /\ UNCHANGED <<tileVars, tileFile, stored, asked>>
  BY DEF ServletTypeOK
<1>1. Unwritten' \subseteq Unwritten
  BY <1>0, UnwrittenShrinks DEF Early
<1>2. ServletTypeOK'
  BY <1>0, RequestAssumption DEF ServletTypeOK, TypeOK, tileVars, Contents
<1>3. ThreadInv(m, t)'
  BY <1>0 DEF ThreadInv, IsFor, Reading, Moving, ServletTypeOK
<1>4. ASSUME NEW u \in Threads \ {t} PROVE ThreadInv(m, u)'
  <2>1. asked \in Nat /\ asked' = asked
    BY <1>0, RequestAssumption DEF ServletTypeOK
  <2> QED BY <1>1, <2>1, OthersAgree DEF AgreeInv
<1>5. IdsInv'
  BY <1>0 DEF AgreeInv, IdsInv, OthersKeep
<1>6. CacheStep(Null, Null)
  BY <1>0 DEF CacheStep, tileVars
<1>7. /\ CacheAgrees(m)' /\ SessionsAgree(m)' /\ DiskAgrees(m)'
      /\ EmptyFiles' /\ StoredTilesAreRight'
  BY <1>0, <1>1, <1>6, TilesKept
<1> QED BY <1>2, <1>3, <1>4, <1>5, <1>7 DEF AgreeInv

-----------------------------------------------------------------------------
(* A new request gives the file named after it a meaning. *)

LEMMA FreshMeaning ==
  ASSUME NEW m \in Meanings, ServletTypeOK, AgreeInv(m), asked < MaxRequests, NEW k \in Keys
  PROVE  AgreeInv([m EXCEPT ![asked + 1] = k])
<1> DEFINE fresh == asked + 1
           new == [m EXCEPT ![fresh] = k]
<1>1. /\ fresh \in (asked + 1)..MaxRequests /\ fresh \in Paths /\ fresh \in Unwritten
      /\ asked \in Nat
  BY RequestAssumption DEF ServletTypeOK, Unwritten
<1>2. \A f : f # fresh => new[f] = m[f]
  BY DEF Meanings
<1> HIDE DEF new
<1>3. ASSUME NEW u \in Threads PROVE ThreadInv(new, u)
  <2>1. ThreadInv(m, u)
    BY DEF AgreeInv
  <2>2. pc[u] # "idle" => id[u] # fresh
    BY <1>1, <2>1 DEF ThreadInv
  <2>4. IsFor(new, u, file[u]) /\ IsFor(new, u, cacheFile[u])
    BY <1>1, <1>2, <2>1, <2>2 DEF ThreadInv, IsFor
  <2> QED BY <1>2, <2>1, <2>2, <2>4 DEF ThreadInv
<1>7. SendsInv(new)
  <2>1. \A u \in Threads : fileName[u] # Null => fileName[u] # fresh
    BY <1>1 DEF AgreeInv, ThreadInv
  <2> QED BY <1>2, <2>1 DEF AgreeInv, SendsInv, SendInv
<1>4. CacheAgrees(new)
  BY <1>1, <1>2 DEF AgreeInv, CacheAgrees
<1>5. SessionsAgree(new)
  BY <1>1, <1>2 DEF AgreeInv, SessionsAgree
<1>6. DiskAgrees(new)
  BY <1>1, <1>2 DEF AgreeInv, DiskAgrees
<1> QED BY <1>3, <1>4, <1>5, <1>6, <1>7 DEF AgreeInv, new, fresh

LEMMA ArriveAgrees ==
  ASSUME NEW m \in Meanings, NEW t \in Threads, NEW v \in Views, NEW s \in Sessions,
         NEW iiif \in BOOLEAN, ServletTypeOK, AgreeInv(m), m[asked + 1] = TileHash(v),
         Arrive(t, v, s, iiif)
  PROVE  ServletTypeOK' /\ AgreeInv(m)'
<1> USE DEF Arrive, Receive, GoTo, sessionVars, moveVars, responseVars
<1> DEFINE more == IF v.scale \in Factors THEN {v} ELSE {}
<1>0. /\ pc[t] = "idle" /\ pc'[t] \in {"check", "record"} /\ asked < MaxRequests
      /\ asked' = asked + 1 /\ id'[t] = asked + 1 /\ view'[t] = v /\ session'[t] = s
      /\ UNCHANGED <<tileVars, tileFile, tileKey, stored, file, branch, cacheFile, fileName,
                     cacheName, status, bytes>>
      /\ scaled' = scaled \cup more
  BY DEF ServletTypeOK
<1>1. OthersKeep(t)
  BY DEF OthersKeep, ServletTypeOK
<1>2. asked \in Nat /\ asked' \in 0..MaxRequests
  BY <1>0, RequestAssumption DEF ServletTypeOK
<1>3. Unwritten' \subseteq Unwritten
  <2> SUFFICES ASSUME NEW f \in Unwritten' PROVE f \in Unwritten
    OBVIOUS
  <2>1. CASE f \in (asked' + 1)..MaxRequests
    BY <1>0, <1>2, <2>1, RequestAssumption DEF Unwritten
  <2>2. CASE \E u \in Threads : pc'[u] \in Early /\ id'[u] = f
    <3>1. PICK u \in Threads : pc'[u] \in Early /\ id'[u] = f
      BY <2>2
    <3>2. CASE u = t
      BY <1>0, <1>2, <3>1, <3>2, RequestAssumption DEF Unwritten
    <3>3. CASE u # t
      BY <1>1, <3>1, <3>3 DEF Unwritten, OthersKeep
    <3> QED BY <3>2, <3>3
  <2> QED BY <2>1, <2>2 DEF Unwritten
<1>4. ServletTypeOK'
  <2>1. id' \in [Threads -> 0..MaxRequests]
    BY <1>2, RequestAssumption DEF ServletTypeOK
  <2>2. pc' \in [Threads -> ServicePCs \cup ServletPCs \cup {"idle"}]
    BY DEF ServletTypeOK, ServicePCs, ServletPCs
  <2>3. view' \in [Threads -> Views \cup {Null}] /\ session' \in [Threads -> Sessions \cup {Null}]
        /\ viaIIIF' \in [Threads -> BOOLEAN]
    BY DEF ServletTypeOK
  <2>4. disturbed' \in BOOLEAN /\ scaled' \in SUBSET Views
    BY DEF ServletTypeOK
  <2> QED BY <1>0, <1>2, <2>1, <2>2, <2>3, <2>4 DEF ServletTypeOK, TypeOK, tileVars
<1>5. ThreadInv(m, t)'
  <2>1. file[t] = Null /\ cacheFile[t] = Null /\ fileName[t] = Null /\ status[t] = "none"
    BY <1>0 DEF AgreeInv, ThreadInv
  <2>2. m[id'[t]] = Hash(t)' /\ id'[t] \in 1..asked'
    BY <1>0, <1>2 DEF Hash, TileHash, ScalingFactor, ScalingDims
  <2> QED BY <1>0, <2>1, <2>2 DEF ThreadInv, IsFor, Reading, Moving
<1>6. ASSUME NEW u \in Threads \ {t} PROVE ThreadInv(m, u)'
  <2>1. asked' \in Nat /\ asked <= asked'
    BY <1>0, <1>2
  <2> QED BY <1>1, <1>3, <2>1, OthersAgree DEF AgreeInv
<1>7. IdsInv'
  <2>1. \A u \in Threads : pc[u] # "idle" => id[u] # asked + 1
    BY <1>2 DEF AgreeInv, ThreadInv
  <2> QED BY <1>0, <1>1, <2>1 DEF AgreeInv, IdsInv, OthersKeep
<1>8. CacheAgrees(m)'
  BY <1>0, <1>3 DEF AgreeInv, CacheAgrees, tileVars
<1>12. SessionsAgree(m)'
  BY <1>0, <1>3, SessionsKept DEF AgreeInv
<1>9. DiskAgrees(m)'
  <2>1. \A f \in (asked' + 1)..MaxRequests : f \in (asked + 1)..MaxRequests
    BY <1>0, <1>2, RequestAssumption
  <2> QED BY <1>0, <2>1 DEF AgreeInv, DiskAgrees, tileVars
<1>10. EmptyFiles'
  <2> SUFFICES ASSUME NoneIfDecodingFails = {}, NEW g \in Paths, disk'[g] = Empty
               PROVE  \E u \in Threads : pc'[u] = "extract" /\ id'[u] = g
    BY DEF EmptyFiles, NoneIfDecodingFails
  <2>1. PICK u \in Threads : pc[u] = "extract" /\ id[u] = g
    BY <1>0 DEF AgreeInv, EmptyFiles, tileVars
  <2> QED BY <1>0, <1>1, <2>1 DEF OthersKeep
<1>11. StoredTilesAreRight'
  BY <1>0, StoredKept DEF AgreeInv
<1>13. SendsInv(m)'
  <2>1. ASSUME NEW u \in Threads \ {t} PROVE SendInv(m, u)'
    BY <1>0, <1>1, <2>1, PicturesGrow DEF AgreeInv, SendsInv, SendInv, OthersKeep
  <2>2. fileName'[t] = Null /\ status'[t] = "none"
    BY <1>0 DEF AgreeInv, ThreadInv
  <2>3. Hash(t)' \in MayHold(SessionKey(view[t]))'
    <3>1. TileHash(v) \in {NamedPicture(SessionKey(v))}
                          \cup {Picture(x) : x \in {w \in scaled' : SessionKey(w) = SessionKey(v)}}
      <4>1. CASE v.scale \in Factors
        BY <1>0, <4>1, NamesTellTiles
      <4>2. CASE v.scale \notin Factors
        BY <4>2, NamesTellTiles
      <4> QED BY <4>1, <4>2
    <3>2. view'[t] = v
      BY <1>0
    <3> QED BY <3>1, <3>2 DEF Hash, TileHash, MayHold, NamedPicture, ScaledPictures, Picture,
                             SessionKey, ScalingFactor, ScalingDims
  <2> QED BY <2>1, <2>2, <2>3 DEF SendsInv, SendInv
<1> QED BY <1>13, <1>4, <1>5, <1>6, <1>7, <1>8, <1>9, <1>10, <1>11, <1>12 DEF AgreeInv

-----------------------------------------------------------------------------
(* The invariant is inductive. *)

LEMMA InitAgrees ==
  ASSUME ServletInit
  PROVE  SInv
<1> USE DEF ServletInit, ServiceInit, Init
<1>1. ServletTypeOK
  <2>1. TypeOK /\ bytes \in [Threads -> Contents] /\ stored \in [Names -> Contents]
    BY DEF TypeOK, Contents
  <2>2. asked \in 0..MaxRequests /\ id \in [Threads -> 0..MaxRequests]
    BY RequestAssumption
  <2>3. /\ tileFile \in [Sessions -> [Names -> Paths \cup {Null}]]
        /\ tileKey \in [Sessions -> [Paths -> Keys \cup {Null}]]
    OBVIOUS
  <2> QED BY <2>1, <2>2, <2>3 DEF ServletTypeOK
<1> DEFINE m == [f \in Paths |-> Null]
<1>2. m \in Meanings
  BY DEF Meanings
<1>3. \A u \in Threads : ThreadInv(m, u)
  BY DEF ThreadInv, IsFor, Reading, Moving
<1>4. SendsInv(m) /\ IdsInv /\ CacheAgrees(m) /\ SessionsAgree(m)
  BY DEF SendsInv, SendInv, IdsInv, CacheAgrees, SessionsAgree
<1>5. DiskAgrees(m)
  BY IdIsPath DEF DiskAgrees
<1>6. EmptyFiles
  BY NullAssumption DEF EmptyFiles
<1>7. StoredTilesAreRight
  BY DEF StoredTilesAreRight
<1>8. AgreeInv(m)
  BY <1>3, <1>4, <1>5, <1>6, <1>7 DEF AgreeInv
<1> QED BY <1>1, <1>2, <1>8 DEF SInv

\* The steps after which a thread has another file to move, or other bytes to send.
LEMMA StepKeepsSends ==
  ASSUME NEW m \in Meanings, NEW t \in Threads, ServletTypeOK, AgreeInv(m), Step(t)
  PROVE  SendsInv(m)'
<1> USE DEF GoTo, KeepService, Fail, requestVars, responseVars, moveVars, servletVars
<1> DEFINE n == FileName(view[t])
<1>1. OthersKeep(t) /\ (Finish(t) \/ RequestStays(t)) /\ scaled' = scaled
  BY ServletFrame DEF HistoryKept
<1>2. ASSUME NEW u \in Threads \ {t} PROVE SendInv(m, u)'
  BY <1>1, <1>2, PicturesGrow DEF AgreeInv, SendsInv, SendInv, OthersKeep
<1>3. CASE Finish(t)
  <2>1. pc'[t] = "idle" /\ fileName'[t] = Null /\ status'[t] = "none"
    BY <1>3 DEF Finish, Release, ServletTypeOK
  <2> QED BY <1>2, <2>1 DEF SendsInv, SendInv
<1>4. CASE RequestStays(t) /\ pc[t] # "idle"
  <2>1. /\ view[t] \in Views /\ session[t] \in Sessions /\ view'[t] = view[t]
        /\ SendInv(m, t) /\ ThreadInv(m, t)
    BY <1>4 DEF AgreeInv, ThreadInv, SendsInv, RequestStays
  <2>2. n \in Names
    BY <2>1, NamesTellTiles
  <2>3. /\ Picture(view[t]) = Hash(t) /\ Hash(t) \in Keys
    BY <2>1, ViewHasKey DEF Hash
  <2>4. \/ fileName'[t] = fileName[t]
        \/ fileName'[t] # Null => Plain(n) /\ m[fileName'[t]] \in MayHold(n)
    <3>1. CASE FetchFile(t)
      BY <2>1, <2>2, <3>1 DEF FetchFile, ServletTypeOK, AgreeInv, SessionsAgree
    <3>2. CASE ~FetchFile(t) /\ ~Finish(t)
      BY <3>2 DEF Step, ServeStored, Forward, ResolveStep, SetTileFile, SetTileKey, NoSessionData,
         FetchKey, CheckExists, Rename, RenameFails, Untile, ForgetFile, ForgetKey
    <3>3. CASE Finish(t)
      BY <3>3 DEF Finish, ServletTypeOK
    <3> QED BY <3>1, <3>2, <3>3
  <2>5. \/ status'[t] # "ok"
        \/ status'[t] = status[t] /\ bytes'[t] = bytes[t]
        \/ bytes'[t] \in {Hash(t)} \cup ScaledPictures(n) \cup NoneIfDecodingFails
    <3>1. CASE ServeStored(t)
      <4>1. stored[n] \in MayHold(n) \cup NoneIfDecodingFails /\ Plain(n)
        BY <2>2, <3>1, StoredIsPlain DEF ServeStored, AgreeInv
      <4>2. NamedPicture(n) = Hash(t)
        BY <2>1, <4>1, NamesTellTiles DEF Hash
      <4> QED BY <3>1, <4>1, <4>2 DEF ServeStored, ServletTypeOK, MayHold
    <3>2. CASE Render(t)
      BY <2>3, <3>2 DEF Render, ServletTypeOK
    <3>3. CASE Measure(t)
      <4>1. file[t] \in Paths /\ m[file[t]] = Hash(t)
        BY <2>1, <3>3 DEF Measure, ServletTypeOK, ThreadInv, Reading, IsFor
      <4>2. disk[file[t]] \in {Hash(t), Empty, Absent}
        BY <4>1 DEF AgreeInv, DiskAgrees
      <4> QED BY <3>3, <4>2 DEF Measure, Length, ServletTypeOK
    <3>4. CASE Finish(t)
      BY <3>4 DEF Finish, Release, ServletTypeOK
    <3>5. CASE Resolve(t) /\ ~Render(t) /\ ~Measure(t)
      BY <3>5 DEF Resolve, Outside, Local, FindRecord, RecordMissing, RenderFails, Lookup,
         CreateTempFile, Extract, ExtractNothing, ExtractFails, Recheck, PutTile, Open, OpenFails,
         ServletTypeOK
    <3>6. CASE ~ServeStored(t) /\ ~ResolveStep(t) /\ ~Finish(t)
      BY <3>6 DEF Step, Forward, SetTileFile, SetTileKey, NoSessionData, FetchFile,
         FetchKey, CheckExists, Rename, RenameFails, Untile, ForgetFile, ForgetKey
    <3> QED BY <3>1, <3>2, <3>3, <3>4, <3>5, <3>6 DEF ResolveStep
  <2>6. SendInv(m, t)'
    <3>1. /\ Hash(t)' = Hash(t) /\ Picture(view[t])' = Picture(view[t])
          /\ NoneIfDecodingFails' = NoneIfDecodingFails
          /\ Plain(FileName(view[t]))' = Plain(n)
          /\ MayHold(SessionKey(view[t])) \subseteq MayHold(SessionKey(view[t]))'
          /\ MayHold(n) \subseteq MayHold(FileName(view[t]))'
          /\ ScaledPictures(n) \subseteq ScaledPictures(FileName(view[t]))'
      BY <1>1, <2>1, PicturesGrow
    <3>2. pc'[t] # "idle" => Hash(t)' \in MayHold(SessionKey(view[t]))'
      BY <1>4, <2>1, <3>1 DEF SendInv
    <3>3. fileName'[t] # Null =>
            Plain(FileName(view[t]))' /\ m[fileName'[t]] \in MayHold(FileName(view[t]))'
      BY <2>1, <2>4, <3>1 DEF SendInv
    <3>4. status'[t] = "ok" =>
            bytes'[t] \in {Picture(view[t])'} \cup ScaledPictures(FileName(view[t]))'
                          \cup NoneIfDecodingFails'
      BY <2>1, <2>3, <2>5, <3>1 DEF SendInv
    <3> QED BY <3>2, <3>3, <3>4 DEF SendInv
  <2> QED BY <1>2, <2>6 DEF SendsInv, SendInv
<1>5. pc[t] # "idle" \/ Finish(t)
  BY DEF Step, ServeStored, Forward, ResolveStep, SetTileFile, SetTileKey, NoSessionData,
     FetchFile, FetchKey, CheckExists, Rename, RenameFails, Untile, ForgetFile, ForgetKey, Resolve,
     Outside, Local, FindRecord, RecordMissing, Render, RenderFails, Lookup, CreateTempFile,
     Extract, ExtractNothing, ExtractFails, Recheck, PutTile, Open, OpenFails, Measure
<1> QED BY <1>1, <1>3, <1>4, <1>5

LEMMA StepKeepsInv ==
  ASSUME NEW m \in Meanings, NEW t \in Threads, ServletTypeOK, AgreeInv(m), Step(t)
  PROVE  ServletTypeOK' /\ AgreeInv(m)'
<1>1. /\ OthersKeep(t) /\ HistoryKept /\ (Finish(t) \/ RequestStays(t))
      /\ SendsInv(m)'
  BY ServletFrame, StepKeepsSends
<1>2. CASE ResolveStep(t)
  <2>1. Resolve(t) /\ UNCHANGED <<callVars, sessionVars, moveVars, stored>>
    BY <1>2 DEF ResolveStep
  <2>2. RequestStays(t)
    BY <2>1, ResolveFrame
  <2> QED BY <1>1, <2>1, <2>2, QuietResolve, LookupAgrees, PutAgrees, MeasureAgrees,
             OwnFileAgrees DEF Resolve, Outside, Local
<1>3. CASE Finish(t)
  BY <1>1, <1>3, FinishAgrees
<1>4. CASE /\ RequestStays(t)
           /\ \/ ServeStored(t) \/ Forward(t) \/ SetTileKey(t) \/ NoSessionData(t)
              \/ FetchFile(t) \/ FetchKey(t) \/ CheckExists(t) \/ RenameFails(t) \/ ForgetKey(t)
  BY <1>1, <1>4, QuietServlet
<1>5. CASE RequestStays(t) /\ (SetTileFile(t) \/ ForgetFile(t))
  BY <1>1, <1>5, SessionAgrees
<1>6. CASE RequestStays(t) /\ Rename(t)
  BY <1>1, <1>6, RenameAgrees
<1>7. CASE RequestStays(t) /\ Untile(t)
  BY <1>1, <1>7, UntileAgrees
<1> QED BY <1>1, <1>2, <1>3, <1>4, <1>5, <1>6, <1>7 DEF Step

LEMMA NextKeepsInv ==
  ASSUME SInv, [ServletNext]_vars
  PROVE  SInv'
<1>1. PICK m \in Meanings : AgreeInv(m)
  BY DEF SInv
<1>2. CASE UNCHANGED vars
  <2> USE <1>2 DEF vars, serviceVars, localVars, servletVars, tileVars, cacheVars, requestVars,
                   responseVars, sessionVars, callVars, moveVars, noteVars
  <2>1. ServletTypeOK'
    BY DEF SInv, ServletTypeOK, TypeOK
  <2>2. Unwritten' = Unwritten
    BY DEF Unwritten
  <2>3. ASSUME NEW u \in Threads PROVE ThreadInv(m, u)'
    <3>1. ThreadInv(m, u) /\ Hash(u)' = Hash(u)
      BY <1>1 DEF AgreeInv, Hash, TileHash, ScalingFactor, ScalingDims
    <3> QED BY <2>2, <3>1 DEF ThreadInv, IsFor
  <2>4. IdsInv' /\ CacheAgrees(m)' /\ DiskAgrees(m)' /\ EmptyFiles'
    BY <1>1, <2>2 DEF AgreeInv, IdsInv, CacheAgrees, DiskAgrees, EmptyFiles, NoneIfDecodingFails
  <2>5. SessionsAgree(m)' /\ StoredTilesAreRight'
    BY <1>1, <2>2, SessionsKept, StoredKept DEF AgreeInv
  <2>7. SendsInv(m)'
    BY <1>1, PicturesGrow DEF AgreeInv, SendsInv, SendInv
  <2>6. AgreeInv(m)'
    BY <2>3, <2>4, <2>5, <2>7 DEF AgreeInv
  <2> QED BY <2>1, <2>6 DEF SInv
<1>3. ASSUME NEW t \in Threads, Step(t) PROVE SInv'
  <2>1. ServletTypeOK' /\ AgreeInv(m)'
    BY <1>1, <1>3, StepKeepsInv DEF SInv
  <2> QED BY <2>1 DEF SInv
<1>4. ASSUME NEW t \in Threads, NEW v \in Views, NEW s \in Sessions, NEW iiif \in BOOLEAN,
             Arrive(t, v, s, iiif)
      PROVE  SInv'
  <2>1. TileHash(v) \in Keys /\ asked < MaxRequests
    BY <1>4, ViewHasKey DEF Arrive, Receive
  <2> DEFINE new == [m EXCEPT ![asked + 1] = TileHash(v)]
  <2>2. AgreeInv(new)
    BY <1>1, <2>1, FreshMeaning DEF SInv
  <2>3. asked + 1 \in Paths
    BY <2>1, IdIsPath, RequestAssumption DEF SInv, ServletTypeOK
  <2>4. new \in Meanings /\ new[asked + 1] = TileHash(v)
    BY <2>1, <2>3 DEF Meanings
  <2>5. PICK n \in Meanings : AgreeInv(n) /\ n[asked + 1] = TileHash(v)
    BY <2>2, <2>4
  <2>6. ServletTypeOK' /\ AgreeInv(n)'
    BY <1>4, <2>5, ArriveAgrees DEF SInv
  <2> QED BY <2>6 DEF SInv
<1> QED BY <1>2, <1>3, <1>4 DEF ServletNext

-----------------------------------------------------------------------------
(* The theorems *)

\* The tile cache, the sessions' attributes, the files and the locals of all requests are
\* of their types, and about the same tile wherever they name the same file.
THEOREM ServletInvariant ==
  ServletSpec => []SInv
<1>1. ServletInit => SInv
  BY InitAgrees
<1>2. SInv /\ [ServletNext]_vars => SInv'
  BY NextKeepsInv
<1> QED BY <1>1, <1>2, PTL DEF ServletSpec

\* Whatever two requests of a session write over each other's attributes, and whichever of
\* them moves the file (cacheNewImage), the permanent cache holds under a tile's name the
\* tile's picture, and under no other name: but the full size's name may hold a smaller
\* picture that was asked for at a factor, and any an empty file if an extraction failed.
THEOREM StoredStaysRight ==
  ServletSpec => []StoredTilesAreRight
<1>1. SInv => StoredTilesAreRight
  BY DEF SInv, AgreeInv
<1> QED BY <1>1, ServletInvariant, PTL

\* A response with status 200, from the permanent cache or from the resolver, carries the
\* picture asked for, although files are evicted, moved and stored while it is made; but
\* for the full size of a region that has been asked for at a factor.
THEOREM SentIsRequested ==
  ServletSpec => []SentTileIsRequested
<1>1. SInv => SentTileIsRequested
  BY DEF SInv, AgreeInv, SendsInv, SendInv, SentTileIsRequested
<1> QED BY <1>1, ServletInvariant, PTL

-----------------------------------------------------------------------------
(* Requests one after the other *)

\* Where a thread has a file that is not in the tile cache yet.
HasFile == {"extract", "recheck", "put"}

\* Where a thread knows of its session's attributes, if the tile's name has no factor.
Announced(t) ==
  /\ pc[t] # "render"
  /\ pc[t] \in {"respond", "setKey", "setFile"} =>
       cacheFile[t] # Null /\ cacheFile[t] = cacheMap[Hash(t)]
  /\ pc[t] \in {"setKey", "fetchFile"} =>
       tileFile[session[t]][FileName(view[t])] = cacheMap[Hash(t)]
  /\ pc[t] \in {"setFile", "fetchFile"} =>
       cacheMap[Hash(t)] # Null /\ tileKey[session[t]][cacheMap[Hash(t)]] = Hash(t)
  /\ pc[t] = "sent" /\ viaIIIF[t] => stored[FileName(view[t])] # Absent

\* What a thread knows that is disturbed by no other: the file it made, the entry it
\* found or put, and the attributes of its session are the tile's.
Place(t) ==
  /\ status[t] # "error" /\ branch[t] # "simultaneous"
  /\ pc[t] \in {"create"} \cup HasFile => cacheMap[Hash(t)] = Null
  /\ pc[t] \in HasFile => disk[file[t]] # Absent /\ cacheFile[t] = file[t]
  /\ pc[t] \in {"open", "measure"} =>
       file[t] = cacheMap[Hash(t)] /\ (branch[t] = "hit" \/ cacheFile[t] = file[t])
  /\ pc[t] # "idle" /\ Plain(FileName(view[t])) => Announced(t)
  /\ pc[t] \in {"fetchKey", "exists", "rename", "untile"} => fileName[t] = cacheMap[Hash(t)]
  /\ pc[t] = "fetchKey" => tileKey[session[t]][fileName[t]] = Hash(t)
  /\ pc[t] \in {"exists", "rename", "untile"} => cacheName[t] = Hash(t)
  /\ pc[t] = "untile" => disk[fileName[t]] = Absent
  /\ pc[t] \in {"untile", "forgetFile", "forgetKey"} => stored[FileName(view[t])] # Absent

Alone == \A t, u \in Threads : pc[t] # "idle" /\ pc[u] # "idle" => t = u

\* An entry's file is there, but for the moment between its move and the entry's removal.
EntriesHaveFiles ==
  \A k \in Keys : cacheMap[k] # Null =>
    disk[cacheMap[k]] # Absent \/ \E t \in Threads : pc[t] = "untile" /\ Hash(t) = k

\* A file that is there has an entry, or its maker is about to put it.
FilesAreKnown ==
  \A f \in Paths : disk[f] # Absent =>
    \/ \E k \in Keys : cacheMap[k] = f
    \/ \E t \in Threads : pc[t] \in HasFile /\ file[t] = f

QuietInv == Alone /\ (\A t \in Threads : Place(t)) /\ EntriesHaveFiles /\ FilesAreKnown

\* What the general invariant says of the one thread.
LEMMA QuietFacts ==
  ASSUME SInv, NEW t \in Threads, pc[t] # "idle"
  PROVE  /\ view[t] \in Views /\ session[t] \in Sessions /\ Hash(t) \in Keys
         /\ id[t] \in Paths /\ FileName(view[t]) \in Names /\ SessionKey(view[t]) \in Names
         /\ Plain(FileName(view[t])) =>
              IsCacheable(view[t]) /\ SessionKey(view[t]) = FileName(view[t])
         /\ ~Plain(FileName(view[t])) => tileFile[session[t]][FileName(view[t])] = Null
         /\ \A j, k \in Keys : cacheMap[j] = cacheMap[k] /\ cacheMap[j] # Null => j = k
         /\ \A k \in Keys : cacheMap[k] # Null /\ cacheMap[k] = file[t] => k = Hash(t)
         /\ pc[t] = "create" => \A k \in Keys : cacheMap[k] # id[t]
         /\ pc[t] = "extract" => file[t] = id[t]
         /\ pc[t] \in Reading => file[t] \in Paths /\ file[t] # Null
         /\ pc[t] \in Moving =>
              fileName[t] \in Paths /\ fileName[t] # Null /\ Plain(FileName(view[t]))
<1>1. PICK m \in Meanings : AgreeInv(m)
  BY DEF SInv
<1>2. ThreadInv(m, t) /\ CacheAgrees(m) /\ ServletTypeOK
  BY <1>1 DEF AgreeInv, SInv
<1>3. view[t] \in Views /\ session[t] \in Sessions /\ id[t] \in 1..asked
  BY <1>2 DEF ThreadInv
<1>4. Hash(t) \in Keys
  BY <1>3, ViewHasKey DEF Hash
<1>5. id[t] \in Paths /\ id[t] # Null
  BY <1>2, <1>3, IdIsPath, RequestAssumption DEF ServletTypeOK
<1>7. /\ FileName(view[t]) \in Names /\ SessionKey(view[t]) \in Names
      /\ Plain(FileName(view[t])) =>
           IsCacheable(view[t]) /\ SessionKey(view[t]) = FileName(view[t])
  BY <1>3, NamesTellTiles
<1>6. ~Plain(FileName(view[t])) => tileFile[session[t]][FileName(view[t])] = Null
  BY <1>1, <1>3, <1>7 DEF AgreeInv, SessionsAgree
<1>8. pc[t] = "create" => id[t] \in Unwritten
  BY DEF Unwritten, Early
<1>9. \A j, k \in Keys : cacheMap[j] = cacheMap[k] /\ cacheMap[j] # Null => j = k
  BY <1>2 DEF CacheAgrees
<1>10. \A k \in Keys : cacheMap[k] # Null /\ cacheMap[k] = file[t] => k = Hash(t)
  BY <1>2 DEF CacheAgrees, ThreadInv, IsFor
<1>11. pc[t] = "create" => \A k \in Keys : cacheMap[k] # id[t]
  BY <1>2, <1>5, <1>8 DEF CacheAgrees
<1>12. /\ pc[t] = "extract" => file[t] = id[t]
       /\ pc[t] \in Reading => file[t] \in Paths /\ file[t] # Null
       /\ pc[t] \in Moving =>
            fileName[t] \in Paths /\ fileName[t] # Null /\ Plain(FileName(view[t]))
  BY <1>1, <1>2 DEF ThreadInv, ServletTypeOK, AgreeInv, SendsInv, SendInv
<1> QED BY <1>3, <1>4, <1>5, <1>6, <1>7, <1>9, <1>10, <1>11, <1>12

\* A step of the one thread keeps what it says of the others.
LEMMA QuietStep ==
  ASSUME NEW t \in Threads, QuietInv, pc[t] # "idle", OthersKeep(t),
         \A u \in Threads \ {t} : branch'[u] = branch[u], Place(t)', EntriesHaveFiles', FilesAreKnown',
         SInv'
  PROVE  QuietInv'
<1>1. \A u \in Threads \ {t} : pc[u] = "idle" /\ pc'[u] = "idle"
  BY DEF QuietInv, Alone, OthersKeep
<1>2. Alone'
  BY <1>1 DEF Alone
<1>3. ASSUME NEW u \in Threads \ {t} PROVE Place(u)'
  <2>1. pc'[u] = "idle" /\ status'[u] = "none"
    BY <1>1 DEF SInv, AgreeInv, ThreadInv
  <2>2. branch'[u] # "simultaneous"
    BY DEF QuietInv, Place
  <2> QED BY <2>1, <2>2 DEF Place, HasFile
<1> QED BY <1>2, <1>3 DEF QuietInv

\* A step that leaves the entries and the files alone.
LEMMA QuietTiles ==
  ASSUME NEW t \in Threads, QuietInv, OthersKeep(t), UNCHANGED <<cacheMap, disk, view>>,
         pc[t] # "untile",
         pc[t] \in HasFile => pc'[t] \in HasFile /\ file'[t] = file[t]
  PROVE  EntriesHaveFiles' /\ FilesAreKnown'
<1>1. ASSUME NEW k \in Keys, cacheMap'[k] # Null,
             disk'[cacheMap'[k]] = Absent
      PROVE  \E u \in Threads : pc'[u] = "untile" /\ Hash(u)' = k
  <2>1. PICK u \in Threads : pc[u] = "untile" /\ Hash(u) = k
    BY <1>1 DEF QuietInv, EntriesHaveFiles
  <2>2. Hash(u)' = Hash(u)
    BY DEF Hash, TileHash, ScalingFactor, ScalingDims
  <2> QED BY <2>1, <2>2 DEF OthersKeep
<1>2. ASSUME NEW f \in Paths, disk'[f] # Absent
      PROVE  \/ \E k \in Keys : cacheMap'[k] = f
             \/ \E u \in Threads : pc'[u] \in HasFile /\ file'[u] = f
  <2>1. CASE \E k \in Keys : cacheMap[k] = f
    BY <2>1
  <2>2. CASE \E u \in Threads : pc[u] \in HasFile /\ file[u] = f
    BY <2>2 DEF OthersKeep
  <2> QED BY <1>2, <2>1, <2>2 DEF QuietInv, FilesAreKnown
<1> QED BY <1>1, <1>2 DEF EntriesHaveFiles, FilesAreKnown

\* The entry of a tile has its file, but where its thread has moved it.
LEMMA EntryHasFile ==
  ASSUME SInv, QuietInv, NEW t \in Threads, pc[t] \notin {"idle", "untile"},
         NEW k \in Keys, cacheMap[k] # Null
  PROVE  disk[cacheMap[k]] # Absent
BY DEF QuietInv, EntriesHaveFiles, Alone

\* resolve, where it changes neither entries nor files.
LEMMA QuietReading ==
  ASSUME SInv, SInv', QuietInv, NEW t \in Threads, OthersKeep(t), RequestStays(t),
         status'[t] # "notFound", UNCHANGED <<callVars, sessionVars, moveVars, stored>>,
         \/ FindRecord(t) \/ RecordMissing(t) \/ Render(t) \/ RenderFails(t)
         \/ Lookup(t) \/ ExtractNothing(t) \/ ExtractFails(t) \/ Recheck(t)
         \/ Open(t) \/ OpenFails(t) \/ Measure(t)
  PROVE  QuietInv'
<1> USE DEF GoTo, Fail, requestVars, responseVars, callVars, sessionVars, moveVars, tileVars,
            cacheVars
<1>0. /\ pc[t] \in {"record", "render", "lookup", "extract", "recheck", "open", "measure"}
      /\ Place(t) /\ ServletTypeOK
  BY DEF FindRecord, RecordMissing, Render, RenderFails, Lookup, ExtractNothing, ExtractFails,
         Recheck, Open, OpenFails, Measure, QuietInv, SInv
<1>1. /\ view[t] \in Views /\ Hash(t) \in Keys
      /\ Plain(FileName(view[t])) => IsCacheable(view[t])
      /\ pc[t] \in Reading => file[t] \in Paths /\ file[t] # Null
  BY <1>0, QuietFacts
<1>2. Hash(t)' = Hash(t) /\ view' = view
  BY DEF RequestStays, Hash, TileHash, ScalingFactor, ScalingDims
<1>7. Plain(FileName(view[t]))' = Plain(FileName(view[t]))
  BY <1>2 DEF Plain, FileName
<1>3. ~RecordMissing(t) /\ ~RenderFails(t) /\ ~ExtractFails(t) /\ ~OpenFails(t)
  <2>1. ~RecordMissing(t) /\ ~RenderFails(t) /\ ~ExtractFails(t)
    BY <1>0 DEF RecordMissing, RenderFails, ExtractFails, ServletTypeOK
  <2>3. ~OpenFails(t)
    BY <1>0, <1>1, EntryHasFile DEF OpenFails, Place, Reading
  <2> QED BY <2>1, <2>3
<1>4. /\ UNCHANGED <<cacheMap, disk>> /\ \A u \in Threads \ {t} : branch'[u] = branch[u]
      /\ pc[t] \in HasFile => pc'[t] \in HasFile /\ file'[t] = file[t]
      /\ Place(t)'
  <2>1. CASE FindRecord(t)
    <3>1. /\ pc'[t] \in {"lookup", "render"}
          /\ IsCacheable(view[t]) => pc'[t] = "lookup"
          /\ UNCHANGED <<cacheMap, disk, branch, status>>
          /\ pc[t] = "record"
      BY <1>0, <2>1 DEF FindRecord, ServletTypeOK
    <3>2. Plain(FileName(view[t]))' => Announced(t)'
      BY <1>1, <1>7, <3>1 DEF Announced
    <3> QED BY <1>0, <3>1, <3>2 DEF Place, HasFile
  <2>7. CASE Render(t)
    <3>1. /\ pc[t] = "render" /\ pc'[t] = "respond" /\ status'[t] = "ok"
          /\ UNCHANGED <<cacheMap, disk, branch>>
      BY <1>0, <2>7 DEF Render, ServletTypeOK
    <3>2. ~Plain(FileName(view[t]))
      BY <1>0, <3>1 DEF Place, Announced
    <3> QED BY <1>0, <1>7, <3>1, <3>2 DEF Place, HasFile
  <2>2. CASE Lookup(t)
    <3>1. cacheMap[Hash(t)] # Null => disk[cacheMap[Hash(t)]] # Absent
      BY <1>0, <1>1, EntryHasFile
    <3>2. /\ pc[t] = "lookup" /\ file'[t] = cacheMap[Hash(t)] /\ cacheMap' = cacheMap
          /\ \/ pc'[t] = "create" /\ cacheMap[Hash(t)] = Null /\ branch'[t] = branch[t]
             \/ pc'[t] = "open" /\ cacheMap[Hash(t)] # Null /\ branch'[t] = "hit"
          /\ \A u \in Threads \ {t} : branch'[u] = branch[u]
          /\ UNCHANGED <<disk, status>>
      BY <1>0, <2>2, <3>1 DEF Lookup, Get, ServletTypeOK
    <3> QED BY <1>0, <1>2, <3>2, <1>7 DEF Place, Announced, HasFile
  <2>3. CASE ExtractNothing(t)
    <3>1. /\ pc[t] = "extract" /\ pc'[t] = "recheck"
          /\ UNCHANGED <<cacheMap, disk, file, branch, cacheFile, status>>
      BY <1>0, <2>3 DEF ExtractNothing, ServletTypeOK
    <3> QED BY <1>0, <1>2, <3>1, <1>7 DEF Place, Announced, HasFile
  <2>4. CASE Recheck(t)
    <3>1. /\ pc[t] = "recheck" /\ cacheMap[Hash(t)] = Null
      BY <1>0, <2>4 DEF Recheck, Place, HasFile
    <3>2. /\ pc'[t] = "put" /\ branch'[t] = "made"
          /\ \A u \in Threads \ {t} : branch'[u] = branch[u]
          /\ UNCHANGED <<cacheMap, disk, file, cacheFile, status>>
      BY <1>0, <2>4, <3>1 DEF Recheck, Get, ServletTypeOK
    <3>3. cacheFile[t] = file[t]
      BY <1>0, <3>1 DEF Place, HasFile
    <3> QED BY <1>0, <1>2, <3>1, <3>2, <3>3, <1>7 DEF Place, Announced, HasFile
  <2>5. CASE Open(t)
    <3>1. /\ pc[t] = "open" /\ pc'[t] = "measure"
          /\ UNCHANGED <<cacheMap, disk, file, branch, cacheFile, status>>
      BY <1>0, <2>5 DEF Open, ServletTypeOK
    <3> QED BY <1>0, <1>2, <3>1, <1>7 DEF Place, Announced, HasFile
  <2>6. CASE Measure(t)
    <3>1. /\ pc[t] = "measure" /\ pc'[t] = "respond"
          /\ UNCHANGED <<cacheMap, disk, file, branch>>
          /\ cacheFile'[t] = IF branch[t] = "hit" THEN file[t] ELSE cacheFile[t]
          /\ status'[t] \in {"ok", "notFound"}
      BY <1>0, <2>6 DEF Measure, Place, ServletTypeOK
    <3> QED BY <1>0, <1>1, <1>2, <3>1, <1>7 DEF Place, Announced, HasFile, Reading
  <2> QED BY <1>3, <2>1, <2>2, <2>3, <2>4, <2>5, <2>6, <2>7
<1>5. EntriesHaveFiles' /\ FilesAreKnown'
  BY <1>0, <1>2, <1>4, QuietTiles
<1> QED BY <1>0, <1>4, <1>5, QuietStep

\* resolve, where it makes a file and puts it.
LEMMA QuietMaking ==
  ASSUME SInv, SInv', QuietInv, NEW t \in Threads, OthersKeep(t), RequestStays(t),
         UNCHANGED <<callVars, sessionVars, moveVars, stored>>, CreateTempFile(t) \/ Extract(t)
  PROVE  QuietInv'
<1> USE DEF GoTo, TempFile, requestVars, responseVars, callVars, sessionVars, moveVars, cacheVars
<1>0. /\ pc[t] \in {"create", "extract"} /\ Place(t) /\ ServletTypeOK
      /\ pc'[t] = IF pc[t] = "create" THEN "extract" ELSE "recheck"
      /\ UNCHANGED <<cacheMap, branch, status>>
  BY DEF CreateTempFile, Extract, QuietInv, SInv, ServletTypeOK
<1>1. /\ view[t] \in Views /\ Hash(t) \in Keys /\ id[t] \in Paths
      /\ pc[t] = "extract" => file[t] = id[t]
  BY <1>0, QuietFacts
<1>2. Hash(t)' = Hash(t) /\ view' = view
  BY DEF RequestStays, Hash, TileHash, ScalingFactor, ScalingDims
<1>3. /\ \E c \in Contents \ {Absent} : disk' = [disk EXCEPT ![id[t]] = c]
      /\ file'[t] = id[t] /\ cacheFile'[t] = id[t]
  <2>1. CASE CreateTempFile(t)
    <3>1. Empty \in Contents \ {Absent}
      BY NullAssumption DEF Contents
    <3> QED BY <1>0, <2>1, <3>1 DEF CreateTempFile, ServletTypeOK
  <2>2. CASE Extract(t)
    <3>1. Picture(view[t]) \in Contents \ {Absent}
      BY <1>1, ViewHasKey DEF Contents
    <3>2. pc[t] = "extract" /\ cacheFile[t] = file[t]
      BY <1>0, <2>2 DEF Extract, Place, HasFile
    <3> QED BY <1>0, <1>1, <2>2, <3>1, <3>2 DEF Extract, ServletTypeOK
  <2> QED BY <2>1, <2>2
<1>4. disk'[id[t]] # Absent /\ \A f \in Paths : f # id[t] => disk'[f] = disk[f]
  BY <1>0, <1>1, <1>3 DEF ServletTypeOK, TypeOK
<1>5. Place(t)'
  BY <1>0, <1>2, <1>3, <1>4 DEF Place, Announced, HasFile
<1>6. EntriesHaveFiles'
  <2> SUFFICES ASSUME NEW k \in Keys, cacheMap[k] # Null PROVE disk'[cacheMap[k]] # Absent
    BY <1>0 DEF EntriesHaveFiles
  <2>1. disk[cacheMap[k]] # Absent
    BY <1>0, EntryHasFile
  <2>2. cacheMap[k] \in Paths
    BY <1>0 DEF ServletTypeOK, TypeOK
  <2> QED BY <1>4, <2>1, <2>2
<1>7. FilesAreKnown'
  <2> SUFFICES ASSUME NEW f \in Paths, disk'[f] # Absent
               PROVE  \/ \E k \in Keys : cacheMap'[k] = f
                      \/ \E u \in Threads : pc'[u] \in HasFile /\ file'[u] = f
    BY DEF FilesAreKnown
  <2>1. CASE f = id[t]
    BY <1>0, <1>3, <2>1 DEF HasFile
  <2>2. CASE f # id[t]
    <3>1. ~ \E u \in Threads : pc[u] \in HasFile /\ file[u] = f
      BY <1>0, <1>1, <2>2 DEF QuietInv, Alone, HasFile
    <3> QED BY <1>0, <1>4, <2>2, <3>1 DEF QuietInv, FilesAreKnown
  <2> QED BY <2>1, <2>2
<1> QED BY <1>0, <1>5, <1>6, <1>7, QuietStep

LEMMA QuietPut ==
  ASSUME max_cache # 0, SInv, SInv', CacheInv, QuietInv, NEW t \in Threads,
         OthersKeep(t), RequestStays(t),
         UNCHANGED <<callVars, sessionVars, moveVars, stored>>, PutTile(t)
  PROVE  QuietInv'
<1> USE DEF GoTo, requestVars, responseVars, callVars, sessionVars, moveVars
<1> DEFINE h == Hash(t)
           g == file[t]
<1>0. /\ pc[t] = "put" /\ pc'[t] = "open" /\ Place(t) /\ ServletTypeOK
      /\ UNCHANGED <<branch, file, cacheFile, status>>
  BY DEF PutTile, QuietInv, SInv, ServletTypeOK
<1>1. /\ h \in Keys /\ g \in Paths /\ g # Null
      /\ \A j, k \in Keys : cacheMap[j] = cacheMap[k] /\ cacheMap[j] # Null => j = k
      /\ \A k \in Keys : cacheMap[k] # Null /\ cacheMap[k] = g => k = h
  BY <1>0, QuietFacts DEF Reading
<1>2. Hash(t)' = h /\ view' = view
  BY DEF RequestStays, Hash, TileHash, ScalingFactor, ScalingDims
<1>3. cacheMap[h] = Null /\ disk[g] # Absent /\ cacheFile[t] = g
  BY <1>0 DEF Place, HasFile
<1>4. PutNew(h, g)
  BY <1>0, <1>3 DEF PutTile, Put, PutExisting
<1>5. \/ cacheMap' = [cacheMap EXCEPT ![h] = g] /\ disk' = disk
      \/ \E e \in Cached(cacheMap) :
           /\ cacheMap' = [[cacheMap EXCEPT ![h] = g] EXCEPT ![e] = Null]
           /\ disk' = [disk EXCEPT ![cacheMap[e]] = Absent]
  BY <1>1, <1>4, NewKeyStays
<1> HIDE DEF h, g
<1>6. /\ cacheMap'[h] = g /\ disk'[g] # Absent
      /\ \A k \in Keys : cacheMap'[k] # Null => k = h \/
           (cacheMap'[k] = cacheMap[k] /\ disk'[cacheMap[k]] = disk[cacheMap[k]])
      /\ \A f \in Paths : disk'[f] # Absent => disk'[f] = disk[f] /\
           \A k \in Keys : k # h /\ cacheMap[k] = f => cacheMap'[k] = f
  <2>0. cacheMap \in [Keys -> Paths \cup {Null}] /\ disk \in [Paths -> Contents]
    BY <1>0 DEF ServletTypeOK, TypeOK
  <2>1. CASE cacheMap' = [cacheMap EXCEPT ![h] = g] /\ disk' = disk
    BY <1>1, <1>3, <2>0, <2>1
  <2>2. ASSUME NEW e \in Keys, cacheMap[e] # Null,
               cacheMap' = [[cacheMap EXCEPT ![h] = g] EXCEPT ![e] = Null],
               disk' = [disk EXCEPT ![cacheMap[e]] = Absent]
        PROVE  <1>6!:
    <3>1. e # h /\ cacheMap[e] # g /\ cacheMap[e] \in Paths
      BY <1>1, <1>3, <2>0, <2>2
    <3>2. \A k \in Keys : cacheMap'[k] = IF k = e THEN Null ELSE IF k = h THEN g ELSE cacheMap[k]
      BY <2>0, <2>2
    <3>3. \A f \in Paths : disk'[f] = IF f = cacheMap[e] THEN Absent ELSE disk[f]
      BY <2>0, <2>2
    <3>4. \A k \in Keys : cacheMap[k] # Null /\ k # e => cacheMap[k] # cacheMap[e]
      BY <1>1
    <3>5. cacheMap'[h] = g /\ disk'[g] # Absent
      BY <1>1, <1>3, <3>1, <3>2, <3>3
    <3>6. ASSUME NEW k \in Keys, cacheMap'[k] # Null, k # h
          PROVE  cacheMap'[k] = cacheMap[k] /\ disk'[cacheMap[k]] = disk[cacheMap[k]]
      BY <2>0, <3>2, <3>3, <3>4, <3>6
    <3>7. ASSUME NEW f \in Paths, disk'[f] # Absent
          PROVE  /\ disk'[f] = disk[f]
                 /\ \A k \in Keys : k # h /\ cacheMap[k] = f => cacheMap'[k] = f
      BY <3>2, <3>3, <3>7
    <3> QED BY <3>5, <3>6, <3>7
  <2> QED BY <1>5, <2>1, <2>2 DEF Cached
<1>7. Place(t)'
  BY <1>0, <1>2, <1>3, <1>6 DEF Place, Announced, HasFile, g
<1>8. EntriesHaveFiles'
  <2> SUFFICES ASSUME NEW k \in Keys, cacheMap'[k] # Null PROVE disk'[cacheMap'[k]] # Absent
    BY DEF EntriesHaveFiles
  <2>1. cacheMap[k] # Null => disk[cacheMap[k]] # Absent
    BY <1>0, EntryHasFile
  <2> QED BY <1>6, <2>1
<1>9. FilesAreKnown'
  <2> SUFFICES ASSUME NEW f \in Paths, disk'[f] # Absent
               PROVE  \E k \in Keys : cacheMap'[k] = f
    BY DEF FilesAreKnown
  <2>1. disk[f] # Absent
    BY <1>6
  <2>2. CASE f = g
    BY <1>1, <1>6, <2>2
  <2>3. CASE f # g
    <3>1. ~ \E u \in Threads : pc[u] \in HasFile /\ file[u] = f
      BY <1>0, <2>3 DEF QuietInv, Alone, HasFile, g
    <3>2. PICK k \in Keys : cacheMap[k] = f
      BY <2>1, <3>1 DEF QuietInv, FilesAreKnown
    <3>3. f # Null
      BY NullAssumption
    <3> QED BY <1>3, <1>6, <3>2, <3>3
  <2> QED BY <2>2, <2>3
<1> QED BY <1>0, <1>7, <1>8, <1>9, QuietStep

\* The servlet, where it moves nothing.
LEMMA QuietServing ==
  ASSUME SInv, SInv', QuietInv, NEW t \in Threads, OthersKeep(t), RequestStays(t),
         \/ ServeStored(t) \/ Forward(t) \/ SetTileFile(t) \/ SetTileKey(t) \/ NoSessionData(t)
         \/ FetchFile(t) \/ FetchKey(t) \/ CheckExists(t) \/ ForgetFile(t) \/ ForgetKey(t)
  PROVE  QuietInv'
<1> USE DEF GoTo, KeepService, AfterResponse, requestVars, responseVars, callVars, sessionVars,
            moveVars, noteVars, servletVars, tileVars, cacheVars
<1> DEFINE h == Hash(t)
           s == session[t]
           n == FileName(view[t])
<1>0. /\ pc[t] \in {"check", "respond", "setKey", "setFile", "fetchFile", "fetchKey", "exists",
                    "forgetFile", "forgetKey"}
      /\ UNCHANGED <<cacheMap, disk, branch, file, cacheFile, stored, viaIIIF>>
      /\ Place(t) /\ ServletTypeOK
  BY DEF ServeStored, Forward, SetTileFile, SetTileKey, NoSessionData, FetchFile, FetchKey,
         CheckExists, ForgetFile, ForgetKey, QuietInv, SInv
<1>1. /\ h \in Keys /\ s \in Sessions /\ n \in Names /\ SessionKey(view[t]) \in Names
      /\ Plain(n) => SessionKey(view[t]) = n
      /\ ~Plain(n) => tileFile[s][n] = Null
      /\ pc[t] \in Moving => fileName[t] \in Paths /\ fileName[t] # Null /\ Plain(n)
  BY <1>0, QuietFacts
<1>2. Hash(t)' = h /\ view' = view /\ session' = session
  BY DEF RequestStays, Hash, TileHash, ScalingFactor, ScalingDims
<1>3. FileName(view[t])' = n
  BY <1>2 DEF FileName
<1>7. Plain(FileName(view[t]))' = Plain(n)
  BY <1>3 DEF Plain
<1>4. \A k \in Keys : cacheMap[k] # Null => disk[cacheMap[k]] # Absent
  BY <1>0, EntryHasFile
<1> HIDE DEF h, n, s
<1>5. Place(t)'
  <2>1. CASE ServeStored(t)
    <3>1. pc'[t] = "sent" /\ stored[n] # Absent /\ status'[t] = "ok"
      BY <1>0, <2>1 DEF ServeStored, ServletTypeOK, n
    <3> QED BY <1>0, <1>2, <1>3, <3>1 DEF Place, Announced, HasFile
  <2>2. CASE Forward(t)
    <3>1. pc'[t] = "record" /\ status' = status
      BY <1>0, <2>2 DEF Forward, ServletTypeOK
    <3> QED BY <1>0, <3>1 DEF Place, Announced, HasFile
  <2>3. CASE SetTileFile(t)
    <3>1. /\ status' = status /\ tileKey' = tileKey
          /\ tileFile'[s][SessionKey(view[t])] = cacheFile[t]
          /\ \/ pc[t] = "respond" /\ pc'[t] = "setKey"
             \/ pc[t] = "setFile" /\ pc'[t] = IF viaIIIF[t] THEN "fetchFile" ELSE "sent"
          /\ pc'[t] = "sent" => ~viaIIIF[t]
      BY <1>0, <1>1, <2>3 DEF SetTileFile, ServletTypeOK, s
    <3>2. CASE Plain(n)
      <4>1. Announced(t) /\ tileFile'[s][n] = cacheFile[t]
        BY <1>0, <1>1, <3>1, <3>2 DEF Place, n
      <4>2. Announced(t)'
        BY <1>0, <1>2, <1>3, <3>1, <4>1 DEF Announced, h, s, n
      <4> QED BY <1>0, <3>1, <4>2 DEF Place, HasFile
    <3>3. CASE ~Plain(n)
      BY <1>0, <1>7, <3>1, <3>3 DEF Place, HasFile
    <3> QED BY <3>2, <3>3
  <2>4. CASE SetTileKey(t)
    <3>1. /\ status' = status /\ tileFile' = tileFile
          /\ pc[t] \in {"respond", "setKey"}
          /\ \/ pc[t] = "respond" /\ pc'[t] = "setFile"
             \/ pc[t] = "setKey" /\ pc'[t] = IF viaIIIF[t] THEN "fetchFile" ELSE "sent"
          /\ pc'[t] = "sent" => ~viaIIIF[t]
      BY <1>0, <2>4 DEF SetTileKey, ServletTypeOK, Place
    <3>2. CASE Plain(n)
      <4>1. Announced(t) /\ cacheFile[t] \in Paths
        BY <1>0, <3>1, <3>2 DEF Place, Announced, n, ServletTypeOK
      <4>2. tileKey'[s][cacheFile[t]] = h
        BY <1>0, <1>1, <2>4, <4>1 DEF SetTileKey, ServletTypeOK, s, h
      <4>3. Announced(t)'
        BY <1>0, <1>2, <1>3, <3>1, <4>1, <4>2 DEF Announced, h, s, n
      <4> QED BY <1>0, <3>1, <4>3 DEF Place, HasFile
    <3>3. CASE ~Plain(n)
      BY <1>0, <1>7, <3>1, <3>3 DEF Place, HasFile
    <3> QED BY <3>2, <3>3
  <2>5. CASE NoSessionData(t)
    <3>1. /\ pc[t] = "respond" /\ cacheFile[t] = Null /\ pc'[t] \in {"fetchFile", "sent"}
          /\ status' = status
      BY <1>0, <2>5 DEF NoSessionData, ServletTypeOK
    <3>2. ~Plain(n)
      BY <1>0, <3>1 DEF Place, Announced, n
    <3> QED BY <1>0, <1>7, <3>1, <3>2 DEF Place, HasFile
  <2>6. CASE FetchFile(t)
    <3>1. /\ status' = status /\ tileKey' = tileKey /\ pc[t] = "fetchFile"
          /\ fileName'[t] = tileFile[s][n]
          /\ pc'[t] = IF tileFile[s][n] = Null THEN "sent" ELSE "fetchKey"
      BY <1>0, <1>1, <2>6 DEF FetchFile, ServletTypeOK, s, n
    <3>2. CASE Plain(n)
      <4>1. tileFile[s][n] = cacheMap[h] /\ cacheMap[h] # Null /\ tileKey[s][cacheMap[h]] = h
        BY <1>0, <3>1, <3>2 DEF Place, Announced, h, s, n
      <4> QED BY <1>0, <1>2, <3>1, <4>1 DEF Place, Announced, HasFile, h, s
    <3>3. CASE ~Plain(n)
      <4>1. pc'[t] = "sent"
        BY <1>1, <3>1, <3>3
      <4> QED BY <1>0, <1>7, <3>1, <3>3, <4>1 DEF Place, HasFile
    <3> QED BY <3>2, <3>3
  <2>7. CASE FetchKey(t)
    <3>1. /\ status' = status /\ fileName' = fileName /\ pc[t] = "fetchKey" /\ pc'[t] = "exists"
          /\ cacheName'[t] = tileKey[s][fileName[t]]
      BY <1>0, <1>1, <2>7 DEF FetchKey, ServletTypeOK, s
    <3> QED BY <1>0, <1>2, <1>3, <3>1 DEF Place, Announced, HasFile, h, s, n
  <2>8. CASE CheckExists(t)
    <3>1. disk[fileName[t]] # Absent
      BY <1>0, <1>1, <1>4, <2>8 DEF CheckExists, Place, Moving, h
    <3>2. /\ status' = status /\ fileName' = fileName /\ cacheName' = cacheName
          /\ pc[t] = "exists" /\ pc'[t] = "rename"
      BY <1>0, <2>8, <3>1 DEF CheckExists, ServletTypeOK
    <3> QED BY <1>0, <1>2, <1>3, <3>2 DEF Place, Announced, HasFile, h
  <2>9. CASE ForgetFile(t)
    <3>1. status' = status /\ pc[t] = "forgetFile" /\ pc'[t] = "forgetKey"
      BY <1>0, <2>9 DEF ForgetFile, ServletTypeOK
    <3> QED BY <1>0, <1>2, <1>3, <3>1 DEF Place, Announced, HasFile, n
  <2>10. CASE ForgetKey(t)
    <3>1. status' = status /\ pc[t] = "forgetKey" /\ pc'[t] = "sent"
      BY <1>0, <2>10 DEF ForgetKey, ServletTypeOK
    <3> QED BY <1>0, <1>2, <1>3, <3>1 DEF Place, Announced, HasFile, n
  <2> QED BY <2>1, <2>2, <2>3, <2>4, <2>5, <2>6, <2>7, <2>8, <2>9, <2>10
<1>6. EntriesHaveFiles' /\ FilesAreKnown'
  BY <1>0, <1>2, QuietTiles DEF HasFile
<1> QED BY <1>0, <1>5, <1>6, QuietStep

\* The servlet, where it moves a file and removes its entry.
LEMMA QuietMoving ==
  ASSUME SInv, SInv', QuietInv, NEW t \in Threads, OthersKeep(t), RequestStays(t),
         Rename(t) \/ Untile(t)
  PROVE  QuietInv'
<1> USE DEF GoTo, requestVars, responseVars, callVars, sessionVars, moveVars, noteVars,
            servletVars, cacheVars
<1> DEFINE h == Hash(t)
           g == fileName[t]
           n == FileName(view[t])
<1>0. /\ pc[t] \in {"rename", "untile"} /\ Place(t) /\ ServletTypeOK
      /\ UNCHANGED <<branch, file, cacheFile, status, fileName, cacheName>>
  BY DEF Rename, Untile, QuietInv, SInv
<1>1. /\ h \in Keys /\ n \in Names /\ g \in Paths /\ g # Null
      /\ \A j, k \in Keys : cacheMap[j] = cacheMap[k] /\ cacheMap[j] # Null => j = k
  BY <1>0, QuietFacts DEF Moving
<1>2. Hash(t)' = h /\ view' = view
  BY DEF RequestStays, Hash, TileHash, ScalingFactor, ScalingDims
<1>3. FileName(view[t])' = n
  BY <1>2 DEF FileName
<1>4. cacheMap[h] = g /\ cacheName[t] = h
  BY <1>0 DEF Place
<1>5. cacheMap \in [Keys -> Paths \cup {Null}] /\ disk \in [Paths -> Contents]
  BY <1>0 DEF ServletTypeOK, TypeOK
<1>6. /\ disk'[g] = Absent /\ \A f \in Paths : f # g => disk'[f] = disk[f]
      /\ \A k \in Keys : k # h => cacheMap'[k] = cacheMap[k]
      /\ pc[t] = "rename" => cacheMap' = cacheMap /\ pc'[t] = "untile"
      /\ pc[t] = "untile" => cacheMap'[h] = Null /\ pc'[t] = "forgetFile"
      /\ stored'[n] # Absent
  <2>1. CASE Rename(t)
    BY <1>0, <1>1, <1>5, <2>1 DEF Rename, ServletTypeOK
  <2>2. CASE Untile(t)
    <3>1. stored[n] # Absent
      BY <1>0, <2>2 DEF Place, Untile
    <3>2. h # Null
      BY <1>1, NullAssumption
    <3> QED BY <1>0, <1>1, <1>4, <1>5, <2>2, <3>1, <3>2 DEF Untile, Remove, ServletTypeOK
  <2> QED BY <2>1, <2>2
<1> HIDE DEF h, g, n
<1>7. Place(t)'
  BY <1>0, <1>2, <1>3, <1>4, <1>6 DEF Place, Announced, HasFile, g
<1>8. \A u \in Threads : pc[u] \notin HasFile
  BY <1>0 DEF QuietInv, Alone, HasFile
<1>9. EntriesHaveFiles'
  <2> SUFFICES ASSUME NEW k \in Keys, cacheMap'[k] # Null
               PROVE  \/ disk'[cacheMap'[k]] # Absent
                      \/ \E u \in Threads : pc'[u] = "untile" /\ Hash(u)' = k
    BY DEF EntriesHaveFiles
  <2>1. CASE k = h
    BY <1>0, <1>2, <1>6, <2>1
  <2>2. CASE k # h
    <3>1. cacheMap'[k] = cacheMap[k] /\ cacheMap[k] # g /\ cacheMap[k] \in Paths
      BY <1>1, <1>4, <1>5, <1>6, <2>2
    <3>2. disk[cacheMap[k]] # Absent
      BY <1>0, <2>2, <3>1 DEF QuietInv, EntriesHaveFiles, Alone, h
    <3> QED BY <1>6, <3>1, <3>2
  <2> QED BY <2>1, <2>2
<1>10. FilesAreKnown'
  <2> SUFFICES ASSUME NEW f \in Paths, disk'[f] # Absent
               PROVE  \E k \in Keys : cacheMap'[k] = f
    BY DEF FilesAreKnown
  <2>1. f # g /\ disk[f] # Absent
    BY <1>6
  <2>2. PICK k \in Keys : cacheMap[k] = f
    BY <1>8, <2>1 DEF QuietInv, FilesAreKnown
  <2> QED BY <1>4, <1>6, <2>1, <2>2
<1> QED BY <1>0, <1>7, <1>9, <1>10, QuietStep

\* A request comes, or is over, when every other thread is idle.
LEMMA QuietComeAndGo ==
  ASSUME SInv, SInv', QuietInv, NEW t \in Threads,
         \/ Finish(t)
         \/ /\ \E v \in Views, s \in Sessions, iiif \in BOOLEAN : Arrive(t, v, s, iiif)
            /\ \A u \in Threads : pc[u] = "idle"
  PROVE  QuietInv'
<1> USE DEF Finish, Release, Arrive, Receive, GoTo, responseVars
<1>0. /\ pc'[t] \in {"idle", "check", "record"} /\ branch'[t] \in {"none", branch[t]}
      /\ \A u \in Threads \ {t} : pc[u] = "idle" /\ pc'[u] = "idle" /\ branch'[u] = branch[u]
      /\ \A u \in Threads : pc[u] \notin HasFile /\ pc[u] # "untile"
      /\ UNCHANGED <<cacheMap, disk>>
  BY DEF QuietInv, Alone, SInv, ServletTypeOK, HasFile, tileVars
<1>1. \A u \in Threads : status'[u] # "error"
  <2>1. \A u \in Threads : pc'[u] = "idle" => status'[u] = "none"
    BY DEF SInv, AgreeInv, ThreadInv
  <2>2. pc'[t] # "idle" => status'[t] = status[t]
    BY DEF SInv, ServletTypeOK
  <2> QED BY <1>0, <2>1, <2>2 DEF QuietInv, Place
<1>2. Alone'
  BY <1>0 DEF Alone
<1>3. \A u \in Threads : Place(u)'
  BY <1>0, <1>1 DEF QuietInv, Place, Announced, HasFile
<1>4. EntriesHaveFiles' /\ FilesAreKnown'
  BY <1>0 DEF QuietInv, EntriesHaveFiles, FilesAreKnown
<1> QED BY <1>2, <1>3, <1>4 DEF QuietInv

\* Only get, put and remove touch the tile cache.
LEMMA StepKeepsCache ==
  ASSUME SInv, CacheInv, NEW t \in Threads, Step(t)
  PROVE  CacheInv'
<1> USE DEF Fail, KeepService, tileVars, servletVars
<1>1. CASE UNCHANGED cacheVars
  BY <1>1 DEF cacheVars, CacheInv, RecencyIsLinear, SizeBounded, Cached
<1>2. CASE Lookup(t) \/ Recheck(t)
  <2>1. pc[t] # "idle" /\ Get(Hash(t))
    BY <1>2 DEF Lookup, Recheck
  <2> QED BY <2>1, QuietFacts, GetKeepsCache
<1>3. CASE PutTile(t)
  <2>1. pc[t] = "put" /\ Put(Hash(t), file[t])
    BY <1>3 DEF PutTile
  <2>2. Hash(t) \in Keys /\ file[t] \in Paths
    BY <2>1, QuietFacts DEF Reading
  <2> QED BY <2>1, <2>2, PutExistingKeepsCache, PutNewKeepsCache DEF Put
<1>4. CASE Untile(t)
  <2>1. CASE cacheName[t] = Null
    BY <1>1, <1>4, <2>1 DEF Untile, cacheVars
  <2>2. CASE cacheName[t] # Null
    BY <1>4, <2>2, RemoveKeepsCache DEF Untile, SInv, ServletTypeOK
  <2> QED BY <2>1, <2>2
<1>5. CASE FindRecord(t) \/ RecordMissing(t) \/ Render(t) \/ RenderFails(t) \/ CreateTempFile(t)
  BY <1>1, <1>5 DEF FindRecord, RecordMissing, Render, RenderFails, CreateTempFile, cacheVars
<1>6. CASE \/ Extract(t) \/ ExtractNothing(t) \/ ExtractFails(t) \/ Open(t) \/ OpenFails(t)
           \/ Measure(t)
  BY <1>1, <1>6 DEF Extract, ExtractNothing, ExtractFails, Open, OpenFails, Measure, cacheVars
<1>7. CASE \/ ServeStored(t) \/ Forward(t) \/ SetTileFile(t) \/ SetTileKey(t) \/ NoSessionData(t)
           \/ FetchFile(t) \/ FetchKey(t) \/ CheckExists(t)
  BY <1>1, <1>7 DEF ServeStored, Forward, SetTileFile, SetTileKey, NoSessionData, FetchFile,
     FetchKey, CheckExists, cacheVars
<1>8. CASE Rename(t) \/ RenameFails(t) \/ ForgetFile(t) \/ ForgetKey(t) \/ Finish(t)
  BY <1>1, <1>8 DEF Rename, RenameFails, ForgetFile, ForgetKey, Finish, cacheVars
<1> QED BY <1>2, <1>3, <1>4, <1>5, <1>6, <1>7, <1>8 DEF Step, ResolveStep, Resolve, Outside, Local

\* While nothing disturbs it the one request keeps what it knows. (disturbed is kept for
\* these properties: once it is true nothing more is said.)
DisturbedInv ==
  /\ disturbed \in BOOLEAN
  /\ ~disturbed => QuietInv

LEMMA StepKeepsQuiet ==
  ASSUME max_cache # 0, SInv, SInv', CacheInv, DisturbedInv, NEW t \in Threads,
         Step(t)
  PROVE  DisturbedInv'
<1>1. OthersKeep(t) /\ (Finish(t) \/ RequestStays(t))
  BY ServletFrame DEF SInv
<1>2. CASE ResolveStep(t)
  <2>1. /\ Resolve(t) /\ UNCHANGED <<callVars, sessionVars, moveVars, stored>>
        /\ disturbed' = (disturbed \/ status'[t] = "notFound")
    BY <1>2 DEF ResolveStep
  <2>2. RequestStays(t)
    BY <2>1, ResolveFrame DEF SInv
  <2>3. ASSUME QuietInv, status'[t] # "notFound" PROVE QuietInv'
    BY <1>1, <2>1, <2>2, <2>3, QuietReading, QuietMaking, QuietPut DEF Resolve, Outside, Local
  <2> QED BY <2>1, <2>3 DEF DisturbedInv
<1>3. CASE Finish(t)
  BY <1>3, QuietComeAndGo DEF DisturbedInv, Finish, noteVars
<1>4. CASE /\ RequestStays(t)
           /\ \/ ServeStored(t) \/ Forward(t) \/ SetTileFile(t) \/ SetTileKey(t)
              \/ NoSessionData(t) \/ FetchFile(t) \/ FetchKey(t) \/ CheckExists(t)
              \/ ForgetFile(t) \/ ForgetKey(t)
  <2>1. disturbed' = disturbed
    BY <1>4 DEF ServeStored, Forward, SetTileFile, SetTileKey, NoSessionData, FetchFile,
       FetchKey, CheckExists, ForgetFile, ForgetKey, noteVars, servletVars
  <2> QED BY <1>1, <1>4, <2>1, QuietServing DEF DisturbedInv
<1>5. CASE RequestStays(t) /\ (Rename(t) \/ Untile(t))
  <2>1. disturbed' = disturbed
    BY <1>5 DEF Rename, Untile, noteVars, servletVars
  <2> QED BY <1>1, <1>5, <2>1, QuietMoving DEF DisturbedInv
<1>6. CASE RenameFails(t)
  BY <1>6 DEF RenameFails, DisturbedInv
<1> QED BY <1>1, <1>2, <1>3, <1>4, <1>5, <1>6 DEF Step

OneByOneInv == SInv /\ CacheInv /\ DisturbedInv

LEMMA NextKeepsOneByOne ==
  ASSUME max_cache # 0, OneByOneInv, [ServletNext]_vars
  PROVE  OneByOneInv'
<1> USE DEF OneByOneInv
<1>1. SInv'
  BY NextKeepsInv
<1>2. ASSUME NEW t \in Threads, Step(t) PROVE CacheInv' /\ DisturbedInv'
  BY <1>1, <1>2, StepKeepsCache, StepKeepsQuiet
<1>3. ASSUME NEW t \in Threads, NEW v \in Views, NEW s \in Sessions, NEW iiif \in BOOLEAN,
             Arrive(t, v, s, iiif)
      PROVE  CacheInv' /\ DisturbedInv'
  <2>1. UNCHANGED tileVars /\ disturbed' = (disturbed \/ \E u \in Threads : pc[u] # "idle")
    BY <1>3 DEF Arrive, Receive
  <2>2. ASSUME QuietInv, \A u \in Threads : pc[u] = "idle" PROVE QuietInv'
    BY <1>1, <1>3, <2>2, QuietComeAndGo
  <2>3. CacheInv'
    BY <2>1 DEF tileVars, CacheInv, RecencyIsLinear, SizeBounded, Cached
  <2> QED BY <2>1, <2>2, <2>3 DEF DisturbedInv
<1>4. CASE UNCHANGED vars
  <2> USE <1>4 DEF vars, serviceVars, localVars, servletVars, tileVars, cacheVars, requestVars,
                   responseVars, sessionVars, callVars, moveVars, noteVars
  <2>1. CacheInv'
    BY DEF CacheInv, RecencyIsLinear, SizeBounded, Cached
  <2>2. \A u \in Threads : /\ Hash(u)' = Hash(u) /\ FileName(view[u])' = FileName(view[u])
                            /\ Plain(FileName(view[u]))' = Plain(FileName(view[u]))
    BY DEF Hash, TileHash, ScalingFactor, ScalingDims, FileName, Plain
  <2>3. ASSUME QuietInv PROVE QuietInv'
    BY <2>2, <2>3 DEF QuietInv, Alone, Place, Announced, EntriesHaveFiles, FilesAreKnown
  <2> QED BY <1>1, <2>1, <2>3 DEF DisturbedInv
<1> QED BY <1>1, <1>2, <1>3, <1>4 DEF ServletNext

LEMMA OneByOneHolds ==
  ASSUME max_cache # 0
  PROVE  ServletSpec => []OneByOneInv
<1>1. ServletInit => OneByOneInv
  <2> SUFFICES ASSUME ServletInit PROVE OneByOneInv
    OBVIOUS
  <2>1. SInv /\ CacheInv
    BY InitAgrees, InitCache DEF ServletInit, ServiceInit
  <2>2. QuietInv /\ ~disturbed /\ disturbed \in BOOLEAN
    BY DEF ServletInit, ServiceInit, Init, QuietInv, Alone, Place, HasFile, EntriesHaveFiles,
           FilesAreKnown
  <2> QED BY <2>1, <2>2 DEF OneByOneInv, DisturbedInv
<1>2. OneByOneInv /\ [ServletNext]_vars => OneByOneInv'
  BY NextKeepsOneByOne
<1> QED BY <1>1, <1>2, PTL DEF ServletSpec

\* What cacheNewImage is for: a tile a IIIF request was answered with is in the permanent
\* cache when the request is over, as long as requests come one after the other, nothing
\* fails, and the tile cache can hold a tile at all.
THEOREM AnsweredIsStored ==
  max_cache # 0 => (ServletSpec => []AnsweredTilesAreStored)
<1> SUFFICES ASSUME max_cache # 0 PROVE ServletSpec => []AnsweredTilesAreStored
  OBVIOUS
<1>1. OneByOneInv => AnsweredTilesAreStored
  <2> SUFFICES ASSUME SInv, QuietInv, NEW t \in Threads, pc[t] = "sent", viaIIIF[t]
               PROVE  stored[FileName(view[t])] # Absent <=> FileName(view[t]) = SessionKey(view[t])
    BY DEF OneByOneInv, DisturbedInv, AnsweredTilesAreStored
  <2>1. /\ view[t] \in Views /\ FileName(view[t]) \in Names
        /\ Plain(FileName(view[t])) <=> FileName(view[t]) = SessionKey(view[t])
    BY QuietFacts, NamesTellTiles
  <2>2. stored[FileName(view[t])] # Absent => Plain(FileName(view[t]))
    BY <2>1, StoredIsPlain DEF SInv, AgreeInv
  <2>3. Plain(FileName(view[t])) => stored[FileName(view[t])] # Absent
    BY DEF QuietInv, Place, Announced
  <2> QED BY <2>1, <2>2, <2>3
<1> QED BY <1>1, OneByOneHolds, PTL

\* Under the same conditions resolve answers no 500 and every temporary file is known to the
\* tile cache again when no request is under way. (With a capacity of 0 every put deletes
\* the file that is about to be read.)
THEOREM NothingIsRefused ==
  max_cache # 0 => (ServletSpec => []NothingRefusedOrForgotten)
<1> SUFFICES ASSUME max_cache # 0 PROVE ServletSpec => []NothingRefusedOrForgotten
  OBVIOUS
<1>1. OneByOneInv => NothingRefusedOrForgotten
  <2> SUFFICES ASSUME QuietInv PROVE NothingRefusedOrForgotten
    BY DEF OneByOneInv, DisturbedInv, NothingRefusedOrForgotten
  <2>1. \A u \in Threads : status[u] # "error"
    BY DEF QuietInv, Place
  <2>2. NoOrphanFiles
    <3> SUFFICES ASSUME \A u \in Threads : pc[u] = "idle", NEW f \in Paths, disk[f] # Absent
                 PROVE  f \in MappedFiles
      BY DEF NoOrphanFiles
    <3>1. PICK k \in Keys : cacheMap[k] = f
      BY DEF QuietInv, FilesAreKnown, HasFile
    <3> QED BY <3>1, NullAssumption DEF MappedFiles, Cached
  <2> QED BY <2>1, <2>2 DEF NothingRefusedOrForgotten
<1> QED BY <1>1, OneByOneHolds, PTL
=============================================================================
