---------------------------- MODULE CacheProofs ----------------------------
(***************************************************************************)
(* For any number of clients, readers, entries and sectors: a sector is in *)
(* the cache at most once, and read_ahead_threads covers every read-ahead  *)
(* thread, so that it never wraps below zero.                              *)
(***************************************************************************)
EXTENDS BufferCache, FiniteSetTheorems, TLAPS

(* The inductive invariant: uniqueness needs that a miss stays a miss      *)
(* while the victim is written back, which needs the lock; the type of the *)
(* counter needs that it counts.                                           *)
IInv ==
  /\ TypeOK /\ LockHeld /\ MissHolds /\ Asked
  /\ UniqueSector /\ AheadCounted

(* Steps that leave every entry with its sector. *)
SameSectors ==
  \A i \in Entry : cache'[i].sector = cache[i].sector /\ cache'[i].free = cache[i].free

(* What a thread in a call works on. *)
LEMMA AskType ==
  ASSUME NEW r \in Asks
  PROVE  r.sector \in Sector /\ (r.kind = "write" => r.data \in Data)
  BY DEF Asks, Requests

(* The cache keeps its type when an entry's dirty bit changes, alone, with *)
(* the sector or the tick, and when its sector changes, alone or with free. *)
LEMMA DirtyType ==
  ASSUME cache \in [Entry -> EntryType], NEW i \in Entry,
         NEW d \in BOOLEAN, NEW s \in Sector, NEW n \in Nat
  PROVE  /\ [cache EXCEPT ![i].dirty = d] \in [Entry -> EntryType]
         /\ [cache EXCEPT ![i].dirty = d, ![i].sector = s] \in [Entry -> EntryType]
         /\ [cache EXCEPT ![i].dirty = d, ![i].tick = n] \in [Entry -> EntryType]
         /\ [cache EXCEPT ![i].sector = s] \in [Entry -> EntryType]
         /\ [cache EXCEPT ![i].sector = s, ![i].free = d] \in [Entry -> EntryType]
  <1>1. [cache EXCEPT ![i].dirty = d] \in [Entry -> EntryType] BY DEF EntryType
  <1>2. [cache EXCEPT ![i].dirty = d, ![i].sector = s] \in [Entry -> EntryType]
    BY DEF EntryType
  <1>3. [cache EXCEPT ![i].dirty = d, ![i].tick = n] \in [Entry -> EntryType]
    BY DEF EntryType
  <1>4. [cache EXCEPT ![i].sector = s] \in [Entry -> EntryType] BY DEF EntryType
  <1>5. [cache EXCEPT ![i].sector = s, ![i].free = d] \in [Entry -> EntryType]
    BY DEF EntryType
  <1> QED BY <1>1, <1>2, <1>3, <1>4, <1>5

(* The type invariant, but for the counter. *)
Shape ==
  /\ cache \in [Entry -> EntryType]
  /\ disk \in [Sector -> Data]
  /\ cache_lock \in Thread \cup {NULL}
  /\ ticks \in Nat
  /\ pc \in [Thread -> PC]
  /\ request \in [Thread -> Asks \cup {NULL}]
  /\ entry \in [Thread -> Entry]
  /\ buffer \in [Client -> Data]

(* Every step keeps the types. *)
LEMMA NextShape ==
  ASSUME Shape, Asked, Next
  PROVE  Shape'
  <1> USE CacheAssumption DEF Shape, Goto, Thread, PC, EntryType
  <1>0. \A t \in Thread : request[t] # NULL =>
           /\ request[t].sector \in Sector
           /\ request[t].kind = "write" => request[t].data \in Data
    BY AskType
  <1>a. 0 \in Entry BY DEF Entry
  <1>b. 0 \in Sector /\ 0 \in Nat BY DEF Sector
  <1>1. ASSUME NEW c \in Client, NEW r \in Requests, Call(c, r) PROVE Shape'
    BY <1>1, <1>0 DEF Call, Asks
  <1>2. ASSUME NEW c \in Client, Copy(c) PROVE Shape'
    <2>1. request[c] # NULL /\ entry[c] \in Entry BY <1>2 DEF Copy, Asked
    <2>2. CASE request[c].kind = "read" BY <1>2, <2>1, <2>2 DEF Copy
    <2>3. CASE request[c].kind = "write"
      <3>1. request[c].data \in Data BY <1>0, <2>1, <2>3
      <3>2. /\ cache' = [cache EXCEPT ![entry[c]].data = request[c].data]
            /\ buffer' = buffer
        BY <1>2, <2>3 DEF Copy
      <3>3. cache' \in [Entry -> EntryType] BY <2>1, <3>1, <3>2
      <3> HIDE DEF EntryType
      <3> QED BY <1>2, <3>2, <3>3 DEF Copy
    <2> QED BY <1>2, <2>2, <2>3 DEF Copy
  <1>3. ASSUME NEW c \in Client, Mark(c) PROVE Shape'
    <2>1. cache' \in [Entry -> EntryType]
      <3> DEFINE d == cache[entry[c]].dirty \/ request[c].kind = "write"
      <3>1. d \in BOOLEAN OBVIOUS
      <3>2. cache' = [cache EXCEPT ![entry[c]].dirty = d, ![entry[c]].tick = ticks]
        BY <1>3 DEF Mark
      <3> HIDE DEF d, EntryType
      <3> QED BY <3>1, <3>2, DirtyType, <1>b
    <2> QED BY <1>3, <1>a, <2>1 DEF Mark
  <1>4. ASSUME NEW c \in Client, NEW s \in Sector, cache_read_async(c, s) PROVE Shape'
    BY <1>4, <1>0 DEF cache_read_async, Asks
  <1>5. ASSUME NEW c \in Client, NEW t \in Reader, Spawn(c, t) PROVE Shape'
    BY <1>5, <1>0 DEF Spawn
  <1>6. ASSUME NEW c \in Client, SpawnFail(c) PROVE Shape'
    BY <1>6, <1>0 DEF SpawnFail
  <1>7. ASSUME NEW t \in Client \cup Reader, get_cache_entry(t) PROVE Shape'
    <2>1. request[t].sector \in Sector BY <1>7, <1>0 DEF get_cache_entry, Asked
    <2>2. PICK i \in Entry : get_cache_entry(t)!(i) BY <1>7 DEF get_cache_entry
    <2>3. cache' \in [Entry -> EntryType]
      <3> HIDE DEF EntryType
      <3>1. [cache EXCEPT ![i].sector = request[t].sector, ![i].free = FALSE]
              \in [Entry -> EntryType]
        BY <2>1, <1>b, DirtyType
      <3> QED BY <2>2, <3>1
    <2> HIDE DEF EntryType
    <2> QED BY <2>2, <2>3
  <1>8. ASSUME NEW t \in Client \cup Reader, EvictWrite(t) PROVE Shape'
    <2>1. entry[t] \in Entry /\ request[t].sector \in Sector
      BY <1>8, <1>0 DEF EvictWrite, Asked
    <2>2. cache' \in [Entry -> EntryType]
      <3>1. CASE cache' = cache BY <3>1
      <3>2. CASE cache' = [cache EXCEPT ![entry[t]].sector = request[t].sector]
        <4> HIDE DEF EntryType
        <4>1. [cache EXCEPT ![entry[t]].sector = request[t].sector] \in [Entry -> EntryType]
          BY <2>1, <1>b, DirtyType
        <4> QED BY <3>2, <4>1
      <3> QED BY <1>8, <3>1, <3>2 DEF EvictWrite
    <2>3. disk' \in [Sector -> Data] BY <1>8, <2>1 DEF EvictWrite
    <2> QED BY <1>8, <2>2, <2>3 DEF EvictWrite
  <1>9. ASSUME NEW t \in Client \cup Reader, EvictClear(t) PROVE Shape'
    <2>1. entry[t] \in Entry /\ request[t].sector \in Sector
      BY <1>9, <1>0 DEF EvictClear, Asked
    <2>2. cache' \in [Entry -> EntryType]
      <3> HIDE DEF EntryType
      <3> QED BY <1>9, <2>1, DirtyType DEF EvictClear
    <2> QED BY <1>9, <2>2 DEF EvictClear
  <1>10. ASSUME NEW t \in Client \cup Reader, read_cache_entry_from_disk(t) PROVE Shape'
    BY <1>10, <1>0 DEF read_cache_entry_from_disk, Asked
  <1>11. ASSUME NEW t \in Client \cup Reader, Filled(t) PROVE Shape'
    <2>1. cache' \in [Entry -> EntryType]
      <3> HIDE DEF EntryType
      <3> QED BY <1>11, <1>b, DirtyType DEF Filled
    <2> QED BY <1>11, <2>1 DEF Filled
  <1>12. ASSUME NEW t \in Reader, ReaderEnd(t) PROVE Shape'
    BY <1>12, <1>a DEF ReaderEnd
  <1>13. ASSUME FlushBegin PROVE Shape'
    BY <1>13, <1>0 DEF FlushBegin
  <1>14. ASSUME FlushWrite PROVE Shape'
    BY <1>14, <1>a DEF FlushWrite, FlushNext
  <1>15. ASSUME FlushClear PROVE Shape'
    <2>1. cache' \in [Entry -> EntryType]
      <3> HIDE DEF EntryType
      <3> QED BY <1>15, <1>b, DirtyType DEF FlushClear
    <2> QED BY <1>15, <1>a, <2>1 DEF FlushClear, FlushNext
  <1>16. ASSUME Tick PROVE Shape'
    BY <1>16, <1>0 DEF Tick
  <1> QED BY <1>1, <1>2, <1>3, <1>4, <1>5, <1>6, <1>7, <1>8, <1>9, <1>10, <1>11, <1>12, <1>13, <1>14, <1>15, <1>16 DEF Next

(* Every step keeps cache_lock with the one thread in a critical part, and *)
(* gives a sector to every thread that starts to work on one.              *)
LEMMA NextLock ==
  ASSUME Shape, LockHeld, Asked, Next
  PROVE  LockHeld' /\ Asked'
  <1> USE CacheAssumption DEF Shape, LockHeld, Critical, Asked, Goto, Thread
  <1>1. ASSUME NEW c \in Client, NEW r \in Requests, Call(c, r) PROVE LockHeld' /\ Asked'
    BY <1>1 DEF Call, Asks
  <1>2. ASSUME NEW c \in Client, Copy(c) PROVE LockHeld' /\ Asked'
    BY <1>2 DEF Copy
  <1>3. ASSUME NEW c \in Client, Mark(c) PROVE LockHeld' /\ Asked'
    BY <1>3 DEF Mark
  <1>4. ASSUME NEW c \in Client, NEW s \in Sector, cache_read_async(c, s) PROVE LockHeld' /\ Asked'
    BY <1>4 DEF cache_read_async, Asks
  <1>5. ASSUME NEW c \in Client, NEW t \in Reader, Spawn(c, t) PROVE LockHeld' /\ Asked'
    BY <1>5 DEF Spawn
  <1>6. ASSUME NEW c \in Client, SpawnFail(c) PROVE LockHeld' /\ Asked'
    BY <1>6 DEF SpawnFail
  <1>7. ASSUME NEW t \in Client \cup Reader, get_cache_entry(t) PROVE LockHeld' /\ Asked'
    BY <1>7 DEF get_cache_entry
  <1>8. ASSUME NEW t \in Client \cup Reader, EvictWrite(t) PROVE LockHeld' /\ Asked'
    BY <1>8 DEF EvictWrite
  <1>9. ASSUME NEW t \in Client \cup Reader, EvictClear(t) PROVE LockHeld' /\ Asked'
    BY <1>9 DEF EvictClear
  <1>10. ASSUME NEW t \in Client \cup Reader, read_cache_entry_from_disk(t) PROVE LockHeld' /\ Asked'
    BY <1>10 DEF read_cache_entry_from_disk
  <1>11. ASSUME NEW t \in Client \cup Reader, Filled(t) PROVE LockHeld' /\ Asked'
    BY <1>11 DEF Filled
  <1>12. ASSUME NEW t \in Reader, ReaderEnd(t) PROVE LockHeld' /\ Asked'
    BY <1>12 DEF ReaderEnd
  <1>13. ASSUME FlushBegin PROVE LockHeld' /\ Asked'
    BY <1>13 DEF FlushBegin
  <1>14. ASSUME FlushWrite PROVE LockHeld' /\ Asked'
    BY <1>14 DEF FlushWrite, FlushNext
  <1>15. ASSUME FlushClear PROVE LockHeld' /\ Asked'
    BY <1>15 DEF FlushClear, FlushNext
  <1>16. ASSUME Tick PROVE LockHeld' /\ Asked'
    BY <1>16 DEF Tick
  <1> QED BY <1>1, <1>2, <1>3, <1>4, <1>5, <1>6, <1>7, <1>8, <1>9, <1>10, <1>11, <1>12, <1>13, <1>14, <1>15, <1>16 DEF Next

(* What SameSectors keeps. *)
LEMMA SameCached ==
  ASSUME SameSectors
  PROVE  /\ \A s : Cached(s)' = Cached(s)
         /\ UniqueSector => UniqueSector'
  BY DEF SameSectors, Cached, UniqueSector

(* Every step keeps each sector in one entry: one that gives an entry      *)
(* another sector has found, under the lock, that no entry holds it.       *)
LEMMA NextUnique ==
  ASSUME Shape, LockHeld, MissHolds, Asked, UniqueSector, Next
  PROVE  UniqueSector' /\ MissHolds'
  <1> USE CacheAssumption DEF Shape, Thread
  <1>1. ASSUME NEW c \in Client, NEW r \in Requests, Call(c, r) PROVE UniqueSector' /\ MissHolds'
    <2>1. SameSectors BY <1>1 DEF Call, SameSectors, EntryType
    <2> QED BY <1>1, <2>1, SameCached DEF Call, MissHolds, Goto
  <1>2. ASSUME NEW c \in Client, Copy(c) PROVE UniqueSector' /\ MissHolds'
    <2>1. SameSectors BY <1>2 DEF Copy, SameSectors, EntryType
    <2> QED BY <1>2, <2>1, SameCached DEF Copy, MissHolds, Goto
  <1>3. ASSUME NEW c \in Client, Mark(c) PROVE UniqueSector' /\ MissHolds'
    <2>1. SameSectors BY <1>3 DEF Mark, SameSectors, EntryType
    <2> QED BY <1>3, <2>1, SameCached DEF Mark, MissHolds, Goto
  <1>4. ASSUME NEW c \in Client, NEW s \in Sector, cache_read_async(c, s) PROVE UniqueSector' /\ MissHolds'
    <2>1. SameSectors BY <1>4 DEF cache_read_async, SameSectors, EntryType
    <2> QED BY <1>4, <2>1, SameCached DEF cache_read_async, MissHolds, Goto
  <1>5. ASSUME NEW c \in Client, NEW t \in Reader, Spawn(c, t) PROVE UniqueSector' /\ MissHolds'
    <2>1. SameSectors BY <1>5 DEF Spawn, SameSectors, EntryType
    <2> QED BY <1>5, <2>1, SameCached DEF Spawn, MissHolds, Goto
  <1>6. ASSUME NEW c \in Client, SpawnFail(c) PROVE UniqueSector' /\ MissHolds'
    <2>1. SameSectors BY <1>6 DEF SpawnFail, SameSectors, EntryType
    <2> QED BY <1>6, <2>1, SameCached DEF SpawnFail, MissHolds, Goto
  <1>7. ASSUME NEW t \in Client \cup Reader, get_cache_entry(t) PROVE UniqueSector' /\ MissHolds'
    <2>1. \A u \in Thread : ~Critical(u) BY <1>7 DEF get_cache_entry, LockHeld
    <2>2. PICK i \in Entry : get_cache_entry(t)!(i) BY <1>7 DEF get_cache_entry
    <2>3. request[t].sector \in Sector BY <2>2, AskType DEF Asked
    <2>4. UniqueSector'
      BY <2>2, <2>3 DEF UniqueSector, Cached, EntryType
    <2>5. MissHolds'
      BY <2>1, <2>2 DEF MissHolds, Critical, Cached, Goto
    <2> QED BY <2>4, <2>5
  <1>8. ASSUME NEW t \in Client \cup Reader, EvictWrite(t) PROVE UniqueSector' /\ MissHolds'
    <2>1. cache_lock = t /\ Cached(request[t].sector) = {}
      BY <1>8 DEF EvictWrite, LockHeld, Critical, MissHolds
    <2>2. \A u \in Thread \ {t} : ~Critical(u) BY <2>1 DEF LockHeld
    <2>3. request[t].sector \in Sector BY <1>8, AskType DEF EvictWrite, Asked
    <2>4. UniqueSector'
      BY <1>8, <2>1, <2>3 DEF EvictWrite, UniqueSector, Cached, EntryType
    <2>5. MissHolds'
      BY <1>8, <2>1, <2>2 DEF EvictWrite, MissHolds, Critical, Cached, Goto
    <2> QED BY <2>4, <2>5
  <1>9. ASSUME NEW t \in Client \cup Reader, EvictClear(t) PROVE UniqueSector' /\ MissHolds'
    <2>1. cache_lock = t /\ Cached(request[t].sector) = {}
      BY <1>9 DEF EvictClear, LockHeld, Critical, MissHolds
    <2>2. \A u \in Thread \ {t} : ~Critical(u) BY <2>1 DEF LockHeld
    <2>3. request[t].sector \in Sector BY <1>9, AskType DEF EvictClear, Asked
    <2>4. UniqueSector'
      BY <1>9, <2>1, <2>3 DEF EvictClear, UniqueSector, Cached, EntryType
    <2>5. MissHolds'
      BY <1>9, <2>1, <2>2 DEF EvictClear, MissHolds, Critical, Cached, Goto
    <2> QED BY <2>4, <2>5
  <1>10. ASSUME NEW t \in Client \cup Reader, read_cache_entry_from_disk(t) PROVE UniqueSector' /\ MissHolds'
    <2>1. SameSectors BY <1>10 DEF read_cache_entry_from_disk, SameSectors, EntryType
    <2> QED BY <1>10, <2>1, SameCached DEF read_cache_entry_from_disk, MissHolds, Goto
  <1>11. ASSUME NEW t \in Client \cup Reader, Filled(t) PROVE UniqueSector' /\ MissHolds'
    <2>1. SameSectors BY <1>11 DEF Filled, SameSectors, EntryType
    <2> QED BY <1>11, <2>1, SameCached DEF Filled, MissHolds, Goto
  <1>12. ASSUME NEW t \in Reader, ReaderEnd(t) PROVE UniqueSector' /\ MissHolds'
    <2>1. SameSectors BY <1>12 DEF ReaderEnd, SameSectors, EntryType
    <2> QED BY <1>12, <2>1, SameCached DEF ReaderEnd, MissHolds, Goto
  <1>13. ASSUME FlushBegin PROVE UniqueSector' /\ MissHolds'
    <2>1. SameSectors BY <1>13 DEF FlushBegin, SameSectors, EntryType
    <2> QED BY <1>13, <2>1, SameCached DEF FlushBegin, MissHolds, Goto
  <1>14. ASSUME FlushWrite PROVE UniqueSector' /\ MissHolds'
    <2>1. SameSectors BY <1>14 DEF FlushWrite, SameSectors
    <2>2. \E w \in {"scan", "clear", "idle"} : pc' = [pc EXCEPT ![flusher] = w]
      BY <1>14 DEF FlushWrite, FlushNext, Goto
    <2>3. request' = request BY <1>14 DEF FlushWrite
    <2> QED BY <2>1, <2>2, <2>3, SameCached DEF MissHolds
  <1>15. ASSUME FlushClear PROVE UniqueSector' /\ MissHolds'
    <2>1. SameSectors BY <1>15 DEF FlushClear, SameSectors, EntryType
    <2>2. \E w \in {"scan", "clear", "idle"} : pc' = [pc EXCEPT ![flusher] = w]
      BY <1>15 DEF FlushClear, FlushNext, Goto
    <2>3. request' = request BY <1>15 DEF FlushClear
    <2> QED BY <2>1, <2>2, <2>3, SameCached DEF MissHolds
  <1>16. ASSUME Tick PROVE UniqueSector' /\ MissHolds'
    <2>1. SameSectors BY <1>16 DEF Tick, SameSectors, EntryType
    <2> QED BY <1>16, <2>1, SameCached DEF Tick, MissHolds, Goto
  <1> QED BY <1>1, <1>2, <1>3, <1>4, <1>5, <1>6, <1>7, <1>8, <1>9, <1>10, <1>11, <1>12, <1>13, <1>14, <1>15, <1>16 DEF Next

(* Every step keeps the counter at or above the number of readers. *)
LEMMA NextAhead ==
  ASSUME Shape, read_ahead_threads \in Nat, AheadCounted, Next
  PROVE  read_ahead_threads' \in Nat /\ AheadCounted'
  <1> DEFINE Goal == read_ahead_threads' \in Nat /\ AheadCounted'
  <1>1. IsFiniteSet(Ahead) /\ Cardinality(Ahead) \in Nat
    BY CacheAssumption, FS_Subset, FS_CardinalityType DEF Ahead
  <1>2. ASSUME Ahead' = Ahead, read_ahead_threads' \in {read_ahead_threads, read_ahead_threads + 1}
        PROVE  Goal
    BY <1>1, <1>2 DEF AheadCounted
  <1> USE CacheAssumption DEF Shape, Thread
  <1>3. ASSUME NEW c \in Client, NEW t \in Reader, Spawn(c, t) PROVE Goal
    <2>1. Ahead' = Ahead \cup {t} /\ read_ahead_threads' = read_ahead_threads + 1
      BY <1>3 DEF Ahead, Spawn
    <2>0. t \notin Ahead BY <1>3 DEF Ahead, Spawn
    <2>2. Cardinality(Ahead') = Cardinality(Ahead) + 1
      BY <1>1, <2>0, <2>1, FS_AddElement
    <2>3. Cardinality(Ahead') \in Nat
      BY <1>1, <2>1, FS_AddElement, FS_CardinalityType
    <2> QED BY <1>1, <2>1, <2>2, <2>3 DEF AheadCounted
  <1>4. ASSUME NEW t \in Reader, ReaderEnd(t) PROVE Goal
    <2>1. t \in Ahead /\ pc' = [pc EXCEPT ![t] = "none"]
      BY <1>4 DEF Ahead, ReaderEnd, Goto
    <2>2. Ahead' = Ahead \ {t} BY <2>1 DEF Ahead
    <2>3. read_ahead_threads' = read_ahead_threads - 1 BY <1>4 DEF ReaderEnd
    <2>4. Cardinality(Ahead') = Cardinality(Ahead) - 1
      BY <1>1, <2>1, <2>2, FS_RemoveElement
    <2>5. Cardinality(Ahead') \in Nat
      BY <1>1, <2>2, FS_RemoveElement, FS_CardinalityType
    <2> QED BY <1>1, <2>3, <2>4, <2>5 DEF AheadCounted
  <1>5. ASSUME NEW c \in Client,
               \/ \E r \in Requests : Call(c, r)
               \/ Copy(c) \/ Mark(c)
               \/ \E s \in Sector : cache_read_async(c, s)
        PROVE  Goal
    BY <1>2, <1>5 DEF Ahead, Goto, Call, Copy, Mark, cache_read_async
  <1>6. ASSUME NEW c \in Client, SpawnFail(c) PROVE Goal
    BY <1>2, <1>6 DEF Ahead, Goto, SpawnFail
  <1>7. ASSUME NEW t \in Client \cup Reader,
               \/ get_cache_entry(t)
               \/ EvictWrite(t) \/ EvictClear(t)
               \/ read_cache_entry_from_disk(t) \/ Filled(t)
        PROVE  Goal
    BY <1>2, <1>7 DEF Ahead, Goto, get_cache_entry, EvictWrite, EvictClear,
       read_cache_entry_from_disk, Filled
  <1>8. ASSUME FlushBegin \/ FlushWrite \/ FlushClear \/ Tick PROVE Goal
    BY <1>2, <1>8 DEF Ahead, Goto, FlushBegin, FlushWrite, FlushClear, FlushNext, Tick
  <1> QED BY <1>3, <1>4, <1>5, <1>6, <1>7, <1>8 DEF Next

-----------------------------------------------------------------------------
(* Initially the cache is empty, the lock is free and there is no reader. *)
LEMMA InitInv ==
  ASSUME Init
  PROVE  IInv
  <1> USE CacheAssumption DEF Init
  <1>1. Shape
    <2>1. 0 \in Entry /\ 0 \in Sector BY DEF Entry, Sector
    <2>2. (CHOOSE d \in Data : TRUE) \in Data OBVIOUS
    <2> QED BY <2>1, <2>2 DEF Shape, EntryType, PC, Thread
  <1>2. LockHeld /\ Asked /\ MissHolds
    BY DEF LockHeld, Critical, Asked, MissHolds, Thread
  <1>3. UniqueSector BY DEF UniqueSector
  <1>4. read_ahead_threads \in Nat /\ AheadCounted
    <2>1. Ahead = {} BY DEF Ahead, Thread
    <2> QED BY <2>1, FS_EmptySet DEF AheadCounted
  <1> QED BY <1>1, <1>2, <1>3, <1>4 DEF IInv, TypeOK, Shape

(* The invariant of the buffer cache, from the steps above. *)
THEOREM CacheInvariant == Spec => []IInv
  <1>1. Init => IInv BY InitInv
  <1>2. IInv /\ [Next]_vars => IInv'
    <2>1. ASSUME IInv, Next PROVE IInv'
      <3>1. Shape BY <2>1 DEF IInv, TypeOK, Shape
      <3>2. Shape' BY <2>1, <3>1, NextShape DEF IInv
      <3>3. LockHeld' /\ Asked' BY <2>1, <3>1, NextLock DEF IInv
      <3>4. UniqueSector' /\ MissHolds' BY <2>1, <3>1, NextUnique DEF IInv
      <3>5. read_ahead_threads' \in Nat /\ AheadCounted'
        BY <2>1, <3>1, NextAhead DEF IInv, TypeOK
      <3> QED BY <3>2, <3>3, <3>4, <3>5 DEF IInv, TypeOK, Shape
    <2>2. ASSUME IInv, UNCHANGED vars PROVE IInv'
      BY <2>2 DEF vars, IInv, TypeOK, LockHeld, Critical, MissHolds, Asked, Cached,
         UniqueSector, AheadCounted, Ahead
    <2> QED BY <2>1, <2>2
  <1> QED BY <1>1, <1>2, PTL DEF Spec

(* Type correctness; in particular read_ahead_threads, unsigned in the     *)
(* code, is never decremented below zero.                                  *)
THEOREM CacheTypeCorrect == Spec => []TypeOK
  BY CacheInvariant, PTL DEF IInv

(* get_cache_entry never gives one sector two entries, whatever the number *)
(* of threads that miss on it, with write-behind and read-ahead running.   *)
THEOREM SectorCachedOnce == Spec => []UniqueSector
  BY CacheInvariant, PTL DEF IInv

(* cache_read_async and cache_read_thread keep the counter at or above the *)
(* number of read-ahead threads.                                           *)
THEOREM ReadersCounted == Spec => []AheadCounted
  BY CacheInvariant, PTL DEF IInv
=============================================================================
