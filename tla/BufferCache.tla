---------------------------- MODULE BufferCache ----------------------------
(***************************************************************************)
(* The buffer cache (filesys/cache.c): clients that read and write         *)
(* sectors, the write-behind thread, and read-ahead threads.               *)
(*                                                                         *)
(* cache_lock is held while an entry is looked up, evicted and filled, and *)
(* while the cache is flushed; the copy between the entry and the caller's *)
(* buffer comes after the lock is released.  A block write has taken the   *)
(* data when it starts to wait for the disk; a block read brings it when   *)
(* it returns.                                                             *)
(***************************************************************************)
EXTENDS Integers, FiniteSets

CONSTANTS
  Client,                 (* threads in the file system                      *)
  Reader,                 (* read-ahead threads there may be                 *)
  flusher,                (* write_cache_to_disk_thread                      *)
  Flushing,               (* whether it runs                                 *)
  NumSectors,             (* of the file system device                       *)
  Data,                   (* what a sector may hold                          *)
  CACHE_NUM_SECTORS,
  MAX_READ_AHEAD_THREADS,
  MaxTick,                (* bound of the model: the clock stops here        *)
  NULL

Thread == Client \cup Reader \cup {flusher}
Entry == 0..(CACHE_NUM_SECTORS - 1)
Sector == 0..(NumSectors - 1)
Requests == [kind : {"read"}, sector : Sector] \cup
            [kind : {"write"}, sector : Sector, data : Data]
Asks == Requests \cup [kind : {"ahead"}, sector : Sector]

ASSUME CacheAssumption ==
  /\ IsFiniteSet(Reader) /\ Client \cap Reader = {} /\ flusher \notin Client \cup Reader
  /\ CACHE_NUM_SECTORS \in Nat \ {0} /\ NumSectors \in Nat \ {0} /\ Data # {}
  /\ MAX_READ_AHEAD_THREADS \in Nat /\ MaxTick \in Nat
  /\ Flushing \in BOOLEAN
  /\ NULL \notin Thread \cup Asks

VARIABLES
  cache,               (* the entries                                        *)
  disk,                (* the sectors on the device                          *)
  cache_lock,          (* its holder                                         *)
  ticks,
  read_ahead_threads,
  pc,
  request,             (* what a client is in; for a reader its sector       *)
  entry,               (* the cache entry a thread works on                  *)
  buffer               (* what a client has read last                        *)

vars == <<cache, disk, cache_lock, ticks, read_ahead_threads, pc, request,
          entry, buffer>>

PC == {"none", "idle", "get", "dirty", "written", "fetch", "filled",
       "copy", "mark", "spawn", "scan", "clear", "end"}

(* cache_init: static storage is zero; what a free entry holds is not used. *)
Init ==
  /\ disk \in [Sector -> Data]
  /\ cache = [i \in Entry |-> [sector |-> 0, free |-> TRUE, dirty |-> FALSE,
                               tick |-> 0, data |-> CHOOSE d \in Data : TRUE]]
  /\ cache_lock = NULL
  /\ ticks = 0
  /\ read_ahead_threads = 0
  /\ pc = [t \in Thread |-> IF t \in Reader THEN "none" ELSE "idle"]
  /\ request = [t \in Thread |-> NULL]
  /\ entry = [t \in Thread |-> 0]
  /\ buffer \in [Client -> Data]

Goto(t, p) == pc' = [pc EXCEPT ![t] = p]
Cached(s) == {i \in Entry : cache[i].sector = s /\ ~cache[i].free}
Free == {i \in Entry : cache[i].free}
First(i, S) == i \in S /\ \A j \in S : i <= j

(* i is the entry with the least last_accessed_tick, the first of them. *)
get_cache_entry_to_evict(i) ==
  First(i, {k \in Entry : \A j \in Entry : cache[k].tick <= cache[j].tick})

-----------------------------------------------------------------------------
(* A client calls cache_read_partial or cache_write_partial. *)
Call(c, r) ==
  /\ pc[c] = "idle"
  /\ request' = [request EXCEPT ![c] = r]
  /\ Goto(c, "get")
  /\ UNCHANGED <<cache, disk, cache_lock, ticks, read_ahead_threads, entry, buffer>>

(* Faulty variant: the lock is not waited for. *)
get_cache_entry_unlocked(t) ==
  \E i \in Entry :
    LET s == request[t].sector
    IN  /\ pc[t] = "get"
        /\ \/ /\ First(i, Cached(s))
              /\ Goto(t, IF t \in Client THEN "copy" ELSE "end")
              /\ UNCHANGED <<cache, cache_lock>>
           \/ /\ Cached(s) = {} /\ First(i, Free)
              /\ cache' = [cache EXCEPT ![i].sector = s, ![i].free = FALSE]
              /\ cache_lock' = t
              /\ Goto(t, "fetch")
           \/ /\ Cached(s) = {} /\ Free = {} /\ get_cache_entry_to_evict(i)
              /\ cache_lock' = t
              /\ Goto(t, "dirty")
              /\ UNCHANGED cache
        /\ entry' = [entry EXCEPT ![t] = i]
        /\ UNCHANGED <<disk, ticks, read_ahead_threads, request, buffer>>

(* get_cache_entry: the lock is taken and the entries are searched.  The   *)
(* sector's entry: the lock is released, which ends the call.  Else a free *)
(* entry or a victim is chosen.                                            *)
get_cache_entry(t) ==
  \E i \in Entry :
    LET s == request[t].sector
    IN  /\ pc[t] = "get" /\ cache_lock = NULL
        /\ \/ /\ First(i, Cached(s))
              /\ Goto(t, IF t \in Client THEN "copy" ELSE "end")
              /\ UNCHANGED <<cache, cache_lock>>
           \/ /\ Cached(s) = {} /\ First(i, Free)
              /\ cache' = [cache EXCEPT ![i].sector = s, ![i].free = FALSE]
              /\ cache_lock' = t
              /\ Goto(t, "fetch")
           \/ /\ Cached(s) = {} /\ Free = {} /\ get_cache_entry_to_evict(i)
              /\ cache_lock' = t
              /\ Goto(t, "dirty")
              /\ UNCHANGED cache
        /\ entry' = [entry EXCEPT ![t] = i]
        /\ UNCHANGED <<disk, ticks, read_ahead_threads, request, buffer>>

(* Faulty variant: a dirty victim is not written back. *)
EvictWrite_dropped(t) ==
  /\ pc[t] = "dirty"
  /\ cache' = [cache EXCEPT ![entry[t]].sector = request[t].sector]
  /\ Goto(t, "fetch")
  /\ UNCHANGED <<disk, cache_lock, ticks, read_ahead_threads, request, entry, buffer>>

(* write_cache_entry_to_disk of the victim, in two steps: the data goes to *)
(* the disk, then dirty is cleared; the entry is given to the new sector.  *)
EvictWrite(t) ==
  LET i == entry[t]
  IN  /\ pc[t] = "dirty"
      /\ \/ /\ cache[i].dirty
            /\ disk' = [disk EXCEPT ![cache[i].sector] = cache[i].data]
            /\ Goto(t, "written")
            /\ UNCHANGED cache
         \/ /\ ~cache[i].dirty
            /\ cache' = [cache EXCEPT ![i].sector = request[t].sector]
            /\ Goto(t, "fetch")
            /\ UNCHANGED disk
      /\ UNCHANGED <<cache_lock, ticks, read_ahead_threads, request, entry, buffer>>

EvictClear(t) ==
  LET i == entry[t]
  IN  /\ pc[t] = "written"
      /\ cache' = [cache EXCEPT ![i].dirty = FALSE, ![i].sector = request[t].sector]
      /\ Goto(t, "fetch")
      /\ UNCHANGED <<disk, cache_lock, ticks, read_ahead_threads, request, entry, buffer>>

(* read_cache_entry_from_disk: the data arrives, then dirty is cleared and *)
(* the lock released.                                                      *)
read_cache_entry_from_disk(t) ==
  LET i == entry[t]
  IN  /\ pc[t] = "fetch"
      /\ cache' = [cache EXCEPT ![i].data = disk[cache[i].sector]]
      /\ Goto(t, "filled")
      /\ UNCHANGED <<disk, cache_lock, ticks, read_ahead_threads, request, entry, buffer>>

Filled(t) ==
  /\ pc[t] = "filled"
  /\ cache' = [cache EXCEPT ![entry[t]].dirty = FALSE]
  /\ cache_lock' = NULL
  /\ Goto(t, IF t \in Client THEN "copy" ELSE "end")
  /\ UNCHANGED <<disk, ticks, read_ahead_threads, request, entry, buffer>>

(* The memcpy of cache_read_partial and cache_write_partial, without the   *)
(* lock; a write marks the entry dirty afterwards.                         *)
Copy(c) ==
  LET i == entry[c] r == request[c]
  IN  /\ pc[c] = "copy"
      /\ \/ /\ r.kind = "read"
            /\ buffer' = [buffer EXCEPT ![c] = cache[i].data]
            /\ UNCHANGED cache
         \/ /\ r.kind = "write"
            /\ cache' = [cache EXCEPT ![i].data = r.data]
            /\ UNCHANGED buffer
      /\ Goto(c, "mark")
      /\ UNCHANGED <<disk, cache_lock, ticks, read_ahead_threads, request, entry>>

(* The rest of the call: the entry is marked, and the call returns. *)
Mark(c) ==
  LET i == entry[c]
  IN  /\ pc[c] = "mark"
      /\ cache' = [cache EXCEPT ![i].dirty = @ \/ request[c].kind = "write",
                                ![i].tick = ticks]
      /\ request' = [request EXCEPT ![c] = NULL]
      /\ entry' = [entry EXCEPT ![c] = 0]
      /\ Goto(c, "idle")
      /\ UNCHANGED <<disk, cache_lock, ticks, read_ahead_threads, buffer>>

-----------------------------------------------------------------------------
(* Read-ahead *)

(* cache_read_async(s): the test, without a lock, and then the start of    *)
(* another thread.                                                         *)
cache_read_async(c, s) ==
  /\ pc[c] = "idle"
  /\ read_ahead_threads < MAX_READ_AHEAD_THREADS
  /\ Cached(s) = {}
  /\ request' = [request EXCEPT ![c] = [kind |-> "ahead", sector |-> s]]
  /\ Goto(c, "spawn")
  /\ UNCHANGED <<cache, disk, cache_lock, ticks, read_ahead_threads, entry, buffer>>

(* Faulty variant: the new thread is not counted. *)
Spawn_uncounted(c, t) ==
  /\ pc[c] = "spawn" /\ pc[t] = "none"
  /\ request' = [request EXCEPT ![c] = NULL, ![t] = request[c]]
  /\ pc' = [pc EXCEPT ![c] = "idle", ![t] = "get"]
  /\ UNCHANGED <<cache, disk, cache_lock, ticks, read_ahead_threads, entry, buffer>>

(* The counter is raised and the thread created. *)
Spawn(c, t) ==
  /\ pc[c] = "spawn" /\ pc[t] = "none"
  /\ read_ahead_threads' = read_ahead_threads + 1
  /\ request' = [request EXCEPT ![c] = NULL, ![t] = request[c]]
  /\ pc' = [pc EXCEPT ![c] = "idle", ![t] = "get"]
  /\ UNCHANGED <<cache, disk, cache_lock, ticks, entry, buffer>>

(* thread_create fails: the counter stays up. *)
SpawnFail(c) ==
  /\ pc[c] = "spawn"
  /\ read_ahead_threads' = read_ahead_threads + 1
  /\ request' = [request EXCEPT ![c] = NULL]
  /\ Goto(c, "idle")
  /\ UNCHANGED <<cache, disk, cache_lock, ticks, entry, buffer>>

(* The end of cache_read_thread. *)
ReaderEnd(t) ==
  /\ pc[t] = "end"
  /\ read_ahead_threads' = read_ahead_threads - 1
  /\ request' = [request EXCEPT ![t] = NULL]
  /\ entry' = [entry EXCEPT ![t] = 0]
  /\ Goto(t, "none")
  /\ UNCHANGED <<cache, disk, cache_lock, ticks, buffer>>

-----------------------------------------------------------------------------
(* Write-behind: write_cache_to_disk goes over the entries under the lock; *)
(* entry[flusher] is its loop index.                                       *)
FlushBegin ==
  /\ Flushing /\ pc[flusher] = "idle" /\ cache_lock = NULL
  /\ cache_lock' = flusher
  /\ Goto(flusher, "scan")
  /\ UNCHANGED <<cache, disk, ticks, read_ahead_threads, request, entry, buffer>>

FlushNext ==
  \/ /\ entry[flusher] + 1 \in Entry
     /\ entry' = [entry EXCEPT ![flusher] = @ + 1]
     /\ Goto(flusher, "scan")
     /\ UNCHANGED cache_lock
  \/ /\ entry[flusher] + 1 \notin Entry
     /\ cache_lock' = NULL
     /\ entry' = [entry EXCEPT ![flusher] = 0]
     /\ Goto(flusher, "idle")

FlushWrite ==
  LET e == cache[entry[flusher]]
  IN  /\ pc[flusher] = "scan"
      /\ \/ /\ ~e.free /\ e.dirty
            /\ disk' = [disk EXCEPT ![e.sector] = e.data]
            /\ Goto(flusher, "clear")
            /\ UNCHANGED <<cache_lock, entry>>
         \/ /\ e.free \/ ~e.dirty
            /\ FlushNext
            /\ UNCHANGED disk
      /\ UNCHANGED <<cache, ticks, read_ahead_threads, request, buffer>>

FlushClear ==
  /\ pc[flusher] = "clear"
  /\ cache' = [cache EXCEPT ![entry[flusher]].dirty = FALSE]
  /\ FlushNext
  /\ UNCHANGED <<disk, ticks, read_ahead_threads, request, buffer>>

Tick ==
  /\ ticks < MaxTick
  /\ ticks' = ticks + 1
  /\ UNCHANGED <<cache, disk, cache_lock, read_ahead_threads, pc, request, entry, buffer>>

Next ==
  \/ \E c \in Client :
       \/ \E r \in Requests : Call(c, r)
       \/ Copy(c) \/ Mark(c)
       \/ \E s \in Sector : cache_read_async(c, s)
       \/ \E t \in Reader : Spawn(c, t)
       \/ SpawnFail(c)
  \/ \E t \in Client \cup Reader :
       \/ get_cache_entry(t)
       \/ EvictWrite(t) \/ EvictClear(t) 
       \/ read_cache_entry_from_disk(t) \/ Filled(t)
  \/ \E t \in Reader : ReaderEnd(t)
  \/ FlushBegin \/ FlushWrite \/ FlushClear
  \/ Tick

Spec == Init /\ [][Next]_vars

-----------------------------------------------------------------------------
(* Properties *)

EntryType == [sector : Sector, free : BOOLEAN, dirty : BOOLEAN, tick : Nat, data : Data]

(* Every variable has its type. *)
TypeOK ==
  /\ cache \in [Entry -> EntryType]
  /\ disk \in [Sector -> Data]
  /\ cache_lock \in Thread \cup {NULL}
  /\ ticks \in Nat
  /\ read_ahead_threads \in Nat
  /\ pc \in [Thread -> PC]
  /\ request \in [Thread -> Asks \cup {NULL}]
  /\ entry \in [Thread -> Entry]
  /\ buffer \in [Client -> Data]

(* The parts of get_cache_entry and of the flush that come after the lock  *)
(* is taken; exactly the holder of cache_lock is in one of them.           *)
Critical(t) == pc[t] \in {"dirty", "written", "fetch", "filled", "scan", "clear"}
LockHeld == \A t \in Thread : Critical(t) <=> cache_lock = t

(* A sector for which an entry is being evicted is not in the cache. *)
MissHolds ==
  \A t \in Thread : pc[t] \in {"dirty", "written"} => Cached(request[t].sector) = {}

(* A thread in a call has a sector to work on. *)
Asked ==
  \A t \in Thread : pc[t] \notin {"none", "idle", "scan", "clear"} => request[t] # NULL

(* A sector is in the cache at most once, however many threads miss on it  *)
(* at the same time (get_cache_entry searches and fills under one lock).   *)
UniqueSector ==
  \A i, j \in Entry :
    ~cache[i].free /\ ~cache[j].free /\ cache[i].sector = cache[j].sector => i = j

(* The counter never falls below the read-ahead threads there are, so the  *)
(* test in cache_read_async sees every one of them.                        *)
Ahead == {t \in Reader : pc[t] # "none"}
AheadCounted == Cardinality(Ahead) <= read_ahead_threads

(* What cache_read_partial and cache_write_partial say they do: read       *)
(* "from sector", write "into sector".  The entry a client copies from or  *)
(* to still holds the client's sector.                                     *)
CopiesOwnSector ==
  \A c \in Client : pc[c] = "copy" => cache[entry[c]].sector = request[c].sector

(* "Write contents from cache_entry into disk if cache_entry is dirty": an *)
(* entry that is not dirty holds what the disk holds, except while a       *)
(* client is between its memcpy and marking the entry, and while it is     *)
(* being filled.                                                           *)
CleanOnDisk ==
  \A i \in Entry :
    \/ cache[i].free \/ cache[i].dirty
    \/ \E t \in Thread : pc[t] \in {"mark", "fetch", "filled"} /\ entry[t] = i
    \/ cache[i].data = disk[cache[i].sector]

-----------------------------------------------------------------------------
(* The cache seen as a flat disk. *)

Contents ==
  [s \in Sector |->
     LET holds == {i \in Cached(s) : \A t \in Thread : ~(pc[t] = "fetch" /\ entry[t] = i)}
     IN  IF holds = {} THEN disk[s] ELSE cache[CHOOSE i \in holds : TRUE].data]

Flat == INSTANCE FlatDisk WITH
  contents <- Contents,
  request <- [c \in Client |-> IF pc[c] = "spawn" THEN NULL ELSE request[c]],
  done <- {c \in Client : pc[c] = "mark"},
  NoRequest <- NULL
=============================================================================
