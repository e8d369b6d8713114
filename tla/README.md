# A TLA+ verification of the Pintos kernel

This directory models the Pintos kernel under `src/pintos/` in TLA+: the
priority scheduler with donation, the synchronization primitives, and, one
after the other, the parts of the kernel built on them.  TLC checks small
instances of each model and TLAPS proves the central invariants for every
instance.  The models are written from the C code; where a comment in the code
says something else, a run records the disagreement.

## 1. The system

Pintos is a single-processor teaching kernel.  Kernel threads are preempted by
the timer and by interrupt handlers that unblock a thread of higher priority; a
section of code is atomic only while interrupts are off.  Processes are kernel
threads with an address space; they enter the kernel by system calls and page
faults.

| part | state | operations | what is hard | what makes it correct |
|---|---|---|---|---|
| scheduler (`threads/thread.c`) | `status`, `ready_list`, `all_list`, `current`, base `priority`, `locks` of a thread | create, block, unblock, yield, exit, set priority, tick | preemption at every instruction with interrupts on; priorities that change under the run queue | one running thread; ready threads are exactly those on the run queue; the highest priority runs |
| semaphores, locks, condition variables (`threads/synch.c`) | `value`, `waiters`, `holder`, a condition variable's list | down, try, up; acquire, release; wait, signal, broadcast | an up does not hand over; windows between the semaphore and the holder; a waiter that has released the lock and not yet blocked | mutual exclusion; no lost wake-up; donation; signals neither lost nor doubled |
| alarm clock (`devices/timer.c`) | `ticks`, `sleeping_list`, `next_wakeup` | sleep, timer interrupt | a tick between joining the list and blocking | a sleeper is on one list; it wakes at its tick |
| 4.4BSD scheduler (`thread_tick`, `threads/real-arithmetic.h`) | `load_avg`, `recent_cpu`, `nice` | per tick, per second, `thread_set_nice` | integer arithmetic at its limits; stale priorities | priorities within bounds |
| memory (`threads/palloc.c`, `malloc.c`) | page pools, arenas, free lists | get, free; malloc, realloc, free | a page freed while another thread frees to the same arena | blocks are disjoint, an empty arena is returned once |
| interrupt queues, serial, keyboard, console (`devices/intq.c`, `serial.c`, `input.c`, `kbd.c`, `lib/kernel/console.c`) | ring buffer, `not_full`, `not_empty`, IER | getc, putc, interrupt | an unblock that switches threads before the waiter is cleared | no byte lost or doubled; nobody waits for what has happened |
| block devices (`devices/block.c`, `partition.c`, `ide.c`) | channel lock, `expecting_interrupt`, `completion_wait` | read, write, interrupt | an interrupt before the thread waits, or a spurious one | one command at a time; data after completion |
| buffer cache (`filesys/cache.c`) | 64 entries with `sector`, `free`, `dirty` and the tick of the last access; `cache_lock`; the number of read-ahead threads | read, write, read-ahead, write-behind, flush | an entry evicted between lookup and use; a write during write-back | reads see the last write; no dirty data lost |
| free map and inodes (`filesys/free-map.c`, `inode.c`) | bitmap, sector trees, open counts | allocate, release; create, open, close, remove, read, write, extend, free | failure half-way through an allocation; index arithmetic at level boundaries | sectors have one owner and are released once |
| directories, paths, files (`filesys/directory.c`, `filesys.c`, `file.c`) | directory entries, open inodes, positions | lookup, add, remove, create, open, `parse_name` | error paths that close twice or not at all | open counts equal references |
| processes (`userprog/process.c`) | `struct process`, children, exit status, semaphores | exec, wait, exit, load | parent and child at the two ends of exec, wait and exit in any order | wait returns the child's status once; nothing is freed while in use |
| system calls, descriptors, mappings (`userprog/syscall.c`, `syscall-file.c`) | file system lock, descriptor and map lists | every system call | a process killed while it holds the lock | lock released on every path; descriptors unique |
| virtual memory (`vm/page.c`, `frame.c`, `swap.c`, `userprog/pagedir.c`, `exception.c`) | page tables, frame table, swap bitmap | page fault, allocation, eviction, swap | a user write between the copy out and the unmapping | a page's contents survive eviction |
| lists, hash tables, bitmaps (`lib/kernel/`) | links, buckets, bits | insert, remove, rehash, scan | element moved while iterated; table resized | a table holds what was put into it |

Parts that are not modelled are listed with the reason in `PROJECT.json`.

## 2. Plan

Modules in order, the most depended-on first.  The first three are done.

| module | composes | abstract specification | runs and bounds | theorems |
|---|---|---|---|---|
| `Threads`, `Synch` | scheduler under synchronization | - | done, see section 4 | done: types, mutual exclusion, control; next: `LockListed`, then `ElemExclusive` with `OneRunning` |
| `Alarm` | `Threads` | - | done | types |
| `BufferCache` | - | `FlatDisk` | done | done: one entry per sector, readers counted; next: `FlatDisk` refinement for one client |
| `FreeMap`, `Inode` | inode tree over the free map | a set of owned sectors per file | 2 files; levels of 2, 2 and 2x2 sectors instead of 12, 128 and 128x128 | a sector has one owner |
| `Process` | parent, child, the file system lock | a child's status delivered once | a parent, 2 children, one of them a parent | no use of a freed `struct process` along the paths where it holds |
| `Descriptors` | descriptor list and mappings of one process | a function from numbers to files | 3 descriptors, mappings of 2 pages | - |
| `Paging` | pages, frames, swap, user accesses | a memory that never loses a write | 2 processes, 3 pages, 2 frames, 2 slots | a frame belongs to one page |
| `IntQueue`, `Ide` | device interrupts over `Threads` | a bounded queue; a disk | buffer of 2; 2 threads | order of bytes |
| `Memory`, `Mlfqs`, `Directory`, `Hash` | - | disjoint blocks; a finite map | small | - |

## 3. The modules

**`Threads`** (`threads/thread.c`) has no actions: it defines the fragments
that run with interrupts off, `schedule`, `thread_block`, `thread_yield`,
`thread_unblock`, over `status`, `ready_list`, `current` and `priority`, for
the modules above it to build steps from.  `thread_unblock` of this kernel
yields at once to a thread of higher priority; so does the model.

**`Synch`** (`threads/synch.c`, and the operations of `thread.c` beside it).
`value` and `waiters` are a semaphore's fields, `holder` a lock's, `cwaiters` a
condition variable's list, `locks` a thread's list of held locks.  `pc` says
where a thread is inside an operation.  A step is a section with interrupts
off, or a single access to shared state with them on, so `lock_acquire` is
`sema_down`, `LockSetHolder`, `LockEnlist`; `lock_release` is `LockUnlist`,
`LockClearHolder`, `LockSemaUp`; and `cond_signal` is its start, one `CondScan`
per list element, `CondRemove` and `CondSemaUp`.  The timer (`TimerYield`) and
device handlers (`InterruptSemaUp`) come in wherever the running thread has
interrupts on.  Effective priorities (`Pri`) are computed by following held
locks to their waiters to a depth, as in the code.

**`Alarm`** (`devices/timer.c`) over `Threads`: `timer_sleep` in its four
parts, `timer_interrupt` with the time slice and the yield on return.  Time is
kept relative to each thread (`remaining`), so the clock has no bound.  The
outcome of linking one list element twice, or of a failed assertion, is the
value of `fault`, after which nothing happens.

**`BufferCache`** (`filesys/cache.c`): `cache` is the array of entries, `disk`
the device, `cache_lock` its holder.  `get_cache_entry` takes the lock and
searches; a hit releases it in the same step.  A miss goes on, under the lock,
through `EvictWrite`, `EvictClear`, `read_cache_entry_from_disk` and `Filled`,
which the waits for the disk separate.  `Copy` is the `memcpy` after the lock
is released, `Mark` the rest of the call.  `Flush...` is write-behind, one step
on each side of the disk wait; `cache_read_async`, `Spawn`, `SpawnFail`,
`ReaderEnd` are read-ahead.  A block write has taken the data when it starts to
wait and a block read brings it when the wait is over, as in `ide.c`.
**`FlatDisk`** is what clients expect: an array of sectors, each request served
in one step between call and return.

**`MCSynch`**, **`MCAlarm`**, **`MCBufferCache`** hold constants for TLC;
**`ListLemmas`**, **`SynchProofs`**, **`LockProofs`**, **`CacheProofs`** hold
the proofs.  Operators described as a "faulty variant" are used by no
specification: each replaces the definition that follows it to confirm that a
property would notice the mistake.

## 4. What the runs show

| run | instance | shows |
|---|---|---|
| `locks` | 3 threads, 3 priorities, 2 locks | mutual exclusion; every held lock on its holder's list; one running thread; run queue and wait lists exact; no lost wake-up; the highest priority runs; donation works through chains |
| `condvars` | 3 threads, 2 priorities, 1 lock, 1 condition variable | signals neither lost nor doubled, `cond_signal`'s walk undisturbed |
| `semaphores` | 3 threads, device interrupts, joins by `alive_sema` | list exactness, wake-ups and priority when anyone ups |
| `lock_liveness` | 3 threads of equal priority | a released lock is taken, a signalled thread wakes |
| `alarm` | 3 threads, sleeps of 0 to 2 ticks | lists exact outside the window of `timer_sleep`; a tick wakes all that are due |
| `alarm_liveness` | the same | every sleeper wakes |
| `cache_alone` | 1 client, 3 sectors, 2 entries, 2 values | the cache implements `FlatDisk` |
| `cache_shared` | 2 clients, write-behind, 1 reader, 3 sectors | one entry per sector; readers counted |

Four runs end in a violation, each of something the repository says of itself:

* `signal_order`: `cond_signal` compares base priorities and passes over a
  waiter with a donated one.  The run starts from a state written out in
  `MCSynch`, four threads deep, that the operations reach.
* `alarm_assertion`: a tick between joining `sleeping_list` and blocking
  unblocks a running thread.  The other outcome of that window, a time slice
  that ends in it and links the list element into a second list, is in the
  model as `fault = "corrupt"`.
* `cache_copy`: between lookup and copy the entry is given to another sector.
  The code's own comment suspects this.
* `cache_flush`: a write during write-behind's disk wait loses its dirty mark.

**Bounds.**  Three threads are the fewest for a holder, a waiter and a thread
between them in priority, or for two waiters and a signaller; two locks make a
donation chain of two.  `MaxValue` stops a semaphore that anyone may up at 2,
enough for ups that nobody waits for.  Three sectors over two entries make
every miss on a full cache an eviction and leave a choice of victim; `MaxTick`
lets the ticks of two entries differ.  The reader limit is 1, with a failed
`thread_create` beside it.  In the runs without values to tell apart there is one
`Data`.  `cache_shared` is symmetric in the clients.

**Fairness.**  `lock_liveness` assumes that the timer keeps ticking (weak
fairness of `TimerYield`) and that a thread that is scheduled again and again
executes inside the operation it is in (strong fairness of `Continue`, per
thread): a time slice is four ticks, far more than one step.  Nothing is
assumed about calls: no thread need ever release a lock.  The threads have
equal priority because strict priority starves lower ones by design.
`alarm_liveness` assumes only that ticks come.  All other runs check safety.

## 5. What is proved

For every number of threads, locks, semaphores and condition variables
(`LockProofs`, assuming the named `ThreadsAssumption` and `SynchAssumption`):

* `TypeCorrect`, `LockMutualExclusion`, `ControlCorrect`, from the inductive
  invariant `TypeOK /\ ControlOK /\ LockExclusion`.  Exclusion alone is not
  inductive: a release must know that the releasing thread owns the lock
  through the window in which `holder` is already cleared and the semaphore not
  yet upped.  `OwnedOnce` counts those windows as ownership and ties the
  semaphore's value to it; `ControlOK` says which lock a thread in each part of
  an operation owns.  `ListLemmas` has the facts about sequences used when
  threads move between lists.

For every number of clients, readers, sectors and entries (`CacheProofs`,
assuming `CacheAssumption`):

* `CacheTypeCorrect`, `SectorCachedOnce`, `ReadersCounted`, from
  `TypeOK /\ LockHeld /\ MissHolds /\ Asked /\ UniqueSector /\ AheadCounted`.
  A thread that evicts gives the entry its sector some steps after the search;
  `MissHolds` says that the search's answer is still right then, and `LockHeld`
  why.  That the counter, unsigned in the code, does not wrap needs that it is
  never below the number of readers.

Only model-checked: all other invariants; the refinement of `FlatDisk`, which
holds for a client by itself; action and liveness properties (the prover does
not do liveness under fairness); the runs that end in a violation.

## 6. What is not modelled

`PROJECT.json` lists every part with its reason.  In short: parts planned in
section 2; hardware programming and start-up code, which run once or keep no
state others rely on; formatting, parsing and the C library.  Within the
modelled parts: `all_list` and the functions that walk it; the links of a list
(a list is a sequence, so a preemption inside `list_push_back` is not seen,
nor one inside the walk of the run queue in `thread_set_priority`); a `memcpy`
torn by a preemption; statistics.

## 7. Running

`tlc -config MCSynchLocks.cfg MCSynch` and likewise for the other
configurations; `tlapm LockProofs.tla` and `tlapm CacheProofs.tla` for the
proofs.
