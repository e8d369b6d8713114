------------------------------- MODULE Synch -------------------------------
(***************************************************************************)
(* Semaphores, locks with priority donation, condition variables           *)
(* (threads/synch.c) and the thread operations that run beside them        *)
(* (threads/thread.c), over the scheduler of Threads.                      *)
(*                                                                         *)
(* A step is a piece of kernel code that nothing can interrupt: a section  *)
(* with interrupts off, or one access to shared state with them on.        *)
(* pc[t] says where a thread is inside an operation; "run" is its own      *)
(* code, between operations.  Interrupts arrive whenever the running       *)
(* thread has them on: the timer may end its time slice, a device may up a *)
(* semaphore.                                                              *)
(***************************************************************************)
EXTENDS Threads, FiniteSets, FiniteSetsExt

CONSTANTS
  Lock,        (* locks; a lock also names the semaphore inside it           *)
  Sema,        (* other semaphores, those of struct thread included          *)
  DownSema,    (* the semaphores that threads down                           *)
  UpSema,      (* the ones threads and device interrupt handlers up          *)
  alive_sema,  (* t->alive_sema, which thread_exit ups                       *)
  Cond,        (* condition variables                                        *)
  CondLock,    (* the one lock that goes with a condition variable           *)
  NewPriority, (* the priorities thread_create and thread_set_priority get   *)
  MAX_DEPTH,   (* length of the longest donation chain followed              *)
  MaxValue,    (* bound of the model: no up of a UpSema beyond this value    *)
  NULL

ASSUME SynchAssumption ==
  /\ IsFiniteSet(Thread)
  /\ Thread \cap Lock = {} /\ Thread \cap Sema = {} /\ Lock \cap Sema = {}
  /\ DownSema \subseteq Sema /\ UpSema \subseteq Sema
  /\ alive_sema \in [Thread -> Sema \ UpSema]
  /\ CondLock \in [Cond -> Lock]
  /\ NewPriority \subseteq Priorities
  /\ MAX_DEPTH \in Nat /\ MaxValue \in Nat
  /\ NULL \notin Thread \cup Lock \cup Sema \cup Cond

VARIABLES
  locks,       (* t->locks, the locks a thread holds, as a set               *)
  value,       (* sema->value                                                *)
  waiters,     (* sema->waiters                                              *)
  holder,      (* lock->holder                                               *)
  cwaiters,    (* cond->waiters; thread t stands for t's semaphore_elem      *)
  pc,          (* where each thread is in the code                           *)
  target,      (* the semaphore or lock of the operation it is in            *)
  cond,        (* the condition variable it is in cond_wait on               *)
  scan         (* the locals of cond_signal                                  *)

semaVars == <<value, waiters>>
lockVars == <<locks, holder>>
condVars == <<cwaiters, cond, scan>>
vars == <<status, ready_list, current, priority, locks, value, waiters, holder,
          cwaiters, pc, target, cond, scan>>

(* Every semaphore: the one in a lock, a plain one, and the one on the     *)
(* stack of a thread in cond_wait.                                         *)
SemaId == Lock \cup Sema \cup Thread

(* "wake": blocked in, or just back from, thread_block inside sema_down.   *)
PC == {"idle", "none", "run", "down", "wake", "hold", "enlist", "unlist",
       "unhold", "up", "scan", "signal", "setpri", "exit", "dead"}

(* Where a thread has interrupts off between two of its steps. *)
IntrOff(t) == pc[t] \in {"wake", "exit"}

NoScan == [cond |-> NULL, e |-> 0, best |-> 0, hp |-> -1, all |-> FALSE]

Init ==
  /\ status = [t \in AllThreads |-> IF t = initial_thread THEN "RUNNING"
                                    ELSE IF t = idle_thread THEN "READY"
                                    ELSE "NONE"]
  /\ ready_list = <<>>
  /\ current = initial_thread
  /\ priority \in {[t \in AllThreads |-> IF t = initial_thread THEN p
                                         ELSE PRI_MIN] : p \in NewPriority}
  /\ locks = [t \in AllThreads |-> {}]
  /\ value = [s \in SemaId |-> IF s \in Lock THEN 1 ELSE 0]
  /\ waiters = [s \in SemaId |-> <<>>]
  /\ holder = [l \in Lock |-> NULL]
  /\ cwaiters = [c \in Cond |-> <<>>]
  /\ pc = [t \in AllThreads |-> IF t = initial_thread THEN "run"
                                ELSE IF t = idle_thread THEN "idle"
                                ELSE "none"]
  /\ target = [t \in Thread |-> NULL]
  /\ cond = [t \in Thread |-> NULL]
  /\ scan = [t \in Thread |-> NoScan]

-----------------------------------------------------------------------------
(* Priorities *)

(* Faulty variant: no donation. *)
thread_get_donated_priority_base(pr, lk, w) == pr

(* thread_get_donated_priority for every thread: the base priority raised  *)
(* to that of any thread waiting for a lock it holds, MAX_DEPTH deep.      *)
thread_get_donated_priority(pr, lk, w) ==
  LET donated[depth \in 0..MAX_DEPTH, t \in AllThreads] ==
        IF depth = MAX_DEPTH THEN pr[t]
        ELSE Max({pr[t]} \cup
                 {donated[depth + 1, u] :
                    u \in UNION {ToSet(w[l]) : l \in lk[t]}})
  IN  [t \in AllThreads |-> donated[0, t]]

Pri == thread_get_donated_priority(priority, locks, waiters)

Goto(p) == pc' = [pc EXCEPT ![current] = p]
Aim(s) == target' = [target EXCEPT ![current] = s]

-----------------------------------------------------------------------------
(* Semaphores *)

(* Faulty variants: nobody is woken; a thread is woken only when the       *)
(* semaphore was zero; the woken thread stays on the wait list.            *)
sema_up_no_wake(s) ==
  /\ value' = [value EXCEPT ![s] = @ + 1]
  /\ UNCHANGED <<waiters, schedVars>>

sema_up_from_zero(s) ==
  /\ value' = [value EXCEPT ![s] = @ + 1]
  /\ \/ /\ waiters[s] = <<>> \/ value[s] > 0
        /\ UNCHANGED <<waiters, schedVars>>
     \/ \E i \in DOMAIN waiters[s] :
          LET w == [waiters EXCEPT ![s] = RemoveAt(waiters[s], i)]
          IN  /\ value[s] = 0
              /\ list_highest_priority_thread(waiters[s], i, Pri)
              /\ waiters' = w
              /\ thread_unblock(waiters[s][i],
                     thread_get_donated_priority(priority, locks, w))

sema_up_no_remove(s) ==
  /\ value' = [value EXCEPT ![s] = @ + 1]
  /\ \/ waiters[s] = <<>> /\ UNCHANGED schedVars
     \/ \E i \in DOMAIN waiters[s] :
          /\ list_highest_priority_thread(waiters[s], i, Pri)
          /\ thread_unblock(waiters[s][i], Pri)
  /\ UNCHANGED waiters

(* The semaphore is positive before anyone is woken; of the waiters the    *)
(* one of highest priority is made ready.                                  *)
sema_up(s) ==
  /\ value' = [value EXCEPT ![s] = @ + 1]
  /\ \/ /\ waiters[s] = <<>>
        /\ UNCHANGED <<waiters, schedVars>>
     \/ \E i \in DOMAIN waiters[s] :
          LET w == [waiters EXCEPT ![s] = RemoveAt(waiters[s], i)]
          IN  /\ list_highest_priority_thread(waiters[s], i, Pri)
              /\ waiters' = w
              /\ thread_unblock(waiters[s][i],
                     thread_get_donated_priority(priority, locks, w))

(* Where sema_down(s) returns to. *)
AfterDown(s) ==
  \/ s \in Lock /\ Goto("hold") /\ Aim(s)
  \/ s \in Sema /\ Goto("run") /\ Aim(NULL)
  \/ s \in Thread /\ Goto("down") /\ Aim(CondLock[cond[current]])

(* The running thread calls sema_down(s), directly or in lock_acquire,     *)
(* which it must not do for a lock it holds; or it continues there.        *)
InSemaDown(s) ==
  \/ /\ pc[current] = "run"
     /\ \/ s \in DownSema
        \/ s \in Lock /\ holder[s] # current
  \/ pc[current] \in {"down", "wake"} /\ target[current] = s

sema_down(s) ==
  /\ InSemaDown(s)
  /\ \/ /\ value[s] > 0
        /\ value' = [value EXCEPT ![s] = @ - 1]
        /\ AfterDown(s)
        /\ UNCHANGED <<waiters, schedVars>>
     \/ /\ value[s] = 0
        /\ LET w == [waiters EXCEPT ![s] = Append(waiters[s], current)]
           IN  /\ waiters' = w
               /\ thread_block(ready_list,
                      thread_get_donated_priority(priority, locks, w))
        /\ Goto("wake")
        /\ Aim(s)
        /\ UNCHANGED value
  /\ UNCHANGED <<priority, lockVars, condVars>>

(* Faulty variant: lock_try_acquire does not look at the result. *)
sema_try_down_ignored(l) ==
  /\ pc[current] = "run"
  /\ holder[l] # current
  /\ value' = [value EXCEPT ![l] = IF @ > 0 THEN @ - 1 ELSE @]
  /\ Goto("hold")
  /\ Aim(l)
  /\ UNCHANGED <<waiters, schedVars, priority, lockVars, condVars>>

(* sema_try_down in lock_try_acquire; the failing call changes nothing. *)
sema_try_down(l) ==
  /\ pc[current] = "run"
  /\ holder[l] # current
  /\ value[l] > 0
  /\ value' = [value EXCEPT ![l] = @ - 1]
  /\ Goto("hold")
  /\ Aim(l)
  /\ UNCHANGED <<waiters, schedVars, priority, lockVars, condVars>>

(* A thread ups a plain semaphore. *)
ThreadSemaUp(s) ==
  /\ pc[current] = "run"
  /\ value[s] < MaxValue
  /\ sema_up(s)
  /\ UNCHANGED <<priority, lockVars, condVars, pc, target>>

(* A device interrupt handler does, in the running thread's context. *)
InterruptSemaUp(s) ==
  /\ ~IntrOff(current)
  /\ value[s] < MaxValue
  /\ sema_up(s)
  /\ UNCHANGED <<priority, lockVars, condVars, pc, target>>

-----------------------------------------------------------------------------
(* Locks *)

(* lock_acquire and lock_try_acquire, after the semaphore is down. *)
LockSetHolder ==
  /\ pc[current] = "hold"
  /\ holder' = [holder EXCEPT ![target[current]] = current]
  /\ Goto("enlist")
  /\ UNCHANGED <<schedVars, priority, locks, semaVars, condVars, target>>

(* The last step of both, and of the lock_acquire that ends cond_wait. *)
LockEnlist ==
  /\ pc[current] = "enlist"
  /\ locks' = [locks EXCEPT ![current] = @ \cup {target[current]}]
  /\ cond' = [cond EXCEPT ![current] = NULL]
  /\ Goto("run")
  /\ Aim(NULL)
  /\ UNCHANGED <<schedVars, priority, holder, semaVars, cwaiters, scan>>

(* lock_release(l), called by the thread or by cond_wait: three steps, all *)
(* with interrupts on.  The donations of l's waiters end with the first.   *)
LockUnlist(l) ==
  /\ \/ pc[current] = "run" /\ holder[l] = current
     \/ pc[current] = "unlist" /\ target[current] = l
  /\ locks' = [locks EXCEPT ![current] = @ \ {l}]
  /\ Goto("unhold")
  /\ Aim(l)
  /\ UNCHANGED <<schedVars, priority, holder, semaVars, condVars>>

LockClearHolder ==
  /\ pc[current] = "unhold"
  /\ holder' = [holder EXCEPT ![target[current]] = NULL]
  /\ Goto("up")
  /\ UNCHANGED <<schedVars, priority, locks, semaVars, condVars, target>>

(* lock_release returns to its caller, or into the sema_down of cond_wait. *)
LockSemaUp ==
  /\ pc[current] = "up"
  /\ sema_up(target[current])
  /\ \/ cond[current] = NULL /\ Goto("run") /\ Aim(NULL)
     \/ cond[current] # NULL /\ Goto("down") /\ Aim(current)
  /\ UNCHANGED <<priority, lockVars, condVars>>

-----------------------------------------------------------------------------
(* Condition variables *)

cond_wait(c) ==
  /\ pc[current] = "run"
  /\ holder[CondLock[c]] = current
  /\ value' = [value EXCEPT ![current] = 0]
  /\ waiters' = [waiters EXCEPT ![current] = <<>>]
  /\ cwaiters' = [cwaiters EXCEPT ![c] = Append(@, current)]
  /\ cond' = [cond EXCEPT ![current] = c]
  /\ Goto("unlist")
  /\ Aim(CondLock[c])
  /\ UNCHANGED <<schedVars, priority, lockVars, scan>>

(* cond_signal, or the first round of cond_broadcast (all). *)
cond_signal(c, all) ==
  /\ pc[current] = "run"
  /\ holder[CondLock[c]] = current
  /\ cwaiters[c] # <<>>
  /\ scan' = [scan EXCEPT ![current] =
                [cond |-> c, e |-> 1, best |-> 1, hp |-> -1, all |-> all]]
  /\ Goto("scan")
  /\ UNCHANGED <<schedVars, priority, lockVars, semaVars, cwaiters, cond, target>>

(* One round of the loop: the waiter at e counts only if it already sleeps *)
(* on its semaphore, and with its base priority.                           *)
CondScan ==
  LET sc == scan[current]
      t  == cwaiters[sc.cond][sc.e]
      better == waiters[t] # <<>> /\ priority[t] > sc.hp
  IN  /\ pc[current] = "scan"
      /\ sc.e <= Len(cwaiters[sc.cond])
      /\ scan' = [scan EXCEPT ![current] =
                    [sc EXCEPT !.e = @ + 1,
                               !.best = IF better THEN sc.e ELSE @,
                               !.hp = IF better THEN priority[t] ELSE @]]
      /\ UNCHANGED <<schedVars, priority, lockVars, semaVars, cwaiters, cond,
                     pc, target>>

(* Faulty variant: the chosen waiter stays on the list. *)
CondRemove_no_remove ==
  LET sc == scan[current]
  IN  /\ pc[current] = "scan"
      /\ sc.e > Len(cwaiters[sc.cond])
      /\ Aim(cwaiters[sc.cond][sc.best])
      /\ Goto("signal")
      /\ UNCHANGED <<schedVars, priority, lockVars, semaVars, condVars>>

(* The loop is over: the chosen waiter leaves the list ... *)
CondRemove ==
  LET sc == scan[current]
  IN  /\ pc[current] = "scan"
      /\ sc.e > Len(cwaiters[sc.cond])
      /\ Aim(cwaiters[sc.cond][sc.best])
      /\ cwaiters' = [cwaiters EXCEPT ![sc.cond] = RemoveAt(@, sc.best)]
      /\ Goto("signal")
      /\ UNCHANGED <<schedVars, priority, lockVars, semaVars, cond, scan>>

(* ... and its semaphore is upped; cond_broadcast goes on while there are  *)
(* waiters.                                                                *)
CondSemaUp ==
  LET sc == scan[current]
  IN  /\ pc[current] = "signal"
      /\ sema_up(target[current])
      /\ Aim(NULL)
      /\ \/ /\ sc.all /\ cwaiters[sc.cond] # <<>>
            /\ scan' = [scan EXCEPT ![current] =
                          [sc EXCEPT !.e = 1, !.best = 1, !.hp = -1]]
            /\ Goto("scan")
         \/ /\ ~sc.all \/ cwaiters[sc.cond] = <<>>
            /\ scan' = [scan EXCEPT ![current] = NoScan]
            /\ Goto("run")
      /\ UNCHANGED <<priority, lockVars, cwaiters, cond>>

-----------------------------------------------------------------------------
(* Threads *)

thread_create(t, p) ==
  /\ pc[current] = "run"
  /\ status[t] = "NONE"
  /\ priority' = [priority EXCEPT ![t] = p]
  /\ thread_unblock(t, thread_get_donated_priority(priority', locks, waiters))
  /\ pc' = [pc EXCEPT ![t] = "run"]
  /\ UNCHANGED <<lockVars, semaVars, condVars, target>>

(* thread_set_priority, in two steps: the write, then with interrupts on   *)
(* the test against the run queue, which compares the new base priority.   *)
thread_set_priority(p) ==
  /\ pc[current] = "run"
  /\ priority' = [priority EXCEPT ![current] = p]
  /\ Goto("setpri")
  /\ UNCHANGED <<schedVars, lockVars, semaVars, condVars, target>>

SetPriorityYield ==
  LET lower == \E i \in DOMAIN ready_list :
                  priority[current] < Pri[ready_list[i]]
  IN  /\ pc[current] = "setpri"
      /\ \/ lower /\ thread_yield(status, ready_list, Pri)
         \/ ~lower /\ UNCHANGED schedVars
      /\ Goto("run")
      /\ UNCHANGED <<priority, lockVars, semaVars, condVars, target>>

(* thread_exit: interrupts go off, alive_sema is upped, which may switch   *)
(* to another thread before this one is dying; then the last schedule().   *)
thread_exit ==
  /\ pc[current] = "run"
  /\ sema_up(alive_sema[current])
  /\ Goto("exit")
  /\ UNCHANGED <<priority, lockVars, condVars, target>>

ThreadDie ==
  /\ pc[current] = "exit"
  /\ schedule([status EXCEPT ![current] = "DYING"], ready_list, Pri)
  /\ Goto("dead")
  /\ UNCHANGED <<priority, lockVars, semaVars, condVars, target>>

(* The end of a time slice (thread_tick, intr_yield_on_return), and the    *)
(* thread_yield a thread calls itself.                                     *)
TimerYield ==
  /\ ~IntrOff(current)
  /\ thread_yield(status, ready_list, Pri)
  /\ UNCHANGED <<priority, lockVars, semaVars, condVars, pc, target>>

(* One round of idle(): block, so that a ready thread runs. *)
idle ==
  /\ pc[current] = "idle"
  /\ thread_block(ready_list, Pri)
  /\ UNCHANGED <<priority, lockVars, semaVars, condVars, pc, target>>

-----------------------------------------------------------------------------
(* The rest of an operation the running thread has begun. *)
Continue ==
  \/ \E s \in SemaId : pc[current] # "run" /\ sema_down(s)
  \/ LockSetHolder \/ LockEnlist
  \/ \E l \in Lock : pc[current] # "run" /\ LockUnlist(l)
  \/ LockClearHolder \/ LockSemaUp
  \/ CondScan \/ CondRemove \/ CondSemaUp
  \/ SetPriorityYield
  \/ ThreadDie
  \/ idle

(* An operation the running thread begins. *)
Call ==
  \/ \E s \in SemaId : pc[current] = "run" /\ sema_down(s)
  \/ \E l \in Lock : sema_try_down(l)
  \/ \E l \in Lock : pc[current] = "run" /\ LockUnlist(l)
  \/ \E s \in UpSema : ThreadSemaUp(s)
  \/ \E c \in Cond : cond_wait(c)
  \/ \E c \in Cond, all \in BOOLEAN : cond_signal(c, all)
  \/ \E t \in Thread, p \in NewPriority : thread_create(t, p)
  \/ \E p \in NewPriority : thread_set_priority(p)
  \/ thread_exit

Interrupt ==
  \/ TimerYield
  \/ \E s \in UpSema : InterruptSemaUp(s)

Next == Continue \/ Call \/ Interrupt

Spec == Init /\ [][Next]_vars

(* The timer keeps ticking, and a thread that is scheduled again and again *)
(* gets to execute: a time slice is four ticks long.                       *)
Fairness ==
  /\ WF_vars(TimerYield)
  /\ \A t \in AllThreads : SF_vars(current = t /\ Continue)

FairSpec == Spec /\ Fairness

-----------------------------------------------------------------------------
(* Properties *)

ScanType ==
  [cond : Cond \cup {NULL}, e : Nat, best : Nat, hp : Priorities \cup {-1},
   all : BOOLEAN]

(* Every variable has its type. *)
TypeOK ==
  /\ status \in [AllThreads -> Statuses]
  /\ ready_list \in Seq(Thread)
  /\ current \in AllThreads
  /\ priority \in [AllThreads -> Priorities]
  /\ locks \in [AllThreads -> SUBSET Lock]
  /\ value \in [SemaId -> Nat]
  /\ waiters \in [SemaId -> Seq(Thread)]
  /\ holder \in [Lock -> Thread \cup {NULL}]
  /\ cwaiters \in [Cond -> Seq(Thread)]
  /\ pc \in [AllThreads -> PC]
  /\ target \in [Thread -> SemaId \cup {NULL}]
  /\ cond \in [Thread -> Cond \cup {NULL}]
  /\ scan \in [Thread -> ScanType]

(* t has the lock l: it has brought its semaphore down in lock_acquire or  *)
(* lock_try_acquire and not yet up in lock_release.                        *)
Owns(t, l) ==
  \/ holder[l] = t
  \/ pc[t] \in {"hold", "up"} /\ target[t] = l

(* "A lock can be held by at most a single thread at any given time"       *)
(* (synch.c, lock_init): over the windows in which the semaphore is down   *)
(* but the holder not yet or no longer set, a lock has at most one owner,  *)
(* and its semaphore is 1 exactly when it has none.                        *)
OwnedOnce(l) ==
  /\ value[l] = IF \E t \in Thread : Owns(t, l) THEN 0 ELSE 1
  /\ \A t, u \in Thread : Owns(t, l) /\ Owns(u, l) => t = u

LockExclusion == \A l \in Lock : OwnedOnce(l)

(* What the code knows where it is: an operation on a lock has a lock for  *)
(* its target and, between setting and clearing the holder, is that        *)
(* lock's; a thread waits for a lock, a plain semaphore or, in cond_wait,  *)
(* its own; cond_signal runs under the condition variable's lock, so the   *)
(* list it scans does not change under it.                                 *)
ControlAt(t) ==
  /\ pc[t] # "idle"
  /\ status[t] = "NONE" => pc[t] = "none"
  /\ pc[t] \in {"hold", "up", "enlist", "unlist", "unhold"} =>
       target[t] \in Lock
  /\ pc[t] \in {"hold", "up"} => holder[target[t]] # t
  /\ pc[t] \in {"enlist", "unlist", "unhold"} => holder[target[t]] = t
  /\ pc[t] \in {"down", "wake"} =>
       /\ target[t] \in SemaId
       /\ target[t] \in Thread => target[t] = t /\ cond[t] \in Cond
  /\ pc[t] = "signal" => target[t] \in Thread
  /\ pc[t] \in {"scan", "signal"} =>
       /\ scan[t].cond \in Cond
       /\ holder[CondLock[scan[t].cond]] = t
  /\ pc[t] = "scan" =>
       /\ scan[t].e > 0
       /\ scan[t].best \in DOMAIN cwaiters[scan[t].cond]

ControlOK ==
  /\ pc[idle_thread] = "idle"
  /\ \A t \in Thread : ControlAt(t)

(* A lock is on the `locks' list of its holder and on no other, except     *)
(* inside the holder's lock_acquire and lock_release: lock->elem is never  *)
(* linked twice, and the donation walk sees every lock a thread holds.     *)
LockListed ==
  \A l \in Lock, t \in Thread :
    /\ l \in locks[t] => holder[l] = t
    /\ holder[l] = t => \/ l \in locks[t]
                        \/ pc[t] \in {"enlist", "unhold"} /\ target[t] = l

(* The comment on `elem' in thread.h: "only a thread in the ready state is *)
(* on the run queue, whereas only a thread in the blocked state is on a    *)
(* semaphore wait list".  The ready threads are exactly the ones on the    *)
(* run queue and the threads blocked in sema_down(s) exactly the ones on   *)
(* s's wait list, each once.                                               *)
ElemExclusive ==
  /\ IsInjective(ready_list)
  /\ ToSet(ready_list) = {t \in Thread : status[t] = "READY"}
  /\ \A s \in SemaId :
       /\ IsInjective(waiters[s])
       /\ ToSet(waiters[s]) =
            {t \in Thread : status[t] = "BLOCKED" /\ target[t] = s}

(* There is one running thread, and it is the one whose stack is in use. *)
OneRunning ==
  \A t \in AllThreads : status[t] = "RUNNING" <=> t = current

(* Each list element is where the thread's or lock's state says, and       *)
(* nowhere else: ElemExclusive, OneRunning and LockListed together.        *)
QueuesExact == ElemExclusive /\ OneRunning /\ LockListed

(* No wake-up is lost, although sema_up does not hand the semaphore over   *)
(* and any thread may take it before the woken one runs: while threads     *)
(* wait for s, a thread that is on its way to retry stands for every unit  *)
(* of s that is to be had.                                                 *)
NoLostWakeup ==
  \A s \in SemaId :
    waiters[s] # <<>> =>
      value[s] <= Cardinality({t \in Thread : /\ pc[t] = "wake"
                                              /\ target[t] = s
                                              /\ status[t] # "BLOCKED"})

(* Where the running thread may be of lower priority than a ready one:     *)
(* lock_release has ended a donation but not yet upped the semaphore, or   *)
(* thread_set_priority has not reached its test.                           *)
PriorityDropped(t) == pc[t] \in {"unhold", "up", "setpri"}

(* Strict priority scheduling, donations included: no ready thread has a   *)
(* higher priority than the running one, whatever thread or interrupt      *)
(* handler unblocked it, raised or lowered a priority or ended a donation. *)
RunningHighest ==
  ~PriorityDropped(current) =>
    \A t \in ToSet(ready_list) : Pri[t] <= Pri[current]

(* A thread that waits for a lock waits for the holder and for threads of  *)
(* at least its own priority only: while the holder (which has finished    *)
(* lock_acquire) is ready to run, no thread of lower priority than the     *)
(* waiter's runs.                                                          *)
DonationEffective ==
  ~PriorityDropped(current) =>
    \A l \in Lock, t \in Thread :
      l \in locks[t] /\ status[t] = "READY" =>
        \A u \in ToSet(waiters[l]) : Pri[u] <= Pri[current]

(* Strict priority scheduling, and its point: no priority inversion.       *)
PriorityScheduling == RunningHighest /\ DonationEffective

(* A thread in cond_wait(c), past the release of the lock, is waiting in   *)
(* cond->waiters or has been chosen by exactly one cond_signal, which has  *)
(* upped its semaphore or is about to: no signal is lost to a waiter that  *)
(* has released the lock and not yet blocked, and none is given twice.     *)
CondSignalled(t) ==
  value[t] + Cardinality({u \in Thread : pc[u] = "signal" /\ target[u] = t})

CondAccounting ==
  \A t \in Thread :
    LET inWait == /\ cond[t] # NULL
                  /\ \/ pc[t] \in {"unlist", "unhold", "up"}
                     \/ pc[t] \in {"down", "wake"} /\ target[t] = t
        times  == Cardinality({p \in Cond \X (1..Cardinality(Thread)) :
                                 /\ p[2] <= Len(cwaiters[p[1]])
                                 /\ cwaiters[p[1]][p[2]] = t})
    IN  CondSignalled(t) + times = IF inWait THEN 1 ELSE 0

(* What cond_signal's comment says: "up the semaphore with the highest     *)
(* priority waiter".  Of the threads that sleep on the condition variable  *)
(* when the chosen one leaves the list, none has a higher priority.        *)
SignalsHighest ==
  [][\A t \in Thread :
       pc[t] = "scan" /\ pc'[t] = "signal" =>
         \A u \in ToSet(cwaiters[scan[t].cond]) :
           waiters[u] # <<>> => Pri[u] <= Pri[target'[t]]]_vars

(* A lock released while threads wait for it is taken again. *)
LockTaken ==
  \A l \in Lock : (waiters[l] # <<>> /\ value[l] = 1) ~> (value[l] = 0)

(* A signalled thread gets past its semaphore in cond_wait. *)
SignalledWakes ==
  \A t \in Thread : (value[t] = 1) ~> (value[t] = 0)

(* Nobody who was let go on stays behind: a lock that is free while        *)
(* threads wait for it is taken, and a signalled thread leaves its         *)
(* semaphore in cond_wait.                                                 *)
WaitersServed == LockTaken /\ SignalledWakes
=============================================================================
