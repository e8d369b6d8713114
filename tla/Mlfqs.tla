------------------------------- MODULE Mlfqs -------------------------------
(***************************************************************************)
(* The 4.4BSD scheduler of threads/thread.c (thread_mlfqs): thread_tick    *)
(* charges the running thread, averages the load and recomputes every      *)
(* priority from fixed-point numbers; thread_set_nice does it for one      *)
(* thread.  Priorities are never donated, so the one in struct thread is   *)
(* the one schedule() compares.  `ticks' is timer_ticks() modulo           *)
(* TIMER_FREQ, which is a multiple of the 4 ticks between two updates of   *)
(* the priorities.                                                         *)
(***************************************************************************)
EXTENDS Threads, FiniteSets

CONSTANTS
  F,            (* f of real-arithmetic.c: 2^14                              *)
  WINDOW,       (* the load is averaged over 60 seconds                      *)
  TIMER_FREQ,   (* ticks per second: 100                                     *)
  TIME_SLICE,   (* 4                                                         *)
  Nice,         (* the values thread_set_nice is called with                 *)
  MaxEvents     (* bound on what threads do, while ticks are unbounded       *)

ASSUME MlfqsAssumption ==
  /\ F \in Nat \ {0} /\ F % 2 = 0 /\ WINDOW \in Nat \ {0} /\ TIME_SLICE \in Nat \ {0}
  /\ TIMER_FREQ \in Nat \ {0} /\ TIMER_FREQ % 4 = 0
  /\ Nice \subseteq Int /\ MaxEvents \in Nat /\ IsFiniteSet(Thread)

VARIABLES
  load_avg, ticks,
  thread_ticks, (* timer ticks since the last switch                         *)
  nice, recent_cpu,
  npc,          (* where each thread is in thread_set_nice                   *)
  charged,      (* history: threads charged since the last update            *)
  events        (* how often a thread was created, blocked, unblocked...     *)

mlfqsVars == <<status, ready_list, current, priority, load_avg, ticks, thread_ticks, nice, recent_cpu,
               npc, charged, events>>

-----------------------------------------------------------------------------
(* Fixed-point numbers.  C's division rounds towards zero. *)

Quotient(a, b) == IF a >= 0 THEN a \div b ELSE -((-a) \div b)

int_to_fp(n) == n * F
(* fp_to_int with round_to_nearest, as every caller has it. *)
fp_to_int(x) == IF x >= 0 THEN Quotient(x + F \div 2, F) ELSE Quotient(x - F \div 2, F)
fp_mul(x, y) == Quotient(x * y, F)
fp_div(x, y) == Quotient(x * F, y)

thread_update_mlfqs_priority(cpu, n) ==
  fp_to_int(int_to_fp(PRI_MAX) - Quotient(cpu, 4) - int_to_fp(n) * 2)

-----------------------------------------------------------------------------
(* all_list: thread_exit takes the thread off it. *)
all_list == {t \in AllThreads : status[t] \notin {"NONE", "DYING", "FREED"}}

(* Only the initial thread and the idle thread have started. *)
MlfqsInit ==
  /\ status = [t \in AllThreads |-> IF t = initial_thread THEN "RUNNING"
                                    ELSE IF t = idle_thread THEN "BLOCKED" ELSE "NONE"]
  /\ ready_list = <<>> /\ current = initial_thread
  /\ load_avg = 0 /\ ticks = 0 /\ thread_ticks = 0
  /\ nice = [t \in AllThreads |-> 0] /\ recent_cpu = [t \in AllThreads |-> 0]
  /\ priority = [t \in AllThreads |-> thread_update_mlfqs_priority(0, 0)]
  /\ npc = [t \in AllThreads |-> "run"]
  /\ charged = {}
  /\ events = 0

(* The threads that are ready or running. *)
ready_threads == Len(ready_list) + (IF current # idle_thread THEN 1 ELSE 0)

(* Faulty variant: the old average keeps its whole weight. *)
next_load_avg_undamped == load_avg + Quotient(int_to_fp(ready_threads), WINDOW)
next_load_avg == Quotient((WINDOW - 1) * load_avg, WINDOW) + Quotient(int_to_fp(ready_threads), WINDOW)

decayed(load, cpu, n) == fp_mul(fp_div(2 * load, 2 * load + int_to_fp(1)), cpu) + int_to_fp(n)

Event == events < MaxEvents /\ events' = events + 1

(* The timer interrupt: thread_tick, and the yield on return from the      *)
(* interrupt once the time slice is used up.  The idle thread blocks again *)
(* long before the tick after the interrupt that made a thread ready; a    *)
(* tick inside thread_set_nice is rare, and counted.                       *)
thread_tick ==
  /\ current = idle_thread => ready_list = <<>>
  /\ IF npc[current] = "run" THEN UNCHANGED events ELSE Event
  /\ \E now \in {(ticks + 1) % TIMER_FREQ} :
     \E used \in {IF current = idle_thread THEN recent_cpu
                  ELSE [recent_cpu EXCEPT ![current] = @ + int_to_fp(1)]} :
     \E load \in {IF now = 0 THEN next_load_avg ELSE load_avg} :
     \E cpu \in {[t \in AllThreads |-> IF now = 0 /\ t \in all_list THEN decayed(load, used[t], nice[t])
                                       ELSE used[t]]} :
     \E pri \in {[t \in AllThreads |-> IF now % 4 = 0 /\ t \in all_list
                                       THEN thread_update_mlfqs_priority(cpu[t], nice[t]) ELSE priority[t]]} :
       /\ ticks' = now /\ load_avg' = load /\ recent_cpu' = cpu /\ priority' = pri
       /\ charged' = IF now % 4 = 0 THEN {} ELSE charged \cup {current}
       /\ \/ /\ thread_ticks + 1 < TIME_SLICE
             /\ thread_ticks' = thread_ticks + 1
             /\ UNCHANGED schedVars
          \/ /\ thread_ticks + 1 >= TIME_SLICE
             /\ thread_ticks' = 0
             /\ thread_yield(status, ready_list, pri)
       /\ UNCHANGED <<nice, npc>>

-----------------------------------------------------------------------------
(* Threads *)

(* The running thread is a thread's code outside thread_set_nice. *)
Working == current # idle_thread /\ npc[current] = "run"

(* The thread_unblock of another thread, by a thread or by an interrupt.   *)
Unblock(t) ==
  /\ thread_unblock(t, priority')
  /\ thread_ticks' = IF priority'[t] > priority'[current] THEN 0 ELSE thread_ticks

unblock(t) ==
  /\ Event
  /\ status[t] = "BLOCKED" /\ t # idle_thread
  /\ UNCHANGED <<priority, load_avg, ticks, nice, recent_cpu, npc, charged>>
  /\ Unblock(t)

(* init_thread: a thread inherits the niceness of the one that creates it. *)
init_thread(t) ==
  /\ nice' = [nice EXCEPT ![t] = nice[current]]
  /\ recent_cpu' = [recent_cpu EXCEPT ![t] = 0]
  /\ priority' = [priority EXCEPT ![t] = thread_update_mlfqs_priority(0, nice[current])]

thread_create(t) ==
  /\ Event /\ Working /\ status[t] = "NONE"
  /\ init_thread(t)
  /\ Unblock(t)
  /\ UNCHANGED <<load_avg, ticks, npc, charged>>

block ==
  /\ Event /\ Working
  /\ thread_block(ready_list, priority)
  /\ thread_ticks' = 0
  /\ UNCHANGED <<priority, load_avg, ticks, nice, recent_cpu, npc, charged>>

thread_exit ==
  /\ Event /\ Working /\ current # initial_thread
  /\ schedule([status EXCEPT ![current] = "DYING"], ready_list, priority)
  /\ thread_ticks' = 0
  /\ UNCHANGED <<priority, load_avg, ticks, nice, recent_cpu, npc, charged>>

(* The idle thread blocks again after every interrupt (with no effect, if  *)
(* there is no ready thread).                                              *)
idle ==
  /\ current = idle_thread /\ ready_list # <<>>
  /\ thread_block(ready_list, priority)
  /\ thread_ticks' = 0
  /\ UNCHANGED <<priority, load_avg, ticks, nice, recent_cpu, npc, charged, events>>

-----------------------------------------------------------------------------
(* thread_set_nice runs with interrupts on: a tick may come between the    *)
(* assignment, the new priority and the comparison.                        *)

thread_set_nice(n) ==
  /\ Event /\ Working
  /\ nice' = [nice EXCEPT ![current] = n]
  /\ npc' = [npc EXCEPT ![current] = "niced"]
  /\ UNCHANGED <<schedVars, priority, load_avg, ticks, thread_ticks, recent_cpu, charged>>

set_nice_update ==
  /\ npc[current] = "niced"
  /\ priority' = [priority EXCEPT ![current] = thread_update_mlfqs_priority(recent_cpu[current], nice[current])]
  /\ npc' = [npc EXCEPT ![current] = "updated"]
  /\ UNCHANGED <<schedVars, load_avg, ticks, thread_ticks, nice, recent_cpu, charged, events>>

set_nice_yield ==
  /\ npc[current] = "updated"
  /\ npc' = [npc EXCEPT ![current] = "run"]
  /\ IF \E i \in DOMAIN ready_list : priority[current] < priority[ready_list[i]]
     THEN thread_yield(status, ready_list, priority) /\ thread_ticks' = 0
     ELSE UNCHANGED <<schedVars, thread_ticks>>
  /\ UNCHANGED <<priority, load_avg, ticks, nice, recent_cpu, charged, events>>

MlfqsNext ==
  \/ thread_tick \/ idle
  \/ \E t \in Thread : unblock(t) \/ thread_create(t)
  \/ block \/ thread_exit
  \/ (\E n \in Nice : thread_set_nice(n)) \/ set_nice_update \/ set_nice_yield

(* What goes on without a further event. *)
Progress == thread_tick \/ idle \/ set_nice_update \/ set_nice_yield

-----------------------------------------------------------------------------
(* Properties *)

(* The average of the load is never negative and never above the number of *)
(* threads, whatever the divisions of thread_tick drop.                    *)
LoadBounded == 0 <= load_avg /\ load_avg <= int_to_fp(Cardinality(Thread))

(* The priority of a thread that has not been charged since the last       *)
(* update, and is not in thread_set_nice, is the one its recent_cpu and    *)
(* niceness give: no update of either misses the priority.                 *)
PrioritiesCurrent ==
  \A t \in all_list \ charged :
    npc[t] # "niced" => priority[t] = thread_update_mlfqs_priority(recent_cpu[t], nice[t])

(* An update of the priorities does not make the running thread yield, but *)
(* from a switch to the next tick, and so at least every TIME_SLICE ticks, *)
(* it has the highest priority (unless it lowers it in thread_set_nice).   *)
SliceHighest ==
  /\ thread_ticks < TIME_SLICE
  /\ thread_ticks = 0 /\ current # idle_thread /\ npc[current] = "run" =>
       \A i \in DOMAIN ready_list : priority[ready_list[i]] <= priority[current]

MlfqsRight == LoadBounded /\ PrioritiesCurrent /\ SliceHighest

(* Every ready thread runs: the recent_cpu of the others pulls them down.  *)
NoStarvation == \A t \in Thread : status[t] = "READY" ~> status[t] # "READY"
=============================================================================
