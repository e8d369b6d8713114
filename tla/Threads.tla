------------------------------ MODULE Threads ------------------------------
(***************************************************************************)
(* The thread scheduler of threads/thread.c: the status of every thread,   *)
(* the run queue and the choice of the next thread.  There is one CPU.     *)
(* The operators below are the fragments every kernel path that blocks,    *)
(* unblocks or yields is made of; each one runs with interrupts off, so a  *)
(* fragment is one atomic step.  A fragment takes the statuses and the run *)
(* queue as its caller has left them, and the effective priorities `pri'.  *)
(***************************************************************************)
EXTENDS Integers, Sequences, SequencesExt

CONSTANTS
  Thread,          (* the kernel threads other than the idle thread          *)
  idle_thread,     (* runs when ready_list is empty; never on ready_list     *)
  initial_thread,  (* "main": its page is not from palloc, so is never freed *)
  PRI_MIN, PRI_MAX

ASSUME ThreadsAssumption ==
  /\ idle_thread \notin Thread
  /\ initial_thread \in Thread
  /\ PRI_MIN \in Nat /\ PRI_MAX \in Nat /\ PRI_MIN <= PRI_MAX

VARIABLES
  status,          (* t->status; "NONE": not created yet, "FREED": page freed *)
  ready_list,      (* threads in state READY, in arrival order                *)
  current,         (* running_thread()                                        *)
  priority         (* t->priority, the base priority                          *)

schedVars == <<status, ready_list, current>>

AllThreads == Thread \cup {idle_thread}
Priorities == PRI_MIN..PRI_MAX
Statuses == {"NONE", "RUNNING", "READY", "BLOCKED", "DYING", "FREED"}

(* Position i of list l holds the thread list_highest_priority_thread      *)
(* returns: the scan starts at the front and moves on a strictly greater   *)
(* priority only, so it stops at the first thread of the highest priority. *)
list_highest_priority_thread(l, i, pri) ==
  /\ \A j \in DOMAIN l : pri[l[j]] <= pri[l[i]]
  /\ \A j \in 1..(i - 1) : pri[l[j]] < pri[l[i]]

(* The new thread is RUNNING; if the previous one was dying its page is    *)
(* freed (except the initial thread's).                                    *)
thread_schedule_tail(st, next) ==
  [t \in AllThreads |->
     IF t = next THEN "RUNNING"
     ELSE IF st[t] = "DYING" /\ t # initial_thread THEN "FREED"
     ELSE st[t]]

(* schedule() with next_thread_to_run(): the first thread of the highest   *)
(* priority leaves the run queue and runs; the idle thread if it is empty. *)
schedule(st, rdy, pri) ==
  \/ /\ rdy = <<>>
     /\ ready_list' = rdy
     /\ current' = idle_thread
     /\ status' = thread_schedule_tail(st, idle_thread)
  \/ \E i \in DOMAIN rdy :
       /\ list_highest_priority_thread(rdy, i, pri)
       /\ ready_list' = RemoveAt(rdy, i)
       /\ current' = rdy[i]
       /\ status' = thread_schedule_tail(st, rdy[i])

thread_block(rdy, pri) ==
  schedule([status EXCEPT ![current] = "BLOCKED"], rdy, pri)

thread_yield(st, rdy, pri) ==
  schedule([st EXCEPT ![current] = "READY"],
           IF current = idle_thread THEN rdy ELSE Append(rdy, current), pri)

(* The unblocked thread joins the run queue; the running thread yields at  *)
(* once (in an interrupt handler: on return) to one of higher priority.    *)
thread_unblock(t, pri) ==
  LET st  == [status EXCEPT ![t] = "READY"]
      rdy == Append(ready_list, t)
  IN  \/ /\ pri[t] > pri[current]
         /\ thread_yield(st, rdy, pri)
      \/ /\ pri[t] <= pri[current]
         /\ status' = st
         /\ ready_list' = rdy
         /\ current' = current
=============================================================================
