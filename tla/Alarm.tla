------------------------------- MODULE Alarm -------------------------------
(***************************************************************************)
(* timer_sleep and the timer interrupt (devices/timer.c) over the          *)
(* scheduler of Threads.  timer_sleep has interrupts on until the last     *)
(* moment: it reads the clock, links the thread's list element into        *)
(* sleeping_list and only then turns interrupts off and blocks.  The same  *)
(* list element links the thread into the run queue.                       *)
(*                                                                         *)
(* Time is relative: remaining[t] is t->next_wakeup - ticks, not below -1, *)
(* so that the clock need not be bounded.                                  *)
(***************************************************************************)
EXTENDS Threads

CONSTANTS
  Naps,        (* the arguments of timer_sleep                               *)
  TIME_SLICE   (* ticks a thread runs before it yields                       *)

VARIABLES
  sleeping_list,   (* the sleeping threads, in the order they came           *)
  remaining,       (* ticks until next_wakeup                                *)
  thread_ticks,    (* ticks since the last thread switch                     *)
  pc,              (* "run", "push", "block" or "asleep", in timer_sleep     *)
  fault            (* "panic": a failed assertion; "corrupt": a list element *)
                   (* linked into a second list.  Nothing happens afterwards *)

alarmVars == <<sleeping_list, remaining>>
vars == <<status, ready_list, current, priority, sleeping_list, remaining,
          thread_ticks, pc, fault>>

(* The main thread has created the others, none of higher priority. *)
Init ==
  /\ priority \in [AllThreads -> Priorities]
  /\ priority[idle_thread] = PRI_MIN
  /\ \A t \in Thread : priority[t] <= priority[initial_thread]
  /\ current = initial_thread
  /\ ready_list \in SetToSeqs(Thread \ {initial_thread})
  /\ status = [t \in AllThreads |-> IF t = initial_thread THEN "RUNNING" ELSE "READY"]
  /\ sleeping_list = <<>>
  /\ remaining = [t \in Thread |-> 0]
  /\ thread_ticks = 0
  /\ pc = [t \in AllThreads |-> "run"]
  /\ fault = "none"

-----------------------------------------------------------------------------
Running(p) == fault = "none" /\ current \in Thread /\ pc[current] = p

(* timer_sleep(n): next_wakeup is set from the clock ... *)
timer_sleep(n) ==
  /\ Running("run")
  /\ remaining' = [remaining EXCEPT ![current] = n]
  /\ pc' = [pc EXCEPT ![current] = "push"]
  /\ UNCHANGED <<schedVars, priority, sleeping_list, thread_ticks, fault>>

(* ... the thread joins the list, interrupts on ... *)
SleepPush ==
  /\ Running("push")
  /\ sleeping_list' = Append(sleeping_list, current)
  /\ pc' = [pc EXCEPT ![current] = "block"]
  /\ UNCHANGED <<schedVars, priority, remaining, thread_ticks, fault>>

(* ... and blocks. *)
SleepBlock ==
  /\ Running("block")
  /\ pc' = [pc EXCEPT ![current] = "asleep"]
  /\ thread_block(ready_list, priority)
  /\ thread_ticks' = 0
  /\ UNCHANGED <<priority, alarmVars, fault>>

(* The woken thread runs: timer_sleep returns. *)
SleepReturn ==
  /\ Running("asleep")
  /\ pc' = [pc EXCEPT ![current] = "run"]
  /\ UNCHANGED <<schedVars, priority, alarmVars, thread_ticks, fault>>

idle ==
  /\ fault = "none" /\ current = idle_thread
  /\ thread_block(ready_list, priority)
  /\ thread_ticks' = 0
  /\ UNCHANGED <<priority, alarmVars, pc, fault>>

(* thread_yield of the interrupted thread; its list element goes to the    *)
(* run queue, which breaks sleeping_list if it is on it.                   *)
InterruptYield(st, rdy, rest) ==
  /\ thread_yield(st, rdy, priority)
  /\ thread_ticks' = 0
  /\ fault' = IF current \in ToSet(rest) THEN "corrupt" ELSE fault

(* Faulty variant: after a removal the walk goes on behind the next        *)
(* element, which is passed over.                                          *)
due_skipping(l, rem) ==
  FoldLeft(LAMBDA a, t : IF a.skip \/ rem[t] > 0 THEN [a EXCEPT !.skip = FALSE]
                         ELSE [skip |-> TRUE, out |-> Append(a.out, t)],
           [skip |-> FALSE, out |-> <<>>], l).out

(* The threads timer_interrupt takes out of the list, in order. *)
due(l, rem) == SelectSeq(l, LAMBDA t : rem[t] <= 0)

(* Faulty variant: the woken threads stay on the list. *)
asleep_all(l, woken) == l

(* The threads that stay on the list. *)
asleep(l, woken) == SelectSeq(l, LAMBDA t : t \notin ToSet(woken))

(* The timer interrupt: thread_tick, then every thread whose time has come *)
(* leaves sleeping_list and is unblocked, then the yield on return if the  *)
(* time slice is over or a thread of higher priority was unblocked.        *)
timer_interrupt ==
  LET rem    == [t \in Thread |-> IF remaining[t] >= 0 THEN remaining[t] - 1 ELSE -1]
      woken  == due(sleeping_list, rem)
      rest   == asleep(sleeping_list, woken)
      st     == [t \in AllThreads |-> IF t \in ToSet(woken) THEN "READY" ELSE status[t]]
      rdy    == ready_list \o woken
      yield  == \/ thread_ticks + 1 >= TIME_SLICE
                \/ \E t \in ToSet(woken) : priority[t] > priority[current]
  IN  /\ fault = "none"
      /\ UNCHANGED <<priority, pc>>
      /\ \/ /\ \E t \in ToSet(woken) : status[t] # "BLOCKED"
            /\ fault' = "panic"
            /\ UNCHANGED <<schedVars, alarmVars, thread_ticks>>
         \/ /\ \A t \in ToSet(woken) : status[t] = "BLOCKED"
            /\ remaining' = rem
            /\ sleeping_list' = rest
            /\ \/ yield /\ InterruptYield(st, rdy, rest)
               \/ /\ ~yield
                  /\ status' = st /\ ready_list' = rdy /\ current' = current
                  /\ thread_ticks' = thread_ticks + 1
                  /\ UNCHANGED fault

Stopped == fault # "none" /\ UNCHANGED vars

Next ==
  \/ \E n \in Naps : timer_sleep(n)
  \/ SleepPush \/ SleepBlock \/ SleepReturn
  \/ idle
  \/ timer_interrupt
  \/ Stopped

Spec == Init /\ [][Next]_vars

(* The timer keeps ticking. *)
FairSpec == Spec /\ WF_vars(timer_interrupt)

-----------------------------------------------------------------------------
(* Properties *)

(* Every variable has its type. *)
TypeOK ==
  /\ status \in [AllThreads -> Statuses]
  /\ ready_list \in Seq(Thread) /\ sleeping_list \in Seq(Thread)
  /\ current \in AllThreads
  /\ priority \in [AllThreads -> Priorities]
  /\ remaining \in [Thread -> Nat \cup {-1}]
  /\ thread_ticks \in 0..(TIME_SLICE - 1)
  /\ pc \in [AllThreads -> {"run", "push", "block", "asleep"}]
  /\ fault \in {"none", "panic", "corrupt"}

(* As long as no interrupt has hit the window of timer_sleep, a thread is  *)
(* on sleeping_list, once, exactly while it is blocked or about to block,  *)
(* and on the run queue, once, exactly while it is ready.                  *)
SleepersBlocked ==
  fault = "none" =>
    /\ IsInjective(sleeping_list) /\ IsInjective(ready_list)
    /\ ToSet(sleeping_list) = {t \in Thread : \/ status[t] = "BLOCKED"
                                              \/ pc[t] = "block"}
    /\ ToSet(ready_list) = {t \in Thread : status[t] = "READY"}

(* A tick leaves nobody asleep whose time has come, however many threads   *)
(* are due at once (timer_interrupt removes while it walks the list).      *)
TickWakesAll ==
  [][timer_interrupt /\ fault' = "none" =>
       \A t \in ToSet(sleeping_list') : remaining'[t] > 0]_vars

(* A sleeping thread is woken up, unless the kernel has stopped. *)
SleeperWakes ==
  \A t \in Thread :
    (t \in ToSet(sleeping_list) /\ status[t] = "BLOCKED") ~> (status[t] # "BLOCKED" \/ fault # "none")

(* The alarm clock: every tick wakes all whose time has come, and the time *)
(* of every sleeper comes.                                                 *)
AlarmRings == TickWakesAll /\ SleeperWakes

(* thread_unblock's ASSERT (t->status == THREAD_BLOCKED): the timer        *)
(* interrupt wakes only threads that are blocked.                          *)
UnblocksBlocked == fault # "panic"
=============================================================================
