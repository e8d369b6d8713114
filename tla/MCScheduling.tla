---------------------------- MODULE MCScheduling ---------------------------
(***************************************************************************)
(* What must come to pass under the scheduler of Threads: `part' says      *)
(* whether the threads of a behaviour use a lock and a condition variable  *)
(* (Synch), or sleep (Alarm).                                              *)
(***************************************************************************)
EXTENDS Synch

CONSTANTS t1, t2, t3, a1, a2, a3, c1, l1, Naps, TIME_SLICE

VARIABLES sleeping_list, remaining, thread_ticks, fault, part

Clock == INSTANCE Alarm

MCThread == {t1, t2, t3}
MCAlive == (t1 :> a1 @@ t2 :> a2 @@ t3 :> a3)
MCCondLock == (c1 :> l1)

synchOnly == <<locks, value, waiters, holder, cwaiters, target, cond, scan>>
alarmOnly == <<sleeping_list, remaining, thread_ticks, fault>>
all == <<vars, alarmOnly, part>>

InitSynch ==
  /\ part = "synch" /\ Init
  /\ sleeping_list = <<>> /\ remaining = [t \in Thread |-> 0] /\ thread_ticks = 0 /\ fault = "none"

InitAlarm ==
  /\ part = "alarm" /\ Clock!Init
  /\ priority[t2] <= priority[t3] /\ priority[t1] = PRI_MAX      (* t2 and t3 are alike *)
  /\ locks = [t \in AllThreads |-> {}] /\ holder = [l \in Lock |-> NULL]
  /\ value = [s \in SemaId |-> 0] /\ waiters = [s \in SemaId |-> <<>>]
  /\ cwaiters = [c \in Cond |-> <<>>] /\ target = [t \in Thread |-> NULL]
  /\ cond = [t \in Thread |-> NULL] /\ scan = [t \in Thread |-> NoScan]

OfSynch(A) == part = "synch" /\ A /\ UNCHANGED <<alarmOnly, part>>
OfAlarm(A) == part = "alarm" /\ A /\ UNCHANGED <<synchOnly, part>>

MCNext == OfSynch(Next) \/ OfAlarm(Clock!Next)

(* The fairness of Synch and Alarm, for the part a behaviour is of. *)
MCFairness ==
  /\ WF_all(OfSynch(TimerYield) \/ OfAlarm(Clock!timer_interrupt))
  /\ \A t \in AllThreads : SF_all(OfSynch(current = t /\ Continue))

MCSpec == (InitSynch \/ InitAlarm) /\ [][MCNext]_all /\ MCFairness

(* The properties of Alarm.  Nobody sleeps in the behaviours of Synch. *)
SleepersBlocked == part = "alarm" => Clock!TypeOK /\ Clock!SleepersBlocked
AlarmRings == Clock!AlarmRings
=============================================================================
