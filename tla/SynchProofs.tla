---------------------------- MODULE SynchProofs ----------------------------
(***************************************************************************)
(* Proofs about Synch, for any number of threads, locks, semaphores and    *)
(* condition variables.                                                    *)
(***************************************************************************)
EXTENDS Synch, ListLemmas

-----------------------------------------------------------------------------
(* The scheduler fragments keep the types of what they change. *)

SchedType ==
  /\ status \in [AllThreads -> Statuses]
  /\ ready_list \in Seq(Thread)
  /\ current \in AllThreads

(* No thread is un-created. *)
NoneKept(st) == \A t \in AllThreads : status'[t] = "NONE" => st[t] = "NONE"

(* schedule() runs a thread, and leaves a run queue of threads. *)
LEMMA ScheduleType ==
  ASSUME NEW st \in [AllThreads -> Statuses], NEW rdy \in Seq(Thread), NEW pri,
         schedule(st, rdy, pri)
  PROVE  SchedType' /\ NoneKept(st)
<1>1. CASE /\ rdy = <<>>
           /\ ready_list' = rdy
           /\ current' = idle_thread
           /\ status' = thread_schedule_tail(st, idle_thread)
  BY <1>1 DEF SchedType, NoneKept, thread_schedule_tail, AllThreads, Statuses
<1>2. ASSUME NEW i \in DOMAIN rdy,
             ready_list' = RemoveAt(rdy, i),
             current' = rdy[i],
             status' = thread_schedule_tail(st, rdy[i])
      PROVE  SchedType' /\ NoneKept(st)
  <2>1. ready_list' \in Seq(Thread)
    BY <1>2, RemoveOne
  <2>2. rdy[i] \in AllThreads
    BY <1>2, LenProperties, ElementOfSeq DEF AllThreads
  <2>3. status' \in [AllThreads -> Statuses] /\ NoneKept(st)
    BY <1>2 DEF thread_schedule_tail, Statuses, NoneKept
  <2>4. QED
    BY <1>2, <2>1, <2>2, <2>3 DEF SchedType
<1>3. QED
  BY <1>1, <1>2 DEF schedule

(* So do thread_yield, thread_block and thread_unblock. *)
LEMMA YieldType ==
  ASSUME NEW st \in [AllThreads -> Statuses], NEW rdy \in Seq(Thread), NEW pri,
         current \in AllThreads, thread_yield(st, rdy, pri)
  PROVE  SchedType' /\ NoneKept(st)
<1>1. [st EXCEPT ![current] = "READY"] \in [AllThreads -> Statuses]
  BY DEF Statuses
<1>2. (IF current = idle_thread THEN rdy ELSE Append(rdy, current)) \in Seq(Thread)
  BY PushBack DEF AllThreads
<1>3. SchedType' /\ NoneKept([st EXCEPT ![current] = "READY"])
  BY <1>1, <1>2, ScheduleType DEF thread_yield
<1>4. QED
  BY <1>3 DEF NoneKept

LEMMA BlockType ==
  ASSUME SchedType, NEW pri, thread_block(ready_list, pri)
  PROVE  SchedType' /\ NoneKept(status)
<1>1. [status EXCEPT ![current] = "BLOCKED"] \in [AllThreads -> Statuses]
  BY DEF SchedType, Statuses
<1>2. SchedType' /\ NoneKept([status EXCEPT ![current] = "BLOCKED"])
  BY <1>1, ScheduleType DEF thread_block, SchedType
<1>3. QED
  BY <1>2 DEF NoneKept, SchedType

LEMMA UnblockType ==
  ASSUME SchedType, NEW t \in Thread, NEW pri, thread_unblock(t, pri)
  PROVE  SchedType' /\ NoneKept(status) /\ status'[t] # "NONE"
<1> DEFINE st == [status EXCEPT ![t] = "READY"]
<1>1. st \in [AllThreads -> Statuses]
  BY DEF SchedType, Statuses, AllThreads
<1>2. Append(ready_list, t) \in Seq(Thread)
  BY PushBack DEF SchedType
<1>3. SchedType' /\ NoneKept(st)
  <2>1. CASE thread_yield(st, Append(ready_list, t), pri)
    BY <1>1, <1>2, <2>1, YieldType DEF SchedType
  <2>2. CASE /\ status' = st
             /\ ready_list' = Append(ready_list, t)
             /\ current' = current
    BY <1>1, <1>2, <2>2 DEF SchedType, NoneKept
  <2>3. QED
    BY <2>1, <2>2 DEF thread_unblock
<1>4. QED
  BY <1>3 DEF NoneKept, SchedType, AllThreads

(* sema_up adds one to the semaphore, and keeps the types. *)
LEMMA SemaUpType ==
  ASSUME TypeOK, NEW s \in SemaId, sema_up(s)
  PROVE  /\ SchedType' /\ NoneKept(status)
         /\ value' = [value EXCEPT ![s] = value[s] + 1]
         /\ value' \in [SemaId -> Nat]
         /\ waiters' \in [SemaId -> Seq(Thread)]
<1>1. /\ value' = [value EXCEPT ![s] = value[s] + 1]
      /\ value' \in [SemaId -> Nat]
  BY DEF sema_up, TypeOK
<1>2. CASE UNCHANGED <<waiters, schedVars>>
  BY <1>1, <1>2 DEF TypeOK, SchedType, NoneKept, schedVars
<1>3. ASSUME NEW i \in DOMAIN waiters[s], NEW pri,
             waiters' = [waiters EXCEPT ![s] = RemoveAt(waiters[s], i)],
             thread_unblock(waiters[s][i], pri)
      PROVE  /\ SchedType' /\ NoneKept(status)
             /\ waiters' \in [SemaId -> Seq(Thread)]
  <2>1. waiters[s] \in Seq(Thread) /\ SchedType
    BY DEF TypeOK, SchedType
  <2>2. RemoveAt(waiters[s], i) \in Seq(Thread)
    BY <2>1, RemoveOne
  <2>3. waiters[s][i] \in Thread
    BY <2>1, LenProperties, ElementOfSeq
  <2>4. QED
    BY <1>3, <2>1, <2>2, <2>3, UnblockType DEF TypeOK
<1>4. QED
  BY <1>1, <1>2, <1>3 DEF sema_up

-----------------------------------------------------------------------------
(* The scheduler fragments keep the run queue, and who is asleep. *)

(* The run queue. *)
RunQueue ==
  /\ IsInjective(ready_list)
  /\ ToSet(ready_list) = {t \in Thread : status[t] = "READY"}
  /\ OneRunning

SameSleep(st) == \A t \in Thread : status'[t] = "BLOCKED" <=> st[t] = "BLOCKED"

LEMMA ScheduleQueue ==
  ASSUME NEW st \in [AllThreads -> Statuses], NEW rdy \in Seq(Thread), NEW pri,
         IsInjective(rdy), ToSet(rdy) = {t \in Thread : st[t] = "READY"},
         \A t \in AllThreads : st[t] # "RUNNING",
         schedule(st, rdy, pri)
  PROVE  RunQueue' /\ SameSleep(st)
<1>1. CASE /\ rdy = <<>>
           /\ ready_list' = rdy
           /\ current' = idle_thread
           /\ status' = thread_schedule_tail(st, idle_thread)
  <2>1. \A t \in Thread : st[t] # "READY"
    BY <1>1 DEF ToSet
  <2>2. \A t \in AllThreads : status'[t] = IF t = idle_thread THEN "RUNNING"
                                           ELSE IF st[t] = "DYING" /\ t # initial_thread THEN "FREED"
                                           ELSE st[t]
    BY <1>1 DEF thread_schedule_tail
  <2>3. ToSet(ready_list)' = {t \in Thread : status'[t] = "READY"}
    BY <1>1, <2>1, <2>2, ThreadsAssumption DEF ToSet, AllThreads
  <2>4. OneRunning' /\ SameSleep(st)
    BY <1>1, <2>2, ThreadsAssumption DEF OneRunning, SameSleep, AllThreads
  <2>5. QED
    BY <1>1, <2>3, <2>4 DEF RunQueue
<1>2. ASSUME NEW i \in DOMAIN rdy,
             ready_list' = RemoveAt(rdy, i),
             current' = rdy[i],
             status' = thread_schedule_tail(st, rdy[i])
      PROVE  RunQueue' /\ SameSleep(st)
  <2>1. rdy[i] \in Thread /\ rdy[i] \in AllThreads /\ st[rdy[i]] = "READY"
    <3>1. rdy[i] \in ToSet(rdy)
      BY DEF ToSet
    <3>2. QED
      BY <3>1 DEF AllThreads
  <2>2. \A t \in AllThreads : status'[t] = IF t = rdy[i] THEN "RUNNING"
                                           ELSE IF st[t] = "DYING" /\ t # initial_thread THEN "FREED"
                                           ELSE st[t]
    BY <1>2 DEF thread_schedule_tail
  <2>3. IsInjective(ready_list') /\ ToSet(ready_list') = ToSet(rdy) \ {rdy[i]}
    BY <1>2, RemoveOneOnce
  <2>4. ToSet(ready_list') = {t \in Thread : status'[t] = "READY"}
    BY <2>1, <2>2, <2>3 DEF AllThreads
  <2>5. OneRunning' /\ SameSleep(st)
    BY <1>2, <2>1, <2>2 DEF OneRunning, SameSleep, AllThreads
  <2>6. QED
    BY <2>3, <2>4, <2>5 DEF RunQueue, IsInjective, ToSet
<1>3. QED
  BY <1>1, <1>2 DEF schedule

(* thread_yield, with the threads st and the run queue rdy before it. *)
LEMMA YieldQueue ==
  ASSUME NEW st \in [AllThreads -> Statuses], NEW rdy \in Seq(Thread), NEW pri,
         current \in AllThreads, IsInjective(rdy), ToSet(rdy) = {t \in Thread : st[t] = "READY"},
         \A t \in AllThreads : st[t] = "RUNNING" <=> t = current,
         thread_yield(st, rdy, pri)
  PROVE  RunQueue' /\ SameSleep(st)
<1> DEFINE st1 == [st EXCEPT ![current] = "READY"]
           rdy1 == IF current = idle_thread THEN rdy ELSE Append(rdy, current)
<1>1. /\ st1 \in [AllThreads -> Statuses] /\ st1[current] = "READY" /\ st[current] = "RUNNING"
      /\ \A t \in AllThreads \ {current} : st1[t] = st[t]
  BY DEF Statuses
<1>2. rdy1 \in Seq(Thread) /\ IsInjective(rdy1) /\ ToSet(rdy1) = {t \in Thread : st1[t] = "READY"}
  <2>1. CASE current = idle_thread
    BY <1>1, <2>1, ThreadsAssumption DEF AllThreads
  <2>2. CASE current # idle_thread
    <3>1. current \in Thread /\ current \notin ToSet(rdy)
      BY <1>1, <2>2 DEF AllThreads
    <3>2. /\ Append(rdy, current) \in Seq(Thread) /\ IsInjective(Append(rdy, current))
          /\ ToSet(Append(rdy, current)) = ToSet(rdy) \cup {current}
      BY <3>1, PushBack, PushBackOnce
    <3>3. ToSet(rdy) \cup {current} = {t \in Thread : st1[t] = "READY"}
      BY <1>1, <3>1 DEF AllThreads
    <3>4. QED
      BY <2>2, <3>2, <3>3
  <2>3. QED
    BY <2>1, <2>2
<1>3. \A t \in AllThreads : st1[t] # "RUNNING"
  BY <1>1
<1>4. schedule(st1, rdy1, pri)
  BY DEF thread_yield
<1> HIDE DEF st1, rdy1
<1>5. RunQueue' /\ SameSleep(st1)
  BY <1>1, <1>2, <1>3, <1>4, ScheduleQueue
<1>6. QED
  BY <1>1, <1>5 DEF SameSleep, AllThreads

(* The running thread blocks or dies: it is st's "BLOCKED" or "DYING". *)
LEMMA LeaveQueue ==
  ASSUME SchedType, RunQueue, NEW new \in {"BLOCKED", "DYING"}, NEW pri,
         schedule([status EXCEPT ![current] = new], ready_list, pri)
  PROVE  RunQueue' /\ SameSleep([status EXCEPT ![current] = new])
<1> DEFINE st1 == [status EXCEPT ![current] = new]
<1>1. /\ st1 \in [AllThreads -> Statuses] /\ st1[current] = new /\ status[current] = "RUNNING"
      /\ \A t \in AllThreads \ {current} : st1[t] = status[t]
  BY DEF SchedType, Statuses, RunQueue, OneRunning
<1>2. \A t \in AllThreads : st1[t] # "RUNNING"
  BY <1>1 DEF RunQueue, OneRunning
<1>3. {t \in Thread : st1[t] = "READY"} = {t \in Thread : status[t] = "READY"}
  BY <1>1 DEF AllThreads
<1>4. schedule(st1, ready_list, pri)
  OBVIOUS
<1> HIDE DEF st1
<1>5. RunQueue' /\ SameSleep(st1)
  BY <1>1, <1>2, <1>3, <1>4, ScheduleQueue DEF SchedType, RunQueue
<1>6. QED
  BY <1>5 DEF st1

(* A thread that is neither ready nor running is made ready. *)
LEMMA UnblockQueue ==
  ASSUME SchedType, RunQueue, NEW t \in Thread, status[t] \notin {"READY", "RUNNING"},
         NEW pri, thread_unblock(t, pri)
  PROVE  RunQueue' /\ SameSleep([status EXCEPT ![t] = "READY"])
<1> DEFINE st1 == [status EXCEPT ![t] = "READY"]
           rdy1 == Append(ready_list, t)
<1>1. /\ st1 \in [AllThreads -> Statuses] /\ st1[t] = "READY" /\ t \in AllThreads
      /\ \A u \in AllThreads \ {t} : st1[u] = status[u]
      /\ t \notin ToSet(ready_list)
  BY DEF SchedType, Statuses, RunQueue, AllThreads
<1>2. /\ rdy1 \in Seq(Thread) /\ IsInjective(rdy1) /\ ToSet(rdy1) = ToSet(ready_list) \cup {t}
  BY <1>1, PushBack, PushBackOnce DEF SchedType, RunQueue
<1>3. ToSet(rdy1) = {u \in Thread : st1[u] = "READY"}
  BY <1>1, <1>2 DEF RunQueue, AllThreads
<1>4. \A u \in AllThreads : st1[u] = "RUNNING" <=> u = current
  BY <1>1 DEF RunQueue, OneRunning
<1>5. \/ thread_yield(st1, rdy1, pri)
      \/ status' = st1 /\ ready_list' = rdy1 /\ current' = current
  BY DEF thread_unblock
<1>6. current \in AllThreads
  BY DEF SchedType
<1> HIDE DEF st1, rdy1
<1>7. CASE thread_yield(st1, rdy1, pri)
  <2>1. RunQueue' /\ SameSleep(st1)
    BY <1>1, <1>2, <1>3, <1>4, <1>6, <1>7, YieldQueue
  <2>2. QED
    BY <2>1 DEF st1
<1>8. CASE status' = st1 /\ ready_list' = rdy1 /\ current' = current
  <2>1. RunQueue'
    BY <1>2, <1>3, <1>4, <1>8 DEF RunQueue, OneRunning, IsInjective, ToSet
  <2>2. QED
    BY <1>8, <2>1 DEF SameSleep, st1
<1>9. QED
  BY <1>5, <1>7, <1>8

-----------------------------------------------------------------------------
(* Type correctness *)

LEMMA InitType == Init => TypeOK
<1>1. ASSUME Init PROVE TypeOK
  <2>1. /\ status \in [AllThreads -> Statuses]
        /\ current \in AllThreads
        /\ ready_list \in Seq(Thread)
    BY <1>1, ThreadsAssumption DEF Init, AllThreads, Statuses
  <2>2. priority \in [AllThreads -> Priorities]
    BY <1>1, ThreadsAssumption, SynchAssumption DEF Init, Priorities
  <2>3. /\ locks \in [AllThreads -> SUBSET Lock]
        /\ value \in [SemaId -> Nat]
        /\ waiters \in [SemaId -> Seq(Thread)]
        /\ holder \in [Lock -> Thread \cup {NULL}]
        /\ cwaiters \in [Cond -> Seq(Thread)]
    BY <1>1 DEF Init
  <2>4. /\ pc \in [AllThreads -> PC]
        /\ target \in [Thread -> SemaId \cup {NULL}]
        /\ cond \in [Thread -> Cond \cup {NULL}]
    BY <1>1 DEF Init, PC
  <2>5. scan \in [Thread -> ScanType]
    BY <1>1 DEF Init, NoScan, ScanType
  <2>6. QED
    BY <2>1, <2>2, <2>3, <2>4, <2>5 DEF TypeOK
<1>2. QED
  BY <1>1

(* The running thread at a pc other than "idle" is not the idle thread. *)
LEMMA CurrentThread ==
  ASSUME TypeOK, ControlOK, pc[current] # "idle"
  PROVE  current \in Thread
BY DEF TypeOK, ControlOK, AllThreads

(* A thread goes to a pc and aims at a semaphore, a lock or nothing. *)
LEMMA GotoType ==
  ASSUME TypeOK, NEW p \in PC, Goto(p)
  PROVE  pc' \in [AllThreads -> PC]
BY DEF TypeOK, Goto

LEMMA AimType ==
  ASSUME TypeOK, NEW s \in SemaId \cup {NULL}, Aim(s)
  PROVE  target' \in [Thread -> SemaId \cup {NULL}]
BY DEF TypeOK, Aim

(* Every step keeps TypeOK. *)
LEMMA NextType == TypeOK /\ ControlOK /\ [Next]_vars => TypeOK'
<1> SUFFICES ASSUME TypeOK, ControlOK, [Next]_vars
             PROVE  TypeOK'
  OBVIOUS
<1> USE SynchAssumption
<1>0. SchedType
  BY DEF TypeOK, SchedType
<1>1. ASSUME NEW s \in SemaId, sema_down(s)
      PROVE  TypeOK'
  <2>1. current \in Thread
    BY <1>1, CurrentThread DEF sema_down, InSemaDown
  <2>2. ASSUME value[s] > 0, value' = [value EXCEPT ![s] = @ - 1],
               AfterDown(s), UNCHANGED <<waiters, schedVars>>
        PROVE  TypeOK'
    <3>1. value' \in [SemaId -> Nat]
      BY <2>2 DEF TypeOK
    <3>2. pc' \in [AllThreads -> PC] /\ target' \in [Thread -> SemaId \cup {NULL}]
      <4>1. CASE s \in Thread
        <5>1. s = current /\ cond[current] \in Cond
          <6>1. ControlAt(current) /\ InSemaDown(s)
            BY <1>1, <2>1 DEF sema_down, ControlOK
          <6>2. pc[current] \in {"down", "wake"} /\ target[current] = s
            BY <4>1, <6>1 DEF InSemaDown
          <6>3. QED
            BY <4>1, <6>1, <6>2 DEF ControlAt
        <5>2. CondLock[cond[current]] \in SemaId
          BY <5>1 DEF SemaId
        <5>3. QED
          BY <2>2, <4>1, <5>2, GotoType, AimType DEF AfterDown, PC
      <4>2. CASE s \notin Thread
        BY <2>2, <4>2, GotoType, AimType DEF AfterDown, PC
      <4>3. QED
        BY <4>1, <4>2
    <3>3. QED
      BY <1>1, <2>2, <3>1, <3>2 DEF sema_down, TypeOK, schedVars, lockVars, condVars
  <2>3. ASSUME NEW pri,
               waiters' = [waiters EXCEPT ![s] = Append(waiters[s], current)],
               thread_block(ready_list, pri),
               Goto("wake"), Aim(s), UNCHANGED value
        PROVE  TypeOK'
    <3>1. SchedType'
      BY <2>3, <1>0, BlockType
    <3>2. waiters' \in [SemaId -> Seq(Thread)]
      <4>1. Append(waiters[s], current) \in Seq(Thread)
        BY <2>1, PushBack DEF TypeOK
      <4>2. QED
        BY <2>3, <4>1 DEF TypeOK
    <3>3. pc' \in [AllThreads -> PC] /\ target' \in [Thread -> SemaId \cup {NULL}]
      BY <2>1, <2>3 DEF TypeOK, Goto, Aim, PC
    <3>4. QED
      BY <1>1, <2>3, <3>1, <3>2, <3>3 DEF sema_down, TypeOK, SchedType, lockVars, condVars
  <2>4. QED
    BY <1>1, <2>2, <2>3 DEF sema_down
<1>2. ASSUME NEW l \in Lock, sema_try_down(l)
      PROVE  TypeOK'
  <2>1. current \in Thread
    BY <1>2, CurrentThread DEF sema_try_down
  <2>2. QED
    BY <1>2, <2>1 DEF sema_try_down, TypeOK, Goto, Aim, PC, SemaId, schedVars, lockVars, condVars
<1>3. ASSUME NEW s \in UpSema, sema_up(s),
             UNCHANGED <<priority, lockVars, condVars, pc, target>>
      PROVE  TypeOK'
  <2>1. s \in SemaId
    BY DEF SemaId
  <2>2. QED
    BY <1>3, <2>1, SemaUpType DEF TypeOK, SchedType, lockVars, condVars
<1>4. CASE LockSetHolder
  <2>1. current \in Thread
    BY <1>4, CurrentThread DEF LockSetHolder
  <2>2. QED
    BY <1>4, <2>1 DEF LockSetHolder, TypeOK, Goto, PC, schedVars, semaVars, condVars
<1>5. CASE LockEnlist
  <2>1. current \in Thread
    BY <1>5, CurrentThread DEF LockEnlist
  <2>2. target[current] \in Lock
    BY <1>5, <2>1 DEF LockEnlist, ControlOK, ControlAt
  <2>3. QED
    BY <1>5, <2>1, <2>2 DEF LockEnlist, TypeOK, Goto, Aim, PC, schedVars, semaVars
<1>6. ASSUME NEW l \in Lock, LockUnlist(l)
      PROVE  TypeOK'
  <2>1. current \in Thread
    BY <1>6, CurrentThread DEF LockUnlist
  <2>2. QED
    BY <1>6, <2>1 DEF LockUnlist, TypeOK, Goto, Aim, PC, SemaId, schedVars, semaVars, condVars
<1>7. CASE LockClearHolder
  <2>1. current \in Thread
    BY <1>7, CurrentThread DEF LockClearHolder
  <2>2. QED
    BY <1>7, <2>1 DEF LockClearHolder, TypeOK, Goto, PC, schedVars, semaVars, condVars
<1>8. CASE LockSemaUp
  <2>1. current \in Thread
    BY <1>8, CurrentThread DEF LockSemaUp
  <2>2. target[current] \in SemaId
    BY <1>8, <2>1 DEF LockSemaUp, ControlOK, ControlAt, SemaId
  <2>3. pc' \in [AllThreads -> PC] /\ target' \in [Thread -> SemaId \cup {NULL}]
    <3>1. current \in SemaId
      BY <2>1 DEF SemaId
    <3>2. QED
      BY <1>8, <3>1, GotoType, AimType DEF LockSemaUp, PC
  <2>4. QED
    BY <1>8, <2>2, <2>3, SemaUpType DEF LockSemaUp, TypeOK, SchedType, lockVars, condVars
<1>9. ASSUME NEW c \in Cond, cond_wait(c)
      PROVE  TypeOK'
  <2>1. current \in Thread
    BY <1>9, CurrentThread DEF cond_wait
  <2>2. cwaiters' \in [Cond -> Seq(Thread)]
    <3>1. Append(cwaiters[c], current) \in Seq(Thread)
      BY <2>1, PushBack DEF TypeOK
    <3>2. QED
      BY <1>9, <3>1 DEF cond_wait, TypeOK
  <2>3. value' \in [SemaId -> Nat] /\ waiters' \in [SemaId -> Seq(Thread)]
    <3>1. value \in [SemaId -> Nat] /\ waiters \in [SemaId -> Seq(Thread)]
      BY DEF TypeOK
    <3>2. value' \in [SemaId -> Nat]
      BY <1>9, <3>1 DEF cond_wait
    <3>3. <<>> \in Seq(Thread)
      BY EmptySeq
    <3>4. waiters' \in [SemaId -> Seq(Thread)]
      BY <1>9, <3>1, <3>3 DEF cond_wait
    <3>5. QED
      BY <3>2, <3>4
  <2>4. QED
    BY <1>9, <2>1, <2>2, <2>3 DEF cond_wait, TypeOK, Goto, Aim, PC, SemaId, schedVars, lockVars
<1>10. ASSUME NEW c \in Cond, NEW all \in BOOLEAN, cond_signal(c, all)
      PROVE  TypeOK'
  <2>1. current \in Thread
    BY <1>10, CurrentThread DEF cond_signal
  <2>2. scan' \in [Thread -> ScanType]
    BY <1>10, <2>1 DEF cond_signal, TypeOK, ScanType
  <2>3. QED
    BY <1>10, <2>1, <2>2 DEF cond_signal, TypeOK, Goto, PC, schedVars, lockVars, semaVars
<1>11. CASE CondScan
  <2>1. current \in Thread
    BY <1>11, CurrentThread DEF CondScan
  <2>2. scan[current] \in ScanType /\ scan[current].cond \in Cond
    BY <1>11, <2>1 DEF CondScan, TypeOK, ControlOK, ControlAt
  <2>3. scan' \in [Thread -> ScanType]
    <3> DEFINE sc == scan[current]
               t == cwaiters[sc.cond][sc.e]
               better == waiters[t] # <<>> /\ priority[t] > sc.hp
    <3>1. t \in Thread
      <4>1. cwaiters[sc.cond] \in Seq(Thread)
        BY <2>2 DEF TypeOK
      <4>2. sc.e <= Len(cwaiters[sc.cond])
        BY <1>11 DEF CondScan
      <4>3. sc.e > 0 /\ sc.e \in Nat
        <5>1. pc[current] = "scan"
          BY <1>11 DEF CondScan
        <5>2. ControlAt(current)
          BY <2>1 DEF ControlOK
        <5>3. QED
          BY <2>2, <5>1, <5>2 DEF ControlAt, ScanType
      <4>4. sc.e \in DOMAIN cwaiters[sc.cond]
        BY <4>1, <4>2, <4>3, Position
      <4>5. QED
        BY <4>1, <4>4, Holds
    <3>2. priority[t] \in Priorities
      BY <3>1 DEF TypeOK, AllThreads
    <3>3. [sc EXCEPT !.e = sc.e + 1,
                     !.best = IF better THEN sc.e ELSE sc.best,
                     !.hp = IF better THEN priority[t] ELSE sc.hp] \in ScanType
      <4> HIDE DEF better
      <4>1. /\ sc.e + 1 \in Nat
            /\ (IF better THEN sc.e ELSE sc.best) \in Nat
            /\ (IF better THEN priority[t] ELSE sc.hp) \in Priorities \cup {-1}
        <5>1. sc.e \in Nat /\ sc.best \in Nat /\ sc.hp \in Priorities \cup {-1}
          BY <2>2 DEF ScanType
        <5>2. sc.e + 1 \in Nat
          BY <5>1
        <5>3. (IF better THEN sc.e ELSE sc.best) \in Nat
          BY <5>1
        <5>4. (IF better THEN priority[t] ELSE sc.hp) \in Priorities \cup {-1}
          BY <3>2, <5>1
        <5>5. QED
          BY <5>2, <5>3, <5>4
      <4>2. QED
        BY <2>2, <4>1 DEF ScanType
    <3>4. scan' = [scan EXCEPT ![current] =
                     [sc EXCEPT !.e = sc.e + 1,
                                !.best = IF better THEN sc.e ELSE sc.best,
                                !.hp = IF better THEN priority[t] ELSE sc.hp]]
      BY <1>11 DEF CondScan
    <3>5. QED
      BY <2>1, <3>3, <3>4 DEF TypeOK
  <2>4. QED
    BY <1>11, <2>3 DEF CondScan, TypeOK, schedVars, lockVars, semaVars
<1>12. CASE CondRemove
  <2>1. current \in Thread
    BY <1>12, CurrentThread DEF CondRemove
  <2> DEFINE sc == scan[current]
  <2>2. /\ sc.cond \in Cond
        /\ cwaiters[sc.cond] \in Seq(Thread)
        /\ sc.best \in DOMAIN cwaiters[sc.cond]
    <3>1. ControlAt(current) /\ pc[current] = "scan"
      BY <1>12, <2>1 DEF CondRemove, ControlOK
    <3>2. sc.cond \in Cond /\ sc.best \in DOMAIN cwaiters[sc.cond]
      BY <3>1 DEF ControlAt
    <3>3. QED
      BY <3>2 DEF TypeOK
  <2>3. cwaiters[sc.cond][sc.best] \in SemaId
    BY <2>2, Holds DEF SemaId
  <2>4. RemoveAt(cwaiters[sc.cond], sc.best) \in Seq(Thread)
    BY <2>2, RemoveOne
  <2>5. cwaiters' \in [Cond -> Seq(Thread)]
    BY <1>12, <2>2, <2>4 DEF CondRemove, TypeOK
  <2>6. target' \in [Thread -> SemaId \cup {NULL}]
    BY <1>12, <2>1, <2>3 DEF CondRemove, TypeOK, Aim
  <2>7. QED
    BY <1>12, <2>1, <2>5, <2>6 DEF CondRemove, TypeOK, Goto, PC, schedVars, lockVars, semaVars
<1>13. CASE CondSemaUp
  <2>1. current \in Thread
    BY <1>13, CurrentThread DEF CondSemaUp
  <2>2. target[current] \in SemaId
    BY <1>13, <2>1 DEF CondSemaUp, ControlOK, ControlAt, SemaId
  <2>3. scan' \in [Thread -> ScanType]
    <3>1. scan[current] \in ScanType
      BY <2>1 DEF TypeOK
    <3>2. [scan[current] EXCEPT !.e = 1, !.best = 1, !.hp = -1] \in ScanType
      BY <3>1 DEF ScanType
    <3>3. NoScan \in ScanType
      BY DEF NoScan, ScanType
    <3>4. scan \in [Thread -> ScanType]
      BY DEF TypeOK
    <3>5. CASE scan' = [scan EXCEPT ![current] =
                          [scan[current] EXCEPT !.e = 1, !.best = 1, !.hp = -1]]
      BY <2>1, <3>2, <3>4, <3>5
    <3>6. CASE scan' = [scan EXCEPT ![current] = NoScan]
      BY <2>1, <3>3, <3>4, <3>6
    <3>7. QED
      BY <1>13, <3>5, <3>6 DEF CondSemaUp
  <2>4. pc' \in [AllThreads -> PC] /\ target' \in [Thread -> SemaId \cup {NULL}]
    BY <1>13, GotoType, AimType DEF CondSemaUp, PC
  <2>5. QED
    BY <1>13, <2>2, <2>3, <2>4, SemaUpType DEF CondSemaUp, TypeOK, SchedType, lockVars
<1>14. ASSUME NEW t \in Thread, NEW p \in NewPriority, thread_create(t, p)
      PROVE  TypeOK'
  <2>1. SchedType'
    BY <1>14, <1>0, UnblockType DEF thread_create
  <2>2. QED
    BY <1>14, <2>1 DEF thread_create, TypeOK, SchedType, PC, AllThreads, lockVars, semaVars, condVars
<1>15. ASSUME NEW p \in NewPriority, thread_set_priority(p)
      PROVE  TypeOK'
  BY <1>15 DEF thread_set_priority, TypeOK, Goto, PC, schedVars, lockVars, semaVars, condVars
<1>16. CASE SetPriorityYield
  <2>1. SchedType'
    BY <1>16, <1>0, YieldType DEF SetPriorityYield, SchedType, schedVars
  <2>2. QED
    BY <1>16, <2>1 DEF SetPriorityYield, TypeOK, SchedType, Goto, PC, lockVars, semaVars, condVars
<1>17. CASE thread_exit
  <2>1. current \in Thread
    BY <1>17, CurrentThread DEF thread_exit
  <2>2. alive_sema[current] \in SemaId
    BY <2>1 DEF SemaId
  <2>3. QED
    BY <1>17, <2>2, SemaUpType DEF thread_exit, TypeOK, SchedType, Goto, PC, lockVars, condVars
<1>18. CASE ThreadDie
  <2>1. [status EXCEPT ![current] = "DYING"] \in [AllThreads -> Statuses]
    BY <1>0 DEF SchedType, Statuses
  <2>2. SchedType'
    BY <1>18, <1>0, <2>1, ScheduleType DEF ThreadDie, SchedType
  <2>3. QED
    BY <1>18, <2>2 DEF ThreadDie, TypeOK, SchedType, Goto, PC, lockVars, semaVars, condVars
<1>19. CASE TimerYield
  <2>1. SchedType'
    BY <1>19, <1>0, YieldType DEF TimerYield, SchedType
  <2>2. QED
    BY <1>19, <2>1 DEF TimerYield, TypeOK, SchedType, lockVars, semaVars, condVars
<1>20. CASE idle
  <2>1. SchedType'
    BY <1>20, <1>0, BlockType DEF idle
  <2>2. QED
    BY <1>20, <2>1 DEF idle, TypeOK, SchedType, lockVars, semaVars, condVars
<1>21. CASE UNCHANGED vars
  BY <1>21 DEF TypeOK, vars
<1>22. QED
  BY <1>1, <1>2, <1>3, <1>4, <1>5, <1>6, <1>7, <1>8, <1>9, <1>10, <1>11, <1>12,
     <1>13, <1>14, <1>15, <1>16, <1>17, <1>18, <1>19, <1>20, <1>21
  DEF Next, Continue, Call, Interrupt, ThreadSemaUp, InterruptSemaUp
=============================================================================
