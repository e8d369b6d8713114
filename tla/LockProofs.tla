----------------------------- MODULE LockProofs -----------------------------
(***************************************************************************)
(* Locks exclude one another's holders, for any number of threads, locks,  *)
(* semaphores and condition variables.  LockExclusion is not inductive by  *)
(* itself: a step relies on what the code knows where it is (ControlOK),   *)
(* which in turn holds because a lock has one owner.                       *)
(***************************************************************************)
EXTENDS SynchProofs

IInv == TypeOK /\ ControlOK /\ LockExclusion

(* What a step leaves alone, all but thread m's part of it. *)
Others(m) ==
  /\ \A t \in AllThreads \ {m} : pc'[t] = pc[t]
  /\ \A t \in Thread \ {m} : /\ target'[t] = target[t]
                             /\ cond'[t] = cond[t]
                             /\ scan'[t] = scan[t]

LockValues == \A l \in Lock : value'[l] = value[l]

(* A step of thread m that changes neither a holder nor a condition        *)
(* variable's list, nor a lock's semaphore.                                *)
LEMMA QuietStep ==
  ASSUME IInv, NEW m \in Thread, NoneKept(status), Others(m), LockValues,
         UNCHANGED <<holder, cwaiters>>,
         pc[m] \notin {"hold", "up"}, pc'[m] \notin {"hold", "up"},
         ControlAt(m)'
  PROVE  ControlOK' /\ LockExclusion'
<1>1. pc'[idle_thread] = "idle"
  BY ThreadsAssumption DEF IInv, ControlOK, Others, AllThreads
<1>2. ASSUME NEW t \in Thread, t # m PROVE ControlAt(t)'
  <2>1. ControlAt(t)
    BY DEF IInv, ControlOK
  <2>2. /\ pc'[t] = pc[t] /\ target'[t] = target[t]
        /\ cond'[t] = cond[t] /\ scan'[t] = scan[t]
        /\ status'[t] = "NONE" => status[t] = "NONE"
    BY <1>2 DEF Others, NoneKept, AllThreads
  <2>3. QED
    BY <2>1, <2>2 DEF ControlAt
<1>3. ASSUME NEW l \in Lock PROVE OwnedOnce(l)'
  <2>1. OwnedOnce(l) /\ value'[l] = value[l]
    BY DEF IInv, LockExclusion, LockValues
  <2>2. \A t \in Thread : Owns(t, l)' <=> Owns(t, l)
    BY DEF Owns, Others, AllThreads
  <2>3. QED
    BY <2>1, <2>2 DEF OwnedOnce
<1>4. QED
  BY <1>1, <1>2, <1>3 DEF ControlOK, LockExclusion

(* A step that moves no thread along its code. *)
LEMMA StillStep ==
  ASSUME IInv, NoneKept(status), LockValues,
         UNCHANGED <<holder, cwaiters, pc, target, cond, scan>>
  PROVE  ControlOK' /\ LockExclusion'
<1>1. ASSUME NEW t \in Thread PROVE ControlAt(t)'
  <2>1. ControlAt(t) /\ (status'[t] = "NONE" => status[t] = "NONE")
    BY DEF IInv, ControlOK, NoneKept, AllThreads
  <2>2. QED
    BY <2>1 DEF ControlAt
<1>2. ASSUME NEW l \in Lock PROVE OwnedOnce(l)'
  <2>1. OwnedOnce(l) /\ value'[l] = value[l]
    BY DEF IInv, LockExclusion, LockValues
  <2>2. \A t \in Thread : Owns(t, l)' <=> Owns(t, l)
    BY DEF Owns
  <2>3. QED
    BY <2>1, <2>2 DEF OwnedOnce
<1>3. QED
  BY <1>1, <1>2 DEF IInv, ControlOK, LockExclusion

-----------------------------------------------------------------------------
(* The steps at which a lock changes hands *)

(* The running thread goes to p: the other threads stay where they are. *)
LEMMA GotoOthers ==
  ASSUME IInv, NEW p, Goto(p), current \in Thread
  PROVE  /\ pc'[current] = p
         /\ pc'[idle_thread] = "idle"
         /\ \A t \in AllThreads \ {current} : pc'[t] = pc[t]
BY ThreadsAssumption DEF IInv, TypeOK, ControlOK, Goto, AllThreads

LEMMA AimOthers ==
  ASSUME IInv, NEW s, Aim(s), current \in Thread
  PROVE  /\ target'[current] = s
         /\ \A t \in Thread \ {current} : target'[t] = target[t]
BY DEF IInv, TypeOK, Aim

(* A thread brings the semaphore of a free lock down. *)
LEMMA TakeStep ==
  ASSUME IInv, NEW l \in Lock, current \in Thread,
         pc[current] \in {"run", "down", "wake"},
         value[l] > 0, value' = [value EXCEPT ![l] = value[l] - 1],
         Goto("hold"), Aim(l), schedVars' = schedVars,
         lockVars' = lockVars, condVars' = condVars
  PROVE  ControlOK' /\ LockExclusion'
<1>1. /\ pc'[current] = "hold" /\ pc'[idle_thread] = "idle"
      /\ \A t \in Thread \ {current} : pc'[t] = pc[t]
      /\ target'[current] = l
      /\ \A t \in Thread \ {current} : target'[t] = target[t]
  BY GotoOthers, AimOthers DEF AllThreads
<1>2. value \in [SemaId -> Nat] /\ l \in SemaId
  BY DEF IInv, TypeOK, SemaId
<1>3. value[l] = 1 /\ \A t \in Thread : ~Owns(t, l)
  BY <1>2 DEF IInv, LockExclusion, OwnedOnce
<1>4. ASSUME NEW t \in Thread PROVE ControlAt(t)'
  <2>1. ControlAt(t)
    BY DEF IInv, ControlOK
  <2>2. CASE t = current
    BY <1>1, <1>3, <2>1, <2>2 DEF ControlAt, Owns, lockVars, schedVars
  <2>3. CASE t # current
    BY <1>1, <2>1, <2>3 DEF ControlAt, lockVars, schedVars, condVars
  <2>4. QED
    BY <2>2, <2>3
<1>5. ASSUME NEW k \in Lock PROVE OwnedOnce(k)'
  <2>1. OwnedOnce(k)
    BY DEF IInv, LockExclusion
  <2>2. CASE k = l
    <3>1. \A t \in Thread : Owns(t, k)' <=> t = current
      BY <1>1, <1>3, <2>2 DEF Owns, lockVars
    <3>2. value'[k] = 0
      BY <1>2, <1>3, <2>2
    <3>3. QED
      BY <3>1, <3>2 DEF OwnedOnce
  <2>3. CASE k # l
    <3>1. \A t \in Thread : Owns(t, k)' <=> Owns(t, k)
      BY <1>1, <2>3 DEF Owns, lockVars
    <3>2. value'[k] = value[k]
      BY <1>2, <2>3
    <3>3. QED
      BY <2>1, <3>1, <3>2 DEF OwnedOnce
  <2>4. QED
    BY <2>2, <2>3
<1>6. QED
  BY <1>1, <1>4, <1>5 DEF ControlOK, LockExclusion

(* It becomes the holder: no other thread can be at a place that needs to *)
(* hold the same lock.                                                     *)
LEMMA SetHolderStep ==
  ASSUME IInv, LockSetHolder
  PROVE  ControlOK' /\ LockExclusion'
<1> DEFINE l == target[current]
<1>1. current \in Thread
  BY CurrentThread DEF IInv, LockSetHolder
<1>2. l \in Lock /\ Owns(current, l)
  BY <1>1 DEF IInv, LockSetHolder, ControlOK, ControlAt, Owns
<1>3. \A t \in Thread : Owns(t, l) => t = current
  BY <1>1, <1>2 DEF IInv, LockExclusion, OwnedOnce
<1>4. /\ pc'[current] = "enlist" /\ pc'[idle_thread] = "idle"
      /\ \A t \in Thread \ {current} : pc'[t] = pc[t]
  BY <1>1, GotoOthers DEF AllThreads, LockSetHolder
<1>5. /\ holder'[l] = current
      /\ \A k \in Lock \ {l} : holder'[k] = holder[k]
  BY <1>2 DEF IInv, TypeOK, LockSetHolder
<1>6. UNCHANGED <<status, value, cwaiters, cond, scan, target>>
  BY DEF LockSetHolder, schedVars, semaVars, condVars
<1>7. ASSUME NEW t \in Thread PROVE ControlAt(t)'
  <2>1. ControlAt(t)
    BY DEF IInv, ControlOK
  <2>2. CASE t = current
    BY <1>2, <1>4, <1>5, <1>6, <2>1, <2>2 DEF ControlAt, LockSetHolder
  <2>3. ASSUME t # current, NEW k \in Lock
        PROVE  holder'[k] = t <=> holder[k] = t
    BY <1>3, <1>5, <2>3 DEF Owns
  <2>4. CASE t # current
    <3>1. pc[t] \in {"scan", "signal"} => CondLock[scan[t].cond] \in Lock
      BY <2>1, SynchAssumption DEF ControlAt
    <3>2. QED
      BY <1>4, <1>6, <2>1, <2>3, <2>4, <3>1 DEF ControlAt
  <2>5. QED
    BY <2>2, <2>4
<1>8. ASSUME NEW k \in Lock PROVE OwnedOnce(k)'
  <2>1. OwnedOnce(k)
    BY DEF IInv, LockExclusion
  <2>2. \A t \in Thread : Owns(t, k)' <=> Owns(t, k)
    BY <1>2, <1>3, <1>4, <1>5, <1>6 DEF Owns, LockSetHolder
  <2>3. QED
    BY <1>6, <2>1, <2>2 DEF OwnedOnce
<1>9. QED
  BY <1>4, <1>7, <1>8 DEF ControlOK, LockExclusion

(* It clears the holder; the lock stays taken until its semaphore is up. *)
LEMMA ClearHolderStep ==
  ASSUME IInv, LockClearHolder
  PROVE  ControlOK' /\ LockExclusion'
<1> DEFINE l == target[current]
<1>1. current \in Thread
  BY CurrentThread DEF IInv, LockClearHolder
<1>2. l \in Lock /\ holder[l] = current
  BY <1>1 DEF IInv, LockClearHolder, ControlOK, ControlAt
<1>3. \A t \in Thread : Owns(t, l) => t = current
  BY <1>1, <1>2 DEF IInv, LockExclusion, OwnedOnce, Owns
<1>4. /\ pc'[current] = "up" /\ pc'[idle_thread] = "idle"
      /\ \A t \in Thread \ {current} : pc'[t] = pc[t]
  BY <1>1, GotoOthers DEF AllThreads, LockClearHolder
<1>5. /\ holder'[l] = NULL
      /\ \A k \in Lock \ {l} : holder'[k] = holder[k]
  BY <1>2 DEF IInv, TypeOK, LockClearHolder
<1>6. UNCHANGED <<status, value, cwaiters, cond, scan, target>>
  BY DEF LockClearHolder, schedVars, semaVars, condVars
<1>7. ASSUME NEW t \in Thread PROVE ControlAt(t)'
  <2>1. ControlAt(t) /\ t # NULL
    BY SynchAssumption DEF IInv, ControlOK
  <2>2. CASE t = current
    BY <1>2, <1>4, <1>5, <1>6, <2>1, <2>2 DEF ControlAt, LockClearHolder
  <2>3. ASSUME t # current, NEW k \in Lock
        PROVE  holder'[k] = t <=> holder[k] = t
    BY <1>2, <1>5, <2>1, <2>3
  <2>4. CASE t # current
    <3>1. pc[t] \in {"scan", "signal"} => CondLock[scan[t].cond] \in Lock
      BY <2>1, SynchAssumption DEF ControlAt
    <3>2. QED
      BY <1>4, <1>6, <2>1, <2>3, <2>4, <3>1 DEF ControlAt
  <2>5. QED
    BY <2>2, <2>4
<1>8. ASSUME NEW k \in Lock PROVE OwnedOnce(k)'
  <2>1. OwnedOnce(k) /\ NULL \notin Thread
    BY SynchAssumption DEF IInv, LockExclusion
  <2>2. \A t \in Thread : Owns(t, k)' <=> Owns(t, k)
    <3>1. CASE k = l
      <4>1. \A t \in Thread : Owns(t, k)' <=> t = current
        BY <1>2, <1>3, <1>4, <1>5, <1>6, <2>1, <3>1 DEF Owns
      <4>2. \A t \in Thread : Owns(t, k) <=> t = current
        BY <1>2, <1>3, <3>1 DEF Owns
      <4>3. QED
        BY <4>1, <4>2
    <3>2. CASE k # l
      <4>1. holder'[k] = holder[k]
        BY <1>5, <3>2
      <4>2. \A t \in Thread \ {current} : pc'[t] = pc[t]
        BY <1>4
      <4>3. QED
        BY <1>6, <3>2, <4>1, <4>2 DEF Owns
    <3>3. QED
      BY <3>1, <3>2
  <2>3. QED
    BY <1>6, <2>1, <2>2 DEF OwnedOnce
<1>9. QED
  BY <1>4, <1>7, <1>8 DEF ControlOK, LockExclusion

(* It brings the semaphore up: the lock is free. *)
LEMMA SemaUpStep ==
  ASSUME IInv, LockSemaUp
  PROVE  ControlOK' /\ LockExclusion'
<1> DEFINE l == target[current]
<1>1. current \in Thread /\ pc[current] = "up"
  BY CurrentThread DEF IInv, LockSemaUp
<1>2. l \in Lock /\ holder[l] # current /\ Owns(current, l) /\ ControlAt(current)
  BY <1>1 DEF IInv, ControlOK, ControlAt, Owns
<1>3. /\ \A t \in Thread : Owns(t, l) <=> t = current
      /\ value[l] = 0
  BY <1>1, <1>2 DEF IInv, LockExclusion, OwnedOnce
<1>4. /\ pc'[current] \in {"run", "down"} /\ pc'[idle_thread] = "idle"
      /\ \A t \in Thread \ {current} : pc'[t] = pc[t]
      /\ \A t \in Thread \ {current} : target'[t] = target[t]
      /\ pc'[current] = "down" => target'[current] = current /\ cond[current] # NULL
  <2>1. CASE cond[current] = NULL /\ Goto("run") /\ Aim(NULL)
    BY <1>1, <2>1, GotoOthers, AimOthers DEF AllThreads
  <2>2. CASE cond[current] # NULL /\ Goto("down") /\ Aim(current)
    BY <1>1, <2>2, GotoOthers, AimOthers DEF AllThreads
  <2>3. QED
    BY <2>1, <2>2 DEF LockSemaUp
<1>5. /\ value' = [value EXCEPT ![l] = value[l] + 1]
      /\ value \in [SemaId -> Nat] /\ l \in SemaId
      /\ NoneKept(status)
  <2>1. TypeOK /\ l \in SemaId
    BY <1>2 DEF IInv, SemaId
  <2>2. QED
    BY <2>1, SemaUpType DEF LockSemaUp, TypeOK
<1>6. UNCHANGED <<holder, cwaiters, cond, scan>>
  BY DEF LockSemaUp, lockVars, condVars
<1>7. ASSUME NEW t \in Thread PROVE ControlAt(t)'
  <2>1. ControlAt(t) /\ (status'[t] = "NONE" => status[t] = "NONE")
    BY <1>5 DEF IInv, ControlOK, NoneKept, AllThreads
  <2>2. CASE t = current
    <3>1. status'[t] # "NONE"
      BY <1>1, <2>1, <2>2 DEF ControlAt
    <3>2. pc'[t] = "down" => t \in SemaId /\ cond'[t] \in Cond
      BY <1>4, <1>6, <2>2 DEF IInv, TypeOK, SemaId
    <3>3. QED
      BY <1>4, <2>2, <3>1, <3>2 DEF ControlAt
  <2>3. CASE t # current
    BY <1>4, <1>6, <2>1, <2>3 DEF ControlAt
  <2>4. QED
    BY <2>2, <2>3
<1>8. ASSUME NEW k \in Lock PROVE OwnedOnce(k)'
  <2>1. OwnedOnce(k)
    BY DEF IInv, LockExclusion
  <2>2. CASE k = l
    <3>1. \A t \in Thread : ~Owns(t, k)'
      BY <1>2, <1>3, <1>4, <1>6, <2>2 DEF Owns
    <3>2. value'[k] = 1
      BY <1>3, <1>5, <2>2
    <3>3. QED
      BY <3>1, <3>2 DEF OwnedOnce
  <2>3. CASE k # l
    <3>1. \A t \in Thread : Owns(t, k)' <=> Owns(t, k)
      BY <1>2, <1>4, <1>6, <2>3 DEF Owns
    <3>2. value'[k] = value[k]
      BY <1>5, <2>3 DEF SemaId
    <3>3. QED
      BY <2>1, <3>1, <3>2 DEF OwnedOnce
  <2>4. QED
    BY <2>2, <2>3
<1>9. QED
  BY <1>4, <1>7, <1>8 DEF ControlOK, LockExclusion

-----------------------------------------------------------------------------
(* The steps at which a condition variable's list changes: its lock keeps  *)
(* the other threads out of cond_signal.                                   *)

LEMMA CondListStep ==
  ASSUME IInv, NEW c \in Cond, NEW m \in Thread, holder[CondLock[c]] = m,
         \A d \in Cond \ {c} : cwaiters'[d] = cwaiters[d],
         NoneKept(status), Others(m), LockValues, UNCHANGED holder,
         pc[m] \notin {"hold", "up"}, pc'[m] \notin {"hold", "up"},
         ControlAt(m)'
  PROVE  ControlOK' /\ LockExclusion'
<1>1. pc'[idle_thread] = "idle"
  BY ThreadsAssumption DEF IInv, ControlOK, Others, AllThreads
<1>2. ASSUME NEW t \in Thread, t # m PROVE ControlAt(t)'
  <2>1. ControlAt(t)
    BY DEF IInv, ControlOK
  <2>2. /\ pc'[t] = pc[t] /\ target'[t] = target[t]
        /\ cond'[t] = cond[t] /\ scan'[t] = scan[t]
        /\ status'[t] = "NONE" => status[t] = "NONE"
    BY <1>2 DEF Others, NoneKept, AllThreads
  <2>3. pc[t] = "scan" => cwaiters'[scan[t].cond] = cwaiters[scan[t].cond]
    BY <1>2, <2>1 DEF ControlAt
  <2>4. QED
    BY <2>1, <2>2, <2>3 DEF ControlAt
<1>3. ASSUME NEW l \in Lock PROVE OwnedOnce(l)'
  <2>1. OwnedOnce(l) /\ value'[l] = value[l]
    BY DEF IInv, LockExclusion, LockValues
  <2>2. \A t \in Thread : Owns(t, l)' <=> Owns(t, l)
    BY DEF Owns, Others, AllThreads
  <2>3. QED
    BY <2>1, <2>2 DEF OwnedOnce
<1>4. QED
  BY <1>1, <1>2, <1>3 DEF ControlOK, LockExclusion

-----------------------------------------------------------------------------
(* Every step keeps the invariant. *)

LEMMA NextLock == IInv /\ [Next]_vars => ControlOK' /\ LockExclusion'
<1> SUFFICES ASSUME IInv, [Next]_vars
             PROVE  ControlOK' /\ LockExclusion'
  OBVIOUS
<1>0. /\ TypeOK /\ ControlOK /\ SchedType
      /\ value \in [SemaId -> Nat] /\ scan \in [Thread -> ScanType]
      /\ cwaiters \in [Cond -> Seq(Thread)]
  BY DEF IInv, TypeOK, SchedType
<1>1. ASSUME NEW s \in SemaId, sema_down(s), NEW m \in Thread, m = current
      PROVE  ControlOK' /\ LockExclusion'
  <2>1. /\ ControlAt(m)
        /\ pc[m] \in {"run", "down", "wake"}
        /\ s \in Thread => s = m /\ cond[m] \in Cond
        /\ status[m] # "NONE"
    <3>1. ControlAt(m)
      BY <1>0 DEF ControlOK
    <3>2. InSemaDown(s)
      BY <1>1 DEF sema_down
    <3>3. pc[m] \in {"run", "down", "wake"}
      BY <1>1, <3>2 DEF InSemaDown
    <3>4. status[m] # "NONE"
      BY <3>1, <3>3 DEF ControlAt
    <3>5. s \in Thread => pc[m] \in {"down", "wake"} /\ target[m] = s
      BY <1>1, <3>2, SynchAssumption DEF InSemaDown
    <3>6. QED
      BY <3>1, <3>3, <3>4, <3>5 DEF ControlAt
  <2>2. UNCHANGED <<holder, locks, cwaiters, cond, scan>>
    BY <1>1 DEF sema_down, lockVars, condVars
  <2>3. ASSUME value[s] > 0, value' = [value EXCEPT ![s] = value[s] - 1],
               AfterDown(s), UNCHANGED <<waiters, schedVars>>
        PROVE  ControlOK' /\ LockExclusion'
    <3>1. CASE s \in Lock
      <4>1. Goto("hold") /\ Aim(s)
        BY <2>3, <3>1, SynchAssumption DEF AfterDown
      <4>2. schedVars' = schedVars /\ lockVars' = lockVars /\ condVars' = condVars
        BY <2>2, <2>3 DEF lockVars, condVars
      <4>3. pc[current] \in {"run", "down", "wake"} /\ current \in Thread
        BY <1>1, <2>1
      <4>4. QED
        BY <2>3, <3>1, <4>1, <4>2, <4>3, TakeStep
    <3>2. CASE s \notin Lock
      <4>1. PICK p \in {"run", "down"} :
              /\ Goto(p)
              /\ p = "down" => Aim(CondLock[cond[m]]) /\ cond[m] \in Cond
              /\ p = "run" => Aim(NULL)
        BY <1>1, <2>1, <2>3, <3>2 DEF AfterDown
      <4>2. pc'[m] = p /\ Others(m)
        BY <1>1, <2>2, <4>1, GotoOthers, AimOthers DEF Others
      <4>3. p = "down" => target'[m] \in Lock
        BY <1>1, <4>1, AimOthers, SynchAssumption
      <4>4. ControlAt(m)'
        BY <2>1, <2>3, <4>2, <4>3, SynchAssumption DEF ControlAt, schedVars, SemaId
      <4>5. LockValues
        BY <1>0, <2>3, <3>2 DEF LockValues, SemaId
      <4>6. QED
        BY <2>1, <2>2, <2>3, <4>2, <4>4, <4>5, QuietStep DEF NoneKept, schedVars
    <3>3. QED
      BY <3>1, <3>2
  <2>4. ASSUME NEW pri, thread_block(ready_list, pri), Goto("wake"), Aim(s),
               UNCHANGED value
        PROVE  ControlOK' /\ LockExclusion'
    <3>1. NoneKept(status)
      BY <1>0, <2>4, BlockType
    <3>2. pc'[m] = "wake" /\ target'[m] = s /\ Others(m)
      BY <1>1, <2>2, <2>4, GotoOthers, AimOthers DEF Others
    <3>3. ControlAt(m)'
      BY <2>1, <2>2, <3>1, <3>2 DEF ControlAt, NoneKept, AllThreads
    <3>4. QED
      BY <2>1, <2>2, <2>4, <3>1, <3>2, <3>3, QuietStep DEF LockValues
  <2>5. QED
    BY <1>1, <2>3, <2>4 DEF sema_down
<1>2. ASSUME NEW l \in Lock, sema_try_down(l)
      PROVE  ControlOK' /\ LockExclusion'
  <2>1. current \in Thread
    BY <1>0, <1>2, CurrentThread DEF sema_try_down
  <2>2. /\ pc[current] \in {"run", "down", "wake"}
        /\ value[l] > 0 /\ value' = [value EXCEPT ![l] = value[l] - 1]
        /\ Goto("hold") /\ Aim(l)
        /\ schedVars' = schedVars /\ lockVars' = lockVars /\ condVars' = condVars
    BY <1>2 DEF sema_try_down
  <2>3. QED
    BY <2>1, <2>2, TakeStep
<1>3. ASSUME NEW s \in UpSema, sema_up(s),
             UNCHANGED <<priority, lockVars, condVars, pc, target>>
      PROVE  ControlOK' /\ LockExclusion'
  <2>1. s \in SemaId /\ s \notin Lock
    BY SynchAssumption DEF SemaId
  <2>2. NoneKept(status) /\ LockValues
    BY <1>0, <1>3, <2>1, SemaUpType DEF LockValues, SemaId
  <2>3. QED
    BY <1>3, <2>2, StillStep DEF lockVars, condVars
<1>4. CASE LockSetHolder
  BY <1>4, SetHolderStep
<1>5. ASSUME LockEnlist, NEW m \in Thread, m = current
      PROVE  ControlOK' /\ LockExclusion'
  <2>1. ControlAt(m) /\ pc[m] = "enlist"
    BY <1>0, <1>5 DEF LockEnlist, ControlOK
  <2>2. UNCHANGED <<status, value, holder, cwaiters, scan>>
    BY <1>5 DEF LockEnlist, schedVars, semaVars
  <2>3. pc'[m] = "run" /\ Others(m)
    <3>1. \A t \in Thread \ {m} : cond'[t] = cond[t]
      BY <1>5 DEF LockEnlist, IInv, TypeOK
    <3>2. QED
      BY <1>5, <2>2, <3>1, GotoOthers, AimOthers DEF LockEnlist, Others
  <2>4. ControlAt(m)'
    BY <2>1, <2>2, <2>3 DEF ControlAt
  <2>5. QED
    BY <2>1, <2>2, <2>3, <2>4, QuietStep DEF NoneKept, LockValues
<1>6. ASSUME NEW l \in Lock, LockUnlist(l), NEW m \in Thread, m = current
      PROVE  ControlOK' /\ LockExclusion'
  <2>1. ControlAt(m) /\ pc[m] \in {"run", "unlist"} /\ holder[l] = m
    BY <1>0, <1>6 DEF LockUnlist, ControlOK, ControlAt
  <2>2. UNCHANGED <<status, value, holder, cwaiters, cond, scan>>
    BY <1>6 DEF LockUnlist, schedVars, semaVars, condVars
  <2>3. pc'[m] = "unhold" /\ target'[m] = l /\ Others(m)
    BY <1>6, <2>2, GotoOthers, AimOthers DEF LockUnlist, Others
  <2>4. ControlAt(m)'
    BY <2>1, <2>2, <2>3 DEF ControlAt
  <2>5. QED
    BY <2>1, <2>2, <2>3, <2>4, QuietStep DEF NoneKept, LockValues
<1>7. CASE LockClearHolder
  BY <1>7, ClearHolderStep
<1>8. CASE LockSemaUp
  BY <1>8, SemaUpStep
<1>9. ASSUME NEW c \in Cond, cond_wait(c), NEW m \in Thread, m = current
      PROVE  ControlOK' /\ LockExclusion'
  <2>1. ControlAt(m) /\ pc[m] = "run" /\ holder[CondLock[c]] = m
    BY <1>0, <1>9 DEF cond_wait, ControlOK
  <2>2. UNCHANGED <<status, holder, scan>>
    BY <1>9 DEF cond_wait, schedVars, lockVars
  <2>3. /\ \A d \in Cond \ {c} : cwaiters'[d] = cwaiters[d]
        /\ \A t \in Thread \ {m} : cond'[t] = cond[t]
    BY <1>9 DEF cond_wait, IInv, TypeOK
  <2>4. LockValues
    BY <1>0, <1>9, SynchAssumption DEF cond_wait, LockValues, SemaId
  <2>5. pc'[m] = "unlist" /\ target'[m] = CondLock[c] /\ Others(m)
    BY <1>9, <2>2, <2>3, GotoOthers, AimOthers DEF cond_wait, Others
  <2>6. ControlAt(m)'
    BY <2>1, <2>2, <2>5, SynchAssumption DEF ControlAt
  <2>7. QED
    BY <2>1, <2>2, <2>3, <2>4, <2>5, <2>6, CondListStep DEF NoneKept
<1>10. ASSUME NEW c \in Cond, NEW all \in BOOLEAN, cond_signal(c, all),
              NEW m \in Thread, m = current
      PROVE  ControlOK' /\ LockExclusion'
  <2>1. ControlAt(m) /\ pc[m] = "run" /\ holder[CondLock[c]] = m
    BY <1>0, <1>10 DEF cond_signal, ControlOK
  <2>2. UNCHANGED <<status, value, holder, cwaiters, cond, target>>
    BY <1>10 DEF cond_signal, schedVars, lockVars, semaVars
  <2>3. /\ scan'[m].cond = c /\ scan'[m].e = 1 /\ scan'[m].best = 1
        /\ \A t \in Thread \ {m} : scan'[t] = scan[t]
    BY <1>0, <1>10 DEF cond_signal
  <2>4. 1 \in DOMAIN cwaiters[c]
    <3>1. cwaiters[c] # <<>> /\ cwaiters[c] \in Seq(Thread)
      BY <1>0, <1>10 DEF cond_signal
    <3>2. QED
      BY <3>1, NotEmpty
  <2>5. pc'[m] = "scan" /\ Others(m)
    BY <1>10, <2>2, <2>3, GotoOthers DEF cond_signal, Others
  <2>6. ControlAt(m)'
    <3>1. status'[m] # "NONE"
      BY <2>1, <2>2 DEF ControlAt
    <3>2. scan'[m].best \in DOMAIN cwaiters'[scan'[m].cond]
      BY <2>2, <2>3, <2>4
    <3>3. holder'[CondLock[scan'[m].cond]] = m
      BY <2>1, <2>2, <2>3
    <3>4. scan'[m].cond \in Cond /\ scan'[m].e > 0
      BY <2>3
    <3>5. QED
      BY <2>5, <3>1, <3>2, <3>3, <3>4 DEF ControlAt
  <2>7. QED
    BY <2>1, <2>2, <2>5, <2>6, QuietStep DEF NoneKept, LockValues
<1>11. ASSUME CondScan, NEW m \in Thread, m = current
      PROVE  ControlOK' /\ LockExclusion'
  <2>1. ControlAt(m) /\ pc[m] = "scan" /\ scan[m] \in ScanType
    BY <1>0, <1>11 DEF CondScan, ControlOK
  <2>2. UNCHANGED <<status, value, holder, cwaiters, cond, target, pc>>
    BY <1>11 DEF CondScan, schedVars, lockVars, semaVars
  <2>3. /\ scan'[m].cond = scan[m].cond /\ scan'[m].e = scan[m].e + 1
        /\ scan'[m].best \in {scan[m].best, scan[m].e}
        /\ \A t \in Thread \ {m} : scan'[t] = scan[t]
    BY <1>0, <1>11, <2>1 DEF CondScan, ScanType
  <2>4. scan[m].e \in DOMAIN cwaiters[scan[m].cond]
    <3>1. scan[m].cond \in Cond /\ scan[m].e > 0 /\ scan[m].e \in Nat
      BY <2>1 DEF ControlAt, ScanType
    <3>2. scan[m].e <= Len(cwaiters[scan[m].cond])
      BY <1>11 DEF CondScan
    <3>3. cwaiters[scan[m].cond] \in Seq(Thread)
      BY <1>0, <3>1
    <3>4. QED
      BY <3>1, <3>2, <3>3, Position
  <2>5. ControlAt(m)'
    <3>1. scan[m].e \in Nat /\ scan[m].e > 0
      BY <2>1 DEF ControlAt, ScanType
    <3>2. scan'[m].e > 0
      <4>1. scan[m].e + 1 > 0
        BY <3>1
      <4>2. scan'[m].e = scan[m].e + 1
        BY <2>3
      <4>3. QED
        BY <4>1, <4>2
    <3>3. scan'[m].best \in DOMAIN cwaiters[scan[m].cond]
      BY <2>1, <2>3, <2>4 DEF ControlAt
    <3>4. scan[m].cond \in Cond /\ holder[CondLock[scan[m].cond]] = m
          /\ status[m] # "NONE"
      BY <2>1 DEF ControlAt
    <3>5. QED
      BY <2>1, <2>2, <2>3, <3>2, <3>3, <3>4 DEF ControlAt
  <2>6. QED
    BY <2>1, <2>2, <2>3, <2>5, QuietStep DEF NoneKept, LockValues, Others
<1>12. ASSUME CondRemove, NEW m \in Thread, m = current
      PROVE  ControlOK' /\ LockExclusion'
  <2> DEFINE c == scan[m].cond
  <2>1. ControlAt(m) /\ pc[m] = "scan" /\ c \in Cond /\ holder[CondLock[c]] = m
    BY <1>0, <1>12 DEF CondRemove, ControlOK, ControlAt
  <2>2. UNCHANGED <<status, value, holder, cond, scan>>
    BY <1>12 DEF CondRemove, schedVars, lockVars, semaVars
  <2>3. \A d \in Cond \ {c} : cwaiters'[d] = cwaiters[d]
    BY <1>0, <1>12 DEF CondRemove
  <2>4. cwaiters[c][scan[m].best] \in Thread
    <3>1. cwaiters[c] \in Seq(Thread) /\ scan[m].best \in DOMAIN cwaiters[c]
      BY <1>0, <2>1 DEF ControlAt
    <3>2. QED
      BY <3>1, Holds
  <2>5. pc'[m] = "signal" /\ target'[m] \in Thread /\ Others(m)
    BY <1>12, <2>2, <2>4, GotoOthers, AimOthers DEF CondRemove, Others
  <2>6. ControlAt(m)'
    BY <2>1, <2>2, <2>5 DEF ControlAt
  <2>7. QED
    BY <2>1, <2>2, <2>3, <2>5, <2>6, CondListStep DEF NoneKept, LockValues
<1>13. ASSUME CondSemaUp, NEW m \in Thread, m = current
      PROVE  ControlOK' /\ LockExclusion'
  <2> DEFINE sc == scan[m]
  <2>1. ControlAt(m) /\ pc[m] = "signal" /\ target[m] \in Thread /\ sc.cond \in Cond
    BY <1>0, <1>13 DEF CondSemaUp, ControlOK, ControlAt
  <2>2. UNCHANGED <<holder, cwaiters, cond>>
    BY <1>13 DEF CondSemaUp, lockVars
  <2>3. NoneKept(status) /\ LockValues
    BY <1>0, <1>13, <2>1, SemaUpType, SynchAssumption DEF CondSemaUp, LockValues, SemaId
  <2>4. CASE /\ cwaiters[sc.cond] # <<>>
             /\ scan' = [scan EXCEPT ![m] = [sc EXCEPT !.e = 1, !.best = 1, !.hp = -1]]
             /\ Goto("scan")
    <3>1. /\ scan'[m].cond = sc.cond /\ scan'[m].e = 1 /\ scan'[m].best = 1
          /\ \A t \in Thread \ {m} : scan'[t] = scan[t]
      BY <1>0, <2>4 DEF ScanType
    <3>2. 1 \in DOMAIN cwaiters[sc.cond]
      BY <1>0, <2>1, <2>4, NotEmpty
    <3>3. pc'[m] = "scan" /\ Others(m)
      BY <1>13, <2>2, <2>4, <3>1, GotoOthers, AimOthers DEF CondSemaUp, Others
    <3>4. status'[m] # "NONE" /\ holder[CondLock[sc.cond]] = m
      BY <2>1, <2>3 DEF ControlAt, NoneKept, AllThreads
    <3>5. ControlAt(m)'
      <4>1. scan'[m].best \in DOMAIN cwaiters'[scan'[m].cond]
        BY <2>2, <3>1, <3>2
      <4>2. holder'[CondLock[scan'[m].cond]] = m /\ scan'[m].cond \in Cond
        BY <2>1, <2>2, <3>1, <3>4
      <4>3. scan'[m].e > 0
        BY <3>1
      <4>4. QED
        BY <3>3, <3>4, <4>1, <4>2, <4>3 DEF ControlAt
    <3>6. QED
      BY <2>1, <2>2, <2>3, <3>3, <3>5, QuietStep
  <2>5. CASE scan' = [scan EXCEPT ![m] = NoScan] /\ Goto("run")
    <3>1. \A t \in Thread \ {m} : scan'[t] = scan[t]
      BY <1>0, <2>5
    <3>2. pc'[m] = "run" /\ Others(m)
      BY <1>13, <2>2, <2>5, <3>1, GotoOthers, AimOthers DEF CondSemaUp, Others
    <3>3. ControlAt(m)'
      BY <2>1, <2>3, <3>2 DEF ControlAt, NoneKept, AllThreads
    <3>4. QED
      BY <2>1, <2>2, <2>3, <3>2, <3>3, QuietStep
  <2>6. QED
    BY <1>13, <2>4, <2>5 DEF CondSemaUp
<1>14. ASSUME NEW t \in Thread, NEW p \in NewPriority, thread_create(t, p)
      PROVE  ControlOK' /\ LockExclusion'
  <2>1. /\ status[t] = "NONE"
        /\ pc' = [pc EXCEPT ![t] = "run"]
        /\ UNCHANGED <<value, holder, cwaiters, target, cond, scan>>
    BY <1>14 DEF thread_create, lockVars, semaVars, condVars
  <2>2. NoneKept(status) /\ status'[t] # "NONE"
    BY <1>0, <1>14, UnblockType DEF thread_create
  <2>3. pc[t] = "none"
    BY <1>0, <2>1 DEF ControlOK, ControlAt
  <2>4. pc'[t] = "run" /\ Others(t)
    BY <2>1 DEF Others, IInv, TypeOK, AllThreads
  <2>5. ControlAt(t)'
    BY <2>2, <2>4 DEF ControlAt
  <2>6. QED
    BY <2>1, <2>2, <2>3, <2>4, <2>5, QuietStep DEF LockValues
<1>15. ASSUME NEW p \in {"setpri", "run", "exit", "dead"}, Goto(p),
              pc[current] \in {"run", "setpri", "exit"},
              NoneKept(status), LockValues,
              UNCHANGED <<holder, cwaiters, target, cond, scan>>,
              NEW m \in Thread, m = current
       PROVE  ControlOK' /\ LockExclusion'
  <2>1. ControlAt(m)
    BY <1>0 DEF ControlOK
  <2>2. pc'[m] = p /\ Others(m)
    BY <1>15, GotoOthers DEF Others
  <2>3. ControlAt(m)'
    BY <1>15, <2>1, <2>2 DEF ControlAt, NoneKept, AllThreads
  <2>4. QED
    BY <1>15, <2>2, <2>3, QuietStep
<1>16. ASSUME NEW p \in NewPriority, thread_set_priority(p), current \in Thread
       PROVE  ControlOK' /\ LockExclusion'
  <2>1. NoneKept(status) /\ LockValues /\ UNCHANGED <<holder, cwaiters, target, cond, scan>>
    BY <1>16 DEF thread_set_priority, NoneKept, LockValues, schedVars, lockVars, semaVars, condVars
  <2>2. QED
    BY <1>15, <1>16, <2>1 DEF thread_set_priority
<1>17. ASSUME SetPriorityYield, current \in Thread
       PROVE  ControlOK' /\ LockExclusion'
  <2>1. NoneKept(status)
    BY <1>0, <1>17, YieldType DEF SetPriorityYield, SchedType, NoneKept, schedVars
  <2>2. LockValues /\ UNCHANGED <<holder, cwaiters, target, cond, scan>>
    BY <1>17 DEF SetPriorityYield, LockValues, lockVars, semaVars, condVars
  <2>3. QED
    BY <1>15, <1>17, <2>1, <2>2 DEF SetPriorityYield
<1>18. ASSUME thread_exit, current \in Thread
       PROVE  ControlOK' /\ LockExclusion'
  <2>1. alive_sema[current] \in SemaId /\ alive_sema[current] \notin Lock
    BY <1>18, SynchAssumption DEF SemaId
  <2>2. NoneKept(status) /\ LockValues
    BY <1>0, <1>18, <2>1, SemaUpType DEF thread_exit, LockValues, SemaId
  <2>3. UNCHANGED <<holder, cwaiters, target, cond, scan>>
    BY <1>18 DEF thread_exit, lockVars, condVars
  <2>4. QED
    BY <1>15, <1>18, <2>2, <2>3 DEF thread_exit
<1>19. ASSUME ThreadDie, current \in Thread
       PROVE  ControlOK' /\ LockExclusion'
  <2>1. [status EXCEPT ![current] = "DYING"] \in [AllThreads -> Statuses]
    BY <1>0 DEF SchedType, Statuses
  <2>2. NoneKept([status EXCEPT ![current] = "DYING"])
    BY <1>0, <1>19, <2>1, ScheduleType DEF ThreadDie, SchedType
  <2>3. NoneKept(status)
    BY <1>0, <2>2 DEF NoneKept, SchedType
  <2>4. LockValues /\ UNCHANGED <<holder, cwaiters, target, cond, scan>>
    BY <1>19 DEF ThreadDie, LockValues, lockVars, semaVars, condVars
  <2>5. QED
    BY <1>15, <1>19, <2>3, <2>4 DEF ThreadDie
<1>20. ASSUME TimerYield \/ idle \/ UNCHANGED vars
       PROVE  ControlOK' /\ LockExclusion'
  <2>1. NoneKept(status)
    <3>1. CASE TimerYield
      BY <1>0, <3>1, YieldType DEF TimerYield, SchedType
    <3>2. CASE idle
      BY <1>0, <3>2, BlockType DEF idle
    <3>3. CASE UNCHANGED vars
      BY <3>3 DEF vars, NoneKept
    <3>4. QED
      BY <1>20, <3>1, <3>2, <3>3
  <2>2. LockValues /\ UNCHANGED <<holder, cwaiters, pc, target, cond, scan>>
    BY <1>20 DEF TimerYield, idle, vars, LockValues, lockVars, semaVars, condVars
  <2>3. QED
    BY <2>1, <2>2, StillStep
<1>21. pc[current] # "idle" => current \in Thread
  BY <1>0, CurrentThread
<1>22. CASE \E s \in SemaId : sema_down(s)
  BY <1>1, <1>21, <1>22 DEF sema_down, InSemaDown
<1>23. CASE \E l \in Lock : LockUnlist(l)
  BY <1>6, <1>21, <1>23 DEF LockUnlist
<1>24. CASE \/ \E c \in Cond : cond_wait(c)
            \/ \E c \in Cond, all \in BOOLEAN : cond_signal(c, all)
  BY <1>9, <1>10, <1>21, <1>24 DEF cond_wait, cond_signal
<1>25. CASE CondScan \/ CondRemove \/ CondSemaUp
  BY <1>11, <1>12, <1>13, <1>21, <1>25 DEF CondScan, CondRemove, CondSemaUp
<1>26. CASE LockEnlist \/ SetPriorityYield \/ thread_exit \/ ThreadDie
  BY <1>5, <1>17, <1>18, <1>19, <1>21, <1>26
  DEF LockEnlist, SetPriorityYield, thread_exit, ThreadDie
<1>27. CASE \E p \in NewPriority : thread_set_priority(p)
  BY <1>16, <1>21, <1>27 DEF thread_set_priority
<1>28. QED
  BY <1>2, <1>3, <1>4, <1>7, <1>8, <1>14, <1>20, <1>22, <1>23, <1>24, <1>25,
     <1>26, <1>27
  DEF Next, Continue, Call, Interrupt, ThreadSemaUp, InterruptSemaUp

LEMMA InitLock == Init => ControlOK /\ LockExclusion
<1> SUFFICES ASSUME Init PROVE ControlOK /\ LockExclusion
  OBVIOUS
<1>1. pc[idle_thread] = "idle"
  BY ThreadsAssumption DEF Init, AllThreads
<1>2. ASSUME NEW t \in Thread PROVE ControlAt(t)
  BY ThreadsAssumption DEF Init, ControlAt, AllThreads
<1>3. ASSUME NEW l \in Lock PROVE OwnedOnce(l)
  <2>1. value[l] = 1 /\ holder[l] = NULL
    BY DEF Init, SemaId
  <2>2. \A t \in Thread : ~Owns(t, l)
    BY <2>1, SynchAssumption DEF Init, Owns, AllThreads
  <2>3. QED
    BY <2>1, <2>2 DEF OwnedOnce
<1>4. QED
  BY <1>1, <1>2, <1>3 DEF ControlOK, LockExclusion

-----------------------------------------------------------------------------
(* The inductive invariant holds in every reachable state. *)
THEOREM SynchInvariant == Spec => []IInv
<1>1. Init => IInv
  BY InitType, InitLock DEF IInv
<1>2. IInv /\ [Next]_vars => IInv'
  BY NextType, NextLock DEF IInv
<1>3. QED
  BY <1>1, <1>2, PTL DEF Spec

(* Every variable of the threads, semaphores, locks and condition          *)
(* variables keeps its type.                                               *)
THEOREM TypeCorrect == Spec => []TypeOK
<1>1. IInv => TypeOK
  BY DEF IInv
<1>2. QED
  BY <1>1, SynchInvariant, PTL

(* A lock has at most one owner, and its semaphore is 1 exactly when it    *)
(* has none, whatever threads and interrupts do in the windows of          *)
(* lock_acquire and lock_release in which holder and semaphore disagree.   *)
THEOREM LockMutualExclusion == Spec => []LockExclusion
<1>1. IInv => LockExclusion
  BY DEF IInv
<1>2. QED
  BY <1>1, SynchInvariant, PTL

(* The code is where it believes to be: an operation on a lock that is     *)
(* past setting the holder holds it, and cond_signal scans a list that     *)
(* does not change under it.                                               *)
THEOREM ControlCorrect == Spec => []ControlOK
<1>1. IInv => ControlOK
  BY DEF IInv
<1>2. QED
  BY <1>1, SynchInvariant, PTL
=============================================================================
