---------------------------- MODULE QueueProofs ----------------------------
(***************************************************************************)
(* For any number of threads, locks, semaphores and condition variables:   *)
(* a thread is on the list its state says and on no other, and no wake-up  *)
(* is lost.                                                                *)
(***************************************************************************)
EXTENDS LockProofs, FiniteSetTheorems

(* The wait lists. *)
Asleep(s) == {t \in Thread : status[t] = "BLOCKED" /\ target[t] = s}
WaitLists == \A s \in SemaId : IsInjective(waiters[s]) /\ ToSet(waiters[s]) = Asleep(s)

(* Threads sleep in sema_down only. *)
SleepInDown == \A t \in Thread : status[t] = "BLOCKED" => pc[t] = "wake"

(* The threads on their way to retry s, of which NoLostWakeup speaks. *)
Retrying(s) == {t \in Thread : pc[t] = "wake" /\ target[t] = s /\ status[t] # "BLOCKED"}

(* A lock leaves the list of its holder before the holder is cleared. *)
Unlisted == \A t \in Thread : pc[t] = "unhold" => target[t] \notin locks[t]

QInv ==
  /\ IInv
  /\ RunQueue /\ WaitLists /\ SleepInDown /\ NoLostWakeup
  /\ LockListed /\ Unlisted

-----------------------------------------------------------------------------
(* What a step does to the sleepers and to those on their way to retry.    *)

Sleepers == WaitLists /\ SleepInDown /\ NoLostWakeup

(* The threads but m are where they were. *)
Elsewhere(m) == \A t \in Thread \ {m} : pc'[t] = pc[t] /\ target'[t] = target[t]

LEMMA RetryingFinite ==
  ASSUME NEW s
  PROVE  IsFiniteSet(Retrying(s)) /\ Cardinality(Retrying(s)) \in Nat
<1>1. Retrying(s) \subseteq Thread
  BY DEF Retrying
<1>2. QED
  BY <1>1, SynchAssumption, FS_Subset, FS_CardinalityType

LEMMA NoLostRetry ==
  /\ NoLostWakeup <=> \A s \in SemaId : waiters[s] # <<>> => value[s] <= Cardinality(Retrying(s))
  /\ NoLostWakeup' <=> \A s \in SemaId : waiters'[s] # <<>> => value'[s] <= Cardinality(Retrying(s)')
BY DEF NoLostWakeup, Retrying

(* Nobody falls asleep or is woken, and no semaphore with waiters is upped. *)
LEMMA KeepStep ==
  ASSUME QInv, NEW m \in AllThreads, Elsewhere(m), SameSleep(status), waiters' = waiters,
         \A s \in SemaId : waiters[s] # <<>> => value'[s] = value[s],
         pc[m] # "wake", pc'[m] # "wake"
  PROVE  Sleepers'
<1>1. \A t \in Thread : status[t] = "BLOCKED" => t # m
  BY DEF QInv, SleepInDown
<1>2. \A s \in SemaId : Asleep(s)' = Asleep(s)
  BY <1>1 DEF Asleep, Elsewhere, SameSleep
<1>3. \A s \in SemaId : Retrying(s)' = Retrying(s)
  BY DEF Retrying, Elsewhere, SameSleep
<1>4. WaitLists'
  BY <1>2 DEF QInv, WaitLists
<1>5. SleepInDown'
  BY <1>1 DEF QInv, SleepInDown, Elsewhere, SameSleep
<1>6. NoLostWakeup'
  BY <1>3, NoLostRetry DEF QInv
<1>7. QED
  BY <1>4, <1>5, <1>6 DEF Sleepers

(* A thread brings the semaphore down: if it was woken, it stood for the   *)
(* unit it takes.                                                          *)
LEMMA DownStep ==
  ASSUME QInv, NEW m \in Thread, NEW s \in SemaId, Elsewhere(m), status' = status, status[m] = "RUNNING",
         waiters' = waiters, value[s] > 0, value' = [value EXCEPT ![s] = value[s] - 1],
         pc[m] = "wake" => target[m] = s, pc'[m] # "wake"
  PROVE  Sleepers'
<1>1. \A r \in SemaId : Asleep(r)' = Asleep(r)
  BY DEF Asleep, Elsewhere
<1>2. WaitLists'
  BY <1>1 DEF QInv, WaitLists
<1>3. SleepInDown'
  BY DEF QInv, SleepInDown, Elsewhere
<1>4. ASSUME NEW r \in SemaId, waiters'[r] # <<>> PROVE value'[r] <= Cardinality(Retrying(r)')
  <2>1. /\ value[r] \in Nat /\ Cardinality(Retrying(r)) \in Nat /\ IsFiniteSet(Retrying(r))
        /\ value[r] <= Cardinality(Retrying(r)) /\ value \in [SemaId -> Nat]
    BY <1>4, RetryingFinite, NoLostRetry DEF QInv, IInv, TypeOK
  <2>2. CASE r = s /\ m \in Retrying(r)
    <3>1. Retrying(r)' = Retrying(r) \ {m}
      BY <2>2 DEF Retrying, Elsewhere
    <3>2. Cardinality(Retrying(r) \ {m}) = Cardinality(Retrying(r)) - 1
      BY <2>1, <2>2, FS_RemoveElement
    <3>3. value'[r] = value[r] - 1
      BY <2>1, <2>2
    <3>4. QED
      BY <2>1, <3>1, <3>2, <3>3
  <2>3. CASE ~(r = s /\ m \in Retrying(r))
    <3>1. Retrying(r)' = Retrying(r)
      BY <2>3 DEF Retrying, Elsewhere
    <3>2. value'[r] <= value[r]
      BY <2>1
    <3>3. value'[r] \in Int
      BY <2>1
    <3>4. QED
      BY <2>1, <3>1, <3>2, <3>3
  <2>4. QED
    BY <2>2, <2>3
<1>5. NoLostWakeup'
  BY <1>4, NoLostRetry
<1>6. QED
  BY <1>2, <1>3, <1>5 DEF Sleepers

(* The running thread falls asleep on a semaphore that is zero. *)
LEMMA SleepStep ==
  ASSUME QInv, NEW m \in Thread, NEW s \in SemaId, Elsewhere(m), m = current,
         waiters' = [waiters EXCEPT ![s] = Append(waiters[s], m)],
         SameSleep([status EXCEPT ![m] = "BLOCKED"]),
         value[s] = 0, value' = value, pc[m] = "wake" => target[m] = s,
         pc'[m] = "wake", target'[m] = s
  PROVE  Sleepers'
<1>1. /\ status[m] = "RUNNING" /\ waiters \in [SemaId -> Seq(Thread)] /\ status'[m] = "BLOCKED"
      /\ \A t \in Thread \ {m} : status'[t] = "BLOCKED" <=> status[t] = "BLOCKED"
  BY DEF QInv, RunQueue, OneRunning, IInv, TypeOK, AllThreads, SameSleep
<1>2. ASSUME NEW r \in SemaId PROVE IsInjective(waiters'[r]) /\ ToSet(waiters'[r]) = Asleep(r)'
  <2>1. IsInjective(waiters[r]) /\ ToSet(waiters[r]) = Asleep(r) /\ m \notin Asleep(r)
        /\ waiters[r] \in Seq(Thread)
    BY <1>1 DEF QInv, WaitLists, Asleep
  <2>2. CASE r = s
    <3>1. IsInjective(Append(waiters[r], m)) /\ ToSet(Append(waiters[r], m)) = Asleep(r) \cup {m}
      BY <2>1, PushBack, PushBackOnce
    <3>2. Asleep(r)' = Asleep(r) \cup {m}
      BY <1>1, <2>2 DEF Asleep, Elsewhere
    <3>3. QED
      BY <1>1, <2>2, <3>1, <3>2
  <2>3. CASE r # s
    <3>1. Asleep(r)' = Asleep(r)
      BY <1>1, <2>3 DEF Asleep, Elsewhere
    <3>2. QED
      BY <1>1, <2>1, <2>3, <3>1
  <2>4. QED
    BY <2>2, <2>3
<1>3. WaitLists'
  BY <1>2 DEF WaitLists, IsInjective, ToSet
<1>4. SleepInDown'
  BY <1>1 DEF QInv, SleepInDown, Elsewhere
<1>5. ASSUME NEW r \in SemaId, waiters'[r] # <<>> PROVE value'[r] <= Cardinality(Retrying(r)')
  <2>1. CASE r = s
    <3>1. Cardinality(Retrying(r)') \in Nat
      <4>1. Retrying(r)' \subseteq Thread
        BY DEF Retrying
      <4>2. QED
        BY <4>1, SynchAssumption, FS_Subset, FS_CardinalityType
    <3>2. QED
      BY <2>1, <3>1
  <2>2. CASE r # s
    <3>1. Retrying(r)' = Retrying(r)
      BY <1>1, <2>2 DEF Retrying, Elsewhere
    <3>2. waiters'[r] = waiters[r]
      BY <1>1, <2>2
    <3>3. QED
      BY <1>5, <3>1, <3>2, NoLostRetry DEF QInv
  <2>3. QED
    BY <2>1, <2>2
<1>6. NoLostWakeup'
  BY <1>5, NoLostRetry
<1>7. QED
  BY <1>3, <1>4, <1>6 DEF Sleepers

(* sema_up: the thread that is woken stands for the new unit. *)
LEMMA UpStep ==
  ASSUME QInv, NEW m \in AllThreads, NEW s \in SemaId, sema_up(s), Elsewhere(m),
         pc[m] # "wake", pc'[m] # "wake"
  PROVE  RunQueue' /\ Sleepers'
<1>1. /\ value \in [SemaId -> Nat] /\ waiters \in [SemaId -> Seq(Thread)] /\ SchedType
      /\ status \in [AllThreads -> Statuses] /\ RunQueue
      /\ value' = [value EXCEPT ![s] = value[s] + 1]
  BY DEF QInv, IInv, TypeOK, SchedType, sema_up
<1>2. CASE waiters[s] = <<>> /\ UNCHANGED <<waiters, schedVars>>
  <2>1. RunQueue'
    BY <1>1, <1>2 DEF RunQueue, OneRunning, schedVars
  <2>2. SameSleep(status)
    BY <1>2 DEF SameSleep, schedVars
  <2>3. QED
    BY <1>1, <1>2, <2>1, <2>2, KeepStep
<1>3. ASSUME NEW i \in DOMAIN waiters[s], NEW pri,
             waiters' = [waiters EXCEPT ![s] = RemoveAt(waiters[s], i)],
             thread_unblock(waiters[s][i], pri)
      PROVE  RunQueue' /\ Sleepers'
  <2> DEFINE u == waiters[s][i]
  <2>1. /\ u \in Asleep(s) /\ u \in Thread /\ status[u] = "BLOCKED" /\ target[u] = s
        /\ pc[u] = "wake" /\ u # m /\ pc'[u] = "wake" /\ target'[u] = s
    <3>1. u \in ToSet(waiters[s])
      BY DEF ToSet
    <3>2. u \in Asleep(s)
      BY <3>1 DEF QInv, WaitLists
    <3>3. QED
      BY <3>2 DEF QInv, Asleep, SleepInDown, Elsewhere
  <2>2. RunQueue' /\ SameSleep([status EXCEPT ![u] = "READY"])
    BY <1>1, <1>3, <2>1, UnblockQueue
  <2> HIDE DEF u
  <2>3. /\ status'[u] # "BLOCKED"
        /\ \A t \in Thread \ {u} : status'[t] = "BLOCKED" <=> status[t] = "BLOCKED"
    BY <1>1, <2>1, <2>2 DEF SameSleep, AllThreads
  <2>4. \A t \in Thread : status[t] = "BLOCKED" => t # m
    BY DEF QInv, SleepInDown
  <2>5. ASSUME NEW r \in SemaId PROVE IsInjective(waiters'[r]) /\ ToSet(waiters'[r]) = Asleep(r)'
    <3>1. /\ IsInjective(waiters[r]) /\ ToSet(waiters[r]) = Asleep(r) /\ waiters[r] \in Seq(Thread)
      BY <1>1 DEF QInv, WaitLists
    <3>2. CASE r = s
      <4>1. IsInjective(RemoveAt(waiters[s], i)) /\ ToSet(RemoveAt(waiters[s], i)) = Asleep(s) \ {u}
        BY <3>1, <3>2, RemoveOneOnce DEF u
      <4>2. Asleep(s)' = Asleep(s) \ {u}
        BY <2>1, <2>3, <2>4 DEF Asleep, Elsewhere
      <4>3. QED
        BY <1>1, <1>3, <3>2, <4>1, <4>2
    <3>3. CASE r # s
      <4>1. Asleep(r)' = Asleep(r)
        BY <2>1, <2>3, <2>4, <3>3 DEF Asleep, Elsewhere
      <4>2. QED
        BY <1>1, <1>3, <3>1, <3>3, <4>1
    <3>4. QED
      BY <3>2, <3>3
  <2>6. WaitLists'
    BY <2>5 DEF WaitLists, IsInjective, ToSet
  <2>7. SleepInDown'
    BY <2>3, <2>4 DEF QInv, SleepInDown, Elsewhere
  <2>8. ASSUME NEW r \in SemaId, waiters'[r] # <<>> PROVE value'[r] <= Cardinality(Retrying(r)')
    <3>1. IsFiniteSet(Retrying(r)) /\ Cardinality(Retrying(r)) \in Nat
      BY RetryingFinite
    <3>2. CASE r = s
      <4>1. Retrying(r)' = Retrying(r) \cup {u} /\ u \notin Retrying(r)
        BY <2>1, <2>3, <3>2 DEF Retrying, Elsewhere
      <4>2. Cardinality(Retrying(r) \cup {u}) = Cardinality(Retrying(r)) + 1
        BY <3>1, <4>1, FS_AddElement
      <4>3. waiters[s] # <<>>
        BY <1>3
      <4>4. value[r] <= Cardinality(Retrying(r)) /\ value[r] \in Nat /\ value'[r] = value[r] + 1
        BY <1>1, <3>2, <4>3, NoLostRetry DEF QInv
      <4>5. QED
        BY <3>1, <4>1, <4>2, <4>4
    <3>3. CASE r # s
      <4>1. Retrying(r)' = Retrying(r)
        BY <2>1, <2>3, <3>3 DEF Retrying, Elsewhere
      <4>2. waiters'[r] = waiters[r] /\ value'[r] = value[r]
        BY <1>1, <1>3, <3>3
      <4>3. QED
        BY <2>8, <4>1, <4>2, NoLostRetry DEF QInv
    <3>4. QED
      BY <3>2, <3>3
  <2>9. NoLostWakeup'
    BY <2>8, NoLostRetry
  <2>10. QED
    BY <2>2, <2>6, <2>7, <2>9 DEF Sleepers
<1>4. QED
  BY <1>2, <1>3 DEF sema_up

(* cond_wait: the semaphore on the stack is a new one. *)
LEMMA NewSemaStep ==
  ASSUME QInv, NEW m \in Thread, Elsewhere(m), status' = status, pc[m] # "wake", pc'[m] # "wake",
         value' = [value EXCEPT ![m] = 0], waiters' = [waiters EXCEPT ![m] = <<>>]
  PROVE  Sleepers'
<1>1. /\ value \in [SemaId -> Nat] /\ waiters \in [SemaId -> Seq(Thread)] /\ m \in SemaId
  BY DEF QInv, IInv, TypeOK, SemaId
<1>2. Asleep(m) = {}
  <2>1. ASSUME NEW t \in Asleep(m) PROVE FALSE
    <3>1. t \in Thread /\ target[t] = m /\ pc[t] = "wake" /\ ControlAt(t)
      BY DEF QInv, IInv, ControlOK, Asleep, SleepInDown
    <3>2. t = m
      BY <3>1 DEF ControlAt
    <3>3. QED
      BY <3>1, <3>2
  <2>2. QED
    BY <2>1
<1>3. waiters[m] = <<>>
  <2>1. ToSet(waiters[m]) = {} /\ waiters[m] \in Seq(Thread)
    BY <1>1, <1>2 DEF QInv, WaitLists
  <2>2. QED
    BY <2>1, NotEmpty DEF ToSet
<1>4. waiters' = waiters
  BY <1>1, <1>3
<1>5. \A s \in SemaId : waiters[s] # <<>> => value'[s] = value[s]
  BY <1>1, <1>3
<1>6. QED
  BY <1>4, <1>5, KeepStep DEF SameSleep, AllThreads

-----------------------------------------------------------------------------
(* The lists of locks. *)

LEMMA ListsKept ==
  ASSUME QInv, NEW m \in AllThreads, Elsewhere(m), UNCHANGED <<locks, holder>>,
         pc[m] \notin {"enlist", "unhold"}, pc'[m] # "unhold"
  PROVE  LockListed' /\ Unlisted'
<1>1. ASSUME NEW l \in Lock, NEW t \in Thread
      PROVE  /\ l \in locks[t] => holder[l] = t
             /\ holder[l] = t => l \in locks[t] \/ (t # m /\ pc[t] \in {"enlist", "unhold"} /\ target[t] = l)
  BY DEF QInv, LockListed
<1>2. LockListed'
  BY <1>1 DEF LockListed, Elsewhere
<1>3. Unlisted'
  BY DEF QInv, Unlisted, Elsewhere
<1>4. QED
  BY <1>2, <1>3

LEMMA ListsSetHolder ==
  ASSUME QInv, LockSetHolder, NEW m \in Thread, m = current
  PROVE  LockListed' /\ Unlisted'
<1> DEFINE k == target[m]
<1>1. /\ pc[m] = "hold" /\ k \in Lock /\ Owns(m, k) /\ holder[k] # m
      /\ pc'[m] = "enlist" /\ UNCHANGED <<locks, target>>
      /\ \A t \in Thread \ {m} : pc'[t] = pc[t]
      /\ holder'[k] = m /\ \A l \in Lock \ {k} : holder'[l] = holder[l]
  <2>1. pc[m] = "hold" /\ ControlAt(m)
    BY DEF QInv, IInv, ControlOK, LockSetHolder
  <2>2. k \in Lock /\ Owns(m, k) /\ holder[k] # m
    BY <2>1 DEF ControlAt, Owns
  <2>3. pc'[m] = "enlist" /\ \A t \in Thread \ {m} : pc'[t] = pc[t]
    BY GotoOthers DEF QInv, LockSetHolder, AllThreads
  <2>4. QED
    BY <2>1, <2>2, <2>3 DEF LockSetHolder, QInv, IInv, TypeOK
<1>2. \A t \in Thread : holder[k] # t
  BY <1>1 DEF QInv, IInv, LockExclusion, OwnedOnce, Owns
<1>3. ASSUME NEW l \in Lock, NEW t \in Thread
      PROVE  /\ l \in locks'[t] => holder'[l] = t
             /\ holder'[l] = t => l \in locks'[t] \/ (pc'[t] \in {"enlist", "unhold"} /\ target'[t] = l)
  <2>1. /\ l \in locks[t] => holder[l] = t
        /\ holder[l] = t => l \in locks[t] \/ (pc[t] \in {"enlist", "unhold"} /\ target[t] = l)
    BY DEF QInv, LockListed
  <2>2. CASE l = k
    BY <1>1, <1>2, <2>1, <2>2
  <2>3. CASE l # k
    BY <1>1, <2>1, <2>3
  <2>4. QED
    BY <2>2, <2>3
<1>4. Unlisted'
  BY <1>1 DEF QInv, Unlisted
<1>5. QED
  BY <1>3, <1>4 DEF LockListed

LEMMA ListsEnlist ==
  ASSUME QInv, LockEnlist, NEW m \in Thread, m = current
  PROVE  LockListed' /\ Unlisted'
<1> DEFINE k == target[m]
<1>1. /\ pc[m] = "enlist" /\ k \in Lock /\ holder[k] = m /\ pc'[m] = "run" /\ UNCHANGED holder
      /\ Elsewhere(m)
      /\ locks'[m] = locks[m] \cup {k} /\ \A t \in Thread \ {m} : locks'[t] = locks[t]
  <2>1. pc[m] = "enlist" /\ ControlAt(m)
    BY DEF QInv, IInv, ControlOK, LockEnlist
  <2>2. k \in Lock /\ holder[k] = m
    BY <2>1 DEF ControlAt
  <2>3. pc'[m] = "run" /\ Elsewhere(m)
    BY GotoOthers, AimOthers DEF QInv, LockEnlist, AllThreads, Elsewhere
  <2>4. QED
    BY <2>1, <2>2, <2>3 DEF LockEnlist, QInv, IInv, TypeOK, AllThreads
<1>2. ASSUME NEW l \in Lock, NEW t \in Thread
      PROVE  /\ l \in locks'[t] => holder'[l] = t
             /\ holder'[l] = t => l \in locks'[t] \/ (pc'[t] \in {"enlist", "unhold"} /\ target'[t] = l)
  <2>1. /\ l \in locks[t] => holder[l] = t
        /\ holder[l] = t => l \in locks[t] \/ (pc[t] \in {"enlist", "unhold"} /\ target[t] = l)
    BY DEF QInv, LockListed
  <2>2. CASE t = m
    BY <1>1, <2>1, <2>2
  <2>3. CASE t # m
    BY <1>1, <2>1, <2>3 DEF Elsewhere
  <2>4. QED
    BY <2>2, <2>3
<1>3. Unlisted'
  BY <1>1 DEF QInv, Unlisted, Elsewhere
<1>4. QED
  BY <1>2, <1>3 DEF LockListed

LEMMA ListsUnlist ==
  ASSUME QInv, NEW k \in Lock, LockUnlist(k), NEW m \in Thread, m = current
  PROVE  LockListed' /\ Unlisted'
<1>1. /\ pc[m] \in {"run", "unlist"} /\ pc'[m] = "unhold" /\ target'[m] = k
      /\ UNCHANGED holder /\ Elsewhere(m)
      /\ locks'[m] = locks[m] \ {k} /\ \A t \in Thread \ {m} : locks'[t] = locks[t]
  <2>1. pc[m] \in {"run", "unlist"}
    BY DEF LockUnlist
  <2>2. pc'[m] = "unhold" /\ target'[m] = k /\ Elsewhere(m)
    BY GotoOthers, AimOthers DEF QInv, LockUnlist, AllThreads, Elsewhere
  <2>3. QED
    BY <2>1, <2>2 DEF LockUnlist, QInv, IInv, TypeOK, AllThreads
<1>2. ASSUME NEW l \in Lock, NEW t \in Thread
      PROVE  /\ l \in locks'[t] => holder'[l] = t
             /\ holder'[l] = t => l \in locks'[t] \/ (pc'[t] \in {"enlist", "unhold"} /\ target'[t] = l)
  <2>1. /\ l \in locks[t] => holder[l] = t
        /\ holder[l] = t => l \in locks[t] \/ (pc[t] \in {"enlist", "unhold"} /\ target[t] = l)
    BY DEF QInv, LockListed
  <2>2. CASE t = m
    BY <1>1, <2>1, <2>2
  <2>3. CASE t # m
    BY <1>1, <2>1, <2>3 DEF Elsewhere
  <2>4. QED
    BY <2>2, <2>3
<1>3. Unlisted'
  BY <1>1 DEF QInv, Unlisted, Elsewhere
<1>4. QED
  BY <1>2, <1>3 DEF LockListed

LEMMA ListsClearHolder ==
  ASSUME QInv, LockClearHolder, NEW m \in Thread, m = current
  PROVE  LockListed' /\ Unlisted'
<1> DEFINE k == target[m]
<1>1. /\ pc[m] = "unhold" /\ k \in Lock /\ holder[k] = m /\ k \notin locks[m]
      /\ pc'[m] = "up" /\ UNCHANGED <<locks, target>>
      /\ \A t \in Thread \ {m} : pc'[t] = pc[t]
      /\ holder'[k] = NULL /\ \A l \in Lock \ {k} : holder'[l] = holder[l]
  <2>1. pc[m] = "unhold" /\ ControlAt(m)
    BY DEF QInv, IInv, ControlOK, LockClearHolder
  <2>2. k \in Lock /\ holder[k] = m /\ k \notin locks[m]
    BY <2>1 DEF ControlAt, QInv, Unlisted
  <2>3. pc'[m] = "up" /\ \A t \in Thread \ {m} : pc'[t] = pc[t]
    BY GotoOthers DEF QInv, LockClearHolder, AllThreads
  <2>4. QED
    BY <2>1, <2>2, <2>3 DEF LockClearHolder, QInv, IInv, TypeOK
<1>2. ASSUME NEW l \in Lock, NEW t \in Thread
      PROVE  /\ l \in locks'[t] => holder'[l] = t
             /\ holder'[l] = t => l \in locks'[t] \/ (pc'[t] \in {"enlist", "unhold"} /\ target'[t] = l)
  <2>1. /\ l \in locks[t] => holder[l] = t
        /\ holder[l] = t => l \in locks[t] \/ (pc[t] \in {"enlist", "unhold"} /\ target[t] = l)
        /\ t # NULL
    BY SynchAssumption DEF QInv, LockListed
  <2>2. CASE l = k
    BY <1>1, <2>1, <2>2
  <2>3. CASE l # k
    BY <1>1, <2>1, <2>3
  <2>4. QED
    BY <2>2, <2>3
<1>3. Unlisted'
  BY <1>1 DEF QInv, Unlisted
<1>4. QED
  BY <1>2, <1>3 DEF LockListed

-----------------------------------------------------------------------------
(* Every step keeps the invariant. *)

QueuesKept == RunQueue /\ Sleepers /\ LockListed /\ Unlisted

(* A step of the running thread, not from or to sema_down, that leaves the *)
(* scheduler, the semaphores and the locks alone.                          *)
LEMMA PlainStep ==
  ASSUME QInv, NEW m \in AllThreads, Elsewhere(m), UNCHANGED <<schedVars, semaVars>>,
         pc[m] # "wake", pc'[m] # "wake", LockListed' /\ Unlisted'
  PROVE  QueuesKept'
<1>1. RunQueue'
  BY DEF QInv, RunQueue, OneRunning, schedVars
<1>2. SameSleep(status) /\ waiters' = waiters /\ value' = value
  BY DEF SameSleep, schedVars, semaVars
<1>3. Sleepers'
  BY <1>2, KeepStep
<1>4. QED
  BY <1>1, <1>3 DEF QueuesKept

(* One that only makes the scheduler run. *)
LEMMA SwitchStep ==
  ASSUME QInv, NEW m \in AllThreads, Elsewhere(m), RunQueue', SameSleep(status), UNCHANGED semaVars,
         pc[m] # "wake", pc'[m] # "wake", LockListed' /\ Unlisted'
  PROVE  QueuesKept'
<1>1. waiters' = waiters /\ value' = value
  BY DEF semaVars
<1>2. Sleepers'
  BY <1>1, KeepStep
<1>3. QED
  BY <1>2 DEF QueuesKept

(* The running thread goes from p to q and aims at s, or at what it aimed. *)
LEMMA Moved ==
  ASSUME QInv, current \in Thread, NEW q, Goto(q), NEW s, Aim(s) \/ UNCHANGED target
  PROVE  pc'[current] = q /\ Elsewhere(current)
BY GotoOthers, AimOthers DEF QInv, Elsewhere, AllThreads

LEMMA ListsStill ==
  ASSUME QInv, UNCHANGED <<locks, holder, pc, target>>
  PROVE  LockListed' /\ Unlisted'
BY DEF QInv, LockListed, Unlisted

LEMMA DownQueues ==
  ASSUME QInv, NEW s \in SemaId, sema_down(s), current \in Thread
  PROVE  QueuesKept'
<1>1. /\ pc[current] \in {"run", "down", "wake"} /\ (pc[current] = "wake" => target[current] = s)
      /\ UNCHANGED <<locks, holder>> /\ status[current] = "RUNNING" /\ current \in AllThreads
  BY DEF sema_down, InSemaDown, lockVars, QInv, RunQueue, OneRunning, AllThreads
<1>2. ASSUME value[s] > 0, value' = [value EXCEPT ![s] = value[s] - 1],
             AfterDown(s), UNCHANGED <<waiters, schedVars>>
      PROVE  QueuesKept'
  <2>1. pc'[current] \in {"hold", "run", "down"} /\ Elsewhere(current)
    BY <1>2, Moved DEF AfterDown
  <2>2. Sleepers'
    BY <1>1, <1>2, <2>1, DownStep DEF schedVars
  <2>3. RunQueue'
    BY <1>2 DEF QInv, RunQueue, OneRunning, schedVars
  <2>4. LockListed' /\ Unlisted'
    BY <1>1, <2>1, ListsKept
  <2>5. QED
    BY <2>2, <2>3, <2>4 DEF QueuesKept
<1>3. ASSUME NEW pri, value[s] = 0, waiters' = [waiters EXCEPT ![s] = Append(waiters[s], current)],
             thread_block(ready_list, pri), Goto("wake"), Aim(s), UNCHANGED value
      PROVE  QueuesKept'
  <2>1. pc'[current] = "wake" /\ target'[current] = s /\ Elsewhere(current)
    BY <1>3, Moved, AimOthers DEF QInv
  <2>2. RunQueue' /\ SameSleep([status EXCEPT ![current] = "BLOCKED"])
    <3>1. SchedType /\ RunQueue
      BY DEF QInv, IInv, TypeOK, SchedType
    <3>2. QED
      BY <1>3, <3>1, LeaveQueue DEF thread_block
  <2>3. Sleepers'
    BY <1>1, <1>3, <2>1, <2>2, SleepStep
  <2>4. LockListed' /\ Unlisted'
    BY <1>1, <2>1, ListsKept
  <2>5. QED
    BY <2>2, <2>3, <2>4 DEF QueuesKept
<1>4. QED
  BY <1>2, <1>3 DEF sema_down

LEMMA TryDownQueues ==
  ASSUME QInv, NEW l \in Lock, sema_try_down(l), current \in Thread
  PROVE  QueuesKept'
<1>1. pc'[current] = "hold" /\ Elsewhere(current) /\ pc[current] = "run" /\ l \in SemaId
  BY Moved DEF sema_try_down, SemaId
<1>2. status[current] = "RUNNING" /\ current \in AllThreads /\ status' = status
      /\ UNCHANGED <<waiters, locks, holder>>
  BY DEF QInv, RunQueue, OneRunning, AllThreads, sema_try_down, schedVars, lockVars
<1>3. Sleepers'
  BY <1>1, <1>2, DownStep DEF sema_try_down
<1>4. RunQueue'
  BY DEF sema_try_down, QInv, RunQueue, OneRunning, schedVars
<1>5. LockListed' /\ Unlisted'
  BY <1>1, <1>2, ListsKept
<1>6. QED
  BY <1>3, <1>4, <1>5 DEF QueuesKept

(* sema_up in a step of the running thread. *)
LEMMA UpQueues ==
  ASSUME QInv, NEW s \in SemaId, sema_up(s), Elsewhere(current), UNCHANGED lockVars,
         pc[current] # "wake", pc'[current] # "wake",
         \/ UNCHANGED <<pc, target>>
         \/ pc[current] \notin {"enlist", "unhold"} /\ pc'[current] # "unhold"
  PROVE  QueuesKept'
<1>1. current \in AllThreads /\ UNCHANGED <<locks, holder>>
  BY DEF QInv, IInv, TypeOK, lockVars
<1>2. RunQueue' /\ Sleepers'
  BY <1>1, UpStep
<1>3. LockListed' /\ Unlisted'
  BY <1>1, ListsKept, ListsStill
<1>4. QED
  BY <1>2, <1>3 DEF QueuesKept

LEMMA CondWaitQueues ==
  ASSUME QInv, NEW c \in Cond, cond_wait(c), current \in Thread
  PROVE  QueuesKept'
<1>1. /\ pc[current] = "run" /\ pc'[current] = "unlist" /\ Elsewhere(current) /\ current \in AllThreads
      /\ status' = status /\ UNCHANGED <<locks, holder>>
  BY Moved DEF cond_wait, AllThreads, schedVars, lockVars
<1>2. Sleepers'
  BY <1>1, NewSemaStep DEF cond_wait
<1>3. RunQueue'
  BY DEF cond_wait, QInv, RunQueue, OneRunning, schedVars
<1>4. LockListed' /\ Unlisted'
  BY <1>1, ListsKept
<1>5. QED
  BY <1>2, <1>3, <1>4 DEF QueuesKept

LEMMA CreateQueues ==
  ASSUME QInv, NEW t \in Thread, NEW p \in NewPriority, thread_create(t, p)
  PROVE  QueuesKept'
<1>1. status[t] = "NONE" /\ pc[t] = "none" /\ t \in AllThreads
  BY DEF QInv, IInv, ControlOK, ControlAt, thread_create, AllThreads
<1>2. pc'[t] = "run" /\ Elsewhere(t) /\ UNCHANGED <<locks, holder, value, waiters>>
  BY <1>1 DEF thread_create, Elsewhere, QInv, IInv, TypeOK, AllThreads, lockVars, semaVars
<1>3. RunQueue' /\ SameSleep([status EXCEPT ![t] = "READY"])
  <2>1. SchedType /\ RunQueue
    BY DEF QInv, IInv, TypeOK, SchedType
  <2>2. QED
    BY <1>1, <2>1, UnblockQueue DEF thread_create
<1>4. SameSleep(status)
  BY <1>1, <1>3 DEF SameSleep, QInv, IInv, TypeOK, AllThreads
<1>5. LockListed' /\ Unlisted'
  BY <1>1, <1>2, ListsKept
<1>6. QED
  BY <1>1, <1>2, <1>3, <1>4, <1>5, SwitchStep DEF semaVars

(* The running thread yields, the idle thread blocks, or a thread dies. *)
LEMMA YieldKeeps ==
  ASSUME QInv, NEW pri, thread_yield(status, ready_list, pri)
  PROVE  RunQueue' /\ SameSleep(status)
BY YieldQueue DEF QInv, IInv, TypeOK, RunQueue, OneRunning

LEMMA IdleQueues ==
  ASSUME QInv, idle
  PROVE  QueuesKept'
<1>1. /\ current = idle_thread /\ current \in AllThreads /\ current \notin Thread
  BY ThreadsAssumption DEF QInv, IInv, ControlOK, ControlAt, TypeOK, AllThreads, idle
<1>2. SchedType /\ RunQueue
  BY DEF QInv, IInv, TypeOK, SchedType
<1>3. RunQueue' /\ SameSleep([status EXCEPT ![current] = "BLOCKED"])
  BY <1>2, LeaveQueue DEF idle, thread_block
<1>4. SameSleep(status)
  BY <1>1, <1>2, <1>3 DEF SameSleep, SchedType, AllThreads
<1>5. Elsewhere(current) /\ pc[current] = "idle" /\ pc' = pc /\ UNCHANGED <<locks, holder, target>>
  BY DEF idle, Elsewhere, lockVars
<1>6. LockListed' /\ Unlisted'
  BY <1>5, ListsStill
<1>7. QED
  BY <1>1, <1>3, <1>4, <1>5, <1>6, SwitchStep DEF idle

LEMMA DieQueues ==
  ASSUME QInv, ThreadDie, current \in Thread
  PROVE  QueuesKept'
<1>1. /\ pc[current] = "exit" /\ pc'[current] = "dead" /\ Elsewhere(current) /\ current \in AllThreads
      /\ UNCHANGED <<locks, holder>>
  BY Moved DEF ThreadDie, AllThreads, lockVars
<1>2. SchedType /\ RunQueue /\ status[current] = "RUNNING"
  BY <1>1 DEF QInv, IInv, TypeOK, SchedType, RunQueue, OneRunning
<1>3. RunQueue' /\ SameSleep([status EXCEPT ![current] = "DYING"])
  BY <1>2, LeaveQueue DEF ThreadDie
<1>4. SameSleep(status)
  BY <1>1, <1>2, <1>3 DEF SameSleep, SchedType, AllThreads
<1>5. LockListed' /\ Unlisted'
  BY <1>1, ListsKept
<1>6. QED
  BY <1>1, <1>3, <1>4, <1>5, SwitchStep DEF ThreadDie

LEMMA NextQueues == QInv /\ [Next]_vars => QueuesKept'
<1> SUFFICES ASSUME QInv, [Next]_vars PROVE QueuesKept'
  OBVIOUS
<1>0. /\ TypeOK /\ ControlOK /\ current \in AllThreads
      /\ pc[current] # "idle" => current \in Thread
  BY CurrentThread DEF QInv, IInv, TypeOK
<1>1. CASE \E s \in SemaId : sema_down(s)
  BY <1>0, <1>1, DownQueues DEF sema_down, InSemaDown
<1>2. ASSUME NEW l \in Lock, sema_try_down(l)
      PROVE  QueuesKept'
  <2>1. current \in Thread
    BY <1>0, <1>2 DEF sema_try_down
  <2>2. QED
    BY <1>2, <2>1, TryDownQueues
<1>3. ASSUME NEW s \in UpSema, ThreadSemaUp(s) \/ InterruptSemaUp(s)
      PROVE  QueuesKept'
  <2>1. /\ s \in SemaId /\ sema_up(s) /\ UNCHANGED <<pc, target, lockVars>> /\ pc[current] # "wake"
    BY <1>3, SynchAssumption DEF SemaId, ThreadSemaUp, InterruptSemaUp, IntrOff
  <2>2. Elsewhere(current)
    BY <2>1 DEF Elsewhere
  <2>3. QED
    BY <2>1, <2>2, UpQueues
<1>4. CASE LockSetHolder
  <2>1. current \in Thread
    BY <1>0, <1>4 DEF LockSetHolder
  <2>2. /\ pc[current] = "hold" /\ pc'[current] = "enlist" /\ Elsewhere(current)
        /\ UNCHANGED <<schedVars, semaVars>>
    BY <1>4, <2>1, Moved DEF LockSetHolder
  <2>3. QED
    BY <1>0, <1>4, <2>1, <2>2, ListsSetHolder, PlainStep
<1>5. CASE LockEnlist
  <2>1. current \in Thread
    BY <1>0, <1>5 DEF LockEnlist
  <2>2. /\ pc[current] = "enlist" /\ pc'[current] = "run" /\ Elsewhere(current)
        /\ UNCHANGED <<schedVars, semaVars>>
    BY <1>5, <2>1, Moved DEF LockEnlist
  <2>3. QED
    BY <1>0, <1>5, <2>1, <2>2, ListsEnlist, PlainStep
<1>6. ASSUME NEW l \in Lock, LockUnlist(l)
      PROVE  QueuesKept'
  <2>1. pc[current] \in {"run", "unlist"} /\ current \in Thread
    BY <1>0, <1>6 DEF LockUnlist
  <2>2. pc'[current] = "unhold" /\ Elsewhere(current) /\ UNCHANGED <<schedVars, semaVars>>
    BY <1>6, <2>1, Moved DEF LockUnlist
  <2>3. QED
    BY <1>0, <1>6, <2>1, <2>2, ListsUnlist, PlainStep
<1>7. CASE LockClearHolder
  <2>1. current \in Thread
    BY <1>0, <1>7 DEF LockClearHolder
  <2>2. /\ pc[current] = "unhold" /\ pc'[current] = "up" /\ Elsewhere(current)
        /\ UNCHANGED <<schedVars, semaVars>>
    BY <1>7, <2>1, Moved DEF LockClearHolder
  <2>3. QED
    BY <1>0, <1>7, <2>1, <2>2, ListsClearHolder, PlainStep
<1>8. CASE LockSemaUp
  <2>1. current \in Thread /\ pc[current] = "up"
    BY <1>0, <1>8 DEF LockSemaUp
  <2>2. target[current] \in SemaId
    BY <2>1 DEF QInv, IInv, ControlOK, ControlAt, SemaId
  <2>3. pc'[current] \in {"run", "down"} /\ Elsewhere(current) /\ UNCHANGED lockVars
    BY <1>8, <2>1, Moved DEF LockSemaUp
  <2>4. QED
    BY <1>8, <2>1, <2>2, <2>3, UpQueues DEF LockSemaUp
<1>9. ASSUME NEW c \in Cond, cond_wait(c)
      PROVE  QueuesKept'
  <2>1. current \in Thread
    BY <1>0, <1>9 DEF cond_wait
  <2>2. QED
    BY <1>9, <2>1, CondWaitQueues
<1>10. ASSUME NEW q \in {"scan", "signal", "setpri"}, pc[current] \in {"run", "scan"},
              \/ Goto(q) /\ ((\E s : Aim(s)) \/ UNCHANGED target)
              \/ UNCHANGED <<pc, target>>,
              UNCHANGED <<schedVars, semaVars, lockVars>>
       PROVE  QueuesKept'
  <2>1. current \in Thread
    BY <1>0, <1>10
  <2>2. pc'[current] \in {"run", "scan", "signal", "setpri"} /\ Elsewhere(current)
    <3>1. CASE UNCHANGED <<pc, target>>
      BY <1>10, <3>1 DEF Elsewhere
    <3>2. CASE Goto(q) /\ ((\E s : Aim(s)) \/ UNCHANGED target)
      BY <2>1, <3>2, Moved
    <3>3. QED
      BY <1>10, <3>1, <3>2
  <2>3. LockListed' /\ Unlisted'
    BY <1>0, <1>10, <2>2, ListsKept DEF lockVars
  <2>4. QED
    BY <1>0, <1>10, <2>2, <2>3, PlainStep
<1>11. CASE \E c \in Cond, all \in BOOLEAN : cond_signal(c, all)
  BY <1>10, <1>11 DEF cond_signal
<1>12. CASE CondScan
  BY <1>10, <1>12 DEF CondScan
<1>13. CASE CondRemove
  BY <1>10, <1>13 DEF CondRemove
<1>14. CASE CondSemaUp
  <2>1. current \in Thread /\ pc[current] = "signal"
    BY <1>0, <1>14 DEF CondSemaUp
  <2>2. target[current] \in SemaId
    BY <2>1 DEF QInv, IInv, ControlOK, ControlAt, SemaId
  <2>3. pc'[current] \in {"run", "scan"} /\ Elsewhere(current) /\ UNCHANGED lockVars
    BY <1>14, <2>1, Moved DEF CondSemaUp
  <2>4. QED
    BY <1>14, <2>1, <2>2, <2>3, UpQueues DEF CondSemaUp
<1>15. CASE \E t \in Thread, p \in NewPriority : thread_create(t, p)
  BY <1>15, CreateQueues
<1>16. CASE \E p \in NewPriority : thread_set_priority(p)
  BY <1>10, <1>16 DEF thread_set_priority
<1>17. CASE SetPriorityYield
  <2>1. current \in Thread
    BY <1>0, <1>17 DEF SetPriorityYield
  <2>2. /\ pc[current] = "setpri" /\ pc'[current] = "run" /\ Elsewhere(current)
        /\ UNCHANGED <<semaVars, locks, holder>>
    BY <1>17, <2>1, Moved DEF SetPriorityYield, lockVars
  <2>3. RunQueue' /\ SameSleep(status)
    <3>1. CASE thread_yield(status, ready_list, Pri)
      BY <3>1, YieldKeeps
    <3>2. CASE UNCHANGED schedVars
      BY <3>2 DEF QInv, RunQueue, OneRunning, SameSleep, schedVars
    <3>3. QED
      BY <1>17, <3>1, <3>2 DEF SetPriorityYield
  <2>4. LockListed' /\ Unlisted'
    BY <1>0, <2>2, ListsKept
  <2>5. QED
    BY <1>0, <2>2, <2>3, <2>4, SwitchStep
<1>18. CASE thread_exit
  <2>1. current \in Thread /\ pc[current] = "run" /\ alive_sema[current] \in SemaId
    BY <1>0, <1>18, SynchAssumption DEF thread_exit, SemaId
  <2>2. pc'[current] = "exit" /\ Elsewhere(current) /\ UNCHANGED lockVars
    BY <1>18, <2>1, Moved DEF thread_exit
  <2>3. QED
    BY <1>18, <2>1, <2>2, UpQueues DEF thread_exit
<1>19. CASE ThreadDie
  BY <1>0, <1>19, DieQueues DEF ThreadDie
<1>20. CASE TimerYield
  <2>1. pc[current] # "wake" /\ UNCHANGED <<pc, target, semaVars, locks, holder>>
    BY <1>20 DEF TimerYield, IntrOff, lockVars
  <2>2. RunQueue' /\ SameSleep(status)
    BY <1>20, YieldKeeps DEF TimerYield
  <2>3. Elsewhere(current)
    BY <2>1 DEF Elsewhere
  <2>4. LockListed' /\ Unlisted'
    BY <2>1, ListsStill
  <2>5. QED
    BY <1>0, <2>1, <2>2, <2>3, <2>4, SwitchStep
<1>21. CASE idle
  BY <1>21, IdleQueues
<1>22. CASE UNCHANGED vars
  <2>1. RunQueue'
    BY <1>22 DEF vars, QInv, RunQueue, OneRunning
  <2>2. WaitLists' /\ SleepInDown'
    BY <1>22 DEF vars, QInv, WaitLists, Asleep, SleepInDown
  <2>3. NoLostWakeup'
    BY <1>22 DEF vars, QInv, NoLostWakeup
  <2>4. LockListed' /\ Unlisted'
    BY <1>22, ListsStill DEF vars
  <2>5. QED
    BY <2>1, <2>2, <2>3, <2>4 DEF QueuesKept, Sleepers
<1>23. QED
  BY <1>1, <1>2, <1>3, <1>4, <1>5, <1>6, <1>7, <1>8, <1>9, <1>11, <1>12, <1>13, <1>14, <1>15, <1>16,
     <1>17, <1>18, <1>19, <1>20, <1>21, <1>22
  DEF Next, Continue, Call, Interrupt

LEMMA InitQueues == Init => QueuesKept
<1> SUFFICES ASSUME Init PROVE QueuesKept
  OBVIOUS
<1> USE ThreadsAssumption, SynchAssumption
<1>1. RunQueue
  <2>1. IsInjective(ready_list) /\ ToSet(ready_list) = {}
    BY DEF Init, IsInjective, ToSet
  <2>2. OneRunning /\ \A t \in Thread : status[t] # "READY"
    BY DEF Init, OneRunning, AllThreads
  <2>3. QED
    BY <2>1, <2>2 DEF RunQueue
<1>2. \A t \in Thread : status[t] # "BLOCKED" /\ pc[t] # "unhold" /\ locks[t] = {}
  BY DEF Init, AllThreads
<1>3. WaitLists
  <2>1. ASSUME NEW s \in SemaId PROVE IsInjective(waiters[s]) /\ ToSet(waiters[s]) = {}
    <3>1. waiters[s] = <<>>
      BY DEF Init
    <3>2. QED
      BY <3>1 DEF IsInjective, ToSet
  <2>2. QED
    BY <1>2, <2>1 DEF WaitLists, Asleep
<1>4. SleepInDown /\ NoLostWakeup
  BY <1>2 DEF Init, SleepInDown, NoLostWakeup
<1>5. LockListed /\ Unlisted
  <2>1. \A l \in Lock : holder[l] = NULL
    BY DEF Init
  <2>2. \A l \in Lock, t \in Thread : l \notin locks[t] /\ holder[l] # t
    BY <1>2, <2>1
  <2>3. QED
    BY <1>2, <2>2 DEF LockListed, Unlisted
<1>6. QED
  BY <1>1, <1>3, <1>4, <1>5 DEF QueuesKept, Sleepers

-----------------------------------------------------------------------------
(* The inductive invariant: beside who is on which list it says that a     *)
(* thread blocks in sema_down only, so that what a sleeper waits for does  *)
(* not change, and that a lock is off its holder's list before the holder  *)
(* is cleared.                                                             *)
THEOREM QueueInvariant == Spec => []QInv
<1>1. Init => QInv
  BY InitType, InitLock, InitQueues DEF QInv, IInv, QueuesKept, Sleepers
<1>2. QInv /\ [Next]_vars => QInv'
  <2>1. QInv /\ [Next]_vars => IInv'
    BY NextType, NextLock DEF QInv, IInv
  <2>2. QED
    BY <2>1, NextQueues DEF QInv, QueuesKept, Sleepers
<1>3. QED
  BY <1>1, <1>2, PTL DEF Spec

(* thread.c, synch.c: the run queue has exactly the ready threads, the     *)
(* wait list of a semaphore exactly the threads blocked on it, the list of *)
(* a thread exactly the locks it holds, each once, and one thread runs.    *)
THEOREM QueuesAreExact == Spec => []QueuesExact
<1>1. QInv => QueuesExact
  BY DEF QInv, RunQueue, WaitLists, Asleep, QueuesExact, ElemExclusive
<1>2. QED
  BY <1>1, QueueInvariant, PTL

(* synch.c, sema_up and sema_down: while threads wait for a semaphore, a   *)
(* thread that is on its way to retry stands for each of its units,        *)
(* whoever takes units in between.                                         *)
THEOREM NoWakeupLost == Spec => []NoLostWakeup
<1>1. QInv => NoLostWakeup
  BY DEF QInv
<1>2. QED
  BY <1>1, QueueInvariant, PTL
=============================================================================
