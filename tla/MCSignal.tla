------------------------------ MODULE MCSignal -----------------------------
(***************************************************************************)
(* Synch for TLC, from a state in which threads sleep on a condition       *)
(* variable.                                                               *)
(***************************************************************************)
EXTENDS Synch

CONSTANTS t1, t2, t3, t4, a1, a2, a3, a4, c1, l1, l2

MCThread == {t1, t2, t3, t4}
MCAlive == (t1 :> a1 @@ t2 :> a2 @@ t3 :> a3 @@ t4 :> a4)
MCCondLock == (c1 :> l1)

(* Where a priority-0 thread t2 and a priority-1 thread t3 sleep in        *)
(* cond_wait(c1), t2 holding l2 meanwhile, and t4, of priority 2, waits    *)
(* for l2.  t1 has created the three, yielded to them until each had       *)
(* blocked, and is now alone.                                              *)
SignalInit ==
  LET blocked == {t2, t3, t4}
  IN  /\ status = [t \in AllThreads |-> IF t = t1 THEN "RUNNING"
                                        ELSE IF t \in blocked THEN "BLOCKED"
                                        ELSE "READY"]
      /\ ready_list = <<>>
      /\ current = t1
      /\ priority = [t \in AllThreads |-> IF t = t4 THEN 2
                                          ELSE IF t = t3 THEN 1 ELSE 0]
      /\ locks = [t \in AllThreads |-> IF t = t2 THEN {l2} ELSE {}]
      /\ value = [s \in SemaId |-> IF s = l1 THEN 1 ELSE 0]
      /\ waiters = [s \in SemaId |-> IF s = l2 THEN <<t4>>
                                     ELSE IF s \in {t2, t3} THEN <<s>>
                                     ELSE <<>>]
      /\ holder = [l \in Lock |-> IF l = l2 THEN t2 ELSE NULL]
      /\ cwaiters = (c1 :> <<t2, t3>>)
      /\ pc = [t \in AllThreads |-> IF t = t1 THEN "run"
                                    ELSE IF t \in blocked THEN "wake"
                                    ELSE "idle"]
      /\ target = (t1 :> NULL @@ t2 :> t2 @@ t3 :> t3 @@ t4 :> l2)
      /\ cond = [t \in Thread |-> IF t \in {t2, t3} THEN c1 ELSE NULL]
      /\ scan = [t \in Thread |-> NoScan]

SignalSpec == SignalInit /\ [][Next]_vars
=============================================================================
