------------------------------ MODULE MCSynch ------------------------------
(***************************************************************************)
(* Synch for TLC.  `part' says what the threads of a behaviour use: two    *)
(* locks at three priorities, or at two priorities a condition variable    *)
(* with its lock, or semaphores and joining.                               *)
(***************************************************************************)
EXTENDS Synch

CONSTANTS t1, t2, t3, c1, l1, l2, s1

VARIABLE part

MCThread == {t1, t2, t3}
MCAlive == [t \in MCThread |-> <<t>>]
MCSema == {<<t>> : t \in MCThread} \cup {s1}
(* The threads that the initial one creates are alike. *)
MCAlike == Permutations({t2, t3})
MCCondLock == (c1 :> l1)

(* The semaphores, locks and condition variables of a part. *)
Uses(p) ==
  CASE p = "locks" -> Lock
    [] p = "cond"  -> {l1, c1} \cup Thread
    [] p = "semas" -> Sema

MCInit ==
  /\ Init
  /\ part \in {"locks", "cond", "semas"}
  /\ part # "locks" => priority[initial_thread] < PRI_MAX

MCNext ==
  /\ Next
  /\ \A t \in Thread : {target'[t], cond'[t], scan'[t].cond} \subseteq Uses(part) \cup {NULL}
  /\ part # "semas" => value'[s1] = value[s1]
  /\ part # "locks" => \A t \in Thread : priority'[t] < PRI_MAX
  /\ UNCHANGED part

MCSpec == MCInit /\ [][MCNext]_<<vars, part>>
=============================================================================
