--------------------------- MODULE ProcessProofs ---------------------------
(***************************************************************************)
(* For any number of processes: wait returns the status its child passed   *)
(* to exit, after the child has exited, and once; exec reports as started  *)
(* only what was loaded; the file system lock stays with a call; a struct  *)
(* process is used after its end only by an orphan.                        *)
(***************************************************************************)
EXTENDS Process, FiniteSetTheorems, TLAPS

Places == {"none", "user", "exec", "created", "execget", "execread", "execdown", "load",
           "start", "fail", "fs", "stdin", "exit", "thread_exit", "dying", "unlist", "gone",
           "wait", "waitread", "waitdown", "status"}

InExec == {"created", "execget", "execread", "execdown"}
InWait == {"waitread", "waitdown", "status"}
InCall == {"exec", "created", "execget", "execread", "execdown", "fs", "stdin"}
Ending == {"exit", "thread_exit", "dying", "unlist", "gone"}

Exits == Status \cup {Killed}

ProcType ==
  /\ ProcessTypeOK
  /\ pc \in [Thread -> Places]
  /\ exited \in [Thread -> Exits]
  /\ answer \in [Thread -> Exits \cup {"none", "started", "failed"}]

(* What exec and wait are about is a thread that has been created; what    *)
(* exit is given is a status.                                              *)
ArgRight(t) ==
  /\ pc[t] \in InExec \cup InWait \cup {"wait"} => arg[t] \in Thread /\ pc[arg[t]] # "none"
  /\ pc[t] = "exit" => arg[t] \in Exits

(* How far a thread has come, and what its semaphores and its process say. *)
SemasRight(c) ==
  /\ loaded_sema[c] > 0 => pc[c] \notin {"none", "load"}
  /\ alive_sema[c] > 0 => pc[c] \in {"unlist", "gone"}

LoadRight(c) ==
  /\ pc[c] \in {"none", "load"} => proc[c].loaded = "uninit"
  /\ proc[c].loaded = "yes" => c \in attached /\ proc[c].executable = "open"
  /\ answer[c] = "started" => proc[c].loaded = "yes"

StatusRight(c) ==
  /\ proc[c].status = exited[c]
  /\ pc[c] = "none" => exited[c] = Killed
  /\ answer[c] \in Exits => /\ pc[c] \in {"unlist", "gone"}
                            /\ answer[c] = exited[c]
                            /\ proc[c].waited

(* A wait goes on for a child of the waiting thread, marked as waited for, *)
(* whose status nobody has had and nobody else waits for.                  *)
Waits(t) == pc[t] \in InWait

WaitHolds(t) ==
  Waits(t) =>
    /\ proc[arg[t]].st = "live" /\ proc[arg[t]].parent = t /\ proc[arg[t]].waited
    /\ answer[arg[t]] \notin Exits
    /\ pc[t] = "status" => pc[arg[t]] \in {"unlist", "gone"}

OneWaits == \A t, u \in Thread : Waits(t) /\ Waits(u) /\ arg[t] = arg[u] => t = u

(* A process that was freed was its thread's no more, or is an orphan's. *)
FreedRight(c) ==
  /\ proc[c].st = "freed" => pc[c] = "gone" \/ orphaned
  /\ pc[c] = "none" => proc[c].st = "none"

LockRight ==
  fs_lock # NoThread =>
    /\ fs_lock # Main
    /\ \/ pc[fs_lock] \in InCall
       \/ pc[fs_lock] \in Ending /\ arg[fs_lock] = Killed

Told(c) == SemasRight(c) /\ LoadRight(c) /\ StatusRight(c) /\ FreedRight(c)

(* The inductive invariant. *)
PInv ==
  /\ ProcType
  /\ \A t \in Thread : ArgRight(t) /\ WaitHolds(t) /\ Told(t)
  /\ OneWaits
  /\ LockRight
  /\ FreedByParentOnly

-----------------------------------------------------------------------------
(* What a step of t leaves of the other threads: one of them may be born.  *)

Frame(t) ==
  \A u \in Thread \ {t} :
    arg'[u] = arg[u] /\ (pc'[u] = pc[u] \/ (pc[u] = "none" /\ pc'[u] = "load"))

LEMMA ArgStep ==
  ASSUME PInv, NEW t \in Thread, Frame(t), pc'[t] # "none", ArgRight(t)'
  PROVE  \A u \in Thread : ArgRight(u)'
<1>1. \A x \in Thread : pc[x] # "none" => pc'[x] # "none"
  BY DEF Frame
<1>2. SUFFICES ASSUME NEW u \in Thread, u # t PROVE ArgRight(u)'
  OBVIOUS
<1>3. ArgRight(u)
  BY DEF PInv
<1>4. QED
  BY <1>1, <1>2, <1>3 DEF Frame, ArgRight, InExec, InWait, Exits

(* The waits of the others go on, and t's is not for the same child. *)
LEMMA WaitStep ==
  ASSUME PInv, NEW t \in Thread, Frame(t), WaitHolds(t)',
         \A c \in Thread : pc[c] # "none" =>
           /\ proc'[c].parent = proc[c].parent
           /\ proc[c].waited => proc'[c].waited
           /\ proc[c].parent # t => proc'[c].st = proc[c].st
           /\ pc[c] \in {"unlist", "gone"} => pc'[c] \in {"unlist", "gone"}
           /\ \/ answer'[c] = answer[c] \/ answer'[c] \notin Exits
              \/ Waits(t) /\ arg[t] = c,
         Waits(t)' => \/ Waits(t) /\ arg'[t] = arg[t]
                      \/ ~proc[arg'[t]].waited
  PROVE  (\A u \in Thread : WaitHolds(u)') /\ OneWaits'
<1>1. \A u \in Thread : u # t /\ Waits(u)' => Waits(u) /\ arg'[u] = arg[u] /\ pc'[u] = pc[u]
  BY DEF Frame, Waits, InWait
<1>2. ASSUME NEW u \in Thread, u # t, Waits(u)' PROVE WaitHolds(u)'
  <2> DEFINE c == arg[u]
  <2>1. Waits(u) /\ arg'[u] = c /\ pc'[u] = pc[u]
    BY <1>1, <1>2
  <2>2. c \in Thread /\ pc[c] # "none"
    BY <2>1 DEF PInv, ArgRight, Waits
  <2>3. /\ proc[c].st = "live" /\ proc[c].parent = u /\ proc[c].waited
        /\ answer[c] \notin Exits
        /\ pc[u] = "status" => pc[c] \in {"unlist", "gone"}
    BY <2>1 DEF PInv, WaitHolds
  <2>4. ~(Waits(t) /\ arg[t] = c)
    BY <1>2, <2>1 DEF PInv, OneWaits
  <2>5. QED
    BY <1>2, <2>1, <2>2, <2>3, <2>4 DEF WaitHolds, Exits
<1>3. \A u \in Thread : WaitHolds(u)'
  BY <1>2 DEF WaitHolds
<1>4. ASSUME NEW u \in Thread, u # t, Waits(t)', Waits(u)', arg'[t] = arg'[u] PROVE FALSE
  <2>1. Waits(u) /\ arg'[t] = arg[u]
    BY <1>1, <1>4
  <2>2. proc[arg[u]].waited
    BY <2>1 DEF PInv, WaitHolds
  <2>3. QED
    BY <1>4, <2>1, <2>2 DEF PInv, OneWaits
<1>5. OneWaits'
  <2>1. SUFFICES ASSUME NEW u \in Thread, NEW v \in Thread, Waits(u)', Waits(v)', arg'[u] = arg'[v]
                 PROVE  u = v
    BY DEF OneWaits
  <2>2. CASE u # t /\ v # t
    BY <1>1, <2>1, <2>2 DEF PInv, OneWaits
  <2>3. QED
    BY <1>4, <2>1, <2>2
<1>6. QED
  BY <1>3, <1>5

LEMMA LockStep ==
  ASSUME PInv, NEW t \in Thread, Frame(t),
         fs_lock' \in {NoThread, fs_lock, t},
         fs_lock' = t => /\ t # Main
                         /\ \/ pc'[t] \in InCall
                            \/ pc'[t] \in Ending /\ arg'[t] = Killed
  PROVE  LockRight'
<1>1. fs_lock \in Thread \cup {NoThread}
  BY DEF PInv, ProcType, ProcessTypeOK
<1>2. QED
  BY <1>1 DEF PInv, LockRight, Frame, InCall, Ending

(* A step that does not write to a struct process, or create a thread. *)
LEMMA ToldStep ==
  ASSUME PInv, NEW t \in Thread, Frame(t), UNCHANGED <<proc, exited>>,
         attached \subseteq attached', orphaned => orphaned',
         pc[t] \notin {"none", "gone"}, pc'[t] \notin {"none", "load"},
         pc[t] = "unlist" => pc'[t] = "gone",
         \A u \in Thread \ {t} : pc'[u] = pc[u],
         \A u \in Thread :
           /\ loaded_sema'[u] > 0 => loaded_sema[u] > 0
           /\ alive_sema'[u] > 0 => alive_sema[u] > 0 \/ pc'[u] = "unlist"
           /\ \/ answer'[u] = answer[u] \/ answer'[u] = "failed"
              \/ answer'[u] = "started" /\ proc[u].loaded = "yes"
              \/ answer'[u] = proc[u].status /\ proc[u].waited /\ pc'[u] \in {"unlist", "gone"}
  PROVE  \A u \in Thread : Told(u)'
<1>1. SUFFICES ASSUME NEW u \in Thread PROVE Told(u)'
  OBVIOUS
<1>2. SemasRight(u) /\ LoadRight(u) /\ StatusRight(u) /\ FreedRight(u)
  BY DEF PInv, Told
<1>3. SemasRight(u)' /\ FreedRight(u)'
  BY <1>2 DEF SemasRight, FreedRight
<1>4. LoadRight(u)'
  BY <1>2, ProcessAssumption DEF LoadRight, StatusRight, PInv, ProcType, ProcessTypeOK
<1>5. StatusRight(u)'
  BY <1>2, ProcessAssumption DEF StatusRight, Exits
<1>6. QED
  BY <1>3, <1>4, <1>5 DEF Told
(* The same, for the whole invariant: what remains for a step of t. *)
Moves(t, l) ==
  /\ pc' = [pc EXCEPT ![t] = l]
  /\ UNCHANGED <<proc, exited, orphaned>>
  /\ \A u \in Thread \ {t} : arg'[u] = arg[u]
  /\ attached \subseteq attached'
  /\ \A u \in Thread :
       /\ loaded_sema'[u] > 0 => loaded_sema[u] > 0
       /\ alive_sema'[u] > 0 => alive_sema[u] > 0 \/ (u = t /\ l = "unlist")
       /\ \/ answer'[u] = answer[u] \/ answer'[u] = "failed"
          \/ answer'[u] = "started" /\ proc[u].loaded = "yes"
          \/ Waits(t) /\ pc[t] = "status" /\ u = arg[t] /\ answer'[u] = proc[u].status

LEMMA MoveStep ==
  ASSUME PInv, ProcType', NEW t \in Thread, NEW l \in Places \ {"none", "load"}, Moves(t, l),
         pc[t] \notin {"none", "gone"}, pc[t] = "unlist" => l = "gone",
         ArgRight(t)', WaitHolds(t)', Waits(t)' => Waits(t) /\ arg'[t] = arg[t],
         fs_lock' \in {NoThread, fs_lock, t},
         fs_lock' = t => t # Main /\ (l \in InCall \/ (l \in Ending /\ arg'[t] = Killed)),
         FreedByParentOnly'
  PROVE  PInv'
<1>1. pc'[t] = l /\ \A u \in Thread \ {t} : pc'[u] = pc[u]
  BY DEF PInv, ProcType, Moves
<1>2. Frame(t)
  BY <1>1 DEF Frame, Moves
<1>3. \A u \in Thread : ArgRight(u)'
  BY <1>1, <1>2, ArgStep
<1>4. LockRight'
  BY <1>1, <1>2, LockStep
<1>5. (\A u \in Thread : WaitHolds(u)') /\ OneWaits'
  <2>1. \A c \in Thread : pc[c] \in {"unlist", "gone"} => pc'[c] \in {"unlist", "gone"}
    BY <1>1
  <2>2. \A c \in Thread : \/ answer'[c] = answer[c] \/ answer'[c] \notin Exits
                          \/ Waits(t) /\ arg[t] = c
    BY ProcessAssumption DEF Moves, Exits
  <2>3. QED
    BY <1>2, <2>1, <2>2, WaitStep DEF Moves
<1>6. \A u \in Thread : Told(u)'
  <2>1. ASSUME NEW u \in Thread, Waits(t), pc[t] = "status", u = arg[t]
        PROVE  proc[u].waited /\ pc'[u] \in {"unlist", "gone"}
    BY <1>1, <2>1 DEF PInv, WaitHolds
  <2>2. QED
    BY <1>1, <1>2, <2>1, ToldStep DEF Moves
<1>7. QED
  BY <1>3, <1>4, <1>5, <1>6 DEF PInv

(* Where nothing is asked of t's argument. *)
LEMMA FreeArg ==
  ASSUME NEW t \in Thread, pc'[t] \in Places \ (InExec \cup InWait \cup {"wait", "exit"})
  PROVE  ArgRight(t)' /\ WaitHolds(t)' /\ ~Waits(t)'
BY DEF ArgRight, WaitHolds, Waits, InExec, InWait

(* exec goes on with the same child. *)
LEMMA KeptArg ==
  ASSUME PInv, NEW t \in Thread, NEW l \in Places \ (InWait \cup {"none", "exit"}),
         pc' = [pc EXCEPT ![t] = l], arg' = arg, arg[t] \in Thread, pc[arg[t]] # "none"
  PROVE  ArgRight(t)' /\ WaitHolds(t)' /\ ~Waits(t)'
<1>1. pc'[t] = l /\ pc'[arg[t]] # "none"
  BY DEF PInv, ProcType
<1>2. QED
  BY <1>1 DEF ArgRight, WaitHolds, Waits

(* Who holds the file system lock, and where. *)
LEMMA Holder ==
  ASSUME PInv, NEW t \in Thread, fs_lock = t
  PROVE  t # Main /\ (pc[t] \in InCall \/ (pc[t] \in Ending /\ arg[t] = Killed))
BY ProcessAssumption DEF PInv, LockRight

-----------------------------------------------------------------------------
(* exec *)

LEMMA AcquireStep ==
  ASSUME PInv, phalt = "none", NEW t \in Thread, NEW l \in {"exec", "fs", "stdin"},
         acquire_filesys_syscall_lock(t, l)
  PROVE  PInv'
<1>1. ProcType'
  BY DEF acquire_filesys_syscall_lock, Goto, PInv, ProcType, ProcessTypeOK, Places
<1>2. Moves(t, l)
  BY DEF acquire_filesys_syscall_lock, Goto, Moves
<1>3. pc'[t] = l /\ l \in InCall /\ l \in Places \ {"none", "load"}
  BY DEF PInv, ProcType, acquire_filesys_syscall_lock, Goto, InCall, Places
<1>4. ArgRight(t)' /\ WaitHolds(t)' /\ ~Waits(t)'
  BY <1>3, FreeArg DEF InExec, InWait
<1>5. FreedByParentOnly' /\ pc[t] = "user" /\ t # Main /\ fs_lock' = t
  BY DEF acquire_filesys_syscall_lock, FreedByParentOnly
<1>6. QED
  BY <1>1, <1>2, <1>3, <1>4, <1>5, MoveStep
LEMMA CreateFailsStep ==
  ASSUME PInv, phalt = "none", NEW t \in Thread, thread_create_fails(t)
  PROVE  PInv'
<1>1. ProcType'
  BY DEF thread_create_fails, Goto, PInv, ProcType, ProcessTypeOK, Places
<1>2. Moves(t, "user")
  BY DEF thread_create_fails, Goto, Moves
<1>3. pc'[t] = "user" /\ "user" \in Places \ {"none", "load"}
  BY DEF PInv, ProcType, thread_create_fails, Goto, Places
<1>4. ArgRight(t)' /\ WaitHolds(t)' /\ ~Waits(t)'
  BY <1>3, FreeArg DEF InExec, InWait
<1>5. FreedByParentOnly' /\ pc[t] = "exec" /\ fs_lock' = NoThread
  BY DEF thread_create_fails, FreedByParentOnly
<1>6. QED
  BY <1>1, <1>2, <1>3, <1>4, <1>5, ProcessAssumption, MoveStep

LEMMA AttachStep ==
  ASSUME PInv, phalt = "none", NEW t \in Thread, Attach(t)
  PROVE  PInv'
<1> DEFINE l == IF t = Main THEN "wait" ELSE "execget"
<1>1. pc[t] = "created" /\ arg[t] \in Thread /\ pc[arg[t]] # "none"
  BY DEF Attach, PInv, ArgRight, InExec
<1>2. ProcType'
  BY <1>1 DEF Attach, Goto, PInv, ProcType, ProcessTypeOK, Places
<1>3. Moves(t, l)
  BY DEF Attach, Goto, Moves
<1>4. pc'[t] = l /\ l \in Places \ {"none", "load"} /\ (t # Main => l \in InCall)
  BY DEF PInv, ProcType, Attach, Goto, Places, InCall
<1>5. ArgRight(t)' /\ WaitHolds(t)' /\ ~Waits(t)'
  BY <1>1, <1>4, KeptArg DEF Attach, Goto, InWait
<1>6. FreedByParentOnly' /\ fs_lock' = fs_lock
  BY DEF Attach, FreedByParentOnly
<1> HIDE DEF l
<1>7. QED
  BY <1>1, <1>2, <1>3, <1>4, <1>5, <1>6, Holder, MoveStep

LEMMA ExecGetStep ==
  ASSUME PInv, phalt = "none", NEW t \in Thread, ExecGet(t)
  PROVE  PInv'
<1> DEFINE l == IF Listed(arg[t]) THEN "execread" ELSE "user"
<1>1. pc[t] = "execget" /\ arg[t] \in Thread /\ pc[arg[t]] # "none"
  BY DEF ExecGet, PInv, ArgRight, InExec
<1>2. ProcType'
  BY <1>1 DEF ExecGet, Goto, Released, PInv, ProcType, ProcessTypeOK, Places
<1>3. Moves(t, l)
  BY <1>1 DEF ExecGet, Goto, Moves, PInv, ProcType
<1>4. pc'[t] = l /\ l \in Places \ {"none", "load"}
  BY DEF PInv, ProcType, ExecGet, Goto, Places
<1>5. ArgRight(t)' /\ WaitHolds(t)' /\ ~Waits(t)'
  BY <1>1, <1>4, KeptArg DEF ExecGet, Goto, InWait
<1>6. FreedByParentOnly' /\ (fs_lock' = NoThread \/ (fs_lock' = fs_lock /\ l \in InCall))
  BY DEF ExecGet, FreedByParentOnly, Released, InCall
<1> HIDE DEF l
<1>7. QED
  BY <1>1, <1>2, <1>3, <1>4, <1>5, <1>6, Holder, ProcessAssumption, MoveStep

LEMMA ExecReadStep ==
  ASSUME PInv, phalt = "none", NEW t \in Thread, ExecRead(t)
  PROVE  PInv'
<1>1. pc[t] = "execread" /\ arg[t] \in Thread /\ pc[arg[t]] # "none"
  BY DEF ExecRead, PInv, ArgRight, InExec
<1>2. ProcType'
  BY DEF ExecRead, Goto, PInv, ProcType, ProcessTypeOK, Places, ProcessHalt
<1>3. Moves(t, "execdown")
  BY DEF ExecRead, Goto, Moves
<1>4. pc'[t] = "execdown" /\ "execdown" \in Places \ {"none", "load"} /\ "execdown" \in InCall
  BY DEF PInv, ProcType, ExecRead, Goto, Places, InCall
<1>5. ArgRight(t)' /\ WaitHolds(t)' /\ ~Waits(t)'
  BY <1>1, <1>4, KeptArg DEF ExecRead, Goto, InWait
<1>6. FreedByParentOnly' /\ fs_lock' = fs_lock
  BY DEF ExecRead, FreedByParentOnly
<1>7. QED
  BY <1>1, <1>2, <1>3, <1>4, <1>5, <1>6, Holder, MoveStep

LEMMA ExecDoneStep ==
  ASSUME PInv, phalt = "none", NEW t \in Thread, ExecDone(t)
  PROVE  PInv'
<1>1. pc[t] = "execdown" /\ arg[t] \in Thread /\ pc[arg[t]] # "none"
  BY DEF ExecDone, PInv, ArgRight, InExec
<1>2. ProcType'
  BY <1>1 DEF ExecDone, Goto, Released, PInv, ProcType, ProcessTypeOK, Places, ProcessHalt
<1>3. Moves(t, "user")
  BY <1>1 DEF ExecDone, Goto, Moves, Loaded, PInv, ProcType, ProcessTypeOK
<1>4. pc'[t] = "user" /\ "user" \in Places \ {"none", "load"}
  BY DEF PInv, ProcType, ExecDone, Goto, Places
<1>5. ArgRight(t)' /\ WaitHolds(t)' /\ ~Waits(t)'
  BY <1>4, FreeArg DEF InExec, InWait
<1>6. FreedByParentOnly' /\ fs_lock' = NoThread
  BY DEF ExecDone, FreedByParentOnly, Released
<1>7. QED
  BY <1>1, <1>2, <1>3, <1>4, <1>5, <1>6, ProcessAssumption, MoveStep
-----------------------------------------------------------------------------
(* The new process, and calls *)

(* A thread uses its own process after its end only if it is an orphan. *)
LEMMA OwnUse ==
  ASSUME PInv, NEW t \in Thread, pc[t] # "gone", OwnProcess(t) = "process"
  PROVE  orphaned
BY DEF PInv, Told, FreedRight, OwnProcess

LEMMA StartStep ==
  ASSUME PInv, phalt = "none", NEW t \in Thread, start_process(t)
  PROVE  PInv'
<1> DEFINE l == IF pc[t] = "start" THEN "user" ELSE "thread_exit"
<1>1. pc[t] \in {"start", "fail"}
  BY DEF start_process
<1>2. ProcType'
  BY DEF start_process, Goto, OwnProcess, PInv, ProcType, ProcessTypeOK, Places, ProcessHalt
<1>3. Moves(t, l)
  BY DEF start_process, Goto, Moves
<1>4. pc'[t] = l /\ l \in Places \ {"none", "load"}
  BY DEF PInv, ProcType, start_process, Goto, Places
<1>5. ArgRight(t)' /\ WaitHolds(t)' /\ ~Waits(t)'
  BY <1>4, FreeArg DEF InExec, InWait
<1>6. FreedByParentOnly' /\ fs_lock' = fs_lock
  BY <1>1, OwnUse DEF start_process, FreedByParentOnly
<1>7. fs_lock # t
  BY <1>1, Holder DEF InCall, Ending
<1> HIDE DEF l
<1>8. QED
  BY <1>1, <1>2, <1>3, <1>4, <1>5, <1>6, <1>7, MoveStep

LEMMA ReleaseStep ==
  ASSUME PInv, phalt = "none", NEW t \in Thread, NEW w \in {"fs", "stdin"},
         release_filesys_syscall_lock(t, w)
  PROVE  PInv'
<1>1. pc[t] \in {"fs", "stdin"} /\ fs_lock' = NoThread
  BY DEF release_filesys_syscall_lock
<1>2. ProcType'
  BY DEF release_filesys_syscall_lock, Goto, PInv, ProcType, ProcessTypeOK, Places
<1>3. Moves(t, "user")
  BY DEF release_filesys_syscall_lock, Goto, Moves
<1>4. pc'[t] = "user" /\ "user" \in Places \ {"none", "load"}
  BY DEF PInv, ProcType, release_filesys_syscall_lock, Goto, Places
<1>5. ArgRight(t)' /\ WaitHolds(t)' /\ ~Waits(t)'
  BY <1>4, FreeArg DEF InExec, InWait
<1>6. FreedByParentOnly'
  BY DEF release_filesys_syscall_lock, FreedByParentOnly
<1>7. QED
  BY <1>1, <1>2, <1>3, <1>4, <1>5, <1>6, ProcessAssumption, MoveStep

LEMMA FaultStep ==
  ASSUME PInv, phalt = "none", NEW t \in Thread, page_fault(t)
  PROVE  PInv'
<1>1. pc[t] = "fs" /\ fs_lock' = fs_lock
  BY DEF page_fault
<1>2. ProcType'
  BY DEF page_fault, Goto, PInv, ProcType, ProcessTypeOK, Places
<1>3. Moves(t, "exit")
  BY DEF page_fault, Goto, Moves, PInv, ProcType, ProcessTypeOK
<1>4. /\ pc'[t] = "exit" /\ "exit" \in Places \ {"none", "load"} /\ "exit" \in Ending
      /\ arg'[t] = Killed
  BY DEF PInv, ProcType, ProcessTypeOK, page_fault, Goto, Places, Ending
<1>5. ArgRight(t)' /\ WaitHolds(t)' /\ ~Waits(t)'
  BY <1>4 DEF ArgRight, WaitHolds, Waits, InExec, InWait, Exits
<1>6. FreedByParentOnly'
  BY DEF page_fault, FreedByParentOnly
<1>7. QED
  BY <1>1, <1>2, <1>3, <1>4, <1>5, <1>6, Holder, MoveStep

LEMMA CallExitStep ==
  ASSUME PInv, phalt = "none", NEW t \in Thread, NEW s \in Exits, CallExit(t, s)
  PROVE  PInv'
<1>1. pc[t] = "user" /\ fs_lock' = fs_lock
  BY DEF CallExit
<1>2. ProcType'
  BY DEF CallExit, Goto, PInv, ProcType, ProcessTypeOK, Places, Exits
<1>3. Moves(t, "exit")
  BY DEF CallExit, Goto, Moves, PInv, ProcType, ProcessTypeOK
<1>4. pc'[t] = "exit" /\ "exit" \in Places \ {"none", "load"} /\ arg'[t] = s
  BY DEF PInv, ProcType, ProcessTypeOK, CallExit, Goto, Places
<1>5. ArgRight(t)' /\ WaitHolds(t)' /\ ~Waits(t)'
  BY <1>4 DEF ArgRight, WaitHolds, Waits, InExec, InWait
<1>6. FreedByParentOnly' /\ fs_lock # t
  BY <1>1, Holder DEF CallExit, FreedByParentOnly, InCall, Ending
<1>7. QED
  BY <1>1, <1>2, <1>3, <1>4, <1>5, <1>6, MoveStep

LEMMA CallWaitStep ==
  ASSUME PInv, phalt = "none", NEW t \in Thread, NEW c \in Thread, CallWait(t, c)
  PROVE  PInv'
<1>1. pc[t] = "user" /\ pc[c] # "none" /\ fs_lock' = fs_lock
  BY DEF CallWait
<1>2. ProcType'
  BY DEF CallWait, Goto, PInv, ProcType, ProcessTypeOK, Places
<1>3. Moves(t, "wait")
  BY DEF CallWait, Goto, Moves, PInv, ProcType, ProcessTypeOK
<1>4. /\ pc'[t] = "wait" /\ "wait" \in Places \ {"none", "load"}
      /\ arg'[t] = c /\ pc'[c] # "none"
  BY <1>1 DEF PInv, ProcType, ProcessTypeOK, CallWait, Goto, Places
<1>5. ArgRight(t)' /\ WaitHolds(t)' /\ ~Waits(t)'
  BY <1>4 DEF ArgRight, WaitHolds, Waits, InExec, InWait
<1>6. FreedByParentOnly' /\ fs_lock # t
  BY <1>1, Holder DEF CallWait, FreedByParentOnly, InCall, Ending
<1>7. QED
  BY <1>1, <1>2, <1>3, <1>4, <1>5, <1>6, MoveStep
LEMMA AliveStep ==
  ASSUME PInv, phalt = "none", NEW t \in Thread, AliveUp(t)
  PROVE  PInv'
<1>1. pc[t] = "dying" /\ fs_lock' = fs_lock /\ arg' = arg
  BY DEF AliveUp
<1>2. alive_sema[t] = 0
  BY <1>1 DEF PInv, Told, SemasRight, ProcType, ProcessTypeOK
<1>3. ProcType'
  BY <1>2 DEF AliveUp, Goto, PInv, ProcType, ProcessTypeOK, Places
<1>4. Moves(t, "unlist")
  BY DEF AliveUp, Goto, Moves, PInv, ProcType, ProcessTypeOK
<1>5. pc'[t] = "unlist" /\ "unlist" \in Places \ {"none", "load"} /\ "unlist" \in Ending
  BY DEF PInv, ProcType, AliveUp, Goto, Places, Ending
<1>6. ArgRight(t)' /\ WaitHolds(t)' /\ ~Waits(t)'
  BY <1>5, FreeArg DEF InExec, InWait
<1>7. FreedByParentOnly' /\ pc[t] \notin InCall
  BY <1>1 DEF AliveUp, FreedByParentOnly, InCall
<1>8. QED
  BY <1>1, <1>3, <1>4, <1>5, <1>6, <1>7, Holder, MoveStep

LEMMA UnlistStep ==
  ASSUME PInv, phalt = "none", NEW t \in Thread, Unlist(t)
  PROVE  PInv'
<1>1. pc[t] = "unlist" /\ fs_lock' = fs_lock /\ arg' = arg
  BY DEF Unlist
<1>2. ProcType'
  BY DEF Unlist, Goto, PInv, ProcType, ProcessTypeOK, Places
<1>3. Moves(t, "gone")
  BY DEF Unlist, Goto, Moves
<1>4. pc'[t] = "gone" /\ "gone" \in Places \ {"none", "load"} /\ "gone" \in Ending
  BY DEF PInv, ProcType, Unlist, Goto, Places, Ending
<1>5. ArgRight(t)' /\ WaitHolds(t)' /\ ~Waits(t)'
  BY <1>4, FreeArg DEF InExec, InWait
<1>6. FreedByParentOnly' /\ pc[t] \notin InCall
  BY <1>1 DEF Unlist, FreedByParentOnly, InCall
<1>7. QED
  BY <1>1, <1>2, <1>3, <1>4, <1>5, <1>6, Holder, MoveStep

-----------------------------------------------------------------------------
(* wait *)

(* What a waiting thread knows. *)
LEMMA WaitFacts ==
  ASSUME PInv, NEW t \in Thread, Waits(t)
  PROVE  /\ arg[t] \in Thread /\ pc[arg[t]] # "none" /\ fs_lock # t
         /\ proc[arg[t]].st = "live" /\ proc[arg[t]].parent = t /\ proc[arg[t]].waited
         /\ answer[arg[t]] \notin Exits
         /\ pc[t] = "status" => pc[arg[t]] \in {"unlist", "gone"}
<1>1. /\ arg[t] \in Thread /\ pc[arg[t]] # "none"
      /\ WaitHolds(t)
  BY DEF PInv, ArgRight, Waits
<1>2. fs_lock # t
  BY Holder DEF Waits, InWait, InCall, Ending
<1>3. QED
  BY <1>1, <1>2 DEF WaitHolds

LEMMA WaitReadStep ==
  ASSUME PInv, phalt = "none", NEW t \in Thread, WaitRead(t)
  PROVE  PInv'
<1>1. pc[t] = "waitread" /\ fs_lock' = fs_lock /\ UNCHANGED <<arg, proc, answer>> /\ Waits(t)
  BY DEF WaitRead, Waits, InWait
<1>2. ProcType'
  BY DEF WaitRead, Goto, PInv, ProcType, ProcessTypeOK, Places, ProcessHalt
<1>3. Moves(t, "waitdown")
  BY DEF WaitRead, Goto, Moves
<1>4. /\ pc'[t] = "waitdown" /\ "waitdown" \in Places \ {"none", "load"}
      /\ \A x \in Thread : pc[x] # "none" => pc'[x] # "none"
  BY DEF PInv, ProcType, WaitRead, Goto, Places
<1>5. ArgRight(t)' /\ WaitHolds(t)'
  BY <1>1, <1>4, WaitFacts DEF ArgRight, WaitHolds
<1>6. FreedByParentOnly'
  BY DEF WaitRead, FreedByParentOnly
<1>7. QED
  BY <1>1, <1>2, <1>3, <1>4, <1>5, <1>6, WaitFacts, MoveStep

(* The child has done sema_up in thread_exit. *)
LEMMA WaitDownStep ==
  ASSUME PInv, phalt = "none", NEW t \in Thread, WaitDown(t)
  PROVE  PInv'
<1>1. pc[t] = "waitdown" /\ fs_lock' = fs_lock /\ UNCHANGED <<arg, proc, answer>> /\ Waits(t)
  BY DEF WaitDown, Waits, InWait
<1>2. arg[t] \in Thread /\ pc[arg[t]] \in {"unlist", "gone"}
  BY <1>1, WaitFacts DEF WaitDown, AliveDown, PInv, Told, SemasRight
<1>3. ProcType'
  BY DEF WaitDown, Goto, PInv, ProcType, ProcessTypeOK, Places
<1>4. Moves(t, "status")
  BY DEF WaitDown, Goto, Moves
<1>5. /\ pc'[t] = "status" /\ "status" \in Places \ {"none", "load"}
      /\ pc'[arg[t]] = pc[arg[t]]
  BY <1>1, <1>2 DEF PInv, ProcType, WaitDown, Goto, Places
<1>6. ArgRight(t)' /\ WaitHolds(t)'
  BY <1>1, <1>2, <1>5, WaitFacts DEF ArgRight, WaitHolds
<1>7. FreedByParentOnly'
  BY DEF WaitDown, FreedByParentOnly
<1>8. QED
  BY <1>1, <1>3, <1>4, <1>5, <1>6, <1>7, WaitFacts, MoveStep

LEMMA StatusStep ==
  ASSUME PInv, phalt = "none", NEW t \in Thread, ReturnStatus(t)
  PROVE  PInv'
<1>1. pc[t] = "status" /\ fs_lock' = fs_lock /\ Waits(t)
  BY DEF ReturnStatus, Waits, InWait
<1>2. arg[t] \in Thread /\ proc[arg[t]].st = "live" /\ fs_lock # t
  BY <1>1, WaitFacts
<1>3. proc[arg[t]].status \in Exits
  BY <1>2 DEF PInv, ProcType, ProcessTypeOK, Exits
<1>4. ProcType'
  BY <1>2, <1>3 DEF ReturnStatus, Goto, PInv, ProcType, ProcessTypeOK, Places, ProcessHalt
<1>5. Moves(t, "user")
  BY <1>1, <1>2 DEF ReturnStatus, Goto, Moves, PInv, ProcType
<1>6. pc'[t] = "user" /\ "user" \in Places \ {"none", "load"}
  BY DEF PInv, ProcType, ReturnStatus, Goto, Places
<1>7. ArgRight(t)' /\ WaitHolds(t)' /\ ~Waits(t)'
  BY <1>6, FreeArg DEF InExec, InWait
<1>8. FreedByParentOnly'
  BY <1>2 DEF ReturnStatus, FreedByParentOnly
<1>9. QED
  BY <1>1, <1>2, <1>4, <1>5, <1>6, <1>7, <1>8, MoveStep
-----------------------------------------------------------------------------
(* Steps that write to a struct process *)

(* The record of a struct process. *)
ProcRec == [st : {"none", "live", "freed"}, parent : Thread \cup {NoThread},
            status : Status \cup {Killed}, waited : BOOLEAN,
            loaded : {"uninit", "yes", "no"}, executable : {"uninit", "open"}]

LEMMA ExitStep ==
  ASSUME PInv, phalt = "none", NEW t \in Thread, exit(t)
  PROVE  PInv'
<1>1. /\ pc[t] = "exit" /\ arg[t] \in Exits
      /\ UNCHANGED <<arg, attached, loaded_sema, alive_sema, fs_lock, answer, orphaned>>
  BY DEF exit, PInv, ArgRight
<1>2. /\ pc'[t] = "thread_exit" /\ exited'[t] = arg[t]
      /\ \A u \in Thread \ {t} : pc'[u] = pc[u] /\ proc'[u] = proc[u] /\ exited'[u] = exited[u]
  BY DEF exit, Goto, PInv, ProcType, ProcessTypeOK
<1>3. /\ proc'[t].status = arg[t] /\ proc'[t].st = proc[t].st /\ proc'[t].parent = proc[t].parent
      /\ proc'[t].waited = proc[t].waited /\ proc'[t].loaded = proc[t].loaded
      /\ proc'[t].executable = proc[t].executable
      /\ proc' \in [Thread -> ProcRec]
  BY <1>1 DEF exit, PInv, ProcType, ProcessTypeOK, ProcRec, Exits
<1>4. ProcType'
  BY <1>1, <1>3 DEF exit, Goto, OwnProcess, ProcRec, PInv, ProcType, ProcessTypeOK, Places, ProcessHalt
<1>5. Frame(t)
  BY <1>1, <1>2 DEF Frame
<1>6. ArgRight(t)' /\ WaitHolds(t)' /\ ~Waits(t)'
  BY <1>2, FreeArg DEF InExec, InWait, Places
<1>7. \A u \in Thread : ArgRight(u)'
  BY <1>2, <1>5, <1>6, ArgStep
<1>8. (\A u \in Thread : WaitHolds(u)') /\ OneWaits'
  BY <1>1, <1>2, <1>3, <1>5, <1>6, WaitStep
<1>9. LockRight'
  <2>1. pc'[t] \in Ending /\ pc[t] \notin InCall
    BY <1>1, <1>2 DEF Ending, InCall
  <2>2. QED
    BY <1>1, <1>5, <2>1, Holder, LockStep
<1>10. FreedByParentOnly'
  <2>1. phalt' = OwnProcess(t) /\ pc[t] # "gone" /\ orphaned' = orphaned
    BY <1>1 DEF exit
  <2>2. QED
    BY <2>1, OwnUse DEF FreedByParentOnly
<1>11. ASSUME NEW u \in Thread PROVE Told(u)'
  <2>1. SemasRight(u) /\ LoadRight(u) /\ StatusRight(u) /\ FreedRight(u)
    BY DEF PInv, Told
  <2>2. CASE u # t
    BY <1>1, <1>2, <2>1, <2>2 DEF Told, SemasRight, LoadRight, StatusRight, FreedRight
  <2>3. CASE u = t
    <3>1. answer[t] \notin Exits
      BY <1>1, <2>1, <2>3 DEF StatusRight
    <3>2. QED
      BY <1>1, <1>2, <1>3, <2>1, <2>3, <3>1
      DEF Told, SemasRight, LoadRight, StatusRight, FreedRight
  <2>4. QED
    BY <2>2, <2>3
<1>12. QED
  BY <1>4, <1>7, <1>8, <1>9, <1>10, <1>11 DEF PInv
(* A child of t may be freed; what else a struct process says stays. *)
LEMMA ProcessExitStep ==
  ASSUME PInv, phalt = "none", NEW t \in Thread, NEW garbage \in BOOLEAN, process_exit(t, garbage)
  PROVE  PInv'
<1>1. /\ pc[t] = "thread_exit"
      /\ UNCHANGED <<arg, attached, loaded_sema, alive_sema, fs_lock, exited, answer>>
  BY DEF process_exit
<1>2. pc'[t] = "dying" /\ \A u \in Thread \ {t} : pc'[u] = pc[u]
  BY DEF process_exit, Goto, PInv, ProcType
<1>3. ASSUME NEW u \in Thread
      PROVE  /\ proc'[u] \in ProcRec
             /\ proc'[u].status = proc[u].status /\ proc'[u].parent = proc[u].parent
             /\ proc'[u].waited = proc[u].waited /\ proc'[u].loaded = proc[u].loaded
             /\ proc'[u].executable = proc[u].executable
             /\ \/ proc'[u].st = proc[u].st
                \/ /\ proc[u].parent = t /\ proc'[u].st = "freed" /\ proc[u].st = "live"
                   /\ t \in attached
  <2>1. proc[u] \in ProcRec
    BY DEF PInv, ProcType, ProcessTypeOK, ProcRec
  <2>2. CASE t \in attached /\ u \in ChildrenOf(t)
    <3>1. proc'[u] = [proc[u] EXCEPT !.st = "freed"]
      BY <2>2 DEF process_exit
    <3>2. QED
      BY <2>1, <2>2, <3>1 DEF ProcRec, ChildrenOf
  <2>3. CASE ~(t \in attached /\ u \in ChildrenOf(t))
    BY <2>1, <2>3 DEF process_exit
  <2>4. QED
    BY <2>2, <2>3
<1>4. ProcType'
  <2>1. proc' \in [Thread -> ProcRec]
    <3>1. proc' = [c \in Thread |-> proc'[c]]
      BY DEF process_exit, PInv, ProcType, ProcessTypeOK
    <3>2. QED
      BY <1>3, <3>1
  <2>2. pc' \in [Thread -> Places] /\ phalt' \in ProcessHalt
    BY DEF process_exit, Goto, PInv, ProcType, ProcessTypeOK, Places, ProcessHalt
  <2>3. QED
    BY <1>1, <2>1, <2>2 DEF ProcRec, PInv, ProcType, ProcessTypeOK
<1>5. Frame(t)
  BY <1>1, <1>2 DEF Frame
<1>6. ArgRight(t)' /\ WaitHolds(t)' /\ ~Waits(t)'
  BY <1>2, FreeArg DEF InExec, InWait, Places
<1>7. \A u \in Thread : ArgRight(u)'
  BY <1>2, <1>5, <1>6, ArgStep
<1>8. (\A u \in Thread : WaitHolds(u)') /\ OneWaits'
  BY <1>1, <1>2, <1>3, <1>5, <1>6, WaitStep
<1>9. LockRight'
  <2>1. pc'[t] \in Ending /\ pc[t] \notin InCall
    BY <1>1, <1>2 DEF Ending, InCall
  <2>2. QED
    BY <1>1, <1>5, <2>1, Holder, LockStep
<1>10. orphaned => orphaned'
  BY DEF process_exit
<1>11. FreedByParentOnly'
  <2>1. phalt' = "process" => OwnProcess(t) = "process"
    BY DEF process_exit
  <2>2. QED
    BY <1>1, <1>10, <2>1, OwnUse DEF FreedByParentOnly
<1>12. ASSUME NEW u \in Thread PROVE Told(u)'
  <2>1. SemasRight(u) /\ LoadRight(u) /\ StatusRight(u) /\ FreedRight(u)
    BY DEF PInv, Told
  <2>2. FreedRight(u)'
    <3>1. ASSUME proc[u].parent = t, proc[u].st = "live", t \in attached
          PROVE  pc'[u] = "gone" \/ orphaned'
      <4>1. pc[u] # "none"
        BY <2>1, <3>1 DEF FreedRight
      <4>2. CASE pc[u] = "gone"
        BY <1>1, <1>2, <4>2
      <4>3. CASE pc[u] # "gone"
        BY <3>1, <4>1, <4>3 DEF process_exit, Gone
      <4>4. QED
        BY <4>2, <4>3
    <3>2. QED
      BY <1>1, <1>2, <1>3, <1>10, <2>1, <3>1 DEF FreedRight
  <2>3. SemasRight(u)' /\ LoadRight(u)' /\ StatusRight(u)'
    BY <1>1, <1>2, <1>3, <2>1 DEF SemasRight, LoadRight, StatusRight
  <2>4. QED
    BY <2>2, <2>3 DEF Told
<1>13. QED
  BY <1>4, <1>7, <1>8, <1>9, <1>11, <1>12 DEF PInv
LEMMA LoadStep ==
  ASSUME PInv, phalt = "none", NEW t \in Thread, NEW success \in BOOLEAN, NEW file \in BOOLEAN,
         load(t, success, file)
  PROVE  PInv'
<1>1. /\ pc[t] = "load"
      /\ UNCHANGED <<arg, attached, alive_sema, fs_lock, exited, answer, orphaned>>
  BY DEF load
<1>2. /\ pc'[t] \in {"start", "fail"} /\ pc' \in [Thread -> Places]
      /\ \A u \in Thread \ {t} : pc'[u] = pc[u]
  BY DEF load, Goto, PInv, ProcType, Places
<1>3. /\ loaded_sema' \in [Thread -> 0..1]
      /\ \A u \in Thread \ {t} : loaded_sema'[u] = loaded_sema[u]
  <2>1. loaded_sema[t] = 0
    BY <1>1 DEF PInv, Told, SemasRight, ProcType, ProcessTypeOK
  <2>2. QED
    BY <2>1 DEF load, LoadedUp, PInv, ProcType, ProcessTypeOK
<1>4. proc[t] \in ProcRec /\ proc \in [Thread -> ProcRec]
  BY DEF PInv, ProcType, ProcessTypeOK, ProcRec
<1>5. /\ proc' \in [Thread -> ProcRec]
      /\ \A u \in Thread \ {t} : proc'[u] = proc[u]
      /\ proc'[t].status = proc[t].status /\ proc'[t].parent = proc[t].parent
      /\ proc'[t].waited = proc[t].waited /\ proc'[t].st = proc[t].st
      /\ \/ proc'[t].loaded = proc[t].loaded
         \/ proc'[t].loaded = "no"
         \/ t \in attached /\ proc'[t].executable = "open"
  <2>1. CASE t \notin attached
    BY <1>4, <2>1 DEF load
  <2>2. CASE t \in attached
    <3> DEFINE yes == IF success THEN "yes" ELSE "no"
               ex == IF file THEN "open" ELSE proc[t].executable
               r == [[proc[t] EXCEPT !.loaded = yes] EXCEPT !.executable = ex]
    <3>1. proc' = [[proc EXCEPT ![t].loaded = yes] EXCEPT ![t].executable = ex]
      BY <1>4, <2>2 DEF load, ProcRec
    <3>2. proc' = [proc EXCEPT ![t] = r]
      BY <1>4, <3>1
    <3>3. /\ r \in ProcRec /\ r.status = proc[t].status /\ r.parent = proc[t].parent
          /\ r.waited = proc[t].waited /\ r.st = proc[t].st
          /\ r.loaded = yes /\ r.executable = ex
      BY <1>4 DEF ProcRec
    <3>4. success => file
      BY DEF load
    <3> HIDE DEF r
    <3>5. QED
      BY <1>4, <2>2, <3>2, <3>3, <3>4
  <2>3. QED
    BY <2>1, <2>2
<1>6. ProcType'
  <2>1. phalt' \in ProcessHalt
    BY DEF load, ProcessHalt
  <2>2. QED
    BY <1>1, <1>2, <1>3, <1>5, <2>1 DEF PInv, ProcType, ProcessTypeOK, ProcRec
<1>7. Frame(t)
  BY <1>1, <1>2 DEF Frame
<1>8. ArgRight(t)' /\ WaitHolds(t)' /\ ~Waits(t)'
  BY <1>2, FreeArg DEF InExec, InWait, Places
<1>9. \A u \in Thread : ArgRight(u)'
  BY <1>2, <1>7, <1>8, ArgStep
<1>10. (\A u \in Thread : WaitHolds(u)') /\ OneWaits'
  BY <1>1, <1>2, <1>5, <1>7, <1>8, WaitStep
<1>11. LockRight'
  <2>1. fs_lock # t
    BY <1>1, Holder DEF Ending, InCall
  <2>2. QED
    BY <1>1, <1>7, <2>1, LockStep
<1>12. FreedByParentOnly'
  BY <1>1 DEF load, FreedByParentOnly, PInv, Told, FreedRight
<1>13. ASSUME NEW u \in Thread PROVE Told(u)'
  <2>1. SemasRight(u) /\ LoadRight(u) /\ StatusRight(u) /\ FreedRight(u)
    BY DEF PInv, Told
  <2>2. CASE u # t
    BY <1>1, <1>2, <1>3, <1>5, <2>1, <2>2 DEF Told, SemasRight, LoadRight, StatusRight, FreedRight
  <2>3. CASE u = t
    <3>1. answer[t] \notin Exits /\ answer[t] # "started" /\ alive_sema[t] = 0
      BY <1>1, <2>1, <2>3 DEF StatusRight, LoadRight, SemasRight, PInv, ProcType, ProcessTypeOK
    <3>2. SemasRight(t)' /\ StatusRight(t)' /\ FreedRight(t)'
      BY <1>1, <1>2, <1>5, <2>1, <2>3, <3>1 DEF SemasRight, StatusRight, FreedRight
    <3>3. LoadRight(t)'
      BY <1>1, <1>2, <1>5, <2>1, <2>3, <3>1 DEF LoadRight
    <3>4. QED
      BY <2>3, <3>2, <3>3 DEF Told
  <2>4. QED
    BY <2>2, <2>3
<1>14. QED
  BY <1>6, <1>9, <1>10, <1>11, <1>12, <1>13 DEF PInv
(* A wait begins only for a child that was never waited for. *)
LEMMA WaitBegins ==
  ASSUME PInv, phalt = "none", NEW t \in Thread, process_wait(t)
  PROVE  PInv'
<1> DEFINE c == arg[t]
<1>1. /\ pc[t] = "wait" /\ c \in Thread /\ pc[c] # "none"
      /\ UNCHANGED <<arg, attached, loaded_sema, alive_sema, fs_lock, exited, answer, orphaned, phalt>>
  BY DEF process_wait, PInv, ArgRight
<1>2. FreedByParentOnly' /\ fs_lock # t
  BY <1>1, Holder DEF FreedByParentOnly, Ending, InCall
<1>3. CASE ~MayWait(t, c) /\ Goto(t, "user") /\ UNCHANGED proc
  <2>1. ProcType'
    BY <1>1, <1>3 DEF Goto, PInv, ProcType, ProcessTypeOK, Places
  <2>2. Moves(t, "user")
    BY <1>1, <1>3 DEF Goto, Moves
  <2>3. pc'[t] = "user" /\ "user" \in Places \ {"none", "load"}
    BY <1>3 DEF PInv, ProcType, Goto, Places
  <2>4. ArgRight(t)' /\ WaitHolds(t)' /\ ~Waits(t)'
    BY <2>3, FreeArg DEF InExec, InWait
  <2>5. QED
    BY <1>1, <1>2, <2>1, <2>2, <2>3, <2>4, MoveStep
<1>4. CASE /\ MayWait(t, c)
           /\ proc' = [proc EXCEPT ![c].waited = TRUE]
           /\ Goto(t, IF Listed(c) THEN "waitread" ELSE "status")
  <2>1. /\ pc'[t] \in {"waitread", "status"} /\ pc' \in [Thread -> Places]
        /\ \A u \in Thread \ {t} : pc'[u] = pc[u]
        /\ pc'[t] = "status" => pc[c] = "gone"
    BY <1>1, <1>4 DEF Goto, Listed, Gone, PInv, ProcType, Places
  <2>2. proc[c] \in ProcRec /\ proc \in [Thread -> ProcRec]
    BY <1>1 DEF PInv, ProcType, ProcessTypeOK, ProcRec
  <2>3. /\ proc' \in [Thread -> ProcRec]
        /\ \A u \in Thread \ {c} : proc'[u] = proc[u]
        /\ proc'[c].status = proc[c].status /\ proc'[c].parent = proc[c].parent
        /\ proc'[c].st = proc[c].st /\ proc'[c].loaded = proc[c].loaded
        /\ proc'[c].executable = proc[c].executable /\ proc'[c].waited = TRUE
    BY <1>1, <1>4, <2>2 DEF ProcRec
  <2>4. proc[c].st = "live" /\ proc[c].parent = t /\ ~proc[c].waited
    BY <1>4 DEF MayWait
  <2>5. ProcType'
    BY <1>1, <2>1, <2>3 DEF PInv, ProcType, ProcessTypeOK, ProcRec
  <2>6. Frame(t)
    BY <1>1, <2>1 DEF Frame
  <2>7. answer[c] \notin Exits
    BY <1>1, <2>4 DEF PInv, Told, StatusRight
  <2>8. c # t \/ pc'[t] # "status"
    BY <1>1, <2>1
  <2>9. ArgRight(t)' /\ WaitHolds(t)'
    BY <1>1, <2>1, <2>3, <2>4, <2>7, <2>8 DEF ArgRight, WaitHolds, Exits
  <2>10. \A u \in Thread : ArgRight(u)'
    BY <2>1, <2>6, <2>9, ArgStep
  <2>11. (\A u \in Thread : WaitHolds(u)') /\ OneWaits'
    BY <1>1, <2>1, <2>3, <2>4, <2>6, <2>9, WaitStep
  <2>12. LockRight'
    BY <1>1, <1>2, <2>6, LockStep
  <2>13. ASSUME NEW u \in Thread PROVE Told(u)'
    <3>1. SemasRight(u) /\ LoadRight(u) /\ StatusRight(u) /\ FreedRight(u)
      BY DEF PInv, Told
    <3>2. SemasRight(u)' /\ FreedRight(u)'
      BY <1>1, <2>1, <2>3, <3>1 DEF SemasRight, FreedRight
    <3>3. LoadRight(u)' /\ StatusRight(u)'
      BY <1>1, <2>1, <2>3, <3>1 DEF LoadRight, StatusRight, Exits
    <3>4. QED
      BY <3>2, <3>3 DEF Told
  <2>14. QED
    BY <1>2, <2>5, <2>10, <2>11, <2>12, <2>13 DEF PInv
<1>5. QED
  BY <1>3, <1>4 DEF process_wait

(* A thread is made, with a struct process of its own. *)
LEMMA ExecuteStep ==
  ASSUME PInv, phalt = "none", NEW t \in Thread, NEW c \in Thread, process_execute(t, c)
  PROVE  PInv'
<1>1. /\ pc[t] \in {"user", "exec"} /\ (t # Main => pc[t] = "exec") /\ pc[c] = "none" /\ c # t
      /\ UNCHANGED <<attached, loaded_sema, alive_sema, fs_lock, exited, answer, orphaned, phalt>>
  BY DEF process_execute
<1>2. /\ pc' \in [Thread -> Places] /\ pc'[t] = "created" /\ pc'[c] = "load"
      /\ \A u \in Thread \ {t, c} : pc'[u] = pc[u]
      /\ arg'[t] = c /\ \A u \in Thread \ {t} : arg'[u] = arg[u]
  BY <1>1 DEF process_execute, PInv, ProcType, ProcessTypeOK, Places
<1>3. /\ proc' \in [Thread -> ProcRec]
      /\ \A u \in Thread \ {c} : proc'[u] = proc[u]
      /\ proc'[c].status = Killed /\ proc'[c].st = "live" /\ proc'[c].loaded = "uninit"
      /\ proc'[c].waited = FALSE
  <2> DEFINE r == [NoProcess EXCEPT !.st = "live", !.parent = t]
  <2>1. /\ r \in ProcRec /\ r.status = Killed /\ r.st = "live" /\ r.loaded = "uninit"
        /\ r.waited = FALSE
    BY DEF NoProcess, ProcRec
  <2>2. proc' = [proc EXCEPT ![c] = r] /\ proc \in [Thread -> ProcRec]
    BY DEF process_execute, PInv, ProcType, ProcessTypeOK, ProcRec
  <2> HIDE DEF r
  <2>3. QED
    BY <2>1, <2>2
<1>4. ProcType'
  <2>1. arg' \in [Thread -> Thread \cup Status \cup {Killed, NoThread}]
    BY DEF process_execute, PInv, ProcType, ProcessTypeOK
  <2>2. QED
    BY <1>1, <1>2, <1>3, <2>1 DEF PInv, ProcType, ProcessTypeOK, ProcRec
<1>5. Frame(t)
  BY <1>1, <1>2 DEF Frame
<1>6. ArgRight(t)' /\ WaitHolds(t)' /\ ~Waits(t)'
  BY <1>2 DEF ArgRight, WaitHolds, Waits, InExec, InWait
<1>7. \A u \in Thread : ArgRight(u)'
  BY <1>2, <1>5, <1>6, ArgStep
<1>8. (\A u \in Thread : WaitHolds(u)') /\ OneWaits'
  BY <1>1, <1>2, <1>3, <1>5, <1>6, WaitStep
<1>9. LockRight'
  <2>1. fs_lock = t => t # Main
    BY Holder
  <2>2. pc'[t] \in InCall
    BY <1>2 DEF InCall
  <2>3. QED
    BY <1>1, <1>5, <2>1, <2>2, LockStep
<1>10. FreedByParentOnly'
  BY <1>1 DEF FreedByParentOnly
<1>11. ASSUME NEW u \in Thread PROVE Told(u)'
  <2>1. SemasRight(u) /\ LoadRight(u) /\ StatusRight(u) /\ FreedRight(u)
    BY DEF PInv, Told
  <2>2. CASE u # c
    BY <1>1, <1>2, <1>3, <2>1, <2>2 DEF Told, SemasRight, LoadRight, StatusRight, FreedRight
  <2>3. CASE u = c
    <3>1. /\ answer[c] \notin Exits /\ answer[c] # "started" /\ exited[c] = Killed
          /\ ~(loaded_sema[c] > 0) /\ ~(alive_sema[c] > 0)
      BY <1>1, <2>1, <2>3 DEF StatusRight, LoadRight, SemasRight
    <3>2. SemasRight(c)' /\ FreedRight(c)' /\ LoadRight(c)' /\ StatusRight(c)'
      BY <1>1, <1>2, <1>3, <3>1 DEF SemasRight, StatusRight, FreedRight, LoadRight
    <3>3. QED
      BY <2>3, <3>2 DEF Told
  <2>4. QED
    BY <2>2, <2>3
<1>12. QED
  BY <1>4, <1>7, <1>8, <1>9, <1>10, <1>11 DEF PInv
-----------------------------------------------------------------------------
(* The theorems *)

LEMMA ProcessInitially == ProcessInit => PInv
<1>1. SUFFICES ASSUME ProcessInit PROVE PInv
  OBVIOUS
<1>2. proc \in [Thread -> ProcRec] /\ \A u \in Thread : proc[u] = NoProcess
  <2>1. NoProcess \in ProcRec
    BY DEF NoProcess, ProcRec
  <2>2. proc = [u \in Thread |-> NoProcess]
    BY <1>1 DEF ProcessInit
  <2>3. QED
    BY <2>1, <2>2
<1>3. ProcType
  BY <1>1, <1>2 DEF ProcessInit, ProcType, ProcessTypeOK, ProcRec, Places, Exits, ProcessHalt
<1>4. ASSUME NEW u \in Thread
      PROVE  /\ pc[u] \in {"none", "user"} /\ loaded_sema[u] = 0 /\ alive_sema[u] = 0
             /\ answer[u] = "none" /\ exited[u] = Killed
             /\ proc[u].loaded = "uninit" /\ proc[u].st = "none" /\ proc[u].status = Killed
  BY <1>1, <1>2 DEF ProcessInit, NoProcess
<1>5. \A u \in Thread : ArgRight(u) /\ WaitHolds(u) /\ ~Waits(u)
  BY <1>4 DEF ArgRight, WaitHolds, Waits, InExec, InWait
<1>6. \A u \in Thread : Told(u)
  BY <1>4, ProcessAssumption DEF Told, SemasRight, LoadRight, StatusRight, FreedRight, Exits
<1>7. OneWaits /\ LockRight /\ FreedByParentOnly
  BY <1>1, <1>5 DEF ProcessInit, OneWaits, LockRight, FreedByParentOnly
<1>8. QED
  BY <1>3, <1>5, <1>6, <1>7 DEF PInv

LEMMA ProcessSteps == PInv /\ ProcessNext => PInv'
<1>1. SUFFICES ASSUME PInv, ProcessNext PROVE PInv'
  OBVIOUS
<1>2. PICK t \in Thread : phalt = "none" /\ (Steps(t) \/ Calls(t))
  BY <1>1 DEF ProcessNext
<1>3. CASE Steps(t)
  <2>1. ASSUME NEW c \in Thread, process_execute(t, c) PROVE PInv'
    BY <1>1, <1>2, <2>1, ExecuteStep
  <2>2. ASSUME NEW success \in BOOLEAN, NEW file \in BOOLEAN, load(t, success, file) PROVE PInv'
    BY <1>1, <1>2, <2>2, LoadStep
  <2>3. ASSUME NEW garbage \in BOOLEAN, process_exit(t, garbage) PROVE PInv'
    BY <1>1, <1>2, <2>3, ProcessExitStep
  <2>4. CASE thread_create_fails(t) \/ Attach(t) \/ ExecGet(t) \/ ExecRead(t) \/ ExecDone(t)
    BY <1>1, <1>2, <2>4, CreateFailsStep, AttachStep, ExecGetStep, ExecReadStep, ExecDoneStep
  <2>5. CASE \/ start_process(t) \/ release_filesys_syscall_lock(t, "fs") \/ page_fault(t)
             \/ exit(t) \/ AliveUp(t) \/ Unlist(t)
    BY <1>1, <1>2, <2>5, StartStep, ReleaseStep, FaultStep, ExitStep, AliveStep, UnlistStep
  <2>6. CASE process_wait(t) \/ WaitRead(t) \/ WaitDown(t) \/ ReturnStatus(t)
    BY <1>1, <1>2, <2>6, WaitBegins, WaitReadStep, WaitDownStep, StatusStep
  <2>7. QED
    BY <1>3, <2>1, <2>2, <2>3, <2>4, <2>5, <2>6 DEF Steps
<1>4. CASE Calls(t)
  <2>1. ASSUME NEW c \in Thread, process_execute(t, c) \/ CallWait(t, c) PROVE PInv'
    BY <1>1, <1>2, <2>1, ExecuteStep, CallWaitStep
  <2>2. ASSUME NEW s \in Status \cup {Killed}, CallExit(t, s) PROVE PInv'
    BY <1>1, <1>2, <2>2, CallExitStep DEF Exits
  <2>3. ASSUME NEW l \in {"exec", "fs", "stdin"}, acquire_filesys_syscall_lock(t, l) PROVE PInv'
    BY <1>1, <1>2, <2>3, AcquireStep
  <2>4. CASE release_filesys_syscall_lock(t, "stdin")
    BY <1>1, <1>2, <2>4, ReleaseStep
  <2>5. QED
    BY <1>4, <2>1, <2>2, <2>3, <2>4 DEF Calls
<1>5. QED
  BY <1>2, <1>3, <1>4
(* The inductive invariant holds in every reachable state. *)
THEOREM ProcessInvariant == ProcessSpec => []PInv
<1>1. PInv /\ UNCHANGED processVars => PInv'
  <2>1. SUFFICES ASSUME PInv, UNCHANGED processVars PROVE PInv'
    OBVIOUS
  <2>2. ProcType'
    BY <2>1 DEF PInv, ProcType, ProcessTypeOK, processVars
  <2>3. \A u \in Thread : ArgRight(u)' /\ WaitHolds(u)'
    BY <2>1 DEF PInv, ArgRight, WaitHolds, Waits, processVars
  <2>4. \A u \in Thread : Told(u)'
    BY <2>1 DEF PInv, Told, SemasRight, LoadRight, StatusRight, FreedRight, processVars
  <2>5. OneWaits' /\ LockRight' /\ FreedByParentOnly'
    BY <2>1 DEF PInv, OneWaits, Waits, LockRight, FreedByParentOnly, processVars
  <2>6. QED
    BY <2>2, <2>3, <2>4, <2>5 DEF PInv
<1>2. QED
  BY <1>1, ProcessInitially, ProcessSteps, PTL DEF ProcessSpec

(* process_wait returns a child's status, as the child passed it to exit,  *)
(* after the child has exited and to one wait only, whatever the order of  *)
(* exec, wait and exit in parent and child.                                *)
THEOREM WaitIsRight == ProcessSpec => []WaitRight
<1>1. PInv => WaitRight
  <2>1. SUFFICES ASSUME PInv PROVE WaitRight
    OBVIOUS
  <2>2. ProcessTypeOK /\ WaitTruth
    BY <2>1 DEF PInv, ProcType, WaitTruth, Told, StatusRight, Exits
  <2>3. ASSUME NEW c \in Thread
        PROVE  Cardinality({t \in Thread : pc[t] \in {"waitread", "waitdown", "status"} /\ arg[t] = c})
                 <= IF answer[c] \in Status \cup {Killed} THEN 0 ELSE 1
    <3> DEFINE W == {t \in Thread : pc[t] \in {"waitread", "waitdown", "status"} /\ arg[t] = c}
    <3>1. \A t \in W : Waits(t) /\ arg[t] = c /\ t \in Thread
      BY DEF Waits, InWait
    <3>2. CASE W = {}
      BY <3>2, FS_EmptySet
    <3>3. CASE W # {}
      <4>1. PICK t \in W : TRUE
        BY <3>3
      <4>2. W = {t}
        BY <2>1, <3>1, <4>1 DEF PInv, OneWaits
      <4>3. answer[c] \notin Status \cup {Killed}
        BY <2>1, <3>1, <4>1 DEF PInv, WaitHolds, Exits
      <4>4. Cardinality(W) = 1
        BY <4>2, FS_Singleton
      <4>5. QED
        BY <4>3, <4>4
    <3>4. QED
      BY <3>2, <3>3
  <2>4. QED
    BY <2>2, <2>3 DEF WaitRight, WaitOnce
<1>2. QED
  BY <1>1, ProcessInvariant, PTL

(* exec reports success only for a program that load has put in place. *)
THEOREM ExecIsTrue == ProcessSpec => []ExecTruth
<1>1. PInv => ExecTruth
  BY DEF PInv, Told, LoadRight, ExecTruth
<1>2. QED
  BY <1>1, ProcessInvariant, PTL

(* The file system lock is with a call, or with a process that a fault in  *)
(* a call has ended; a struct process is used after free by orphans only.  *)
THEOREM OwnershipIsKept == ProcessSpec => []OwnershipKept
<1>1. PInv => OwnershipKept
  BY DEF PInv, OwnershipKept, LockRight, LockHolder, InCall
<1>2. QED
  BY <1>1, ProcessInvariant, PTL
=============================================================================
