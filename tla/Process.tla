------------------------------ MODULE Process ------------------------------
(***************************************************************************)
(* exec, wait and exit (userprog/process.c, the calls in syscall.c, and    *)
(* thread_create, thread_exit and get_thread of threads/thread.c).  Any    *)
(* thread may be preempted between two steps; a step is a run of           *)
(* statements that touch no state another thread writes, or one access to  *)
(* it.  The semaphores of a thread are allocated apart from it and never   *)
(* freed; the thread itself is freed when it is gone.                      *)
(***************************************************************************)
EXTENDS Naturals, FiniteSets

CONSTANTS
  Thread,    (* threads, identified with their tid                           *)
  Main,      (* the kernel's initial thread, which has no process            *)
  Status,    (* what processes pass to exit                                  *)
  Killed,    (* the status -1                                                *)
  NoThread

ASSUME ProcessAssumption ==
  /\ Main \in Thread /\ NoThread \notin Thread /\ Killed \notin Status
  /\ {"none", "started", "failed"} \cap (Status \cup {Killed}) = {}

VARIABLES
  pc,            (* where a thread is                                        *)
  arg,           (* the child its exec or wait is about, or its exit status  *)
  attached,      (* threads whose process member is set                      *)
  proc,          (* the struct process made for a thread                     *)
  loaded_sema,   (* values of the semaphores                                 *)
  alive_sema,
  fs_lock,       (* holder of filesys_syscall_lock                           *)
  exited,        (* what a process has passed to exit; Killed before         *)
  answer,        (* what the last wait or exec for a thread returned         *)
  orphaned,      (* a parent has freed the process of a thread not yet gone  *)
  phalt          (* why the model stops                                      *)

processVars == <<pc, arg, attached, proc, loaded_sema, alive_sema, fs_lock,
                 exited, answer, orphaned, phalt>>

(* "null": a thread uses its process before it is attached.  "uninit": a   *)
(* member that malloc left as it was is used.  "thread", "process": use of *)
(* a struct thread or struct process after it was freed.                   *)
ProcessHalt == {"none", "null", "uninit", "thread", "process"}

NoProcess == [st |-> "none", parent |-> NoThread, status |-> Killed,
              waited |-> FALSE, loaded |-> "uninit", executable |-> "uninit"]

Gone(t) == pc[t] \in {"none", "gone"}

(* get_thread: threads on all_list. *)
Listed(t) == ~Gone(t)

ProcessInit ==
  /\ pc = [t \in Thread |-> IF t = Main THEN "user" ELSE "none"]
  /\ arg = [t \in Thread |-> NoThread]
  /\ attached = {}
  /\ proc = [t \in Thread |-> NoProcess]
  /\ loaded_sema = [t \in Thread |-> 0] /\ alive_sema = [t \in Thread |-> 0]
  /\ fs_lock = NoThread
  /\ exited = [t \in Thread |-> Killed]
  /\ answer = [t \in Thread |-> "none"]
  /\ orphaned = FALSE
  /\ phalt = "none"

Goto(t, l) == pc' = [pc EXCEPT ![t] = l]

(* A thread touches its own process: what is wrong with that, if anything. *)
OwnProcess(t) ==
  IF t \notin attached THEN "null" ELSE IF proc[t].st = "freed" THEN "process" ELSE "none"

-----------------------------------------------------------------------------
(* exec *)

(* acquire_filesys_syscall_lock, at the start of exec and of the other     *)
(* file system calls. *)
acquire_filesys_syscall_lock(t, l) ==
  /\ pc[t] = "user" /\ t # Main
  /\ fs_lock = NoThread
  /\ fs_lock' = t
  /\ Goto(t, l)
  /\ UNCHANGED <<arg, attached, proc, loaded_sema, alive_sema, exited, answer, orphaned, phalt>>

(* process_execute up to thread_create: a struct process, of which status, *)
(* parent and is_waited_on are set, and the thread.                        *)
process_execute(t, c) ==
  /\ pc[t] = IF t = Main THEN "user" ELSE "exec"
  /\ t = Main => \A x \in Thread \ {Main} : pc[x] = "none"
  /\ pc[c] = "none"
  /\ proc' = [proc EXCEPT ![c] = [NoProcess EXCEPT !.st = "live", !.parent = t]]
  /\ pc' = [pc EXCEPT ![t] = "created", ![c] = "load"]
  /\ arg' = [arg EXCEPT ![t] = c]
  /\ UNCHANGED <<attached, loaded_sema, alive_sema, fs_lock, exited, answer, orphaned, phalt>>

(* thread_create fails: the struct process stays on process_list, without  *)
(* a pid.                                                                  *)
thread_create_fails(t) ==
  /\ pc[t] = "exec"
  /\ Goto(t, "user")
  /\ fs_lock' = NoThread
  /\ UNCHANGED <<arg, attached, proc, loaded_sema, alive_sema, exited, answer, orphaned, phalt>>

(* The rest of process_execute: the child gets its process, if it is still *)
(* there.  The kernel's run_task goes on to wait for it.                   *)
Attach(t) ==
  /\ pc[t] = "created"
  /\ attached' = IF Listed(arg[t]) THEN attached \cup {arg[t]} ELSE attached
  /\ Goto(t, IF t = Main THEN "wait" ELSE "execget")
  /\ UNCHANGED <<arg, proc, loaded_sema, alive_sema, fs_lock, exited, answer, orphaned, phalt>>

(* The lock when exec ends, in success or failure. *)
Released(ok) == NoThread

(* get_thread in exec. *)
ExecGet(t) ==
  /\ pc[t] = "execget"
  /\ IF Listed(arg[t]) THEN Goto(t, "execread") /\ UNCHANGED <<fs_lock, answer>>
     ELSE /\ Goto(t, "user") /\ fs_lock' = Released(FALSE)
          /\ answer' = [answer EXCEPT ![arg[t]] = "failed"]
  /\ UNCHANGED <<arg, attached, proc, loaded_sema, alive_sema, exited, orphaned, phalt>>

(* t->process and t->loaded_sema. *)
ExecRead(t) ==
  /\ pc[t] = "execread"
  /\ Goto(t, "execdown")
  /\ phalt' = IF Listed(arg[t]) THEN phalt ELSE "thread"
  /\ UNCHANGED <<arg, attached, proc, loaded_sema, alive_sema, fs_lock, exited, answer, orphaned>>

(* Faulty variant: exec does not look at what load reported. *)
Loaded_any(c) == c \in attached

Loaded(c) == proc[c].loaded = "yes"

(* sema_down, and the end of exec. *)
ExecDone(t) ==
  LET c == arg[t]
  IN  /\ pc[t] = "execdown" /\ loaded_sema[c] > 0
      /\ loaded_sema' = [loaded_sema EXCEPT ![c] = @ - 1]
      /\ answer' = [answer EXCEPT ![c] = IF Loaded(c) THEN "started" ELSE "failed"]
      /\ phalt' = IF proc[c].loaded = "uninit" THEN "uninit" ELSE phalt
      /\ fs_lock' = Released(Loaded(c))
      /\ Goto(t, "user")
      /\ UNCHANGED <<arg, attached, proc, alive_sema, exited, orphaned>>

-----------------------------------------------------------------------------
(* The new process *)

(* Faulty variant: only a successful load is announced. *)
LoadedUp_success(success) == IF success THEN 1 ELSE 0

(* How often load does sema_up. *)
LoadedUp(success) == 1

(* load, the end of it in particular: success, and whether there is a      *)
(* file, which becomes the executable.                                     *)
load(t, success, file) ==
  /\ pc[t] = "load" /\ (success => file)
  /\ loaded_sema' = [loaded_sema EXCEPT ![t] = @ + LoadedUp(success)]
  /\ proc' = IF t \notin attached THEN proc
             ELSE [proc EXCEPT ![t].loaded = IF success THEN "yes" ELSE "no",
                               ![t].executable = IF file THEN "open" ELSE @]
  /\ phalt' = IF proc[t].st = "freed" THEN "process" ELSE phalt
  /\ Goto(t, IF success THEN "start" ELSE "fail")
  /\ UNCHANGED <<arg, attached, alive_sema, fs_lock, exited, answer, orphaned>>

(* The rest of start_process: the name is copied into the process. *)
start_process(t) ==
  /\ pc[t] \in {"start", "fail"}
  /\ Goto(t, IF pc[t] = "start" THEN "user" ELSE "thread_exit")
  /\ phalt' = OwnProcess(t)
  /\ UNCHANGED <<arg, attached, proc, loaded_sema, alive_sema, fs_lock, exited, answer, orphaned>>

(* A file system call ends, or faults on a user address while it holds the *)
(* lock, which ends the process with status -1.  l is where the call is:   *)
(* "fs", or "stdin", waiting for a key.                                    *)
release_filesys_syscall_lock(t, l) ==
  /\ pc[t] = l
  /\ fs_lock' = NoThread
  /\ Goto(t, "user")
  /\ UNCHANGED <<arg, attached, proc, loaded_sema, alive_sema, exited, answer, orphaned, phalt>>

page_fault(t) ==
  /\ pc[t] = "fs"
  /\ Goto(t, "exit")
  /\ arg' = [arg EXCEPT ![t] = Killed]
  /\ UNCHANGED <<attached, proc, loaded_sema, alive_sema, fs_lock, exited, answer, orphaned, phalt>>

-----------------------------------------------------------------------------
(* exit *)

(* The exit call, with a status of the program or with -1 after a fault or *)
(* an invalid address.                                                     *)
CallExit(t, status) ==
  /\ pc[t] = "user" /\ t # Main
  /\ Goto(t, "exit")
  /\ arg' = [arg EXCEPT ![t] = status]
  /\ UNCHANGED <<attached, proc, loaded_sema, alive_sema, fs_lock, exited, answer, orphaned, phalt>>

(* exit: the status is recorded; directory, mappings and descriptors are   *)
(* closed (no lock is taken).                                              *)
exit(t) ==
  /\ pc[t] = "exit"
  /\ proc' = [proc EXCEPT ![t].status = arg[t]]
  /\ exited' = [exited EXCEPT ![t] = arg[t]]
  /\ phalt' = OwnProcess(t)
  /\ Goto(t, "thread_exit")
  /\ UNCHANGED <<arg, attached, loaded_sema, alive_sema, fs_lock, answer, orphaned>>

(* Faulty variant: every process on the list that is not the caller's goes. *)
Children_all(t) == {c \in Thread : proc[c].st = "live" /\ c # t}

(* The processes that clean_child_processes frees. *)
ChildrenOf(t) == {c \in Thread : proc[c].st = "live" /\ proc[c].parent = t}

(* process_exit: the children's processes are freed, the executable is     *)
(* closed.  garbage: what malloc left in a member that was never set is    *)
(* not zero.                                                               *)
process_exit(t, garbage) ==
  /\ pc[t] = "thread_exit"
  /\ phalt' = IF OwnProcess(t) = "process" THEN "process"
              ELSE IF t \in attached /\ proc[t].executable = "uninit" /\ garbage THEN "uninit"
              ELSE phalt
  /\ proc' = IF t \notin attached THEN proc
             ELSE [c \in Thread |-> IF c \in ChildrenOf(t) THEN [proc[c] EXCEPT !.st = "freed"]
                                    ELSE proc[c]]
  /\ orphaned' = (orphaned \/ (t \in attached /\ \E c \in Thread : proc[c].parent = t /\ ~Gone(c)))
  /\ Goto(t, "dying")
  /\ UNCHANGED <<arg, attached, loaded_sema, alive_sema, fs_lock, exited, answer>>

(* thread_exit: sema_up may switch to the waiter before the thread is off  *)
(* the list.                                                               *)
AliveUp(t) ==
  /\ pc[t] = "dying"
  /\ alive_sema' = [alive_sema EXCEPT ![t] = @ + 1]
  /\ Goto(t, "unlist")
  /\ UNCHANGED <<arg, attached, proc, loaded_sema, fs_lock, exited, answer, orphaned, phalt>>

Unlist(t) ==
  /\ pc[t] = "unlist"
  /\ Goto(t, "gone")
  /\ UNCHANGED <<arg, attached, proc, loaded_sema, alive_sema, fs_lock, exited, answer, orphaned, phalt>>

-----------------------------------------------------------------------------
(* wait *)

CallWait(t, c) ==
  /\ pc[t] = "user" /\ t # Main /\ pc[c] # "none" /\ c # t
  /\ Goto(t, "wait")
  /\ arg' = [arg EXCEPT ![t] = c]
  /\ UNCHANGED <<attached, proc, loaded_sema, alive_sema, fs_lock, exited, answer, orphaned, phalt>>

(* get_process finds a process that is on the list and has its pid. *)
MayWait(t, c) == proc[c].st = "live" /\ proc[c].parent = t /\ ~proc[c].waited

(* process_wait up to get_thread. *)
process_wait(t) ==
  LET c == arg[t]
  IN  /\ pc[t] = "wait"
      /\ \/ /\ ~MayWait(t, c) /\ Goto(t, "user") /\ UNCHANGED proc
         \/ /\ MayWait(t, c)
            /\ proc' = [proc EXCEPT ![c].waited = TRUE]
            /\ Goto(t, IF Listed(c) THEN "waitread" ELSE "status")
      /\ UNCHANGED <<arg, attached, loaded_sema, alive_sema, fs_lock, exited, answer, orphaned, phalt>>

(* t->alive_sema, where the thread may have gone since. *)
WaitRead(t) ==
  /\ pc[t] = "waitread"
  /\ phalt' = IF Listed(arg[t]) THEN phalt ELSE "thread"
  /\ Goto(t, "waitdown")
  /\ UNCHANGED <<arg, attached, proc, loaded_sema, alive_sema, fs_lock, exited, answer, orphaned>>

(* Faulty variant: the wait does not wait. *)
AliveDown_skip(c) == TRUE

AliveDown(c) == alive_sema[c] > 0

(* sema_down and sema_up again. *)
WaitDown(t) ==
  /\ pc[t] = "waitdown"
  /\ AliveDown(arg[t])
  /\ Goto(t, "status")
  /\ UNCHANGED <<arg, attached, proc, loaded_sema, alive_sema, fs_lock, exited, answer, orphaned, phalt>>

(* The status is read from the process. *)
ReturnStatus(t) ==
  /\ pc[t] = "status"
  /\ answer' = [answer EXCEPT ![arg[t]] = proc[arg[t]].status]
  /\ phalt' = IF proc[arg[t]].st = "freed" THEN "process" ELSE phalt
  /\ Goto(t, "user")
  /\ UNCHANGED <<arg, attached, proc, loaded_sema, alive_sema, fs_lock, exited, orphaned>>

-----------------------------------------------------------------------------
(* What a thread does by itself once it is called. *)
Steps(t) ==
  \/ \E c \in Thread : t # Main /\ process_execute(t, c)
  \/ thread_create_fails(t)
  \/ Attach(t) \/ ExecGet(t) \/ ExecRead(t) \/ ExecDone(t)
  \/ \E success, file \in BOOLEAN : load(t, success, file)
  \/ start_process(t)
  \/ release_filesys_syscall_lock(t, "fs") \/ page_fault(t)
  \/ exit(t)
  \/ \E garbage \in BOOLEAN : process_exit(t, garbage)
  \/ AliveUp(t) \/ Unlist(t)
  \/ process_wait(t) \/ WaitRead(t) \/ WaitDown(t) \/ ReturnStatus(t)

(* What it need not do: call, or get a key. *)
Calls(t) ==
  \/ \E c \in Thread : (t = Main /\ process_execute(t, c)) \/ CallWait(t, c)
  \/ \E status \in Status \cup {Killed} : CallExit(t, status)
  \/ \E l \in {"exec", "fs", "stdin"} : acquire_filesys_syscall_lock(t, l)
  \/ release_filesys_syscall_lock(t, "stdin")

ProcessNext == phalt = "none" /\ \E t \in Thread : Steps(t) \/ Calls(t)

ProcessSpec == ProcessInit /\ [][ProcessNext]_processVars

-----------------------------------------------------------------------------
(* Properties *)

(* Every variable has its type. *)
ProcessTypeOK ==
  /\ arg \in [Thread -> Thread \cup Status \cup {Killed, NoThread}]
  /\ attached \subseteq Thread
  /\ proc \in [Thread ->
       [st : {"none", "live", "freed"}, parent : Thread \cup {NoThread},
        status : Status \cup {Killed}, waited : BOOLEAN,
        loaded : {"uninit", "yes", "no"}, executable : {"uninit", "open"}]]
  /\ loaded_sema \in [Thread -> 0..1] /\ alive_sema \in [Thread -> 0..1]
  /\ fs_lock \in Thread \cup {NoThread}
  /\ phalt \in ProcessHalt

(* process_wait returns after the child has exited, with what it passed to *)
(* exit, or -1 if it never got there: in every order of the parent's exec, *)
(* wait and exit and the child's load, exit and thread_exit.               *)
WaitTruth ==
  phalt = "none" =>
    \A c \in Thread : answer[c] \in Status \cup {Killed} =>
      /\ pc[c] \in {"unlist", "gone"}
      /\ answer[c] = exited[c]

(* A status is delivered once: a child that has been waited for is in no   *)
(* later wait (is_waited_on).                                              *)
WaitOnce ==
  phalt = "none" =>
    \A c \in Thread :
      LET waiters == {t \in Thread : pc[t] \in {"waitread", "waitdown", "status"} /\ arg[t] = c}
      IN  Cardinality(waiters) <= IF answer[c] \in Status \cup {Killed} THEN 0 ELSE 1

(* exec reports a child as started only if its program was loaded, and     *)
(* then the child has all it needs: exec returns after load.               *)
ExecTruth ==
  phalt = "none" =>
    \A c \in Thread : answer[c] = "started" =>
      c \in attached /\ proc[c].loaded = "yes" /\ proc[c].executable = "open"

(* A struct process is used after it was freed only by a process whose     *)
(* parent has exited before it: the parent's own waits, and the processes  *)
(* of others, are never freed under them (clean_child_processes).          *)
FreedByParentOnly == phalt = "process" => orphaned

(* The holder of the file system lock is inside a call, or was killed by a *)
(* fault inside one: exec, which holds the lock while another thread       *)
(* loads, gives it back on every path.                                     *)
LockHolder ==
  fs_lock # NoThread =>
    \/ pc[fs_lock] \in {"exec", "created", "execget", "execread", "execdown", "fs", "stdin"}
    \/ arg[fs_lock] = Killed

(* exec, which waits for another thread with the file system lock held,    *)
(* returns: load announces its end on every path.                          *)
ExecReturns ==
  \A t \in Thread \ {Main} :
    pc[t] = "exec" ~> (pc[t] = "user" \/ phalt # "none")

(* A child's status reaches the parent, true and once. *)
WaitRight == ProcessTypeOK /\ WaitTruth /\ WaitOnce

(* What a thread has, the file system lock or a struct process, is not     *)
(* kept when its call is over, and not taken away before.                  *)
OwnershipKept == LockHolder /\ FreedByParentOnly
=============================================================================
