---------------------------- MODULE Interrupts -----------------------------
(***************************************************************************)
(* Interrupt handling (threads/interrupt.c): gates, the interrupt flag,    *)
(* acknowledging the two interrupt controllers (PICs), external interrupts *)
(* that do not nest, and the yield on return from one.                     *)
(*                                                                         *)
(* Two threads share the CPU.  Each has a stack of interrupt frames; a     *)
(* thread that is switched out is inside thread_yield, which remembers the *)
(* level to restore.                                                       *)
(***************************************************************************)
EXTENDS Integers, SequencesExt

CONSTANTS
  CpuThread,         (* threads                                             *)
  Irqs,              (* interrupt lines 0..15 that devices raise            *)
  Registered,        (* those that intr_register_ext has been called for    *)
  Traps,             (* internal interrupts that are used                   *)
  MaxRaised,         (* bound on the requests of devices                    *)
  MaxNested          (* bound on the frames of a thread                     *)

ASSUME InterruptsAssumption ==
  /\ Irqs \subseteq 0..15 /\ Registered \subseteq Irqs
  /\ \A vec \in Traps : vec \in Nat /\ vec \notin 32..47

VARIABLES
  on,                (* the interrupt flag                                  *)
  in_external_intr, yield_on_return,
  frames,            (* interrupt frames of each thread, innermost first    *)
  running,           (* the thread on the CPU                               *)
  saved,             (* old_level of the thread_yield a thread is in        *)
  irr,               (* lines that request an interrupt                     *)
  pic0, pic1,        (* lines in service: master (slave on line 2), slave   *)
  unexpected_cnt, raised,
  intrfail           (* an assertion failed                                 *)

cpuVars == <<on, in_external_intr, yield_on_return, frames, running, saved>>
interruptVars == <<on, in_external_intr, yield_on_return, frames, running, saved, irr, pic0, pic1,
                   unexpected_cnt, raised, intrfail>>

(* Vectors of the external interrupts after pic_init. *)
Vector(irq) == 32 + irq
External(vec) == vec >= 32 /\ vec < 48

(* intr_register_int: exceptions (vector 14, page faults) are entered with *)
(* interrupts off through an interrupt gate, system calls (48) through a   *)
(* trap gate; intr_register_ext and intr_init: interrupt gates.            *)
TrapGate(vec) == vec = 48

InterruptsInit ==
  /\ on = TRUE /\ in_external_intr = FALSE /\ yield_on_return = FALSE
  /\ frames = [t \in CpuThread |-> <<>>]
  /\ running \in CpuThread
  /\ saved = [t \in CpuThread |-> TRUE]
  /\ irr = {} /\ pic0 = {} /\ pic1 = {}
  /\ unexpected_cnt = 0 /\ raised = 0 /\ intrfail = FALSE

-----------------------------------------------------------------------------
(* The controllers *)

Line(irq) == IF irq >= 8 THEN 2 ELSE irq

(* A PIC passes on a request when nothing of its line's priority or a      *)
(* higher one is in service.                                               *)
Deliverable(irq) ==
  /\ irq \in irr
  /\ \A l \in pic0 : Line(irq) < l
  /\ irq >= 8 => \A l \in pic1 : irq < l

Due == {irq \in Irqs : Deliverable(irq)}

raise(irq) ==
  /\ raised < MaxRaised /\ irq \notin irr
  /\ raised' = raised + 1
  /\ irr' = irr \cup {irq}
  /\ UNCHANGED <<cpuVars, pic0, pic1, unexpected_cnt, intrfail>>

-----------------------------------------------------------------------------
(* The CPU *)

Stack == frames[running]
Top == Head(Stack)
Frame(vec) == [vec |-> vec, on |-> on, phase |-> "entry", asked |-> FALSE]
Push(vec) == frames' = [frames EXCEPT ![running] = <<Frame(vec)>> \o @]
Phase(p) == frames' = [frames EXCEPT ![running][1].phase = p]

(* The CPU takes an interrupt before its next instruction when it can. *)
Next_instruction == ~(on /\ Due # {})

(* The most urgent line is taken; the gate turns interrupts off. *)
deliver(irq) ==
  /\ on /\ irq \in Due /\ \A i \in Due : Line(irq) < Line(i) \/ irq <= i
  /\ irr' = irr \ {irq}
  /\ pic0' = pic0 \cup {Line(irq)}
  /\ pic1' = IF irq >= 8 THEN pic1 \cup {irq} ELSE pic1
  /\ Push(Vector(irq))
  /\ on' = FALSE
  /\ UNCHANGED <<in_external_intr, yield_on_return, running, saved, unexpected_cnt, raised, intrfail>>

(* Code of a thread: no frame, or the handler of an internal interrupt. *)
ThreadCode == Stack # <<>> => ~External(Top.vec) /\ Top.phase = "handler"

(* An exception or a system call. *)
trap(vec) ==
  /\ ThreadCode /\ on /\ Next_instruction /\ Len(Stack) < MaxNested
  /\ Push(vec)
  /\ on' = TrapGate(vec)
  /\ UNCHANGED <<in_external_intr, yield_on_return, running, saved, irr, pic0, pic1, unexpected_cnt,
                 raised, intrfail>>

(* intr_handler up to the handler.  The handler of an internal interrupt   *)
(* enables interrupts (page_fault).                                        *)
enter ==
  /\ Stack # <<>> /\ Top.phase = "entry" /\ Next_instruction
  /\ IF External(Top.vec)
     THEN /\ intrfail' = (on \/ in_external_intr)
          /\ in_external_intr' = TRUE /\ yield_on_return' = FALSE
          /\ UNCHANGED on
     ELSE /\ intrfail' = in_external_intr
          /\ on' = TRUE
          /\ UNCHANGED <<in_external_intr, yield_on_return>>
  /\ Phase("handler")
  /\ UNCHANGED <<running, saved, irr, pic0, pic1, unexpected_cnt, raised>>

(* The handler of an external interrupt, which may call                    *)
(* intr_yield_on_return; unexpected_interrupt without one, except for the  *)
(* lines 7 and 15.                                                         *)
handle(ask) ==
  /\ Stack # <<>> /\ External(Top.vec) /\ Top.phase = "handler"
  /\ \E irq \in {Top.vec - 32} :
       /\ ask => irq \in Registered
       /\ unexpected_cnt' = IF irq \in Registered \cup {7, 15} THEN unexpected_cnt ELSE unexpected_cnt + 1
  /\ yield_on_return' = IF ask THEN TRUE ELSE yield_on_return
  /\ frames' = [frames EXCEPT ![running][1] = [@ EXCEPT !.phase = "end", !.asked = ask]]
  /\ UNCHANGED <<on, in_external_intr, running, saved, irr, pic0, pic1, raised, intrfail>>

(* Faulty variant: only the master is acknowledged. *)
Acknowledged_master(irq) == pic0' = pic0 \ {Line(irq)} /\ UNCHANGED pic1

(* pic_end_of_interrupt *)
Acknowledged(irq) ==
  /\ pic0' = pic0 \ {Line(irq)}
  /\ pic1' = IF irq >= 8 THEN pic1 \ {irq} ELSE pic1

(* Faulty variant: the mark goes with the interrupt's return only. *)
ContextAfter_kept == in_external_intr

ContextAfter == FALSE

AfterEnd == IF yield_on_return THEN "yield" ELSE "return"

(* The end of intr_handler for an external interrupt. *)
end_external ==
  /\ Stack # <<>> /\ External(Top.vec) /\ Top.phase = "end"
  /\ intrfail' = (on \/ ~in_external_intr)
  /\ in_external_intr' = ContextAfter
  /\ Acknowledged(Top.vec - 32)
  /\ Phase(AfterEnd)
  /\ UNCHANGED <<on, yield_on_return, running, saved, irr, unexpected_cnt, raised>>

(* The switch in thread_yield: the other thread goes on where it yielded,  *)
(* and restores its level.                                                 *)
Switch(t) ==
  /\ running' = t
  /\ saved' = [saved EXCEPT ![running] = on, ![t] = TRUE]
  /\ on' = IF t = running THEN on ELSE saved[t]

thread_yield_on_return(t) ==
  /\ Stack # <<>> /\ Top.phase = "yield"
  /\ frames' = [frames EXCEPT ![running][1] = [@ EXCEPT !.phase = "return", !.asked = FALSE]]
  /\ Switch(t)
  /\ intrfail' = in_external_intr
  /\ UNCHANGED <<in_external_intr, yield_on_return, irr, pic0, pic1, unexpected_cnt, raised>>

(* thread_yield, called by a thread. *)
yield(t) ==
  /\ ThreadCode /\ Next_instruction /\ t # running
  /\ Switch(t)
  /\ intrfail' = in_external_intr
  /\ UNCHANGED <<in_external_intr, yield_on_return, frames, irr, pic0, pic1, unexpected_cnt, raised>>

(* The return from an interrupt restores the flag. *)
iret ==
  /\ Stack # <<>> /\ Next_instruction
  /\ Top.phase = (IF External(Top.vec) THEN "return" ELSE "handler")
  /\ External(Top.vec) \/ on
  /\ frames' = [frames EXCEPT ![running] = Tail(@)]
  /\ on' = Top.on
  /\ UNCHANGED <<in_external_intr, yield_on_return, running, saved, irr, pic0, pic1, unexpected_cnt,
                 raised, intrfail>>

(* intr_disable and intr_enable in the code of a thread. *)
intr_disable ==
  /\ ThreadCode /\ on /\ Next_instruction
  /\ on' = FALSE
  /\ UNCHANGED <<in_external_intr, yield_on_return, frames, running, saved, irr, pic0, pic1,
                 unexpected_cnt, raised, intrfail>>

intr_enable ==
  /\ ThreadCode /\ ~on
  /\ on' = TRUE
  /\ intrfail' = in_external_intr
  /\ UNCHANGED <<in_external_intr, yield_on_return, frames, running, saved, irr, pic0, pic1,
                 unexpected_cnt, raised>>

-----------------------------------------------------------------------------
(* What the CPU does by itself. *)
CpuStep ==
  /\ ~intrfail
  /\ \/ \E irq \in Irqs : deliver(irq)
     \/ enter
     \/ \E ask \in BOOLEAN : handle(ask)
     \/ end_external
     \/ \E t \in CpuThread : thread_yield_on_return(t)
     \/ iret
     \/ intr_enable

InterruptsNext ==
  \/ CpuStep
  \/ /\ ~intrfail
     /\ \/ \E irq \in Irqs : raise(irq)
        \/ \E vec \in Traps : trap(vec)
        \/ \E t \in CpuThread : yield(t)
        \/ intr_disable

InterruptsSpec == InterruptsInit /\ [][InterruptsNext]_interruptVars

-----------------------------------------------------------------------------
(* Properties *)

InHandler(t) ==
  \E i \in DOMAIN frames[t] : External(frames[t][i].vec) /\ frames[t][i].phase \in {"handler", "end"}

(* intr_context is true exactly while the running thread handles an        *)
(* external interrupt, with interrupts off, and at most one such handler   *)
(* is under way in the system: external interrupts do not nest, also not   *)
(* across the yield at the end of one, and no assertion of interrupt.c     *)
(* fails.                                                                  *)
ContextTrue ==
  /\ ~intrfail
  /\ \A t \in CpuThread : InHandler(t) <=> (in_external_intr /\ t = running)
  /\ in_external_intr => ~on

(* A handler that asks for a yield gets one: its interrupt does not return *)
(* to the interrupted code before the thread has been switched, although   *)
(* the request is one global variable.                                     *)
YieldKept ==
  \A t \in CpuThread :
    \A i \in DOMAIN frames[t] : frames[t][i].phase = "return" => ~frames[t][i].asked

(* A line that requests an interrupt gets it: no acknowledgement is        *)
(* missing, also when the thread that must return from an interrupt is not *)
(* the one that runs.                                                      *)
IrqsServed == \A irq \in Irqs : irq \in irr ~> irq \notin irr

(* Handlers run one at a time, and their wish to yield is granted. *)
HandlersRight == ContextTrue /\ YieldKept
=============================================================================
