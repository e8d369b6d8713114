------------------------------ MODULE MCKernel -----------------------------
(***************************************************************************)
(* Interrupts, memory allocation and the kernel's data structures for TLC: *)
(* `part' says which of the models a behaviour is of.                      *)
(***************************************************************************)
EXTENDS Interrupts, Palloc, Malloc, Lists, HashTable, Bitmap, Mlfqs

VARIABLE part

MCKey == <<2, 1, 2, 1>>
MCHashKey == <<1, 1, 2, 3, 4, 5>>
MCHash == <<0, 2, 3, 2, 5>>
(* 13 times 11 is 15 modulo 64. *)
MCCallocs == {<<2, 1>>, <<13, 11>>}

parts == <<interruptVars, pallocVars, mallocVars, heap, hashVars, bitmapVars, mlfqsVars, part>>

Init ==
  /\ part \in {"interrupts", "palloc", "malloc", "lists", "hash", "bitmap", "mlfqs"}
  /\ InterruptsInit /\ PallocInit /\ MallocInit /\ ListsInit /\ HashInit /\ BitmapInit /\ MlfqsInit
  /\ part # "bitmap" => stored = [i \in 0..(elem_cnt - 1) |-> 0]
  /\ part # "interrupts" => running = CHOOSE t \in CpuThread : TRUE

OnlyMlfqs ==
  part = "mlfqs" /\ UNCHANGED <<interruptVars, pallocVars, mallocVars, heap, hashVars, bitmapVars, part>>
OnlyInterrupts == part = "interrupts" /\ UNCHANGED <<pallocVars, mallocVars, heap, hashVars, bitmapVars, mlfqsVars, part>>

Next ==
  \/ OnlyInterrupts /\ InterruptsNext
  \/ part = "palloc" /\ PallocNext /\ UNCHANGED <<interruptVars, mallocVars, heap, hashVars, bitmapVars, mlfqsVars, part>>
  \/ part = "malloc" /\ MallocNext /\ UNCHANGED <<interruptVars, pallocVars, heap, hashVars, bitmapVars, mlfqsVars, part>>
  \/ part = "lists" /\ ListsNext /\ UNCHANGED <<interruptVars, pallocVars, mallocVars, hashVars, bitmapVars, mlfqsVars, part>>
  \/ part = "hash" /\ HashNext /\ UNCHANGED <<interruptVars, pallocVars, mallocVars, heap, bitmapVars, mlfqsVars, part>>
  \/ part = "bitmap" /\ BitmapNext /\ UNCHANGED <<interruptVars, pallocVars, mallocVars, heap, hashVars, mlfqsVars, part>>
  \/ OnlyMlfqs /\ MlfqsNext

(* The CPU goes on, and the timer ticks. *)
Spec == Init /\ [][Next]_parts /\ WF_parts((OnlyInterrupts /\ CpuStep) \/ (OnlyMlfqs /\ Progress))

(* The lists keep to SequenceLists, and their queries answer for it. *)
ListsRight == ImplementsSequences /\ [](part = "lists" => LinksAgree /\ QueriesRight)

(* A hash table is the set of its elements, to hash_find and to a walk;    *)
(* a bitmap is the set of its marked bits, to every query.                 *)
ContainersRight ==
  /\ part = "hash" => HashFinds /\ VisitsAll
  /\ part = "bitmap" => WordsHoldBits /\ ScanFinds

(* Every interrupt is served, and under thread_mlfqs every ready thread    *)
(* gets the CPU.                                                           *)
EventuallyServed == IrqsServed /\ NoStarvation
=============================================================================
