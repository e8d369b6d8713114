------------------------------- MODULE Paging -------------------------------
(***************************************************************************)
(* Virtual memory: the supplemental page tables of vm/page.c, the frames   *)
(* of vm/frame.c, the swap slots of vm/swap.c, the page directories of     *)
(* userprog/pagedir.c, and page_fault of userprog/exception.c.             *)
(*                                                                         *)
(* page_lock makes the kernel's work on a page one piece for the other     *)
(* faults; it is split where the disk is used, because the programs of     *)
(* other processes and the timer interrupt run on.                         *)
(***************************************************************************)
EXTENDS Integers, FiniteSets, FiniteSetsExt, SequencesExt

CONSTANTS
  Proc,          (* processes                                                *)
  DataPage,      (* pages of a process that come from a file                 *)
  MaxStack,      (* bound on stack pages; MAX_STACK_PAGES                    *)
  NumFrames,     (* frames of the user pool                                  *)
  NumSlots,      (* pages of the swap device                                 *)
  MaxStores,     (* bound on the stores of the programs that run             *)
  MaxTick,       (* bound on timer ticks                                     *)
  Uses,          (* the pages the programs use, with their processes         *)
  MaxLost,       (* bound on the frames and slots that are lost              *)
  None

StackPage == 1..MaxStack
UPage == DataPage \cup StackPage
Frame == 1..NumFrames
Slot == 1..NumSlots
Key == Proc \X UPage

ASSUME PagingAssumption ==
  /\ MaxStack \in Nat /\ NumSlots \in Nat /\ NumFrames \in Nat
  /\ None \notin Proc /\ None \notin Frame /\ None \notin Key
  /\ DataPage \cap StackPage = {} /\ Uses \subseteq Key

VARIABLES
  vpc,            (* where a process is                                      *)
  want,           (* the page it faulted on                                  *)
  stack_pages,    (* pages of its stack                                      *)
  page,           (* supplemental page table                                 *)
  pte,            (* page tables: frame, present, dirty and accessed bits    *)
  frame_table,    (* list of frames with the page each holds                 *)
  pool,           (* frames that palloc has                                  *)
  kdirty,         (* frames whose kernel PTE has the dirty bit               *)
  mem, swap,      (* contents of frames and slots                            *)
  slot_used,      (* slots that are not free                                 *)
  page_lock,      (* its holder                                              *)
  victim,         (* page whose frame is being taken, with its slot          *)
  now,            (* timer ticks                                             *)
  latest,         (* what the program stored last in a page                  *)
  torn,           (* pages stored to while they were being written to swap   *)
  lost,           (* frames and slots that nothing refers to any more        *)
  vhalt           (* why the kernel stopped                                  *)

pagingVars == <<vpc, want, stack_pages, page, pte, frame_table, pool, kdirty, mem, swap,
                slot_used, page_lock, victim, now, latest, torn, lost, vhalt>>

NoPage == [present |-> "none", kpage |-> None, slot |-> 0]
NoPte == [frame |-> None, p |-> FALSE, d |-> FALSE, a |-> FALSE]
NoVictim == [key |-> None, slot |-> 0]

PagingInit ==
  /\ vpc = [p \in Proc |-> "user"]
  /\ want = [p \in Proc |-> None]
  /\ stack_pages = [p \in Proc |-> 0]
  /\ page = [k \in Key |-> IF k[2] \in DataPage THEN [NoPage EXCEPT !.present = "filesys"] ELSE NoPage]
  /\ pte = [k \in Key |-> NoPte]
  /\ frame_table = <<>> /\ pool = Frame /\ kdirty = {}
  /\ mem = [f \in Frame |-> None] /\ swap = [s \in Slot |-> None]
  /\ slot_used = {} /\ page_lock = None /\ victim = NoVictim
  /\ now = 0
  /\ latest = [k \in Key |-> 0]
  /\ torn = {} /\ lost = {} /\ vhalt = "none"

(* A thread is on all_list and has a page directory. *)
HasPagedir(p) == vpc[p] \notin {"destroy", "gone"}

(* Faulty variant: the lock is kept when the stack has grown by a page. *)
Unlocked_not(p) == IF stack_pages[p] > 0 THEN page_lock ELSE None

(* lock_release (&page_lock). *)
Unlocked(p) == None

Goto(p, l) == vpc' = [vpc EXCEPT ![p] = l]

-----------------------------------------------------------------------------
(* The program *)

(* A load or store that finds its page.  The accessed bit is for the next  *)
(* tick, if there is to be one.                                            *)
Access(p, u, store) ==
  LET k == <<p, u>>
  IN  /\ vpc[p] = "user" /\ pte[k].p
      /\ store => SumFunction(latest) < MaxStores
      /\ pte' = [pte EXCEPT ![k].a = (now < MaxTick), ![k].d = @ \/ store]
      /\ IF store
         THEN /\ latest' = [latest EXCEPT ![k] = @ + 1]
              /\ mem' = [mem EXCEPT ![pte[k].frame] = <<k, latest[k] + 1>>]
              /\ torn' = IF page[k].present = "swap" \/ (victim.key = k /\ victim.slot # 0)
                         THEN torn \cup {k} ELSE torn
         ELSE UNCHANGED <<latest, mem, torn>>
      /\ UNCHANGED <<vpc, want, stack_pages, page, frame_table, pool, kdirty, swap, slot_used,
                     page_lock, victim, now, lost, vhalt>>

(* page_fault on a page that is not present: is_unallocated_stack_access   *)
(* says whether the stack grows; otherwise the page must be in the table,  *)
(* or the process is killed.                                               *)
page_fault(p, u) ==
  LET k == <<p, u>>
      grows == u \in StackPage /\ u > stack_pages[p]
  IN  /\ vpc[p] = "user" /\ ~pte[k].p /\ k \in Uses
      /\ IF grows \/ page[k].present # "none"
         THEN Goto(p, "fault") /\ want' = [want EXCEPT ![p] = k]
         ELSE Goto(p, "exit") /\ UNCHANGED want
      /\ UNCHANGED <<stack_pages, page, pte, frame_table, pool, kdirty, mem, swap, slot_used,
                     page_lock, victim, now, latest, torn, lost, vhalt>>

-----------------------------------------------------------------------------
(* falloc *)

(* The page that is brought in: the one wanted, or the next of the stack   *)
(* (stack_page_alloc_multiple).                                            *)
GrowsStack(p) == want[p][2] \in StackPage /\ want[p][2] > stack_pages[p]

Incoming(p) == IF GrowsStack(p) THEN <<p, stack_pages[p] + 1>> ELSE want[p]

(* A stack page is marked as loaded at once. *)
Brought(p) == IF GrowsStack(p) THEN "memory" ELSE page[Incoming(p)].present

(* get_frame_to_evict: the first of the frames accessed least recently. *)
get_frame_to_evict ==
  {i \in DOMAIN frame_table : \A j \in DOMAIN frame_table :
     /\ frame_table[i].tick <= frame_table[j].tick
     /\ j < i => frame_table[i].tick < frame_table[j].tick}

Lowest(S) == {x \in S : \A y \in S : x <= y}

(* palloc_get_page with PAL_ZERO: the first free frame, which the kernel   *)
(* writes to.                                                              *)
falloc_free(p) ==
  /\ vpc[p] = "fault" /\ page_lock = None /\ pool # {}
  /\ \E k \in {Incoming(p)}, f \in Lowest(pool) :
      /\ page_lock' = p
      /\ pool' = pool \ {f}
      /\ mem' = [mem EXCEPT ![f] = None] /\ kdirty' = kdirty \cup {f}
      /\ frame_table' = Append(frame_table, [kpage |-> f, page |-> k, tick |-> now])
      /\ page' = [page EXCEPT ![k].kpage = f, ![k].present = Brought(p)]
      /\ Goto(p, "install")
      /\ UNCHANGED <<want, stack_pages, pte, swap, slot_used, victim, now, latest, torn, lost, vhalt>>

(* Faulty variant: a dirty page is dropped like a clean one. *)
Clean_any(k) == k[2] \in DataPage

pagedir_is_dirty(k) == pte[k].d

(* The page can be read again from its file: neither the user's nor the    *)
(* kernel's PTE is dirty.  (A page of the stack has no file; what malloc   *)
(* left in the member does not matter, as the kernel's PTE is dirty.)      *)
Clean(k) == ~pagedir_is_dirty(k) /\ page[k].kpage \notin kdirty /\ k[2] \in DataPage

(* swalloc: the first free slot. *)
swalloc == Lowest(Slot \ slot_used)

(* No frame is free: a victim is chosen and looked at. *)
falloc_evict(p) ==
  /\ vpc[p] = "fault" /\ page_lock = None /\ pool = {}
  /\ page_lock' = p
  /\ IF frame_table = <<>> THEN vhalt' = "no frame" /\ UNCHANGED <<vpc, frame_table, page, slot_used, victim>>
     ELSE \E i \in get_frame_to_evict : \E k \in {frame_table[i].page} :
       /\ frame_table' = Append(RemoveAt(frame_table, i), frame_table[i])
       /\ \/ /\ ~HasPagedir(k[1])
             /\ vhalt' = "no thread" /\ UNCHANGED <<vpc, page, slot_used, victim>>
          \/ /\ HasPagedir(k[1]) /\ Clean(k)
             /\ page' = [page EXCEPT ![k].present = "filesys"]
             /\ victim' = [key |-> k, slot |-> 0]
             /\ Goto(p, "take")
             /\ UNCHANGED <<slot_used, vhalt>>
          \/ /\ HasPagedir(k[1]) /\ ~Clean(k)
             /\ \E s \in swalloc :
                  /\ slot_used' = slot_used \cup {s}
                  /\ victim' = [key |-> k, slot |-> s]
             /\ Goto(p, "swapwrite")
             /\ UNCHANGED <<page, vhalt>>
          \/ /\ HasPagedir(k[1]) /\ ~Clean(k) /\ Slot \subseteq slot_used
             /\ vhalt' = "swap full" /\ UNCHANGED <<vpc, page, slot_used, victim>>
  /\ UNCHANGED <<want, stack_pages, pte, pool, kdirty, mem, swap, now, latest, torn, lost>>

(* swap_page_write, while the program of the victim may run. *)
swap_page_write(p) ==
  LET k == victim.key
  IN  /\ vpc[p] = "swapwrite"
      /\ swap' = [swap EXCEPT ![victim.slot] = mem[page[k].kpage]]
      /\ page' = [page EXCEPT ![k].present = "swap", ![k].slot = victim.slot]
      /\ Goto(p, "take")
      /\ UNCHANGED <<want, stack_pages, pte, frame_table, pool, kdirty, mem, slot_used, page_lock,
                     victim, now, latest, torn, lost, vhalt>>

(* Faulty variant: the page of the victim stays mapped. *)
pagedir_clear_page_not(k) == pte

(* The other bits of an entry stay; of them only the accessed bit is       *)
(* looked at before install_page makes a fresh entry, by frame_tick.       *)
pagedir_clear_page(k) == [pte EXCEPT ![k] = [NoPte EXCEPT !.a = pte[k].a]]

(* The rest of falloc: the frame changes hands, and the victim's mapping   *)
(* is cleared.  The frame keeps its tick, and its contents.                *)
TakeFrame(p) ==
  LET k == Incoming(p)
      f == page[victim.key].kpage
  IN  /\ vpc[p] = "take"
      /\ frame_table' = [i \in DOMAIN frame_table |->
                           IF frame_table[i].kpage = f THEN [frame_table[i] EXCEPT !.page = k]
                           ELSE frame_table[i]]
      /\ page' = [page EXCEPT ![victim.key].kpage = None, ![k].kpage = f,
                              ![k].present = Brought(p)]
      /\ pte' = pagedir_clear_page(victim.key)
      /\ victim' = NoVictim
      /\ Goto(p, "install")
      /\ UNCHANGED <<want, stack_pages, pool, kdirty, mem, swap, slot_used, page_lock, now, latest,
                     torn, lost, vhalt>>

-----------------------------------------------------------------------------
(* The rest of load_page_into_frame and stack_page_alloc *)

(* An entry made by pte_create_user. *)
pagedir_set_page(k) == [pte EXCEPT ![k] = [frame |-> page[k].kpage, p |-> TRUE, d |-> FALSE, a |-> FALSE]]

(* install_page: a fresh PTE.  A stack page is complete then; if more are  *)
(* needed, the next one follows.                                           *)
install_page(p) ==
  vpc[p] = "install" /\ \E k \in {Incoming(p)} :
    /\ pte' = pagedir_set_page(k)
    /\ IF GrowsStack(p)
       THEN /\ stack_pages' = [stack_pages EXCEPT ![p] = @ + 1]
            /\ page_lock' = Unlocked(p)
            /\ Goto(p, IF want[p] = k THEN "user" ELSE "fault")
            /\ want' = [want EXCEPT ![p] = IF @ = k THEN None ELSE @]
       ELSE Goto(p, "fill") /\ UNCHANGED <<want, stack_pages, page_lock>>
    /\ UNCHANGED <<page, frame_table, pool, kdirty, mem, swap, slot_used, victim, now, latest, torn,
                   lost, vhalt>>

swfree(s) == slot_used \ {s}

(* What a slot that is given back held is of no interest. *)
Dropped(k) == [s \in Slot |-> IF page[k].present = "swap" /\ page[k].slot = s THEN None ELSE swap[s]]

(* load_page_from_filesys, load_page_from_swap: the contents are read.     *)
FillPage(p) ==
  vpc[p] = "fill" /\ \E k \in {want[p]} :
    /\ mem' = [mem EXCEPT ![page[k].kpage] = IF page[k].present = "swap" THEN swap[page[k].slot]
                                              ELSE <<k, 0>>]
    /\ kdirty' = kdirty \cup {page[k].kpage}
    /\ slot_used' = IF page[k].present = "swap" THEN swfree(page[k].slot) ELSE slot_used
    /\ swap' = Dropped(k)
    /\ page' = [page EXCEPT ![k].present = "memory", ![k].slot = 0]
    /\ page_lock' = Unlocked(p)
    /\ Goto(p, "user") /\ want' = [want EXCEPT ![p] = None]
    /\ UNCHANGED <<stack_pages, pte, frame_table, pool, victim, now, latest, torn, lost, vhalt>>

(* palloc_free_page overwrites what it takes back. *)
Scrubbed(frames) == [f \in Frame |-> IF f \in frames THEN None ELSE mem[f]]

(* get_frame: the first with the kpage, if there is one. *)
get_frame(f) ==
  {i \in DOMAIN frame_table :
     frame_table[i].kpage = f /\ \A j \in DOMAIN frame_table : j < i => frame_table[j].kpage # f}

Without(f) ==
  IF get_frame(f) = {} THEN frame_table ELSE RemoveAt(frame_table, CHOOSE i \in get_frame(f) : TRUE)

(* The file is too short: internal_page_free, which gives the frame back   *)
(* only if the page is marked present.  The process is killed.             *)
FillFails(p) ==
  vpc[p] = "fill" /\ \E k \in {want[p]} :
    /\ page[k].present = "filesys" /\ Cardinality(lost) < MaxLost
    /\ pte' = pagedir_clear_page(k)
    /\ frame_table' = Without(page[k].kpage)
    /\ lost' = lost \cup {<<"frame", page[k].kpage>>}
    /\ page' = [page EXCEPT ![k] = NoPage]
    /\ page_lock' = Unlocked(p)
    /\ Goto(p, "exit") /\ want' = [want EXCEPT ![p] = None]
    /\ UNCHANGED <<stack_pages, pool, kdirty, mem, swap, slot_used, victim, now, latest, torn, vhalt>>

(* page_free of a mapped page (munmap).  A slot is not given back, and the *)
(* kpage of a page that was never loaded is what malloc left in it: ffree  *)
(* may take any frame off the list.                                        *)
page_free(p, u, garbage) ==
  LET k == <<p, u>>
      loaded == page[k].present = "memory"
      f == IF loaded THEN page[k].kpage ELSE garbage
  IN  /\ vpc[p] = "user" /\ page_lock = None /\ page[k].present # "none"
      /\ garbage # None \/ page[k].present = "swap" => Cardinality(lost) < MaxLost
      /\ garbage # None => /\ page[k].present = "filesys"
                           /\ \E i \in DOMAIN frame_table : frame_table[i].kpage = garbage
      /\ pte' = pagedir_clear_page(k)
      /\ pool' = IF loaded THEN pool \cup {f} ELSE pool
      /\ mem' = IF loaded THEN Scrubbed({f}) ELSE mem
      /\ latest' = [latest EXCEPT ![k] = 0] /\ torn' = torn \ {k}
      /\ frame_table' = Without(f)
      /\ lost' = lost \cup (IF page[k].present = "swap" THEN {<<"slot", page[k].slot>>} ELSE {})
                     \cup (IF garbage # None THEN {<<"frame", garbage>>} ELSE {})
      /\ page' = [page EXCEPT ![k] = NoPage]
      /\ UNCHANGED <<vpc, want, stack_pages, kdirty, swap, slot_used, page_lock, victim, now, vhalt>>

-----------------------------------------------------------------------------
(* exit *)

exit(p) ==
  /\ vpc[p] = "user"
  /\ Goto(p, "exit")
  /\ UNCHANGED <<want, stack_pages, page, pte, frame_table, pool, kdirty, mem, swap, slot_used,
                 page_lock, victim, now, latest, torn, lost, vhalt>>

(* Faulty variant: the frame stays on the list. *)
ffree_not(f) == frame_table

ffree(f) == Without(f)

(* hash_destroy of the table, one page. *)
page_destructor(p, u) ==
  LET k == <<p, u>>
  IN  /\ vpc[p] = "exit" /\ page_lock = None /\ page[k].present # "none"
      /\ frame_table' = IF page[k].present = "memory" THEN ffree(page[k].kpage) ELSE frame_table
      /\ slot_used' = IF page[k].present = "swap" THEN swfree(page[k].slot) ELSE slot_used
      /\ swap' = Dropped(k)
      /\ page' = [page EXCEPT ![k] = NoPage]
      /\ UNCHANGED <<vpc, want, stack_pages, pte, pool, kdirty, mem, page_lock, victim, now,
                     latest, torn, lost, vhalt>>

(* The rest of process_exit: the page directory is taken off the thread,   *)
(* then pagedir_destroy frees the frames it maps.                          *)
pagedir_off(p) ==
  /\ vpc[p] = "exit" /\ \A u \in UPage : page[<<p, u>>].present = "none"
  /\ Goto(p, "destroy")
  /\ UNCHANGED <<want, stack_pages, page, pte, frame_table, pool, kdirty, mem, swap, slot_used,
                 page_lock, victim, now, latest, torn, lost, vhalt>>

pagedir_destroy(p) ==
  /\ vpc[p] = "destroy"
  /\ \E freed \in {{pte[<<p, u>>].frame : u \in {v \in UPage : pte[<<p, v>>].p}}} :
       pool' = pool \cup freed /\ mem' = Scrubbed(freed)
  /\ pte' = [k \in Key |-> IF k[1] = p THEN NoPte ELSE pte[k]]
  /\ latest' = [k \in Key |-> IF k[1] = p THEN 0 ELSE latest[k]]
  /\ torn' = {k \in torn : k[1] # p}
  /\ stack_pages' = [stack_pages EXCEPT ![p] = 0]
  /\ Goto(p, "gone")
  /\ UNCHANGED <<want, page, frame_table, kdirty, swap, slot_used, page_lock, victim, now, lost,
                 vhalt>>

pagedir_is_accessed(k) == pte[k].a
pagedir_set_accessed(k, accessed) == [pte[k] EXCEPT !.a = accessed]

(* frame_tick, from the timer interrupt. *)
frame_tick ==
  /\ now < MaxTick
  /\ now' = now + 1
  /\ IF \E i \in DOMAIN frame_table : ~HasPagedir(frame_table[i].page[1])
     THEN vhalt' = "no thread" /\ UNCHANGED <<frame_table, pte>>
     ELSE /\ frame_table' = [i \in DOMAIN frame_table |->
                               IF pagedir_is_accessed(frame_table[i].page) THEN [frame_table[i] EXCEPT !.tick = now + 1]
                               ELSE frame_table[i]]
          /\ pte' = [k \in Key |-> IF \E i \in DOMAIN frame_table : frame_table[i].page = k
                                   THEN pagedir_set_accessed(k, FALSE) ELSE pte[k]]
          /\ UNCHANGED vhalt
  /\ UNCHANGED <<vpc, want, stack_pages, page, pool, kdirty, mem, swap, slot_used, page_lock, victim,
                 latest, torn, lost>>

-----------------------------------------------------------------------------
(* What the kernel does by itself for a process. *)
Acquires(p) == vhalt = "none" /\ (falloc_free(p) \/ falloc_evict(p))

Serve(p) ==
  /\ vhalt = "none"
  /\ swap_page_write(p) \/ TakeFrame(p) \/ install_page(p) \/ FillPage(p) \/ FillFails(p)

PagingNext ==
  /\ vhalt = "none"
  /\ \/ \E p \in Proc :
          \/ \E u \in UPage : page_fault(p, u) \/ \E store \in BOOLEAN : Access(p, u, store)
          \/ Acquires(p) \/ Serve(p)
          \/ \E u \in DataPage, g \in Frame \cup {None} : page_free(p, u, g)
          \/ exit(p) \/ pagedir_off(p) \/ pagedir_destroy(p)
          \/ \E u \in UPage : page_destructor(p, u)
     \/ frame_tick

PagingSpec == PagingInit /\ [][PagingNext]_pagingVars

(* A process that runs is scheduled again, and a lock goes to its waiters  *)
(* in turn.                                                                *)
Fairness(p) == WF_pagingVars(Serve(p)) /\ SF_pagingVars(Acquires(p))

-----------------------------------------------------------------------------
(* Properties *)

Listed(f) == {i \in DOMAIN frame_table : frame_table[i].kpage = f}
MappedAt(f) == {k \in Key : pte[k].p /\ pte[k].frame = f}

(* Every frame is in one place: free, on the list once, mapped by a        *)
(* process that is exiting, or lost; and no frame is mapped twice, so no   *)
(* program sees the pages of another.                                      *)
FramesAccounted ==
  vhalt = "none" => \A f \in Frame :
    /\ Cardinality(Listed(f)) <= 1
    /\ Cardinality(MappedAt(f)) <= 1
    /\ f \in pool => Listed(f) = {} /\ MappedAt(f) = {}
    /\ f \in pool \/ <<"frame", f>> \in lost \/ Listed(f) # {} \/ \E k \in MappedAt(f) : vpc[k[1]] \in {"exit", "destroy"}

(* A slot in use holds one page, is being filled, or is lost.              *)
SlotsAccounted ==
  vhalt = "none" =>
    \A s \in Slot :
      LET users == {k \in Key : page[k].present = "swap" /\ page[k].slot = s}
      IN  /\ Cardinality(users) <= 1
          /\ s \in slot_used <=> users # {} \/ victim.slot = s \/ <<"slot", s>> \in lost

(* What a program stored last in a page is there, in memory or in swap,    *)
(* whoever has used the frame since; except for a store between            *)
(* swap_page_write and pagedir_clear_page of its eviction.                 *)
Kept(k, c) == c = <<k, latest[k]>> \/ (latest[k] = 0 /\ k[2] \in StackPage)

DataKept ==
  vhalt = "none" => \A k \in Key \ torn :
    /\ page[k].present = "swap" => Kept(k, swap[page[k].slot])
    /\ pte[k].p /\ page[k].present = "memory" => Kept(k, mem[pte[k].frame])
    /\ page[k].present = "filesys" => latest[k] = 0

(* Eviction and the timer interrupt find the thread and the page directory *)
(* of every frame on the list: a process takes its frames off it before    *)
(* they go, whatever it was doing and whoever evicts at the time.          *)
OwnersLive ==
  /\ vhalt # "no thread"
  /\ \A i \in DOMAIN frame_table : HasPagedir(frame_table[i].page[1])

(* A fault is served or ends the process, however the others fault, evict  *)
(* and exit, unless swap is full or no frame can be evicted.               *)
FaultServed ==
  \A p \in Proc : vpc[p] = "fault" ~> vpc[p] \in {"user", "exit"} \/ vhalt # "none"

(* Every frame and every slot is where the tables say. *)
MemoryAccounted == FramesAccounted /\ SlotsAccounted
=============================================================================
