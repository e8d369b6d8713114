------------------------------- MODULE Palloc ------------------------------
(***************************************************************************)
(* The page allocator (threads/palloc.c): two pools with a bitmap each.    *)
(* palloc_get_multiple searches and marks pages bit by bit under the lock  *)
(* of the pool; palloc_free_multiple clears bits without it.  Any thread   *)
(* may be preempted between two bits.                                      *)
(***************************************************************************)
EXTENDS Integers, FiniteSets

CONSTANTS
  PageThread,        (* threads                                             *)
  free_pages,        (* pages between 1 MB and the end of RAM               *)
  user_page_limit,
  BitmapPages,       (* pages that the bitmap of a pool needs               *)
  MaxGroup,          (* pages asked for at once, at most                    *)
  NoOwner

ASSUME PallocAssumption ==
  /\ free_pages \in Nat /\ user_page_limit \in Nat /\ BitmapPages \in Nat /\ MaxGroup \in Nat
  /\ NoOwner \notin PageThread

VARIABLES
  used_map,          (* pages that are marked as used                       *)
  pool_lock,         (* holder of the lock of each pool                     *)
  ppc, want,         (* where a thread is; its pool, page_cnt, place and    *)
                     (* bits done                                           *)
  groups,            (* groups of pages a thread has                        *)
  holds              (* who has written to a page last; NoOwner: 0xcc       *)

pallocVars == <<used_map, pool_lock, ppc, want, groups, holds>>

(* palloc_init and init_pool *)
user_pages == IF free_pages \div 2 > user_page_limit THEN user_page_limit ELSE free_pages \div 2
kernel_pages == free_pages - user_pages

PoolId == {"kernel", "user"}
base(p) == BitmapPages + IF p = "kernel" THEN 0 ELSE kernel_pages
page_cnt(p) == (IF p = "kernel" THEN kernel_pages ELSE user_pages) - BitmapPages

page_from_pool(p, page) == page >= base(p) /\ page < base(p) + page_cnt(p)

NoWant == [pool |-> "kernel", cnt |-> 0, at |-> 0, done |-> 0]

PallocInit ==
  /\ used_map = {} /\ pool_lock = [p \in PoolId |-> NoOwner]
  /\ ppc = [t \in PageThread |-> "idle"] /\ want = [t \in PageThread |-> NoWant]
  /\ groups = [t \in PageThread |-> {}]
  /\ holds = [page \in 0..(free_pages - 1) |-> NoOwner]

At(t, l) == ppc' = [ppc EXCEPT ![t] = l]
Move_to(t, at, done) == want' = [want EXCEPT ![t].at = at, ![t].done = done]
Final(w) == base(w.pool) + page_cnt(w.pool) - w.cnt

palloc_get_multiple(t, p, cnt) ==
  /\ ppc[t] = "idle"
  /\ At(t, "lock")
  /\ want' = [want EXCEPT ![t] = [pool |-> p, cnt |-> cnt, at |-> base(p), done |-> 0]]
  /\ UNCHANGED <<used_map, pool_lock, groups, holds>>

PoolFree(p) == pool_lock[p] = NoOwner

lock_pool(t) ==
  /\ ppc[t] = "lock" /\ PoolFree(want[t].pool)
  /\ pool_lock' = [pool_lock EXCEPT ![want[t].pool] = t]
  /\ At(t, "scan")
  /\ UNCHANGED <<used_map, want, groups, holds>>

(* One bit of bitmap_scan. *)
scan_bit(t) ==
  /\ ppc[t] = "scan"
  /\ \E w \in {want[t]} :
       \/ w.at > Final(w) /\ At(t, "none") /\ UNCHANGED want
       \/ w.at <= Final(w) /\ w.at + w.done \in used_map /\ Move_to(t, w.at + 1, 0) /\ UNCHANGED ppc
       \/ /\ w.at <= Final(w) /\ w.at + w.done \notin used_map
          /\ IF w.done + 1 < w.cnt THEN Move_to(t, w.at, w.done + 1) /\ UNCHANGED ppc
             ELSE Move_to(t, w.at, 0) /\ At(t, "mark")
  /\ UNCHANGED <<used_map, pool_lock, groups, holds>>

(* One bit of bitmap_set_multiple. *)
mark_bit(t) ==
  /\ ppc[t] = "mark"
  /\ \E w \in {want[t]} :
       /\ used_map' = used_map \cup {w.at + w.done}
       /\ Move_to(t, w.at, w.done + 1)
       /\ IF w.done + 1 = w.cnt THEN At(t, "got") ELSE UNCHANGED ppc
  /\ UNCHANGED <<pool_lock, groups, holds>>

Pages(g) == g.start..(g.start + g.cnt - 1)
Filled(ps, t) == [page \in DOMAIN holds |-> IF page \in ps THEN t ELSE holds[page]]

(* The lock is released; then the pages are cleared, and used. *)
unlock_pool(t) ==
  /\ ppc[t] \in {"none", "got"}
  /\ pool_lock' = [pool_lock EXCEPT ![want[t].pool] = NoOwner]
  /\ At(t, IF ppc[t] = "got" THEN "clear" ELSE "idle")
  /\ want' = IF ppc[t] = "got" THEN want ELSE [want EXCEPT ![t] = NoWant]
  /\ UNCHANGED <<used_map, groups, holds>>

clear_pages(t) ==
  /\ ppc[t] = "clear"
  /\ \E g \in {[start |-> want[t].at, cnt |-> want[t].cnt]} :
       groups' = [groups EXCEPT ![t] = @ \cup {g}] /\ holds' = Filled(Pages(g), t)
  /\ want' = [want EXCEPT ![t] = NoWant]
  /\ At(t, "idle")
  /\ UNCHANGED <<used_map, pool_lock>>

(* Faulty variant: pages are overwritten when they are free already. *)
WhenWiped_late == "freed"

WhenWiped == "wipe"

(* palloc_free_multiple: the pages are overwritten, then their bits are    *)
(* cleared one by one.                                                     *)
palloc_free_multiple(t, g) ==
  /\ ppc[t] = "idle" /\ g \in groups[t]
  /\ \E p \in PoolId : /\ page_from_pool(p, g.start) /\ (p = "user" => ~page_from_pool("kernel", g.start))
                       /\ want' = [want EXCEPT ![t] = [pool |-> p, cnt |-> g.cnt, at |-> g.start, done |-> 0]]
  /\ groups' = [groups EXCEPT ![t] = @ \ {g}]
  /\ At(t, "wipe")
  /\ UNCHANGED <<used_map, pool_lock, holds>>

wipe(t) ==
  /\ ppc[t] \in {"wipe", "freed"}
  /\ holds' = IF ppc[t] = WhenWiped THEN Filled(want[t].at..(want[t].at + want[t].cnt - 1), NoOwner) ELSE holds
  /\ At(t, IF ppc[t] = "wipe" THEN "free" ELSE "idle")
  /\ want' = IF ppc[t] = "wipe" THEN want ELSE [want EXCEPT ![t] = NoWant]
  /\ UNCHANGED <<used_map, pool_lock, groups>>

free_bit(t) ==
  /\ ppc[t] = "free"
  /\ \E w \in {want[t]} :
       /\ used_map' = used_map \ {w.at + w.done}
       /\ Move_to(t, w.at, w.done + 1)
       /\ IF w.done + 1 = w.cnt THEN At(t, "freed") ELSE UNCHANGED ppc
  /\ UNCHANGED <<pool_lock, groups, holds>>

PallocNext ==
  \E t \in PageThread :
    \/ lock_pool(t) \/ scan_bit(t) \/ mark_bit(t) \/ unlock_pool(t) \/ clear_pages(t) \/ wipe(t) \/ free_bit(t)
    \/ \E p \in PoolId, cnt \in 1..MaxGroup : palloc_get_multiple(t, p, cnt)
    \/ \E g \in groups[t] : palloc_free_multiple(t, g)

PallocSpec == PallocInit /\ [][PallocNext]_pallocVars

-----------------------------------------------------------------------------
(* Properties *)

(* Pages that a thread has marked and not yet got, or not yet cleared. *)
Between(t) ==
  LET w == want[t]
  IN  {i \in w.at..(w.at + w.cnt - 1) :
         \/ ppc[t] \in {"got", "clear", "wipe"}
         \/ ppc[t] = "mark" /\ i < w.at + w.done
         \/ ppc[t] = "free" /\ i >= w.at + w.done}

GroupPages(t) == UNION {Pages(g) : g \in groups[t]}
Holdings(t) == GroupPages(t) \cup Between(t)

(* Every page that is marked is in one group, or being allocated or freed  *)
(* by one thread, and groups lie in one pool: no page is given out twice   *)
(* or lost, although bits are cleared without the lock.                    *)
PagesApart ==
  /\ used_map = UNION {Holdings(t) : t \in PageThread}
  /\ \A t, u \in PageThread : t # u => Holdings(t) \cap Holdings(u) = {}
  /\ \A t \in PageThread : \A g \in groups[t], f \in groups[t] : f # g => Pages(f) \cap Pages(g) = {}
  /\ \A t \in PageThread : \A g \in groups[t] : \E p \in PoolId : \A page \in Pages(g) : page_from_pool(p, page)

(* A page keeps what its owner has written until the owner frees it.       *)
PagesKeepData == \A t \in PageThread : \A g \in groups[t] : \A page \in Pages(g) : holds[page] = t

(* A page that is given out is its owner's alone. *)
PagesOwned == PagesApart /\ PagesKeepData
=============================================================================
