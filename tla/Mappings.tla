------------------------------ MODULE Mappings ------------------------------
(***************************************************************************)
(* Memory mapped files of one process: mmap and munmap of                 *)
(* userprog/syscall.c, the map ids of syscall-file.c, and what they do to  *)
(* the supplemental page table of vm/page.c.  The calls hold the file      *)
(* system lock, so each is one step; between two of them the program       *)
(* stores to its pages and another process may evict them.                 *)
(*                                                                         *)
(* Addresses and lengths are in cells, PGSIZE of them to a page.  A cell   *)
(* of a file holds at first its own name; a store leaves the name of the   *)
(* cell of memory it goes to.  Files are changed through mappings only.    *)
(***************************************************************************)
EXTENDS Vaddr, FiniteSets, SequencesExt

CONSTANTS
  MapFile,       (* files, identified with their names                       *)
  MapLength,     (* lengths of the files, each file at least one cell long   *)
  NumPages,      (* the user pages 1..NumPages                               *)
  MaxMaps,       (* bound on the entries of mapid_map                        *)
  Program        (* the sets of pages the program itself may occupy          *)

ASSUME MappingAssumption ==
  /\ NumPages \in Nat /\ MapLength \subseteq Nat \ {0}

UserPage == 1..NumPages

VARIABLES
  mapid_map,   (* mappings: number |-> file, first page, length              *)
  spage,       (* supplemental page table, with the contents of the pages    *)
  dirty,       (* the pages whose PTE has the dirty bit                      *)
  disk,        (* contents of the files                                      *)
  pstate,      (* "running", "exit", or "panic": the kernel has stopped      *)
  clash        (* some mmap has not got all its pages, or ends with a full   *)
               (* page                                                       *)

mapVars == <<mapid_map, spage, dirty, disk, pstate, clash>>

Running == pstate = "running"

(* Owners of a page other than a mapping. *)
Nobody == -1
TheProgram == -2

(* Contents of cells. *)
FileCell(f, i) == <<f, i>>
StoredCell(p, k) == <<"page", p, k>>
ZeroCell == <<"zero">>

NoPage == [owner |-> Nobody, file |-> "none", ofs |-> 0, present |-> "none", data |-> <<>>]

Zeros == [k \in 1..PGSIZE |-> ZeroCell]

ProgramPage == [NoPage EXCEPT !.owner = TheProgram, !.present = "memory", !.data = Zeros]

MapInit ==
  /\ mapid_map = <<>>
  /\ \E own \in Program :
       spage = [p \in UserPage |-> IF p \in own THEN ProgramPage ELSE NoPage]
  /\ \E length \in [MapFile -> MapLength] :
       disk = [f \in MapFile |-> [i \in 1..length[f] |-> FileCell(f, i)]]
  /\ dirty = {} /\ pstate = "running" /\ clash = FALSE

-----------------------------------------------------------------------------
(* Mappings *)

Mapids == 0..MaxMaps - 1

(* create_mapid. *)
NewMapid == Min(Mapids \ DOMAIN mapid_map)

PagesOf(length) == pg_no(pg_round_up(length))

Exists(p) == p \in UserPage /\ spage[p].owner # Nobody

(* The pages that mmap looks at: the address and the offset both advance,  *)
(* and their sum is used.                                                  *)
Checked(first, length) == {first + 2 * i : i \in 0..PagesOf(length) - 1}

(* lazy_load_segment: a page that is in the table stays as it is. *)
lazy_load_segment(m, f, first, length) ==
  [p \in UserPage |->
     IF p \in first..first + PagesOf(length) - 1 /\ ~Exists(p)
     THEN [NoPage EXCEPT !.owner = m, !.file = f, !.ofs = PGSIZE * (p - first),
                         !.present = "filesys"]
     ELSE spage[p]]

(* mmap: the entry is made before the pages are looked at, and stays when  *)
(* the call fails.                                                         *)
mmap(f, first) ==
  LET length == Len(disk[f])
      m == NewMapid
  IN  /\ Running /\ Mapids \ DOMAIN mapid_map # {}
      /\ first + PagesOf(length) - 1 \in UserPage
      /\ mapid_map' = [x \in DOMAIN mapid_map \cup {m} |->
                         IF x = m THEN [file |-> f, first |-> first, length |-> length]
                         ELSE mapid_map[x]]
      /\ spage' = IF \E p \in Checked(first, length) : Exists(p) THEN spage
                  ELSE lazy_load_segment(m, f, first, length)
      /\ clash' = (\/ clash \/ length % PGSIZE = 0
                   \/ \E p \in Checked(first, length) \cup (first..first + PagesOf(length) - 1) : Exists(p))
      /\ UNCHANGED <<dirty, disk, pstate>>

-----------------------------------------------------------------------------
(* What the program and the other processes do to the pages *)

(* Contents of a page, read from the file if that is where it is. *)
Contents(p, d) ==
  IF spage[p].present # "filesys" THEN spage[p].data
  ELSE LET i == spage[p].ofs
           f == d[spage[p].file]
       IN  [k \in 1..PGSIZE |-> IF i + k \in DOMAIN f THEN f[i + k] ELSE ZeroCell]

Absent(p) == spage[p].present # "memory"

(* load_page_into_frame: the fresh PTE of the page is clean. *)
load_page_into_frame(p) ==
  /\ Running /\ Exists(p) /\ Absent(p)
  /\ spage' = [spage EXCEPT ![p].present = "memory", ![p].data = Contents(p, disk)]
  /\ dirty' = dirty \ {p}
  /\ UNCHANGED <<mapid_map, disk, pstate, clash>>

(* The program fills the page, which is loaded first if need be. *)
store(p) ==
  /\ Running /\ Exists(p)
  /\ spage' = [spage EXCEPT ![p].present = "memory",
                            ![p].data = [k \in 1..PGSIZE |-> StoredCell(p, k)]]
  /\ dirty' = dirty \cup {p}
  /\ UNCHANGED <<mapid_map, disk, pstate, clash>>

(* falloc takes the frame: pagedir_clear_page keeps the dirty bit. *)
evict(p) ==
  /\ Running /\ Exists(p) /\ ~Absent(p)
  /\ spage' = [spage EXCEPT ![p].present = "swap"]
  /\ UNCHANGED <<mapid_map, dirty, disk, pstate, clash>>

-----------------------------------------------------------------------------
(* munmap *)

(* Faulty variant: the last page is written whole. *)
WriteCells_all(length, j) == PGSIZE

(* Cells of page number j of a mapping that are written back. *)
WriteCells(length, j) == Min({PGSIZE, length - PGSIZE * j})

(* The pages that the loop of internal_remove_mapid looks at. *)
WritePages(length) == 0..PagesOf(length) - 1

(* The numbers of the pages of an entry whose PTE is dirty, in order. *)
DirtyPages(e) == SetToSortSeq({j \in WritePages(e.length) : e.first + j \in dirty}, <)

(* file_write of n cells at pos. *)
file_write(file, pos, data, n) ==
  [i \in 1..Max({Len(file), pos + n}) |->
     IF i \in pos + 1..pos + n THEN data[i - pos] ELSE file[i]]

(* internal_remove_mapid, first part: the dirty pages are written one      *)
(* after the other from the start of the file.  The files after it.        *)
WriteBack(e) ==
  FoldLeft(LAMBDA d, k :
             LET j == DirtyPages(e)[k]
             IN  [d EXCEPT ![e.file] = file_write(@, PGSIZE * (k - 1), Contents(e.first + j, d),
                                                  WriteCells(e.length, j))],
           disk, [k \in DOMAIN DirtyPages(e) |-> k])

(* Second part: the pages up to and including the one at the end address   *)
(* are freed, whoever they belong to.                                      *)
FreedPages(e) == e.first..e.first + (e.length \div PGSIZE)

(* The whole of it.  A page that is dirty and not in memory is loaded by   *)
(* memcpy; if it is not in the table either, the fault in the kernel is a  *)
(* panic.                                                                  *)
internal_remove_mapid(m) ==
  \E e \in {mapid_map[m]} :
    /\ UNCHANGED clash
    /\ mapid_map' = [x \in DOMAIN mapid_map \ {m} |-> mapid_map[x]]
    /\ LET copied == {e.first + j : j \in Range(DirtyPages(e))}
       IN  IF \A p \in copied : Exists(p)
           THEN /\ disk' = WriteBack(e)
                /\ spage' = [p \in UserPage |-> IF p \in FreedPages(e) THEN NoPage ELSE spage[p]]
                /\ dirty' = dirty \ {p \in copied : Absent(p)}
                /\ UNCHANGED pstate
           ELSE pstate' = "panic" /\ UNCHANGED <<spage, dirty, disk>>

munmap(m) == Running /\ internal_remove_mapid(m)

(* exit: clean_mapids takes the mappings in the order of the hash table.   *)
exit_unmaps ==
  /\ Running
  /\ pstate' = "exit"
  /\ UNCHANGED <<mapid_map, spage, dirty, disk, clash>>

clean_mapids(m) == pstate = "exit" /\ internal_remove_mapid(m)

MapNext ==
  \/ \E f \in MapFile, p \in UserPage : mmap(f, p)
  \/ \E p \in UserPage :
       \/ store(p) \/ load_page_into_frame(p) \/ evict(p)
  \/ \E m \in DOMAIN mapid_map : munmap(m) \/ clean_mapids(m)
  \/ exit_unmaps

-----------------------------------------------------------------------------
(* Properties *)

(* Every variable has its type. *)
MapTypeOK ==
  /\ dirty \subseteq UserPage /\ pstate \in {"running", "exit", "panic"}
  /\ \A m \in DOMAIN mapid_map : m \in Mapids /\ mapid_map[m].file \in MapFile
  /\ \A p \in UserPage : spage[p].owner \in {Nobody, TheProgram} \cup Mapids

(* The pages of an entry are its own, the dirty ones come first, and no    *)
(* page that was stored to has been evicted and loaded again since.        *)
Orderly(m) ==
  LET e == mapid_map[m]
      pages == e.first..e.first + PagesOf(e.length) - 1
  IN  /\ \A p \in pages : spage[p].owner = m
      /\ \A p \in pages \cap dirty : e.first..p \subseteq dirty
      /\ \A p \in pages \ dirty : \A k \in DOMAIN spage[p].data : spage[p].data[k] # StoredCell(p, k)

(* Taking away an orderly mapping, by munmap or at exit, puts every store  *)
(* of the program where it belongs in the file, and leaves the rest of     *)
(* this and of every other file as it was (internal_remove_mapid).         *)
UnmapSaves ==
  [][\A m \in DOMAIN mapid_map :
       m \notin DOMAIN mapid_map' /\ Orderly(m) =>
         LET e == mapid_map[m]
             p(i) == e.first + ((i - 1) \div PGSIZE)
             k(i) == ((i - 1) % PGSIZE) + 1
         IN  /\ \A f \in MapFile \ {e.file} : disk'[f] = disk[f]
             /\ Len(disk'[e.file]) = Len(disk[e.file])
             /\ \A i \in 1..e.length :
                  disk'[e.file][i] = IF p(i) \in dirty THEN Contents(p(i), disk)[k(i)]
                                     ELSE disk[e.file][i]]_mapVars

(* No fault in the kernel: write-back copies a dirty page that is not in   *)
(* the table only after some mmap has clashed with pages in use or ends    *)
(* with a full page, so that munmap takes a page of its neighbour.         *)
KernelSurvives == pstate = "panic" => clash

(* A page that the program stored to keeps its contents until it is        *)
(* unmapped: only munmap and exit take pages away, and those of the entry, *)
(* or the one that follows a mapping that ends with a full page.           *)
PagesKept ==
  [][\A q \in UserPage :
       Exists(q) =>
         \/ spage'[q].owner = spage[q].owner
         \/ \E m \in DOMAIN mapid_map \ DOMAIN mapid_map' :
              LET e == mapid_map[m]
              IN  q \in e.first..e.first + PagesOf(e.length) - (IF e.length % PGSIZE = 0 THEN 0 ELSE 1)]_mapVars

(* A mapping is the program's until it is unmapped, and the file's then:   *)
(* UnmapSaves, PagesKept and KernelSurvives.                               *)
MappingsRight == []MapTypeOK /\ []KernelSurvives /\ UnmapSaves /\ PagesKept
=============================================================================
