------------------------------- MODULE Inode -------------------------------
(***************************************************************************)
(* Inodes, the free map and open files (filesys/inode.c, free-map.c and    *)
(* file.c) on a disk that never loses a write.  Callers hold the file      *)
(* system lock, so an operation is one step.  A directory is seen here     *)
(* only as the set `linked' of the inodes that have a name.                *)
(*                                                                         *)
(* Sizes are parameters: the code has 12 direct blocks, blocks of 128      *)
(* pointers and sectors of 512 bytes.                                      *)
(***************************************************************************)
EXTENDS Integers, Sequences, FiniteSets, FiniteSetsExt, SequencesExt

CONSTANTS
  NumSectors,             (* size of the file system device                  *)
  BLOCK_SECTOR_SIZE,
  INODE_NUM_DBLOCKS,
  INDBLOCK_NUM_CHILDREN,
  UINT_MAX,               (* largest unsigned                                *)
  File,                   (* struct file objects                             *)
  Length,                 (* byte counts callers pass                        *)
  Offset,                 (* offsets they pass                               *)
  MaxCreates,             (* bound of the model on file creations            *)
  NoFile                  (* a struct file that is not allocated             *)

D == INODE_NUM_DBLOCKS
N == INDBLOCK_NUM_CHILDREN
Sector == 0..(NumSectors - 1)
DBLOCK_END_BOUND == D
INDBLOCK_END_BOUND == D + N + 1

ASSUME InodeAssumption ==
  /\ {NumSectors, BLOCK_SECTOR_SIZE, D, N, UINT_MAX} \subseteq Nat \ {0}
  /\ NumSectors > 3 /\ UINT_MAX > 2 * NumSectors + INDBLOCK_END_BOUND
  /\ Length \subseteq Nat /\ Offset \subseteq Nat /\ MaxCreates \in Nat

VARIABLES
  free_map,     (* the sectors marked in the bitmap                          *)
  disk,         (* the contents of every sector                              *)
  open_inodes,  (* struct inode of a sector; open_cnt = 0: not on the list   *)
  file,         (* the open files                                            *)
  linked,       (* inodes with a directory entry                             *)
  created,      (* number of creations so far                                *)
  lost,         (* marked sectors that no inode leads to any more            *)
  halt          (* why the model stops: see HaltKinds                        *)

inodeVars == <<free_map, disk, open_inodes, file, linked, created, lost, halt>>

(* "panic": a failed ASSERT.  "undefined": a read past an allocated block. *)
(* "lostmap": the map no longer marks sectors in use.  "unwritten": a      *)
(* directory entry leads to a sector that was never written.               *)
HaltKinds == {"none", "panic", "undefined", "lostmap", "unwritten"}

-----------------------------------------------------------------------------
(* Contents of a sector *)

Zeros == [kind |-> "data", by |-> 0]
Data(id) == [kind |-> "data", by |-> id]
NoPtrs == [i \in 0..(N - 1) |-> 0]
PtrBlock(p) == [kind |-> "ptrs", ptr |-> p]

(* A new inode; id tells the files that ever existed apart. *)
inode_disk(id) == [kind |-> "inode", id |-> id, length |-> 0,
                   dblocks |-> [i \in 0..(D - 1) |-> 0],
                   indblock |-> 0, doubly_indblock |-> 0]

(* The pointers in sector s (what another kind of sector would give is     *)
(* never used).                                                            *)
Ptrs(dk, s) == IF dk[s].kind = "ptrs" THEN dk[s].ptr ELSE NoPtrs

(* cache_write_partial of the pointers ps into sector s at index ofs. *)
PutPtrs(dk, s, ofs, ps) ==
  PtrBlock([i \in 0..(N - 1) |-> IF i \in ofs..(ofs + Len(ps) - 1)
                                 THEN ps[i - ofs + 1] ELSE Ptrs(dk, s)[i]])

-----------------------------------------------------------------------------
(* Sizes and addresses *)

DIV_ROUND_UP(a, b) == (a + b - 1) \div b

bytes_to_data_sectors(size) == DIV_ROUND_UP(size, BLOCK_SECTOR_SIZE)

bytes_to_indirect_sectors(size) ==
  LET left == bytes_to_data_sectors(size)
  IN  IF left <= D THEN 0
      ELSE IF left - D <= N THEN 1
      ELSE 2 + DIV_ROUND_UP(left - D - N, N)

bytes_to_sectors(size) ==
  bytes_to_data_sectors(size) + bytes_to_indirect_sectors(size)

(* Faulty variant: one level of the doubly indirect block is skipped. *)
byte_to_sector_flat(dk, ino, i) ==
  IF i < D THEN ino.dblocks[i]
  ELSE IF i - D < N THEN Ptrs(dk, ino.indblock)[i - D]
  ELSE Ptrs(dk, ino.doubly_indblock)[(i - D - N) % N]

(* The sector of the i-th BLOCK_SECTOR_SIZE bytes. *)
byte_to_sector(dk, ino, i) ==
  IF i < D THEN ino.dblocks[i]
  ELSE IF i - D < N THEN Ptrs(dk, ino.indblock)[i - D]
  ELSE Ptrs(dk, Ptrs(dk, ino.doubly_indblock)[(i - D - N) \div N])[(i - D - N) % N]

-----------------------------------------------------------------------------
(* The free map *)

(* The n lowest free sectors, in order. *)
FirstFree(fm, n) ==
  LET free(s) == s \notin fm
  IN  SubSeq(SelectSeq([k \in 1..NumSectors |-> k - 1], free), 1, n)

Marked(fm, sectorp) == fm \cup Range(sectorp)

(* free_map_allocate: the sectors found, the map afterwards.  On failure   *)
(* the bits 0 to allocated - 1 are reset, not the bits of what was taken.  *)
free_map_allocate(fm, cnt) ==
  LET allocated == Min({cnt, Cardinality(Sector \ fm)})
      sectorp   == FirstFree(fm, allocated)
      marked    == Marked(fm, sectorp)
  IN  [ok |-> allocated = cnt, sectorp |-> sectorp,
       map |-> IF allocated = cnt THEN marked ELSE marked \ 0..(allocated - 1),
       halt |-> IF allocated # cnt /\ allocated > 0 THEN "lostmap" ELSE "none"]

-----------------------------------------------------------------------------
(* Growing an inode *)

(* What inode_disk_extend writes where.  At the direct, indirect and       *)
(* doubly indirect level, ofs is the first index and w the number of data  *)
(* sectors; secs is first the data sectors, then the indirect ones, of     *)
(* which `rest' is left for the children of the doubly indirect block.     *)
inode_disk_extend_layout(ino, new_length, secs) ==
  LET data0 == bytes_to_data_sectors(new_length) - bytes_to_data_sectors(ino.length)
      ofs0  == bytes_to_data_sectors(ino.length)
      w0    == IF ofs0 >= D THEN 0 ELSE Min({data0, D - ofs0})
      ofs1  == IF ofs0 >= D THEN ofs0 - D ELSE 0
      w1    == IF ofs1 >= N THEN 0 ELSE Min({data0 - w0, N})
      ofs2  == IF ofs1 >= N THEN ofs1 - N ELSE 0
      w2    == data0 - w0 - w1
      newi  == data0 > w0 /\ ofs1 = 0
      newd  == w2 > 0 /\ ofs2 = 0
      taken == data0 + (IF newi THEN 1 ELSE 0) + (IF newd THEN 1 ELSE 0)
  IN  [ofs0 |-> ofs0, w0 |-> w0, ofs1 |-> ofs1, w1 |-> w1, ofs2 |-> ofs2, w2 |-> w2,
       indblock |-> IF newi THEN secs[data0 + 1] ELSE ino.indblock,
       doubly_indblock |-> IF newd THEN secs[taken] ELSE ino.doubly_indblock,
       rest |-> SubSeq(secs, taken + 1, Len(secs))]

(* The index in the c-th child written of the doubly indirect block at     *)
(* which its new pointers start.                                           *)
ChildOfs(lay, c) == IF c = 0 THEN lay.ofs2 % N ELSE 0

(* The sectors of the children of the doubly indirect block that are       *)
(* written: the first one may exist already.                               *)
Children(dk, lay) ==
  LET n   == DIV_ROUND_UP(lay.w2, N)
      old == IF lay.ofs2 % N = 0 THEN 0 ELSE 1
  IN  [c \in 0..(n - 1) |->
         IF c < old THEN Ptrs(dk, lay.doubly_indblock)[lay.ofs2 \div N]
         ELSE lay.rest[c - old + 1]]

(* cache_write_partial refuses to write past the end of a block; as many   *)
(* pointers are written into a partly filled block as into an empty one.   *)
ExtendPanics(lay) ==
  \/ lay.w1 > 0 /\ lay.ofs1 + lay.w1 > N
  \/ lay.w2 > 0 /\ (lay.ofs2 % N) + Min({lay.w2, N}) > N

(* Faulty variant: a new sector keeps what is on the disk. *)
Cleared_kept(old) == old

(* What a new data sector holds. *)
Cleared(old) == Zeros

(* The disk after the new sectors are filled with zeros and the pointer    *)
(* blocks written.                                                         *)
ExtendedDisk(dk, lay, secs) ==
  LET data     == lay.w0 + lay.w1 + lay.w2
      children == Children(dk, lay)
      n        == DIV_ROUND_UP(lay.w2, N)
      base     == lay.w0 + lay.w1
      fresh    == {secs[k] : k \in 1..data}
  IN  [s \in Sector |->
         IF s \in fresh THEN Cleared(dk[s])
         ELSE IF lay.w1 > 0 /\ s = lay.indblock
           THEN PutPtrs(dk, s, lay.ofs1, SubSeq(secs, lay.w0 + 1, base))
         ELSE IF lay.w2 > 0 /\ s = lay.doubly_indblock
           THEN PutPtrs(dk, s, lay.ofs2 \div N, [k \in 1..n |-> children[k - 1]])
         ELSE IF \E c \in DOMAIN children : children[c] = s
           THEN LET c == CHOOSE c \in DOMAIN children : children[c] = s
                IN  PutPtrs(dk, s, ChildOfs(lay, c),
                            SubSeq(secs, base + c * N + 1, Min({base + (c + 1) * N, data})))
         ELSE dk[s]]

(* inode_disk_extend on an inode in memory: the inode, the disk and the    *)
(* map afterwards.  mem says whether malloc succeeds.  Also after a        *)
(* failure the inode in memory has the new length.                         *)
inode_disk_extend(ino, new_length, dk, fm, mem) ==
  LET longer == [ino EXCEPT !.length = new_length]
      cnt    == bytes_to_sectors(new_length) - bytes_to_sectors(ino.length)
      alloc  == free_map_allocate(fm, cnt)
      secs   == alloc.sectorp
      lay    == inode_disk_extend_layout(ino, new_length, secs)
      result(ok, i, d, m, h) == [ok |-> ok, ino |-> i, disk |-> d, map |-> m, halt |-> h]
  IN  CASE new_length < ino.length -> result(FALSE, ino, dk, fm, "none")
        [] new_length >= ino.length /\ cnt = 0 -> result(TRUE, longer, dk, fm, "none")
        [] new_length >= ino.length /\ cnt > 0 /\ ~mem ->
             result(FALSE, longer, dk, fm, "none")
        [] new_length >= ino.length /\ cnt > 0 /\ mem /\ ~alloc.ok ->
             result(FALSE, longer, dk, alloc.map, alloc.halt)
        [] OTHER ->
             IF ExtendPanics(lay) THEN result(FALSE, longer, dk, alloc.map, "panic")
             ELSE result(TRUE,
                    [longer EXCEPT
                       !.dblocks = [i \in 0..(D - 1) |->
                                      IF i \in lay.ofs0..(lay.ofs0 + lay.w0 - 1)
                                      THEN secs[i - lay.ofs0 + 1] ELSE @[i]],
                       !.indblock = lay.indblock,
                       !.doubly_indblock = lay.doubly_indblock],
                    ExtendedDisk(dk, lay, secs), alloc.map, "none")

-----------------------------------------------------------------------------
(* Freeing an inode *)

unsigned(n) == n % (UINT_MAX + 1)

(* Faulty variant: the last direct block is forgotten. *)
dblocks_to_free_short(total) == Min({total, DBLOCK_END_BOUND - 1})

dblocks_to_free(total) == Min({total, DBLOCK_END_BOUND})

(* inode_disk_free: the sectors it releases.  sectors_left counts down     *)
(* with every sector released and once more, by the size of the level,     *)
(* after each level.  The loop over the doubly indirect block releases its *)
(* first child in every round, and free_map_release asserts that a sector  *)
(* is still marked.                                                        *)
inode_disk_free(dk, ino) ==
  LET total  == bytes_to_sectors(ino.length)
      d      == dblocks_to_free(total)
      direct == {ino.dblocks[i] : i \in 0..(d - 1)}
      left1  == unsigned(total - d - DBLOCK_END_BOUND)
      left2  == unsigned(left1 - 1)
      k      == Min({left2, INDBLOCK_END_BOUND})
      ind    == {ino.indblock} \cup
                {Ptrs(dk, ino.indblock)[i] : i \in 0..(Min({k, N}) - 1)}
      left3  == unsigned(left2 - k - INDBLOCK_END_BOUND)
      left4  == unsigned(left3 - 1)
      child  == Ptrs(dk, ino.doubly_indblock)[0]
      j      == Min({left4 - 1, N})
      nested == {child} \cup {Ptrs(dk, child)[i] : i \in 0..(j - 1)}
      result(S, h) == [freed |-> S, halt |-> h]
  IN  IF left1 = 0 \/ left1 > UINT_MAX \div 2 THEN result(direct, "none")
      ELSE IF k > N THEN result(direct \cup ind, "undefined")
      ELSE IF left3 = 0 THEN result(direct \cup ind, "none")
      ELSE IF left4 = 0 THEN result(direct \cup ind \cup {ino.doubly_indblock}, "none")
      ELSE IF left4 - 1 - j = 0
        THEN result(direct \cup ind \cup {ino.doubly_indblock} \cup nested, "none")
      ELSE result({}, "panic")

-----------------------------------------------------------------------------
(* The sectors an inode leads to *)

DataOf(dk, ino) ==
  {byte_to_sector(dk, ino, i) : i \in 0..(bytes_to_data_sectors(ino.length) - 1)}

IndirectOf(dk, ino) ==
  LET n == bytes_to_indirect_sectors(ino.length)
  IN  (IF n > 0 THEN {ino.indblock} ELSE {}) \cup
      (IF n > 1 THEN {ino.doubly_indblock} ELSE {}) \cup
      {Ptrs(dk, ino.doubly_indblock)[c] : c \in 0..(n - 3)}

Owned(dk, s) == {s} \cup DataOf(dk, dk[s]) \cup IndirectOf(dk, dk[s])

(* The inodes of the free map and of the root directory and their data. *)
FREE_MAP_SECTOR == 0
ROOT_DIR_SECTOR == 1
Reserved == 0..3

Live == linked \cup {s \in Sector : open_inodes[s].open_cnt > 0}

-----------------------------------------------------------------------------
(* Operations *)

Closed == [open_cnt |-> 0, removed |-> FALSE, deny_write_cnt |-> 0]

(* A formatted file system without files. *)
InodeInit ==
  LET one(s) == [inode_disk(0) EXCEPT !.length = 1, !.dblocks[0] = s]
  IN  /\ free_map = Reserved
      /\ disk = [s \in Sector |-> IF s = FREE_MAP_SECTOR THEN one(2)
                                  ELSE IF s = ROOT_DIR_SECTOR THEN one(3)
                                  ELSE Zeros]
      /\ open_inodes = [s \in Sector |-> Closed]
      /\ file = [f \in File |-> NoFile]
      /\ linked = {} /\ created = 0 /\ lost = {}
      /\ halt = "none"

(* filesys_create with inode_create, which reports success also when       *)
(* inode_disk_extend failed; named: dir_add succeeds.  When it does not,   *)
(* only the inode's own sector is released.                                *)
inode_create(len, mem, named) ==
  /\ created < MaxCreates
  /\ \E alloc \in {free_map_allocate(free_map, 1)} :
     /\ alloc.ok
     /\ \E ext \in {inode_disk_extend(inode_disk(created + 1), len, disk, alloc.map, mem)} :
        LET sector == alloc.sectorp[1]
        IN  /\ disk' = IF ext.ok THEN [ext.disk EXCEPT ![sector] = ext.ino] ELSE ext.disk
            /\ \/ /\ named
                  /\ linked' = linked \cup {sector}
                  /\ free_map' = ext.map
                  /\ halt' = IF ext.halt = "none" /\ ~ext.ok THEN "unwritten" ELSE ext.halt
                  /\ UNCHANGED lost
               \/ /\ ~named
                  /\ free_map' = ext.map \ {sector}
                  /\ lost' = lost \cup (ext.map \ alloc.map)
                  /\ halt' = ext.halt
                  /\ UNCHANGED linked
  /\ created' = created + 1
  /\ UNCHANGED <<open_inodes, file>>

(* inode_open and inode_reopen. *)
inode_open(s) == open_inodes' = [open_inodes EXCEPT ![s].open_cnt = @ + 1]

file_open(f, s) ==
  /\ file[f] = NoFile
  /\ s \in linked
  /\ inode_open(s)
  /\ file' = [file EXCEPT ![f] = [inode |-> s, deny_write |-> FALSE]]
  /\ UNCHANGED <<free_map, disk, linked, created, lost, halt>>

file_reopen(f, g) ==
  /\ file[f] = NoFile /\ file[g] # NoFile
  /\ inode_open(file[g].inode)
  /\ file' = [file EXCEPT ![f] = [inode |-> file[g].inode, deny_write |-> FALSE]]
  /\ UNCHANGED <<free_map, disk, linked, created, lost, halt>>

(* inode_close on struct inode `in' of sector s: the last opener of a      *)
(* removed inode frees its sectors.                                        *)
inode_close(s, in) ==
  LET last  == in.open_cnt = 1
      frees == last /\ in.removed
      free  == inode_disk_free(disk, disk[s])
      freed == {s} \cup free.freed
  IN  /\ open_inodes' = [open_inodes EXCEPT ![s] =
                           IF last THEN Closed ELSE [in EXCEPT !.open_cnt = @ - 1]]
      /\ free_map' = IF frees THEN free_map \ freed ELSE free_map
      /\ lost' = IF frees THEN lost \cup (Owned(disk, s) \ freed) ELSE lost
      /\ halt' = IF ~frees THEN halt
                 ELSE IF ~(freed \subseteq free_map) THEN "panic" ELSE free.halt

file_allow_write(in, f) ==
  IF file[f].deny_write THEN [in EXCEPT !.deny_write_cnt = @ - 1] ELSE in

file_close(f) ==
  /\ file[f] # NoFile
  /\ LET s == file[f].inode
     IN  inode_close(s, file_allow_write(open_inodes[s], f))
  /\ file' = [file EXCEPT ![f] = NoFile]
  /\ UNCHANGED <<disk, linked, created>>

(* dir_remove of a file: the name goes, the inode with its last opener. *)
inode_remove(s) ==
  /\ s \in linked
  /\ linked' = linked \ {s}
  /\ inode_close(s, [open_inodes[s] EXCEPT !.open_cnt = @ + 1, !.removed = TRUE])
  /\ UNCHANGED <<disk, file, created>>

file_deny_write(f) ==
  /\ file[f] # NoFile /\ ~file[f].deny_write
  /\ file' = [file EXCEPT ![f].deny_write = TRUE]
  /\ LET s == file[f].inode
         n == open_inodes[s].deny_write_cnt + 1
     IN  /\ open_inodes' = [open_inodes EXCEPT ![s].deny_write_cnt = n]
         /\ halt' = IF n <= open_inodes[s].open_cnt THEN halt ELSE "panic"
  /\ UNCHANGED <<free_map, disk, linked, created, lost>>

(* Bytes that inode_write_at (and inode_read_at) transfers at offset. *)
Transferred(length, offset, size) == Max({0, Min({size, length - offset})})

(* file_write_at, or file_write after a seek: a file's position is any     *)
(* offset.  The file is extended first, also when size is 0; the loop then *)
(* goes by the length on the disk, so that a failed extension leaves what  *)
(* was there.                                                              *)
inode_write_at(f, size, offset, mem) ==
  /\ file[f] # NoFile
  /\ open_inodes[file[f].inode].deny_write_cnt = 0
  /\ \E ext \in {inode_disk_extend(disk[file[f].inode], offset + size, disk, free_map, mem)} :
     LET s       == file[f].inode
         dk      == IF ext.ok THEN [ext.disk EXCEPT ![s] = ext.ino] ELSE ext.disk
         written == Transferred(dk[s].length, offset, size)
         touched == {byte_to_sector(dk, ext.ino, i) :
                       i \in (offset \div BLOCK_SECTOR_SIZE)..
                             ((offset + written - 1) \div BLOCK_SECTOR_SIZE)}
     IN  /\ disk' = IF written = 0 THEN dk
                    ELSE [x \in Sector |-> IF x \in touched THEN Data(disk[s].id) ELSE dk[x]]
         /\ free_map' = ext.map
         /\ halt' = ext.halt
  /\ UNCHANGED <<open_inodes, file, linked, created, lost>>

InodeNext ==
  /\ halt = "none"
  /\ \/ \E len \in Length, mem, named \in BOOLEAN : inode_create(len, mem, named)
     \/ \E s \in linked : inode_remove(s)
     \/ \E f \in File :
          \/ \E s \in linked : file_open(f, s)
          \/ \E g \in File : file_reopen(f, g)
          \/ file_close(f)
          \/ file_deny_write(f)
          \/ \E size \in Length, offset \in Offset, mem \in BOOLEAN :
               inode_write_at(f, size, offset, mem)

-----------------------------------------------------------------------------
(* Properties *)

(* Every variable has its type. *)
InodeTypeOK ==
  /\ free_map \subseteq Sector /\ linked \subseteq Sector /\ lost \subseteq Sector
  /\ \A s \in Sector : disk[s].kind \in {"inode", "ptrs", "data"}
  /\ open_inodes \in [Sector -> [open_cnt : Nat, removed : BOOLEAN, deny_write_cnt : Nat]]
  /\ \A f \in File : file[f] = NoFile \/
       file[f] \in [inode : Sector, deny_write : BOOLEAN]
  /\ created \in 0..MaxCreates
  /\ halt \in HaltKinds

(* Through any number of creations, extensions at every level, removals    *)
(* and reallocations, a sector belongs to one file, to one place in it,    *)
(* and is marked in the free map.                                          *)
OneOwner ==
  halt = "none" =>
    LET owned == UNION {Owned(disk, s) : s \in Live}
    IN  /\ Cardinality(owned) = MapThenSumSet(LAMBDA s : 1 + bytes_to_sectors(disk[s].length), Live)
        /\ owned \cap Reserved = {}
        /\ owned \subseteq free_map

(* The free map marks nothing but what is reserved, what an inode leads    *)
(* to, and the sectors that were lost on a path that forgets them.         *)
MapAccounts ==
  halt = "none" =>
    free_map = Reserved \cup lost \cup UNION {Owned(disk, s) : s \in Live}

(* A file reads as zeros where it was not written (extension clears every  *)
(* sector it takes): never what a removed file left behind.                *)
ReadsOwn ==
  halt = "none" =>
    \A s \in Live : \A x \in DataOf(disk, disk[s]) :
      disk[x] \in {Zeros, Data(disk[s].id)}

(* open_cnt counts the open files of an inode and deny_write_cnt those of  *)
(* them that deny writes, so that the sectors of a removed file go with    *)
(* its last opener, and inode_deny_write's and inode_allow_write's ASSERTs *)
(* hold.                                                                   *)
RefCounts ==
  halt = "none" =>
    \A s \in Sector :
      LET openers == {f \in File : file[f] # NoFile /\ file[f].inode = s}
      IN  /\ open_inodes[s].open_cnt = Cardinality(openers)
          /\ open_inodes[s].deny_write_cnt =
               Cardinality({f \in openers : file[f].deny_write})
          /\ openers # {} => (s \in linked <=> ~open_inodes[s].removed)

(* While all files fit into their direct blocks no assertion fails and     *)
(* removing a file returns all of its sectors; only a creation that fails  *)
(* to enter the name loses some.                                           *)
SmallFilesSafe ==
  [][(\A s \in Live : bytes_to_data_sectors(disk[s].length) <= D) =>
       /\ halt' \notin {"panic", "undefined"}
       /\ lost' = lost \/ (created' # created /\ linked' = linked)]_inodeVars

(* The free map, the inodes and the table of open inodes agree: OneOwner,  *)
(* MapAccounts and RefCounts.                                              *)
SectorsAccounted == InodeTypeOK /\ OneOwner /\ MapAccounts /\ RefCounts
=============================================================================
