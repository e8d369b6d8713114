----------------------------- MODULE Directory -----------------------------
(***************************************************************************)
(* Directories, path names and open counts (filesys/directory.c,           *)
(* filesys.c, and the current directories of userprog/process.c and        *)
(* syscall.c).  System calls hold the file system lock and are one step;   *)
(* chdir and exit do not hold it, and chdir is two steps.  The disk is     *)
(* large enough: what happens when it is full is part of module Inode.     *)
(***************************************************************************)
EXTENDS Integers, Sequences, FiniteSets, FiniteSetsExt, SequencesExt

CONSTANTS
  Inumber,      (* sectors of inodes; the lowest is ROOT_DIR_SECTOR          *)
  Name,         (* names of files and directories                            *)
  Path,         (* path names: [abs : BOOLEAN, comps : Seq(...)]             *)
  Proc,         (* user processes                                            *)
  Fd,           (* descriptors, of all processes                             *)
  MaxLost       (* bound of the model on opens of an inode never closed      *)

Root == Min(Inumber)
NULL == 0           (* no directory                                          *)
CLOSED == -1        (* the directory of a process that has exited: freed     *)

ASSUME DirAssumption ==
  /\ Inumber \subseteq Nat \ {0} /\ IsFiniteSet(Inumber) /\ Inumber # {}
  /\ \A x \in Path : x.abs \in BOOLEAN /\ Range(x.comps) \subseteq Name \cup {".", ".."}
  /\ Name \cap {".", ".."} = {} /\ MaxLost \in Nat

VARIABLES
  inode,     (* of each sector: the inode, on disk and in memory             *)
  cwd,       (* p->dir                                                       *)
  fd,        (* what a descriptor has open, NULL or an inode; dir->pos       *)
  chdir,     (* the directory that a chdir has opened and not yet installed  *)
  dhalt      (* why the model stops                                          *)

dirVars == <<inode, cwd, fd, chdir, dhalt>>

(* "freed": a struct inode or struct dir is used after it was freed.       *)
(* "dot": a directory was removed through its own "." and the entry in its *)
(* parent stays.  "stale": chdir installs a directory removed meanwhile.   *)
DirHalt == {"none", "freed", "dot", "stale"}

-----------------------------------------------------------------------------
(* Inodes *)

Unallocated == [used |-> FALSE, is_dir |-> FALSE, removed |-> FALSE,
                open_cnt |-> 0, ents |-> <<>>]

Opened(in, s) == [in EXCEPT ![s].open_cnt = @ + 1]

(* inode_close: the last opener of a removed inode frees its sectors. *)
inode_closed(in, s) ==
  [in EXCEPT ![s] = IF @.open_cnt = 1 /\ @.removed THEN Unallocated
                    ELSE [@ EXCEPT !.open_cnt = @ - 1]]

Free == {s \in Inumber : ~inode[s].used}

-----------------------------------------------------------------------------
(* Directory entries: a slot that is not in use has name "". *)

Unused == [name |-> "", sector |-> NULL]

(* lookup: the slot of name in directory d, 0 if there is none. *)
lookup(in, d, name) ==
  LET S == {k \in DOMAIN in[d].ents : in[d].ents[k].name = name}
  IN  IF S = {} THEN 0 ELSE Min(S)

(* The inode that name leads to, NULL if there is none. *)
Target(in, d, name) ==
  LET k == lookup(in, d, name) IN IF k = 0 THEN NULL ELSE in[d].ents[k].sector

(* The first slot not in use, or the end of the directory. *)
FreeSlot(ents) ==
  LET S == {k \in DOMAIN ents : ents[k] = Unused}
  IN  IF S = {} THEN Len(ents) + 1 ELSE Min(S)

(* The write of an entry in dir_add. *)
WithEntry(in, d, name, s) ==
  [in EXCEPT ![d].ents =
     LET k == FreeSlot(@) e == [name |-> name, sector |-> s]
     IN  IF k > Len(@) THEN Append(@, e) ELSE [@ EXCEPT ![k] = e]]

(* dir_init: it does not close the directory it opens. *)
dir_init(in, s, parent) ==
  WithEntry(WithEntry(Opened(in, s), s, ".", s), s, "..", parent)

(* The slots that dir_readdir_strict returns. *)
Children_of(in, d) ==
  {k \in DOMAIN in[d].ents : in[d].ents[k].name \notin {"", ".", ".."}}

dir_size(in, d) == Cardinality(Children_of(in, d))

-----------------------------------------------------------------------------
(* Path names *)

(* One component of a path: a file in the middle is opened and the walk    *)
(* fails without closing it.                                               *)
parse_name_step(st, name) ==
  LET s == Target(inode, st.dir, name)
  IN  IF ~st.ok THEN st
      ELSE IF s = NULL THEN [st EXCEPT !.ok = FALSE]
      ELSE IF inode[s].is_dir THEN [st EXCEPT !.dir = s]
      ELSE [st EXCEPT !.ok = FALSE, !.leak = s]

(* The directory a relative path starts in; NULL: it was removed. *)
dir_open_current(p) == cwd[p]

(* parse_name: the directory and the last name.  The directories on the    *)
(* way are opened and closed again.                                        *)
parse_name(p, path) ==
  LET start == IF path.abs THEN Root ELSE dir_open_current(p)
      res   == [ok |-> start # NULL /\ (path.abs \/ path.comps # <<>>),
                dir |-> start, leak |-> NULL]
  IN  IF path.comps = <<>> THEN [ok |-> res.ok, dir |-> start, leak |-> NULL, name |-> "."]
      ELSE FoldLeft(parse_name_step, res, Front(path.comps)) @@ [name |-> Last(path.comps)]

(* The state after a parse that failed. *)
ParseFailed(res) ==
  /\ inode' = IF res.leak = NULL THEN inode ELSE Opened(inode, res.leak)
  /\ UNCHANGED <<cwd, fd, chdir, dhalt>>

-----------------------------------------------------------------------------
(* Operations *)

(* do_format: the root directory, opened once by dir_init. *)
DirInit ==
  /\ inode = LET in == [s \in Inumber |-> Unallocated]
             IN  dir_init([in EXCEPT ![Root] = [@ EXCEPT !.used = TRUE, !.is_dir = TRUE]],
                          Root, Root)
  /\ cwd = [p \in Proc |-> NULL]
  /\ fd = [f \in Fd |-> [inode |-> NULL, pos |-> 0]]
  /\ chdir = [p \in Proc |-> NULL]
  /\ dhalt = "none"

(* A process that runs: its directory may be NULL, but is not closed. *)
Runs(p) == cwd[p] # CLOSED /\ chdir[p] = NULL

(* process_execute: the child starts in its parent's directory.  The       *)
(* kernel's threads start a process in the root directory.                 *)
process_execute(p, child) ==
  /\ cwd[child] = NULL /\ chdir[child] = NULL
  /\ LET d == IF p # child /\ cwd[p] \notin {NULL, CLOSED} THEN cwd[p] ELSE Root
     IN  /\ inode' = Opened(inode, d)
         /\ cwd' = [cwd EXCEPT ![child] = d]
  /\ UNCHANGED <<fd, chdir, dhalt>>

(* filesys_create with inode_create and dir_add. *)
filesys_create(p, path, is_dir) ==
  /\ Runs(p) /\ Free # {}
  /\ \E res \in {parse_name(p, path)} :
       \/ ~res.ok /\ ParseFailed(res)
       \/ /\ res.ok
          /\ inode' = IF lookup(inode, res.dir, res.name) # 0 THEN inode
                      ELSE LET s   == Min(Free)
                               new == [inode EXCEPT ![s].used = TRUE, ![s].is_dir = is_dir]
                               add == WithEntry(new, res.dir, res.name, s)
                           IN  IF is_dir THEN dir_init(add, s, res.dir) ELSE add
          /\ UNCHANGED <<cwd, fd, chdir, dhalt>>

(* open: filesys_open, then filesys_open_dir; the first does not close the *)
(* directory that it has opened.                                           *)
fd_open_file(p, f, path) ==
  /\ Runs(p) /\ fd[f].inode = NULL
  /\ \E res \in {parse_name(p, path)} :
       \/ ~res.ok /\ ParseFailed(res)
       \/ /\ res.ok
          /\ \E s \in {Target(inode, res.dir, res.name)} :
               /\ inode' = IF s = NULL THEN inode
                           ELSE IF inode[s].is_dir THEN Opened(Opened(inode, s), s)
                           ELSE Opened(inode, s)
               /\ fd' = [fd EXCEPT ![f].inode = s]
          /\ UNCHANGED <<cwd, chdir, dhalt>>

(* close of a descriptor. *)
fd_close_file(f) ==
  /\ fd[f].inode # NULL
  /\ inode' = inode_closed(inode, fd[f].inode)
  /\ fd' = [fd EXCEPT ![f] = [inode |-> NULL, pos |-> 0]]
  /\ UNCHANGED <<cwd, chdir, dhalt>>

(* The readdir system call: pos moves behind the entry returned. *)
dir_readdir_strict(f) ==
  LET d    == fd[f].inode
      rest == {k \in Children_of(inode, d) : k > fd[f].pos}
  IN  /\ d # NULL /\ inode[d].is_dir
      /\ fd' = [fd EXCEPT ![f].pos = IF rest = {} THEN Len(inode[d].ents) ELSE Min(rest)]
      /\ UNCHANGED <<inode, cwd, chdir, dhalt>>

(* Faulty variant: the directories of the processes are left alone. *)
process_dir_remove_none(s) == cwd

(* process_dir_remove: every process in directory s loses it; the          *)
(* directory is not closed.                                                *)
process_dir_remove(s) == [p \in Proc |-> IF cwd[p] = s THEN NULL ELSE cwd[p]]

(* The entry goes, the inode is marked and closed. *)
Unlinked(in, d, name, s) ==
  inode_closed([in EXCEPT ![d].ents[lookup(in, d, name)] = Unused, ![s].removed = TRUE], s)

NotEmpty(s) == dir_size(inode, s) > 0

(* Nobody has s open but dir_remove itself. *)
OnlyOurs(s) == inode[s].open_cnt = 0

(* dir_remove of a directory: closed once through child_dir and once more  *)
(* at the end.  If nobody else has it open the first close frees it.  The  *)
(* root directory is left open.                                            *)
dir_remove_dir(d, name, s) ==
  \/ /\ s = Root
     /\ inode' = Opened(inode, s) /\ UNCHANGED <<cwd, dhalt>>
  \/ /\ s # Root /\ OnlyOurs(s)
     /\ dhalt' = "freed" /\ UNCHANGED <<inode, cwd>>
  \/ /\ s # Root /\ ~OnlyOurs(s) /\ NotEmpty(s)
     /\ inode' = inode_closed(inode, s) /\ UNCHANGED <<cwd, dhalt>>
  \/ /\ s # Root /\ ~OnlyOurs(s) /\ ~NotEmpty(s)
     /\ inode' = Unlinked(inode, d, name, s)
     /\ cwd' = process_dir_remove(s)
     /\ dhalt' = IF \E p \in Proc : cwd[p] = CLOSED THEN "freed"
                 ELSE IF name = "." THEN "dot" ELSE dhalt

filesys_remove(p, path) ==
  /\ Runs(p)
  /\ \E res \in {parse_name(p, path)} :
       \/ ~res.ok /\ ParseFailed(res)
       \/ /\ res.ok
          /\ \E s \in {Target(inode, res.dir, res.name)} :
               \/ s = NULL /\ UNCHANGED <<inode, cwd, dhalt>>
               \/ s # NULL /\ inode[s].is_dir /\ dir_remove_dir(res.dir, res.name, s)
               \/ /\ s # NULL /\ ~inode[s].is_dir
                  /\ inode' = Unlinked(Opened(inode, s), res.dir, res.name, s)
                  /\ UNCHANGED <<cwd, dhalt>>
          /\ UNCHANGED <<fd, chdir>>

(* chdir, first part: filesys_open_dir, which does not close a file. *)
filesys_open_dir(p, path) ==
  /\ Runs(p)
  /\ \E res \in {parse_name(p, path)} :
       \/ ~res.ok /\ ParseFailed(res)
       \/ /\ res.ok
          /\ \E s \in {Target(inode, res.dir, res.name)} :
               /\ inode' = IF s = NULL THEN inode ELSE Opened(inode, s)
               /\ chdir' = IF s # NULL /\ inode[s].is_dir THEN [chdir EXCEPT ![p] = s]
                           ELSE chdir
          /\ UNCHANGED <<cwd, fd, dhalt>>

(* Faulty variant: the old directory of chdir is closed twice. *)
CloseOld_twice(in, d) == inode_closed(inode_closed(in, d), d)

(* dir_close of the directory a process leaves. *)
CloseOld(in, d) == inode_closed(in, d)

(* chdir, second part: the old directory is closed, the new one installed. *)
chdir_set(p) ==
  /\ chdir[p] # NULL
  /\ inode' = IF cwd[p] = NULL THEN inode ELSE CloseOld(inode, cwd[p])
  /\ cwd' = [cwd EXCEPT ![p] = chdir[p]]
  /\ chdir' = [chdir EXCEPT ![p] = NULL]
  /\ dhalt' = IF inode[chdir[p]].removed THEN "stale" ELSE dhalt
  /\ UNCHANGED fd

(* exit closes the directory and keeps the pointer. *)
exit(p) ==
  /\ Runs(p) /\ cwd[p] # NULL
  /\ inode' = CloseOld(inode, cwd[p])
  /\ cwd' = [cwd EXCEPT ![p] = CLOSED]
  /\ UNCHANGED <<fd, chdir, dhalt>>

(* filesys_done and filesys_init on the same disk: nothing is open, and    *)
(* what was removed but open stays allocated.                              *)
filesys_init ==
  /\ inode' = [s \in Inumber |-> [inode[s] EXCEPT !.open_cnt = 0]]
  /\ cwd' = [p \in Proc |-> NULL]
  /\ fd' = [f \in Fd |-> [inode |-> NULL, pos |-> 0]]
  /\ chdir' = [p \in Proc |-> NULL]
  /\ UNCHANGED dhalt

(* How often an inode is referred to, and what its count has above that:   *)
(* opens that no one closes any more.                                      *)
Refs(s) ==
  Cardinality({p \in Proc : cwd[p] = s}) + Cardinality({p \in Proc : chdir[p] = s})
    + Cardinality({f \in Fd : fd[f].inode = s})

Surplus(s) == inode[s].open_cnt - Refs(s)

DirNext ==
  /\ dhalt = "none"
  /\ \A s \in Inumber : Surplus(s) \in 0..MaxLost
  /\ \/ \E p \in Proc :
          \/ \E c \in Proc : process_execute(p, c)
          \/ \E x \in Path :
               \/ \E is_dir \in BOOLEAN : filesys_create(p, x, is_dir)
               \/ \E f \in Fd : fd_open_file(p, f, x)
               \/ filesys_remove(p, x)
               \/ filesys_open_dir(p, x)
          \/ chdir_set(p)
          \/ exit(p)
     \/ \E f \in Fd : fd_close_file(f) \/ dir_readdir_strict(f)
     \/ filesys_init

-----------------------------------------------------------------------------
(* Properties *)

(* Every variable has its type. *)
DirTypeOK ==
  /\ \A s \in Inumber :
       /\ inode[s].used \in BOOLEAN /\ inode[s].is_dir \in BOOLEAN
       /\ inode[s].removed \in BOOLEAN /\ inode[s].open_cnt \in Nat
       /\ \A k \in DOMAIN inode[s].ents :
            inode[s].ents[k] \in [name : Name \cup {"", ".", ".."}, sector : Inumber \cup {NULL}]
  /\ cwd \in [Proc -> Inumber \cup {NULL, CLOSED}]
  /\ chdir \in [Proc -> Inumber \cup {NULL}]
  /\ fd \in [Fd -> [inode : Inumber \cup {NULL}, pos : Nat]]
  /\ dhalt \in DirHalt

(* Through creations, removals and reuse of slots and inodes by several    *)
(* processes the directories are a tree: names are unique in a directory,  *)
(* every inode that is not removed has exactly one entry, in a directory   *)
(* that is not removed (a process that was in one has lost it), and "."    *)
(* and ".." lead to the directory and its parent.  dir_add and dir_remove  *)
(* keep it so, except for the removal of ".".                              *)
DirTree ==
  dhalt = "none" =>
    LET live == {s \in Inumber : inode[s].used /\ ~inode[s].removed}
        link(s) == {x \in (live \X (1..(2 + Cardinality(Name)))) :
                      /\ inode[x[1]].is_dir
                      /\ x[2] \in Children_of(inode, x[1])
                      /\ inode[x[1]].ents[x[2]].sector = s}
    IN  /\ \A s \in Inumber \ {Root} : Cardinality(link(s)) = IF s \in live THEN 1 ELSE 0
        /\ link(Root) = {} /\ Root \in live
        /\ \A s \in live : inode[s].is_dir =>
             /\ Target(inode, s, ".") = s
             /\ s # Root => \E x \in link(s) : Target(inode, s, "..") = x[1]
             /\ IsInjective([k \in Children_of(inode, s) |-> inode[s].ents[k].name])

(* Whoever has a file open, or a directory that no one has tried to remove *)
(* since it was made, has it counted: no step but the removal of a         *)
(* directory takes an open away from others, so nothing is freed under a   *)
(* descriptor or a current directory.                                      *)
CountsKept ==
  [][\A s \in Inumber :
       Surplus(s)' < Surplus(s) =>
         \/ filesys_init
         \/ inode[s].is_dir /\ (\E p \in Proc, x \in Path : filesys_remove(p, x))]_dirVars

(* The last one that has a removed inode open frees it: only a restart     *)
(* leaves one behind that nobody has open (inode_close).                   *)
RemovedGoes ==
  [][\A s \in Inumber :
       inode'[s].removed /\ inode'[s].open_cnt = 0 =>
         inode[s] = inode'[s] \/ filesys_init]_dirVars

(* The directories are well-formed and make a tree. *)
DirsRight == DirTypeOK /\ DirTree

(* What is open stays, and what is removed and not open goes. *)
OpensKept == CountsKept /\ RemovedGoes
=============================================================================
