---------------------------- MODULE Descriptors ----------------------------
(***************************************************************************)
(* The descriptors of one process (userprog/syscall-file.c, the calls in   *)
(* syscall.c and the positions of filesys/file.c).  The calls hold the     *)
(* file system lock, so each is one step.                                  *)
(***************************************************************************)
EXTENDS Integers, FiniteSets, SequencesExt

CONSTANTS
  OpenFile,    (* files, identified with their names                         *)
  Dir,         (* names of directories                                       *)
  MaxFds,      (* bound on the descriptors open at a time                    *)
  Size         (* sizes passed to read and write, and bound on the lengths   *)

ASSUME DescAssumption ==
  MaxFds \in Nat /\ Size \in Nat \ {0} /\ Dir \cap OpenFile = {}

MIN_FD == 2

VARIABLES
  fd_map,      (* list of descriptors: number, what is open, position        *)
  length,      (* lengths of the files                                       *)
  given,       (* the numbers the program holds: what open gave each for     *)
  filled,      (* an open has taken a number below one in use                *)
  dead         (* exit                                                       *)

descVars == <<fd_map, length, given, filled, dead>>

DescInit ==
  /\ fd_map = <<>>
  /\ length = [f \in OpenFile |-> 0]
  /\ given = {} /\ filled = FALSE /\ dead = FALSE

(* get_file_descriptor: the first of the list with the number. *)
get_file_descriptor(fd) == Min({i \in DOMAIN fd_map : fd_map[i].fd = fd})

Fds == {fd_map[i].fd : i \in DOMAIN fd_map}

(* The first element of the list whose number is not the next one, or the  *)
(* position after the end.                                                 *)
Mismatch == Min({i \in DOMAIN fd_map : fd_map[i].fd # MIN_FD + i - 1} \cup {Len(fd_map) + 1})

(* Faulty variant: the last number is taken again. *)
NewFd_low == Max({MIN_FD, MIN_FD + Mismatch - 2})

NewFd == MIN_FD + Mismatch - 1

(* create_fd: the new element goes after the mismatching one. *)
create_fd(x) ==
  fd_map' = InsertAt(fd_map, IF Mismatch <= Len(fd_map) THEN Mismatch + 1 ELSE Mismatch,
                     [fd |-> NewFd, open |-> x, pos |-> 0])

open(x) ==
  /\ ~dead /\ Len(fd_map) < MaxFds
  /\ create_fd(x)
  /\ given' = given \cup {<<NewFd, x>>}
  /\ filled' = (filled \/ Mismatch <= Len(fd_map))
  /\ UNCHANGED <<length, dead>>

(* close, which does not free the struct. *)
close(fd) ==
  LET i == get_file_descriptor(fd)
  IN  /\ ~dead
      /\ fd_map' = RemoveAt(fd_map, i)
      /\ given' = given \ {<<fd, fd_map[i].open>>}
      /\ UNCHANGED <<length, filled, dead>>

(* file_read and file_write, from the position of the descriptor.  Reading *)
(* stops at the end of the file, writing makes it longer.                  *)
file_read(i) == LET left == length[fd_map[i].open] - fd_map[i].pos
                IN  Max({0, Min({Size, left})})

Advance(i, n) == fd_map' = [fd_map EXCEPT ![i].pos = @ + n]

IsFile(i) == fd_map[i].open \in OpenFile

read(fd) ==
  \E i \in {get_file_descriptor(fd)} :
    /\ ~dead /\ IsFile(i)
    /\ Advance(i, file_read(i))
    /\ UNCHANGED <<length, given, filled, dead>>

Longer(old, end) == Max({old, end})

write(fd) ==
  \E i \in {get_file_descriptor(fd)} :
    /\ ~dead /\ IsFile(i) /\ fd_map[i].pos + Size <= 2 * Size
    /\ Advance(i, Size)
    /\ length' = [length EXCEPT ![fd_map[i].open] = Longer(@, fd_map[i].pos + Size)]
    /\ UNCHANGED <<given, filled, dead>>

seek(fd, pos) ==
  \E i \in {get_file_descriptor(fd)} :
    /\ ~dead /\ IsFile(i)
    /\ fd_map' = [fd_map EXCEPT ![i].pos = pos]
    /\ UNCHANGED <<length, given, filled, dead>>

(* inumber and the other calls that only report do not change the state.   *)
(* exit: clean_fds.                                                        *)
clean_fds ==
  /\ ~dead
  /\ fd_map' = <<>> /\ given' = {} /\ dead' = TRUE
  /\ UNCHANGED <<length, filled>>

DescNext ==
  \/ \E x \in OpenFile \cup Dir : open(x)
  \/ \E fd \in Fds : close(fd) \/ read(fd) \/ write(fd) \/ seek(fd, 0)
  \/ clean_fds

-----------------------------------------------------------------------------
(* Properties *)

(* A number stands for the file that open gave it for, as long as no open  *)
(* has taken a number below one in use: from then on create_fd may give a  *)
(* number out again that is in use.                                        *)
FdStands ==
  ~filled =>
    /\ \A g \in given : fd_map[get_file_descriptor(g[1])].open = g[2]
    /\ Cardinality(given) = Len(fd_map)

(* A program that seeks only inside its files has no position past the end *)
(* of one: read stops at the end, whoever has written the file, and write  *)
(* makes the file as long as it must be (file_read, file_write).           *)
PositionsInside ==
  \A i \in DOMAIN fd_map : IsFile(i) => fd_map[i].pos <= length[fd_map[i].open]

(* A descriptor stands for its file, at a position in it. *)
DescriptorsRight == FdStands /\ PositionsInside
=============================================================================
