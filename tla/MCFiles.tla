------------------------------ MODULE MCFiles ------------------------------
(***************************************************************************)
(* The file system for TLC: `part' says which of the two models a          *)
(* behaviour is of, inodes over the free map or directories.               *)
(***************************************************************************)
EXTENDS Inode, Directory, TLC

VARIABLE part

MCPath ==
  LET path(a, c) == [abs |-> a, comps |-> c]
  IN  {path(TRUE, <<>>), path(FALSE, <<"a">>), path(FALSE, <<"..">>),
       path(TRUE, <<"a", "b">>), path(TRUE, <<"a", ".">>)}

(* Processes are alike, and so are the objects of open files. *)
MCAlike == Permutations(Proc) \cup Permutations(File)

Init == part \in {"inodes", "directories"} /\ InodeInit /\ DirInit

Next ==
  \/ part = "inodes" /\ InodeNext /\ UNCHANGED <<dirVars, part>>
  \/ part = "directories" /\ DirNext /\ UNCHANGED <<inodeVars, part>>

Spec == Init /\ [][Next]_<<inodeVars, dirVars, part>>
=============================================================================
