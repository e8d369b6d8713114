---------------------------- MODULE MCProcesses ----------------------------
(***************************************************************************)
(* User processes for TLC: `part' says which of the models a behaviour is  *)
(* of.                                                                     *)
(***************************************************************************)
EXTENDS Process, Descriptors, Mappings, Loader

VARIABLE part

vars == <<processVars, descVars, mapVars, loaderVars, part>>

MCCommand == {<<a>> : a \in 1..4} \cup {<<a, b>> : a, b \in 1..4} \cup {<<1, 2, 3>>}

Phdr == [type : {"PT_LOAD"}, offset : {0, 1, 5, 8}, vaddr : {1, 2, 3, 5, 9, 43},
         filesz : {0, 1, 3, 6}, memsz : {0, 1, 3, 6, 50, 60}]

Ignored == [type |-> "other", offset |-> 0, vaddr |-> 0, filesz |-> 0, memsz |-> 0]
Dynamic == [Ignored EXCEPT !.type = "PT_DYNAMIC"]
Text == [type |-> "PT_LOAD", offset |-> 8, vaddr |-> 8, filesz |-> 4, memsz |-> 4]

MCPrograms ==
       {[phdrs |-> <<x, ph>>, args |-> <<1>>] : x \in {Ignored, Text}, ph \in Phdr \cup {Dynamic}}
  \cup {[phdrs |-> <<>>, args |-> c] : c \in MCCommand}

Init ==
  /\ part \in {"process", "descriptors", "mappings", "loader"}
  /\ ProcessInit /\ DescInit /\ MapInit /\ LoaderInit
  /\ part # "mappings" => (\A f \in MapFile : Len(disk[f]) = 3) /\ ~\E p \in UserPage : Exists(p)
  /\ part # "loader" => phdrs = <<>> /\ args = <<1>>

ProcessStep(A) == part = "process" /\ A /\ UNCHANGED <<descVars, mapVars, loaderVars, part>>

(* Bound: a file that has been written back to is not mapped again. *)
OnceMapped ==
  \A m \in DOMAIN mapid_map' \ DOMAIN mapid_map :
    LET f == mapid_map'[m].file IN \A i \in DOMAIN disk[f] : disk[f][i] = FileCell(f, i)

Next ==
  \/ ProcessStep(ProcessNext)
  \/ part = "descriptors" /\ DescNext /\ UNCHANGED <<processVars, mapVars, loaderVars, part>>
  \/ part = "mappings" /\ MapNext /\ OnceMapped /\ UNCHANGED <<processVars, descVars, loaderVars, part>>
  \/ part = "loader" /\ LoaderNext /\ UNCHANGED <<processVars, descVars, mapVars, part>>

(* Every thread goes on with what it has to do by itself. *)
Fairness == \A t \in Thread : WF_vars(ProcessStep(phalt = "none" /\ Steps(t)))

Spec == Init /\ [][Next]_vars /\ Fairness
=============================================================================
