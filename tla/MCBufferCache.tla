--------------------------- MODULE MCBufferCache ---------------------------
(***************************************************************************)
(* BufferCache for TLC.  `part' is a client that has the cache for itself, *)
(* without write-behind and read-ahead, or "shared": all run, on sectors   *)
(* that hold one of fewer values, for fewer ticks, and write to fewer.     *)
(***************************************************************************)
EXTENDS BufferCache, TLC

CONSTANTS c1, c2, r1, Parts, SharedData, SharedWrites, SharedTick

VARIABLE part

MCTwo == {c1, c2}
MCClients == Permutations(MCTwo)
MCParts == MCTwo \cup {"shared"}

MCInit ==
  /\ Init
  /\ part \in Parts
  /\ \A c \in Client \ {part} : buffer[c] \in SharedData
  /\ part = "shared" => disk \in [Sector -> SharedData]

Alone ==
  /\ \A t \in Thread \ {part} : pc'[t] = pc[t]
  /\ pc'[part] # "spawn"

Shared ==
  /\ ticks' <= SharedTick
  /\ \A c \in Client : request'[c] # NULL /\ request'[c].kind = "write" =>
                         request'[c].data \in SharedData /\ request'[c].sector \in SharedWrites

MCNext ==
  /\ Next
  /\ IF part = "shared" THEN Shared ELSE Alone
  /\ UNCHANGED part

MCSpec == MCInit /\ [][MCNext]_<<vars, part>>

(* A client by itself finds in the cache the disk it stands for: a read    *)
(* brings what was last written to the sector, across any number of        *)
(* evictions and refills.                                                  *)
IsFlatDisk ==
  /\ part \in Client => Flat!Init
  /\ [][(part \in Client) => Flat!Next]_(Flat!vars)
=============================================================================
