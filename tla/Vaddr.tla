------------------------------- MODULE Vaddr -------------------------------
(***************************************************************************)
(* Pages of user addresses (threads/vaddr.h).                              *)
(***************************************************************************)
EXTENDS Integers

CONSTANT PGSIZE

ASSUME VaddrAssumption == PGSIZE \in Nat \ {0}

pg_ofs(a) == a % PGSIZE
pg_no(a) == a \div PGSIZE
pg_round_up(n) == PGSIZE * ((n + PGSIZE - 1) \div PGSIZE)
pg_round_down(a) == a - pg_ofs(a)
=============================================================================
