------------------------------ MODULE MCPaging ------------------------------
(* Instance of Paging for TLC. *)
EXTENDS Paging
CONSTANTS p1, p2
PagesUsed == {<<p1, 2>>, <<p2, 0>>}
FairSpec == PagingSpec /\ \A p \in Proc : Fairness(p)
=============================================================================
