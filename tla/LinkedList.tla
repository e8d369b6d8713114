---------------------------- MODULE LinkedList -----------------------------
(***************************************************************************)
(* The doubly linked lists of lib/kernel/list.c: operations on the prev    *)
(* and next members of list elements.  A heap holds both members of every  *)
(* node; a list has a head and a tail node, and what a removed element     *)
(* points to stays as it was.  k gives the values that LESS compares.      *)
(***************************************************************************)
EXTENDS Integers, SequencesExt

NULL == <<"null", 0>>
list_head(l) == <<"head", l>>
list_end(l) == <<"tail", l>>
Node(e) == <<"elem", e>>

Nodes(lists, elems) == {list_head(l) : l \in lists} \cup {list_end(l) : l \in lists} \cup {Node(e) : e \in elems}

less(k, x, y) == k[x[2]] < k[y[2]]

Unlinked(nodes) == [prev |-> [n \in nodes |-> NULL], next |-> [n \in nodes |-> NULL]]

list_init(m, l) ==
  [prev |-> [m.prev EXCEPT ![list_head(l)] = NULL, ![list_end(l)] = list_head(l)],
   next |-> [m.next EXCEPT ![list_head(l)] = list_end(l), ![list_end(l)] = NULL]]

list_begin(m, l) == m.next[list_head(l)]
list_rbegin(m, l) == m.prev[list_end(l)]
list_empty(m, l) == list_begin(m, l) = list_end(l)

list_insert(m, before, elem) ==
  [prev |-> [m.prev EXCEPT ![elem] = m.prev[before], ![before] = elem],
   next |-> [m.next EXCEPT ![elem] = before, ![m.prev[before]] = elem]]

list_push_front(m, l, elem) == list_insert(m, list_begin(m, l), elem)
list_push_back(m, l, elem) == list_insert(m, list_end(l), elem)

list_remove(m, elem) ==
  [prev |-> [m.prev EXCEPT ![m.next[elem]] = m.prev[elem]],
   next |-> [m.next EXCEPT ![m.prev[elem]] = m.next[elem]]]

(* list_front and list_back are the results of list_pop_front and          *)
(* list_pop_back.                                                          *)
list_pop_front(m, l) == list_remove(m, list_begin(m, l))
list_pop_back(m, l) == list_remove(m, list_rbegin(m, l))

(* Elements first up to end, exclusive, go before another. *)
list_splice(m, before, first, end) ==
  IF first = end THEN m
  ELSE LET last == m.prev[end]
           cut == [prev |-> [m.prev EXCEPT ![m.next[last]] = m.prev[first]],
                   next |-> [m.next EXCEPT ![m.prev[first]] = m.next[last]]]
       IN  [prev |-> [cut.prev EXCEPT ![first] = cut.prev[before], ![before] = last],
            next |-> [cut.next EXCEPT ![last] = before, ![cut.prev[before]] = first]]

(* list_reverse: the loop that swaps the members of the elements from e,   *)
(* and then the ends.                                                      *)
RECURSIVE SwapMembers(_, _, _)
SwapMembers(m, e, end) ==
  IF e = end THEN m
  ELSE SwapMembers([prev |-> [m.prev EXCEPT ![e] = m.next[e]], next |-> [m.next EXCEPT ![e] = m.prev[e]]],
                   m.next[e], end)

list_reverse(m, l) ==
  IF list_empty(m, l) THEN m
  ELSE LET s == SwapMembers(m, list_begin(m, l), list_end(l))
           first == s.prev[list_end(l)]
           last == s.next[list_head(l)]
       IN  [prev |-> [s.prev EXCEPT ![list_end(l)] = last, ![first] = list_head(l)],
            next |-> [s.next EXCEPT ![list_head(l)] = first, ![last] = list_end(l)]]

(* The elements from e to end, exclusive; at most one visit of each node   *)
(* that is left.                                                           *)
RECURSIVE Path(_, _, _, _)
Path(m, e, end, left) ==
  IF e \in {end, NULL} \/ left = {} THEN <<>>
  ELSE <<e[2]>> \o Path(m, m.next[e], end, left \ {e})

Walk(m, l) == Path(m, list_begin(m, l), list_end(l), DOMAIN m.next)

RECURSIVE PathBack(_, _, _, _)
PathBack(m, e, end, left) ==
  IF e \in {end, NULL} \/ left = {} THEN <<>>
  ELSE PathBack(m, m.prev[e], end, left \ {e}) \o <<e[2]>>

WalkBack(m, l) == PathBack(m, list_rbegin(m, l), list_head(l), DOMAIN m.prev)

list_size(m, l) == Len(Walk(m, l))

RECURSIVE is_sorted(_, _, _, _)
is_sorted(m, a, b, k) ==
  IF a = b \/ m.next[a] = b THEN TRUE
  ELSE ~less(k, m.next[a], a) /\ is_sorted(m, m.next[a], b, k)

RECURSIVE find_end_of_run(_, _, _, _)
find_end_of_run(m, a, b, k) ==
  LET n == m.next[a]
  IN  IF n = b \/ less(k, n, m.prev[n]) THEN n ELSE find_end_of_run(m, n, b, k)

(* Faulty variant: of two equal elements the later one is taken. *)
TakeFirst_less(k, a0, a1b0) == less(k, a0, a1b0)

TakeFirst(k, a0, a1b0) == ~less(k, a1b0, a0)

RECURSIVE inplace_merge(_, _, _, _, _)
inplace_merge(m, a0, a1b0, b1, k) ==
  CASE a0 = a1b0 \/ a1b0 = b1 -> m
    [] a0 # a1b0 /\ a1b0 # b1 /\ TakeFirst(k, a0, a1b0) -> inplace_merge(m, m.next[a0], a1b0, b1, k)
    [] OTHER -> LET n == m.next[a1b0]
                IN  inplace_merge(list_splice(m, a0, a1b0, n), a0, n, b1, k)

(* One pass of list_sort from a0: the heap and the number of runs. *)
RECURSIVE SortPass(_, _, _, _, _)
SortPass(m, l, a0, runs, k) ==
  IF a0 = list_end(l) THEN [heap |-> m, runs |-> runs]
  ELSE LET a1b0 == find_end_of_run(m, a0, list_end(l), k)
       IN  IF a1b0 = list_end(l) THEN [heap |-> m, runs |-> runs + 1]
           ELSE LET b1 == find_end_of_run(m, a1b0, list_end(l), k)
                IN  SortPass(inplace_merge(m, a0, a1b0, b1, k), l, b1, runs + 1, k)

RECURSIVE list_sort(_, _, _)
list_sort(m, l, k) ==
  LET pass == SortPass(m, l, list_begin(m, l), 0, k)
  IN  IF pass.runs > 1 THEN list_sort(pass.heap, l, k) ELSE pass.heap

RECURSIVE OrderedPlace(_, _, _, _, _)
OrderedPlace(m, l, elem, e, k) ==
  IF e = list_end(l) \/ less(k, elem, e) THEN e ELSE OrderedPlace(m, l, elem, m.next[e], k)

list_insert_ordered(m, l, elem, k) == list_insert(m, OrderedPlace(m, l, elem, list_begin(m, l), k), elem)

(* list_unique from elem: duplicates go to list d, or nowhere. *)
RECURSIVE UniqueFrom(_, _, _, _, _)
UniqueFrom(m, l, d, elem, k) ==
  LET n == m.next[elem]
      r == list_remove(m, n)
  IN  CASE n = list_end(l) -> m
        [] n # list_end(l) /\ ~less(k, elem, n) /\ ~less(k, n, elem) ->
             UniqueFrom(IF d = 0 THEN r ELSE list_push_back(r, d, n), l, d, elem, k)
        [] OTHER -> UniqueFrom(m, l, d, n, k)

list_unique(m, l, d, k) == IF list_empty(m, l) THEN m ELSE UniqueFrom(m, l, d, list_begin(m, l), k)

Larger(k, max, e) == IF less(k, max, e) THEN e ELSE max

RECURSIVE MaxFrom(_, _, _, _, _)
MaxFrom(m, l, max, e, k) ==
  IF e = list_end(l) THEN max ELSE MaxFrom(m, l, Larger(k, max, e), m.next[e], k)

list_max(m, l, k) ==
  IF list_empty(m, l) THEN list_end(l) ELSE MaxFrom(m, l, list_begin(m, l), m.next[list_begin(m, l)], k)

RECURSIVE MinFrom(_, _, _, _, _)
MinFrom(m, l, min, e, k) ==
  IF e = list_end(l) THEN min ELSE MinFrom(m, l, IF less(k, e, min) THEN e ELSE min, m.next[e], k)

list_min(m, l, k) ==
  IF list_empty(m, l) THEN list_end(l) ELSE MinFrom(m, l, list_begin(m, l), m.next[list_begin(m, l)], k)
=============================================================================
