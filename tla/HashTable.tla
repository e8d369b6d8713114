----------------------------- MODULE HashTable -----------------------------
(***************************************************************************)
(* The hash table of lib/kernel/hash.c, on the linked lists of LinkedList. *)
(* The bucket array has 4 buckets at least in the code, MIN_BUCKETS here;  *)
(* allocating a new array may fail.                                        *)
(***************************************************************************)
EXTENDS LinkedList, Bitwise, FiniteSets

CONSTANTS
  HashElem,          (* elements                                            *)
  HashKey,           (* two elements are equal when their keys are          *)
  Hash,              (* the hash value of a key                             *)
  MIN_BUCKETS, MAX_BUCKETS

VARIABLES
  h,                 (* the struct hash: array, bucket_cnt, elem_cnt        *)
  links,             (* prev and next of elements and buckets               *)
  table              (* the elements that have been put into the table      *)

hashVars == <<h, links, table>>

(* The two arrays that exist during a rehash; bucket i of an array. *)
Bucket(a, i) == <<a, i>>
Buckets == {Bucket(a, i) : a \in {0, 1}, i \in 0..(MAX_BUCKETS - 1)}

RECURSIVE InitBuckets(_, _, _)
InitBuckets(m, a, n) == IF n = 0 THEN m ELSE InitBuckets(list_init(m, Bucket(a, n - 1)), a, n - 1)

(* hash_init *)
HashInit ==
  /\ h = [array |-> 0, bucket_cnt |-> MIN_BUCKETS, elem_cnt |-> 0]
  /\ links = InitBuckets(Unlinked(Nodes(Buckets, HashElem)), 0, MIN_BUCKETS)
  /\ table = {}

find_bucket(t, e) == Bucket(t.array, Hash[HashKey[e]] & (t.bucket_cnt - 1))

RECURSIVE FindFrom(_, _, _, _)
FindFrom(m, i, end, e) ==
  CASE i = end -> NULL
    [] i # end /\ HashKey[i[2]] = HashKey[e] -> i
    [] OTHER -> FindFrom(m, m.next[i], end, e)

find_elem(m, bucket, e) == FindFrom(m, list_begin(m, bucket), list_end(bucket), e)

hash_find(t, m, e) == find_elem(m, find_bucket(t, e), e)

turn_off_least_1bit(x) == x & (x - 1)
is_power_of_2(x) == x # 0 /\ turn_off_least_1bit(x) = 0

RECURSIVE PowerOf2(_)
PowerOf2(n) == IF is_power_of_2(n) THEN n ELSE PowerOf2(turn_off_least_1bit(n))

BEST_ELEMS_PER_BUCKET == 2

BestCount(t) ==
  LET n == t.elem_cnt \div BEST_ELEMS_PER_BUCKET IN PowerOf2(IF n < MIN_BUCKETS THEN MIN_BUCKETS ELSE n)

(* Faulty variant: one element of each bucket moves. *)
MoveElems_one(t, m, elem, end) ==
  IF elem = end THEN m ELSE list_push_front(list_remove(m, elem), find_bucket(t, elem[2]), elem)

(* The elements of an old bucket from elem move to their new buckets. *)
RECURSIVE MoveElems(_, _, _, _)
MoveElems(t, m, elem, end) ==
  IF elem = end THEN m
  ELSE MoveElems(t, list_push_front(list_remove(m, elem), find_bucket(t, elem[2]), elem), m.next[elem], end)

RECURSIVE MoveBuckets(_, _, _, _, _)
MoveBuckets(t, m, a, i, n) ==
  IF i = n THEN m
  ELSE MoveBuckets(t, MoveElems(t, m, list_begin(m, Bucket(a, i)), list_end(Bucket(a, i))), a, i + 1, n)

(* The links of an array that has been freed are forgotten. *)
Freed(m, a) ==
  LET gone == {list_head(b) : b \in {a} \X (0..(MAX_BUCKETS - 1))}
                \cup {list_end(b) : b \in {a} \X (0..(MAX_BUCKETS - 1))}
      keep(f) == [n \in DOMAIN f |-> IF n \in gone THEN NULL ELSE f[n]]
  IN  [prev |-> keep(m.prev), next |-> keep(m.next)]

(* rehash; malloc fails when fails. *)
rehash(t, m, fails) ==
  LET new == [t EXCEPT !.array = 1 - @, !.bucket_cnt = BestCount(t)]
      made == InitBuckets(m, new.array, new.bucket_cnt)
  IN  IF BestCount(t) = t.bucket_cnt \/ fails THEN [h |-> t, links |-> m]
      ELSE [h |-> new, links |-> Freed(MoveBuckets(new, made, t.array, 0, t.bucket_cnt), t.array)]

Counted(t, n) == [t EXCEPT !.elem_cnt = @ + n]

(* What an element that is not in the table points to is forgotten. *)
Loose(m, e) ==
  [prev |-> [m.prev EXCEPT ![Node(e)] = NULL], next |-> [m.next EXCEPT ![Node(e)] = NULL]]

Become_table(r) == h' = r.h /\ links' = r.links

hash_insert(e, fails) ==
  /\ e \notin table
  /\ IF hash_find(h, links, e) = NULL
     THEN /\ Become_table(rehash(Counted(h, 1), list_push_front(links, find_bucket(h, e), Node(e)), fails))
          /\ table' = table \cup {e}
     ELSE Become_table(rehash(h, links, fails)) /\ UNCHANGED table

hash_replace(e, fails) ==
  /\ e \notin table
  /\ \E old \in {hash_find(h, links, e)} :
       /\ Become_table(rehash(Counted(h, IF old = NULL THEN 1 ELSE 0),
            list_push_front(IF old = NULL THEN links ELSE Loose(list_remove(links, old), old[2]),
                            find_bucket(h, e), Node(e)), fails))
       /\ table' = (table \ {x \in table : HashKey[x] = HashKey[e]}) \cup {e}

hash_delete(e, fails) ==
  /\ \E found \in {hash_find(h, links, e)} :
       /\ IF found = NULL THEN UNCHANGED <<h, links>>
          ELSE Become_table(rehash(Counted(h, -1), Loose(list_remove(links, found), found[2]), fails))
       /\ table' = {x \in table : HashKey[x] # HashKey[e]}

(* hash_clear with a destructor: every element is popped, the buckets are  *)
(* initialised again and stay as many.                                     *)
hash_clear ==
  /\ h' = [h EXCEPT !.elem_cnt = 0]
  /\ links' = InitBuckets(Unlinked(DOMAIN links.next), h.array, h.bucket_cnt)
  /\ table' = {}

HashNext ==
  \/ \E e \in HashElem, fails \in BOOLEAN : hash_insert(e, fails) \/ hash_replace(e, fails) \/ hash_delete(e, fails)
  \/ hash_clear

-----------------------------------------------------------------------------
(* hash_next moves to the next bucket while it is at the end of one. *)
AtEnd(t, m, it) == it.elem = list_end(it.bucket) /\ it.bucket[2] + 1 >= t.bucket_cnt

RECURSIVE SkipBuckets(_, _, _)
SkipBuckets(t, m, it) ==
  CASE it.elem # list_end(it.bucket) -> it
    [] AtEnd(t, m, it) -> [it EXCEPT !.elem = NULL]
    [] OTHER -> LET b == Bucket(t.array, it.bucket[2] + 1)
                IN  SkipBuckets(t, m, [bucket |-> b, elem |-> list_begin(m, b)])

hash_first(t) == [bucket |-> Bucket(t.array, 0), elem |-> list_head(Bucket(t.array, 0))]
hash_next(t, m, it) == SkipBuckets(t, m, [it EXCEPT !.elem = m.next[@]])

RECURSIVE Visited(_, _, _)
Visited(t, m, it) ==
  LET n == hash_next(t, m, it) IN IF n.elem = NULL THEN <<>> ELSE <<n.elem[2]>> \o Visited(t, m, n)

-----------------------------------------------------------------------------
(* Properties *)

(* hash_find finds exactly the elements that the calls so far have left in *)
(* the table, equal elements were never put in twice, and elem_cnt counts  *)
(* them: growing and shrinking the array loses, doubles and misplaces      *)
(* nothing, and neither does an array that could not be allocated.         *)
HashFinds ==
  /\ \A e \in HashElem :
       hash_find(h, links, e) = IF \E x \in table : HashKey[x] = HashKey[e]
                                THEN Node(CHOOSE x \in table : HashKey[x] = HashKey[e]) ELSE NULL
  /\ h.elem_cnt = Cardinality(table)
  /\ is_power_of_2(h.bucket_cnt)

(* The iteration with hash_first and hash_next visits every element of the *)
(* table once.                                                             *)
VisitsAll ==
  LET v == Visited(h, links, hash_first(h)) IN Len(v) = Cardinality(table) /\ Range(v) = table
=============================================================================
