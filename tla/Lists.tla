------------------------------- MODULE Lists -------------------------------
(***************************************************************************)
(* Lists of lib/kernel/list.c used as its comments allow: an element is    *)
(* inserted when it is in no list, removed when it is in one, moved        *)
(* between lists, and lists are sorted, reversed and made unique.          *)
(***************************************************************************)
EXTENDS LinkedList, FiniteSets

CONSTANTS
  ListId,            (* lists, numbered from 1                              *)
  Elem,              (* elements                                            *)
  Key                (* the value that LESS compares                        *)

VARIABLE heap        (* prev and next of every node                         *)

RECURSIVE InitAll(_, _)
InitAll(m, ls) ==
  IF ls = {} THEN m ELSE LET l == CHOOSE x \in ls : TRUE IN InitAll(list_init(m, l), ls \ {l})

ListsInit == heap = InitAll(Unlinked(Nodes(ListId, Elem)), ListId)

Members(l) == Range(Walk(heap, l))
Out == Elem \ UNION {Members(l) : l \in ListId}

(* What an element in no list points to is forgotten: its owner may use    *)
(* the memory for something else.                                          *)
Forget(m) ==
  LET in == {Node(e) : e \in UNION {Range(Walk(m, l)) : l \in ListId}}
      keep(f) == [n \in DOMAIN f |-> IF n[1] # "elem" \/ n \in in THEN f[n] ELSE NULL]
  IN  [prev |-> keep(m.prev), next |-> keep(m.next)]

Become(m) == heap' = Forget(m)

Inserts ==
  \E e \in Out, l \in ListId :
    \/ Become(list_push_front(heap, l, Node(e)))
    \/ Become(list_push_back(heap, l, Node(e)))
    \/ \E b \in Members(l) : Become(list_insert(heap, Node(b), Node(e)))
    \/ is_sorted(heap, list_begin(heap, l), list_end(l), Key) /\ Become(list_insert_ordered(heap, l, Node(e), Key))

Removes ==
  \E l \in ListId :
    \/ \E e \in Members(l) : Become(list_remove(heap, Node(e)))
    \/ ~list_empty(heap, l) /\ (Become(list_pop_front(heap, l)) \/ Become(list_pop_back(heap, l)))

(* A stretch of a list goes before an element outside it, or to the end of *)
(* a list.                                                                 *)
Splices ==
  \E l \in ListId : \E s \in {Walk(heap, l)} : \E i, j \in DOMAIN s :
    \E d \in ListId : \E b \in {list_end(d)} \cup {Node(e) : e \in Members(d) \ {s[n] : n \in i..j}} :
      i <= j /\ Become(list_splice(heap, b, Node(s[i]), heap.next[Node(s[j])]))

Reorders ==
  \E l \in ListId :
    \/ Become(list_reverse(heap, l))
    \/ Become(list_sort(heap, l, Key))
    \/ \E d \in (ListId \cup {0}) \ {l} : Become(list_unique(heap, l, d, Key))

ListsNext == Inserts \/ Removes \/ Splices \/ Reorders

-----------------------------------------------------------------------------
(* Properties *)

(* The prev and next members agree: a walk from the tail meets the         *)
(* elements that a walk from the head meets, and no element is in two      *)
(* lists.                                                                  *)
LinksAgree ==
  /\ \A l \in ListId : Walk(heap, l) = WalkBack(heap, l) /\ IsInjective(Walk(heap, l))
  /\ \A l, d \in ListId : l # d => Members(l) \cap Members(d) = {}

(* list_max and list_min find the first extreme element, list_size counts  *)
(* the elements, and list_empty tells whether there are none.              *)
QueriesRight ==
  \A l \in ListId : \E s \in {Walk(heap, l)} :
    /\ list_empty(heap, l) <=> s = <<>>
    /\ list_size(heap, l) = Cardinality(Members(l))
    /\ s # <<>> =>
         /\ \E i \in DOMAIN s : /\ list_max(heap, l, Key) = Node(s[i])
                                /\ \A j \in DOMAIN s : Key[s[j]] <= Key[s[i]] /\ (j < i => Key[s[j]] < Key[s[i]])
         /\ \E i \in DOMAIN s : /\ list_min(heap, l, Key) = Node(s[i])
                                /\ \A j \in DOMAIN s : Key[s[j]] >= Key[s[i]] /\ (j < i => Key[s[j]] > Key[s[i]])

(* The linked lists implement the lists of SequenceLists, in which sorting *)
(* is stable, an ordered insertion comes after equal elements, and moving  *)
(* and removing duplicates keep the order of the rest.  A step that leaves *)
(* the nodes alone stutters there.                                         *)
Walks == [l \in ListId |-> Walk(heap, l)]
AbstractLists == INSTANCE SequenceLists WITH seqs <- Walks
ImplementsSequences == AbstractLists!SeqInit /\ [][heap' # heap => [AbstractLists!SeqNext]_Walks]_heap
=============================================================================
