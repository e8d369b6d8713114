--------------------------- MODULE SequenceLists ---------------------------
(***************************************************************************)
(* What lib/kernel/list.c promises: lists are sequences of elements, each  *)
(* element in at most one list and once.                                   *)
(***************************************************************************)
EXTENDS Integers, SequencesExt

CONSTANTS ListId, Elem, Key

VARIABLE seqs        (* the elements of each list                           *)

Placed == UNION {Range(seqs[l]) : l \in ListId}

Sorted(s) == \A i, j \in DOMAIN s : i < j => Key[s[i]] <= Key[s[j]]

(* The stable sort of a sequence. *)
Rank(s, i) == Cardinality({j \in DOMAIN s : Key[s[j]] < Key[s[i]] \/ (Key[s[j]] = Key[s[i]] /\ j <= i)})
Stable(s) == [n \in DOMAIN s |-> s[CHOOSE i \in DOMAIN s : Rank(s, i) = n]]

First(s, i) == i = 1 \/ Key[s[i]] # Key[s[i - 1]]
Firsts(s) == LET idx == SetToSortSeq({i \in DOMAIN s : First(s, i)}, <) IN [n \in DOMAIN idx |-> s[idx[n]]]
Repeats(s) == LET idx == SetToSortSeq({i \in DOMAIN s : ~First(s, i)}, <) IN [n \in DOMAIN idx |-> s[idx[n]]]

Set(l, s) == seqs' = [seqs EXCEPT ![l] = s]

Insert(l, i, e) == e \notin Placed /\ i \in 1..(Len(seqs[l]) + 1) /\ Set(l, InsertAt(seqs[l], i, e))

InsertOrdered(l, e) ==
  /\ e \notin Placed /\ Sorted(seqs[l])
  /\ Set(l, Stable(Append(seqs[l], e)))

RemoveElem(l, i) == i \in DOMAIN seqs[l] /\ Set(l, RemoveAt(seqs[l], i))

(* Elements i..j of list l go before element n of list d, which is not one *)
(* of them.                                                                *)
Move(l, i, j, d, n) ==
  LET s == seqs[l]
      moved == SubSeq(s, i, j)
      rest == SubSeq(s, 1, i - 1) \o SubSeq(s, j + 1, Len(s))
      at == IF d = l /\ n > j THEN n - Len(moved) ELSE n
      t == IF d = l THEN rest ELSE seqs[d]
  IN  /\ i \in 1..j /\ j \in DOMAIN s /\ n \in 1..(Len(seqs[d]) + 1)
      /\ d = l => n \notin i..j
      /\ seqs' = [seqs EXCEPT ![l] = rest, ![d] = SubSeq(t, 1, at - 1) \o moved \o SubSeq(t, at, Len(t))]

Unique(l, d) ==
  /\ d # l
  /\ seqs' = [x \in ListId |-> CASE x = l -> Firsts(seqs[l])
                                 [] x = d -> seqs[d] \o Repeats(seqs[l])
                                 [] OTHER -> seqs[x]]

SeqInit == seqs = [l \in ListId |-> <<>>]

SeqNext ==
  \/ \E l \in ListId :
       \/ \E e \in Elem : InsertOrdered(l, e) \/ \E i \in 1..(Cardinality(Elem) + 1) : Insert(l, i, e)
       \/ \E i \in DOMAIN seqs[l] : RemoveElem(l, i)
       \/ \E d \in ListId, i, j \in DOMAIN seqs[l] : \E n \in 1..(Len(seqs[d]) + 1) : Move(l, i, j, d, n)
       \/ Set(l, Reverse(seqs[l])) \/ Set(l, Stable(seqs[l]))
       \/ \E d \in ListId \cup {0} : Unique(l, d)

=============================================================================
