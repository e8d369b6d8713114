----------------------------- MODULE ListLemmas -----------------------------
(***************************************************************************)
(* Facts about the kernel's lists (lib/kernel/list.c), which the modules   *)
(* of this project model as sequences: list_push_back is Append and        *)
(* list_remove is RemoveAt.                                                *)
(***************************************************************************)
EXTENDS Integers, Sequences, SequencesExt, SequenceTheorems, TLAPS

(* list_push_back adds its element at the end and changes nothing else. *)
LEMMA PushBack ==
  ASSUME NEW S, NEW l \in Seq(S), NEW x \in S
  PROVE  /\ Append(l, x) \in Seq(S)
         /\ Len(Append(l, x)) = Len(l) + 1
         /\ DOMAIN Append(l, x) = 1..(Len(l) + 1)
         /\ \A i \in 1..Len(l) : Append(l, x)[i] = l[i]
         /\ Append(l, x)[Len(l) + 1] = x
         /\ ToSet(Append(l, x)) = ToSet(l) \cup {x}
<1>1. /\ Append(l, x) \in Seq(S)
      /\ Len(Append(l, x)) = Len(l) + 1
      /\ \A i \in 1..Len(l) : Append(l, x)[i] = l[i]
      /\ Append(l, x)[Len(l) + 1] = x
  BY AppendProperties
<1>2. /\ Len(l) \in Nat
      /\ DOMAIN l = 1..Len(l)
      /\ DOMAIN Append(l, x) = 1..(Len(l) + 1)
  BY <1>1, LenProperties
<1>3. ToSet(Append(l, x)) = ToSet(l) \cup {x}
  <2>1. ASSUME NEW y \in ToSet(Append(l, x))
        PROVE  y \in ToSet(l) \cup {x}
    BY <1>1, <1>2 DEF ToSet
  <2>2. ASSUME NEW y \in ToSet(l)
        PROVE  y \in ToSet(Append(l, x))
    BY <1>1, <1>2 DEF ToSet
  <2>3. x \in ToSet(Append(l, x))
    BY <1>1, <1>2 DEF ToSet
  <2>4. QED
    BY <2>1, <2>2, <2>3
<1>4. QED
  BY <1>1, <1>2, <1>3

(* list_push_back of an element that is not on the list keeps every        *)
(* element on it once.                                                     *)
LEMMA PushBackOnce ==
  ASSUME NEW S, NEW l \in Seq(S), NEW x \in S,
         IsInjective(l), x \notin ToSet(l)
  PROVE  IsInjective(Append(l, x))
<1>1. DOMAIN l = 1..Len(l) /\ Len(l) \in Nat
  BY LenProperties
<1>2. \A i \in 1..Len(l) : l[i] # x
  BY <1>1 DEF ToSet
<1>3. QED
  BY <1>1, <1>2, PushBack DEF IsInjective

(* What a position of a list holds; the front of a list. *)
LEMMA Holds ==
  ASSUME NEW S, NEW l \in Seq(S), NEW i \in DOMAIN l
  PROVE  l[i] \in S
BY LenProperties, ElementOfSeq

LEMMA NotEmpty ==
  ASSUME NEW S, NEW l \in Seq(S), l # <<>>
  PROVE  1 \in DOMAIN l
BY EmptySeq, LenProperties

LEMMA Position ==
  ASSUME NEW S, NEW l \in Seq(S), NEW i \in Nat, i > 0, i <= Len(l)
  PROVE  i \in DOMAIN l
BY LenProperties

(* list_remove takes out position i and closes the gap. *)
LEMMA RemoveOne ==
  ASSUME NEW S, NEW l \in Seq(S), NEW i \in DOMAIN l
  PROVE  /\ RemoveAt(l, i) \in Seq(S)
         /\ Len(RemoveAt(l, i)) = Len(l) - 1
         /\ DOMAIN RemoveAt(l, i) = 1..(Len(l) - 1)
         /\ \A j \in 1..(Len(l) - 1) :
              RemoveAt(l, i)[j] = IF j < i THEN l[j] ELSE l[j + 1]
<1> DEFINE a == SubSeq(l, 1, i - 1)
           b == SubSeq(l, i + 1, Len(l))
<1>1. /\ Len(l) \in Nat
      /\ DOMAIN l = 1..Len(l)
      /\ \A j \in 1..Len(l) : l[j] \in S
  BY LenProperties, ElementOfSeq
<1>2. i \in 1..Len(l)
  BY <1>1
<1>3. /\ a \in Seq(S)
      /\ Len(a) = i - 1
      /\ \A j \in 1..(i - 1) : a[j] = l[j]
  <2>1. /\ a \in Seq(S)
        /\ Len(a) = IF 1 <= i - 1 THEN i - 1 - 1 + 1 ELSE 0
        /\ \A j \in 1..(i - 1 - 1 + 1) : a[j] = l[1 + j - 1]
    <3>1. \A j \in 1..(i - 1) : l[j] \in S
      BY <1>1, <1>2
    <3>2. QED
      BY <3>1, <1>2, SubSeqProperties
  <2>2. QED
    BY <2>1, <1>2
<1>4. /\ b \in Seq(S)
      /\ Len(b) = Len(l) - i
      /\ \A j \in 1..(Len(l) - i) : b[j] = l[i + j]
  <2>1. /\ b \in Seq(S)
        /\ Len(b) = IF i + 1 <= Len(l) THEN Len(l) - (i + 1) + 1 ELSE 0
        /\ \A j \in 1..(Len(l) - (i + 1) + 1) : b[j] = l[(i + 1) + j - 1]
    <3>1. \A j \in (i + 1)..Len(l) : l[j] \in S
      BY <1>1, <1>2
    <3>2. QED
      BY <3>1, <1>1, <1>2, SubSeqProperties
  <2>2. QED
    BY SMTT(30), <2>1, <1>1, <1>2
<1>5. RemoveAt(l, i) = a \o b
  BY DEF RemoveAt
<1>6. /\ a \o b \in Seq(S)
      /\ Len(a \o b) = Len(a) + Len(b)
      /\ \A j \in 1..(Len(a) + Len(b)) :
           (a \o b)[j] = IF j <= Len(a) THEN a[j] ELSE b[j - Len(a)]
  BY <1>3, <1>4, ConcatProperties
<1> HIDE DEF a, b
<1>7. Len(a \o b) = Len(l) - 1
  BY <1>1, <1>2, <1>3, <1>4, <1>6
<1>8. ASSUME NEW j \in 1..(Len(l) - 1)
      PROVE  (a \o b)[j] = IF j < i THEN l[j] ELSE l[j + 1]
  <2>1. j \in 1..(Len(a) + Len(b))
    BY <1>1, <1>2, <1>3, <1>4
  <2>2. CASE j < i
    <3>1. j <= Len(a) /\ j \in 1..(i - 1)
      BY <2>2, <1>1, <1>2, <1>3
    <3>2. (a \o b)[j] = a[j]
      BY <2>1, <3>1, <1>6
    <3>3. QED
      BY <2>2, <3>1, <3>2, <1>3
  <2>3. CASE ~(j < i)
    <3>1. /\ ~(j <= Len(a))
          /\ j - Len(a) \in 1..(Len(l) - i)
          /\ i + (j - Len(a)) = j + 1
      BY <2>3, <1>1, <1>2, <1>3
    <3>2. (a \o b)[j] = b[j - Len(a)]
      BY <2>1, <3>1, <1>6
    <3>3. b[j - Len(a)] = l[i + (j - Len(a))]
      BY <3>1, <1>4
    <3>4. QED
      BY <2>3, <3>1, <3>2, <3>3
  <2>4. QED
    BY <2>2, <2>3
<1>9. DOMAIN (a \o b) = 1..(Len(l) - 1)
  BY <1>6, <1>7, LenProperties
<1>10. QED
  BY <1>5, <1>6, <1>7, <1>8, <1>9

(* On a list that has every element once, list_remove removes exactly its  *)
(* element, and leaves every other on the list once.                       *)
LEMMA RemoveOneOnce ==
  ASSUME NEW S, NEW l \in Seq(S), NEW i \in DOMAIN l, IsInjective(l)
  PROVE  /\ IsInjective(RemoveAt(l, i))
         /\ ToSet(RemoveAt(l, i)) = ToSet(l) \ {l[i]}
<1>1. /\ Len(l) \in Nat
      /\ DOMAIN l = 1..Len(l)
  BY LenProperties
<1>2. i \in 1..Len(l)
  BY <1>1
<1>3. \A j, k \in 1..Len(l) : l[j] = l[k] => j = k
  BY <1>1 DEF IsInjective
<1>4. /\ DOMAIN RemoveAt(l, i) = 1..(Len(l) - 1)
      /\ \A j \in 1..(Len(l) - 1) :
           RemoveAt(l, i)[j] = IF j < i THEN l[j] ELSE l[j + 1]
  BY RemoveOne
<1>5. IsInjective(RemoveAt(l, i))
  BY <1>1, <1>2, <1>3, <1>4 DEF IsInjective
<1>6. ASSUME NEW y \in ToSet(RemoveAt(l, i))
      PROVE  y \in ToSet(l) \ {l[i]}
  <2>1. PICK j \in 1..(Len(l) - 1) : y = RemoveAt(l, i)[j]
    BY <1>4 DEF ToSet
  <2>2. PICK k \in 1..Len(l) : k # i /\ y = l[k]
    BY <2>1, <1>1, <1>2, <1>4
  <2>3. QED
    BY <2>2, <1>1, <1>2, <1>3 DEF ToSet
<1>7. ASSUME NEW y \in ToSet(l) \ {l[i]}
      PROVE  y \in ToSet(RemoveAt(l, i))
  <2>1. PICK k \in 1..Len(l) : y = l[k] /\ k # i
    BY <1>1 DEF ToSet
  <2>2. CASE k < i
    BY SMTT(30), <2>1, <2>2, <1>1, <1>2, <1>4 DEF ToSet
  <2>3. CASE k > i
    <3>1. k - 1 \in 1..(Len(l) - 1) /\ ~(k - 1 < i) /\ (k - 1) + 1 = k
      BY <2>3, <1>1, <1>2
    <3>2. RemoveAt(l, i)[k - 1] = y
      BY <3>1, <2>1, <1>4
    <3>3. QED
      BY <3>1, <3>2, <1>4 DEF ToSet
  <2>4. QED
    BY <2>1, <2>2, <2>3, <1>1, <1>2
<1>8. QED
  BY <1>5, <1>6, <1>7
=============================================================================
