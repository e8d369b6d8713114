------------------------------- MODULE Bitmap ------------------------------
(***************************************************************************)
(* The bitmaps of lib/kernel/bitmap.c: an array of bits kept in words,     *)
(* single bits and runs of bits, the search for a free run, and a copy of  *)
(* the words in a file.                                                    *)
(***************************************************************************)
EXTENDS Integers, FiniteSetsExt, Bitwise

CONSTANTS
  ELEM_BITS,         (* bits of a word                                      *)
  bit_cnt            (* bits of the bitmap                                  *)

ASSUME BitmapAssumption == ELEM_BITS \in Nat \ {0} /\ bit_cnt \in Nat \ {0}

VARIABLES
  bits,              (* the words                                           *)
  stored,            (* the words in the file                               *)
  marked             (* the bits that the calls so far have left set        *)

bitmapVars == <<bits, stored, marked>>

BITMAP_ERROR == -1

elem_idx(i) == i \div ELEM_BITS
bit_mask(i) == 2^(i % ELEM_BITS)
elem_cnt == (bit_cnt + ELEM_BITS - 1) \div ELEM_BITS

last_mask == LET last_bits == bit_cnt % ELEM_BITS IN IF last_bits # 0 THEN 2^last_bits - 1 ELSE 2^ELEM_BITS - 1

Bit == 0..(bit_cnt - 1)
Word == 0..(2^ELEM_BITS - 1)

bitmap_mark(w, i) == [w EXCEPT ![elem_idx(i)] = @ | bit_mask(i)]
bitmap_reset(w, i) == [w EXCEPT ![elem_idx(i)] = @ & (2^ELEM_BITS - 1 - bit_mask(i))]
bitmap_flip(w, i) == [w EXCEPT ![elem_idx(i)] = @ ^^ bit_mask(i)]
bitmap_test(w, i) == (w[elem_idx(i)] & bit_mask(i)) # 0

bitmap_set(w, i, value) == IF value THEN bitmap_mark(w, i) ELSE bitmap_reset(w, i)

RECURSIVE bitmap_set_multiple(_, _, _, _)
bitmap_set_multiple(w, start, cnt, value) ==
  IF cnt = 0 THEN w ELSE bitmap_set_multiple(bitmap_set(w, start, value), start + 1, cnt - 1, value)

bitmap_count(w, start, cnt, value) == Cardinality({i \in start..(start + cnt - 1) : bitmap_test(w, i) = value})

bitmap_contains(w, start, cnt, value) == \E i \in start..(start + cnt - 1) : bitmap_test(w, i) = value

bitmap_all(w, start, cnt) == ~bitmap_contains(w, start, cnt, FALSE)
bitmap_none(w, start, cnt) == ~bitmap_contains(w, start, cnt, TRUE)

LastStart(cnt) == bit_cnt - cnt

RECURSIVE ScanFrom(_, _, _, _)
ScanFrom(w, i, cnt, value) ==
  CASE i > LastStart(cnt) -> BITMAP_ERROR
    [] i <= LastStart(cnt) /\ ~bitmap_contains(w, i, cnt, ~value) -> i
    [] OTHER -> ScanFrom(w, i + 1, cnt, value)

bitmap_scan(w, start, cnt, value) == IF cnt <= bit_cnt THEN ScanFrom(w, start, cnt, value) ELSE BITMAP_ERROR

Run(start, cnt) == start..(start + cnt - 1)

(* bitmap_create; the file holds anything. *)
BitmapInit ==
  /\ bits = bitmap_set_multiple([i \in 0..(elem_cnt - 1) |-> 0], 0, bit_cnt, FALSE)
  /\ stored \in [0..(elem_cnt - 1) -> Word]
  /\ marked = {}

SetOne(i) ==
  \/ bits' = bitmap_set(bits, i, TRUE) /\ marked' = marked \cup {i}
  \/ bits' = bitmap_set(bits, i, FALSE) /\ marked' = marked \ {i}
  \/ bits' = bitmap_flip(bits, i) /\ marked' = SymDiff(marked, {i})

SetRun(start, cnt, value) ==
  /\ start + cnt <= bit_cnt
  /\ bits' = bitmap_set_multiple(bits, start, cnt, value)
  /\ marked' = IF value THEN marked \cup Run(start, cnt) ELSE marked \ Run(start, cnt)

bitmap_scan_and_flip(start, cnt, value) ==
  \E idx \in {bitmap_scan(bits, start, cnt, value)} :
    IF idx = BITMAP_ERROR THEN UNCHANGED <<bits, marked>>
    ELSE /\ bits' = bitmap_set_multiple(bits, idx, cnt, ~value)
         /\ marked' = IF value THEN marked \ Run(idx, cnt) ELSE marked \cup Run(idx, cnt)

bitmap_write == stored' = bits /\ UNCHANGED <<bits, marked>>

Masked(w) == [w EXCEPT ![elem_cnt - 1] = @ & last_mask]

bitmap_read ==
  /\ bits' = Masked(stored)
  /\ marked' = {i \in Bit : (stored[elem_idx(i)] & bit_mask(i)) # 0}
  /\ UNCHANGED stored

BitmapNext ==
  \/ /\ \/ \E i \in Bit : SetOne(i)
        \/ \E start \in 0..bit_cnt, cnt \in 0..bit_cnt, value \in BOOLEAN :
             SetRun(start, cnt, value) \/ bitmap_scan_and_flip(start, cnt, value)
     /\ UNCHANGED stored
  \/ bitmap_write \/ bitmap_read

-----------------------------------------------------------------------------
(* Properties *)

(* The words hold the bits that the calls say, across word boundaries, and *)
(* bits past the end are never set, whatever the file holds; otherwise the *)
(* free-map and the page allocator would hand out what does not exist.     *)
WordsHoldBits ==
  /\ \A i \in Bit : bitmap_test(bits, i) <=> i \in marked
  /\ \A i \in bit_cnt..(elem_cnt * ELEM_BITS - 1) : ~bitmap_test(bits, i)
  /\ bitmap_count(bits, 0, bit_cnt, TRUE) = Cardinality(marked)
  /\ \A start \in Bit : /\ bitmap_all(bits, start, bit_cnt - start) <=> start..(bit_cnt - 1) \subseteq marked
                        /\ bitmap_none(bits, 0, start) <=> marked \cap 0..(start - 1) = {}

(* bitmap_scan finds the first run of CNT bits that has the value, also at *)
(* the very end and for empty runs, and nothing when there is none.        *)
ScanFinds ==
  \A start \in 0..bit_cnt, cnt \in 0..(bit_cnt + 1), value \in BOOLEAN :
    LET runs == {i \in start..bit_cnt : i + cnt <= bit_cnt /\ \A j \in Run(i, cnt) : (j \in marked) = value}
    IN  bitmap_scan(bits, start, cnt, value) = IF runs = {} THEN BITMAP_ERROR ELSE Min(runs)
=============================================================================
