------------------------------- MODULE SeqNum -------------------------------
(***************************************************************************)
(* SequenceNumber: the wrap-aware 16-bit version counter that Storage uses *)
(* to resolve conflicting writes (spec.md section 3.3).  SequenceNumber.h  *)
(* is not part of src/, so these operators are written from the spec.      *)
(* The width is a parameter so that the comparator can be enumerated       *)
(* exhaustively at small widths and pointwise at the real width of 16.     *)
(***************************************************************************)
EXTENDS Integers

CONSTANT SeqBits            \* width of the counter in bits (16 in ntcore)

ASSUME SeqBits \in 2..16

SeqModulus  == 2^SeqBits
SeqHalf == 2^(SeqBits - 1)
SeqRange == 0..(SeqModulus - 1)

\* operator<(a, b): a is older than b.  Equal values are never older, and
\* two values exactly half the ring apart are incomparable.
SeqLess(a, b) ==
    \/ a < b /\ b - a < SeqHalf
    \/ a > b /\ a - b > SeqHalf

\* operator<=: used by EntryUpdate to drop duplicates as well as stale writes.
SeqLeq(a, b) == a = b \/ SeqLess(a, b)

\* operator++: increments modulo 2^SeqBits.
SeqInc(a) == (a + 1) % SeqModulus

=============================================================================
