------------------------------ MODULE MC_SeqNum ------------------------------
(***************************************************************************)
(* The wrap property spec section 8 states, checked against the           *)
(* comparator of SeqNum.  A state is one pair (a, b) of counter values;    *)
(* every pair of the ring is an initial state.                             *)
(***************************************************************************)
EXTENDS SeqNum

VARIABLES a, b
vars == <<a, b>>

Init == a \in SeqRange /\ b \in SeqRange

\* Either counter of the pair advances by one write, wrapping as ++ does.
AdvanceA == a' = SeqInc(a) /\ b' = b
AdvanceB == b' = SeqInc(b) /\ a' = a

Next == AdvanceA \/ AdvanceB

Spec == Init /\ [][Next]_vars

\* spec.md section 8 states: for all a, (a + 2^(w-1) - 1) mod 2^w < a.
SpecWrapProperty == SeqLess((a + SeqHalf - 1) % SeqModulus, a)

=============================================================================
