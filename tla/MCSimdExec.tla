---------------------------- MODULE MCSimdExec ----------------------------
(***************************************************************************)
(* SimdExec on small instances: a v128 of 2 lanes of 8 values, so a       *)
(* shuffle index ranges over 0..3 and a selector byte over 0..7 (a byte   *)
(* can hold an index ImmLaneIdx32::try_from refuses).                      *)
(***************************************************************************)
EXTENDS SimdExec

MCFrameRegs == {0, 1, 2}

(* Lanes (2,1), (5,3) and (7,7): distinct lanes and an all-ones vector.  *)
MCRegValues == {10, 29, 63}

Shuffle(r, a, b, l0, l1) ==
  [kind |-> "i8x16.shuffle", result |-> r, lhs |-> a, rhs |-> b, lanes |-> [i \in 0..1 |-> IF i = 0 THEN l0 ELSE l1]]

Bitselect(r, a, b, c) ==
  [kind |-> "v128.bitselect", result |-> r, lhs |-> a, rhs |-> b, sel |-> c]

Neg(r, a) == [kind |-> "i8x16.neg", result |-> r, input |-> a]

Add(r, a, b) == [kind |-> "i8x16.add", result |-> r, lhs |-> a, rhs |-> b]

ExtractLaneU(r, a, l) == [kind |-> "i8x16.extract_lane_u", result |-> r, input |-> a, lane |-> l]

Shl(r, a, n) == [kind |-> "i8x16.shl", result |-> r, lhs |-> a, amount |-> n]

(* Every shuffle selector once; two shuffles reading two pool entries;    *)
(* results that alias an operand or the bitselect selector; each lane     *)
(* operation followed by another, and shift amounts at and past the lane *)
(* bits.                                                                   *)
MCSrcPrograms ==
     {<< Shuffle(2, 0, 1, l0, l1) >> : l0, l1 \in 0..3}
  \cup {<< Shuffle(0, 0, 1, 1, 3), Shuffle(1, 0, 1, 2, 0) >>,
        << Bitselect(2, 0, 1, 2) >>,
        << Bitselect(0, 0, 1, 2), Shuffle(2, 0, 2, 3, 0) >>,
        << Neg(1, 0), Add(2, 1, 0), ExtractLaneU(0, 2, 1) >>,
        << Shl(1, 1, 1), Shl(2, 2, 3), Shl(0, 0, 4), Bitselect(1, 2, 0, 1) >>}

=============================================================================
