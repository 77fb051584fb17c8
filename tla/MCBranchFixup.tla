---------------------------- MODULE MCBranchFixup ----------------------------
EXTENDS BranchFixup, Bitwise, TLC

CONSTANTS l1, l2

MCLabels == {l1, l2}

(* I32Eq and I32LtS. *)
MCCmps == {0, 4}

(* Runs of 8 instructions: with the branches themselves they put a target *)
(* just inside and just past the 16-bit reach of a byte range of 4 (i16   *)
(* is -8..7) in both directions.                                           *)
MCFillerSizes == {8}

(* A run of 128 instructions: past the 32-bit reach (i32 is -128..127).   *)
MCFarFillerSizes == {128}

(* WordOp agrees with the community Bitwise operators on every pair of     *)
(* halves as_u64 combines.                                                 *)
ASSUME PackReference ==
  \A c \in MCCmps, o \in SignedRange(4) :
    LET x == (c * U32) % U64
        y == o % U64
    IN  AndU64(x, y) = x & y /\ OrU64(x, y) = x | y

MCSymmetry == Permutations(MCLabels)

=============================================================================
