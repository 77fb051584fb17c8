----------------------------- MODULE Primitives -----------------------------
(***************************************************************************)
(* The IR primitives of crates/ir/src/primitive.rs: branch offsets, block  *)
(* fuel and comparators, with their range-checked constructors.  A        *)
(* fallible constructor returns Ok(v) or Err(e); a failed assert! returns  *)
(* Panic.                                                                  *)
(***************************************************************************)
EXTENDS Words

Ok(v)  == [ok |-> TRUE, val |-> v]
Err(e) == [ok |-> FALSE, err |-> e]
Panic  == Err("panic")

I16 == SignedRange(2)
I32 == SignedRange(4)

(* BranchOffset::is_init / BranchOffset16::is_init: 0 is the placeholder. *)
IsInit(offset) == offset /= 0

(* A plausible bug: the i32 is taken as the i16 without a range check. *)
BranchOffset16TryFromUnchecked(offset) == Ok(offset)

(* BranchOffset16::try_from(BranchOffset): i16::try_from of the i32. *)
BranchOffset16TryFrom(offset) ==
  IF offset \in I16 THEN Ok(offset) ELSE Err("BranchOffsetOutOfBounds")

(* Plausible bugs: the operands subtracted the wrong way round; the i64   *)
(* difference kept without a range check; `as i32` wrapping it.           *)
FromSrcToDstReversed(src, dst) ==
  LET offset == src - dst IN
  IF offset \in I32 THEN Ok(offset) ELSE Err("BranchOffsetOutOfBounds")

FromSrcToDstUnchecked(src, dst) == Ok(dst - src)

FromSrcToDstWrapping(src, dst) == Ok(Signed(dst - src, 4))

(* BranchOffset::from_src_to_dst: dst - src computed in i64 (which cannot  *)
(* overflow for two u32 indices), then i32::try_from.                      *)
FromSrcToDst(src, dst) ==
  LET offset == dst - src IN
  IF offset \in I32 THEN Ok(offset) ELSE Err("BranchOffsetOutOfBounds")

(* BranchOffset::init: both asserts, then the assignment. *)
BranchOffsetInit(self, valid) ==
  IF ~IsInit(valid) \/ IsInit(self) THEN Panic ELSE Ok(valid)

(* BranchOffset16::init: both asserts, then the 16-bit conversion. *)
BranchOffset16Init(self, valid) ==
  IF ~IsInit(valid) \/ IsInit(self) THEN Panic ELSE BranchOffset16TryFrom(valid)

(* BlockFuel::try_from(u64): u32::try_from. *)
BlockFuelTryFrom(x) == IF x \in Word32 THEN Ok(x) ELSE Err("BlockFuelOutOfBounds")

(* A plausible bug: the sum kept modulo u32 instead of checked. *)
BumpByWrapping(fuel, amount) == Ok((fuel + amount) % U32)

(* BlockFuel::bump_by: checked_add in u64, then u32::try_from. *)
BumpBy(fuel, amount) ==
  LET new == fuel + amount IN
  IF new \notin Word64 THEN Err("BlockFuelOutOfBounds")
  ELSE BlockFuelTryFrom(new)

(* The Comparator enum: its variants are numbered 0..37. *)
NumComparators == 38

(* Comparator::try_from(u32): the match over every variant's ordinal. *)
ComparatorTryFrom(x) ==
  IF x \in 0..(NumComparators - 1) THEN Ok(x) ELSE Err("ComparatorOutOfBounds")

(* ComparatorAndOffset::from_u64: hi = value >> 32, lo = value & 0xFFFF_FFFF *)
(* read as i32; None when hi is not a comparator.                          *)
FromU64(value) ==
  LET hi == value \div U32
      lo == value % U32
  IN  IF ComparatorTryFrom(hi).ok
      THEN Ok([cmp |-> hi, offset |-> Signed(lo, 4)])
      ELSE Err("None")

=============================================================================
