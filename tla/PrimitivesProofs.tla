-------------------------- MODULE PrimitivesProofs --------------------------
(***************************************************************************)
(* Facts about the range-checked constructors of primitive.rs, for every   *)
(* byte range.                                                             *)
(***************************************************************************)
EXTENDS Primitives, TLAPS

(* The word sizes are positive numbers. *)
LEMMA WordSizes ==
  /\ ByteRange^2 \in Nat \ {0}
  /\ U32 \in Nat \ {0}
  /\ U64 \in Nat \ {0}
<1>1. ByteRange^2 \in Nat \ {0} /\ U32 \in Nat \ {0}
  BY RadixAssumption DEF U32
<1>. QED
  BY <1>1 DEF U64

(* The placeholder offset 0 is an i16 and an i32. *)
LEMMA ZeroOffsets == 0 \in I16 /\ 0 \in I32
<1>1. ByteRange^2 = ByteRange * ByteRange /\ ByteRange^4 = ByteRange^2 * ByteRange^2
  <2>1. ByteRange^1 = ByteRange /\ ByteRange^2 = ByteRange^1 * ByteRange
        /\ ByteRange^3 = ByteRange^2 * ByteRange /\ ByteRange^4 = ByteRange^3 * ByteRange
    BY RadixStep, ByteRangeAssumption
  <2>. QED
    BY <2>1, ByteRangeAssumption
<1>2. \A x \in Int : x >= 2 => x * x >= 4
  OBVIOUS
<1>3. ByteRange * ByteRange >= 4
  BY <1>2, ByteRangeAssumption
<1>4. ByteRange^2 \in Int /\ ByteRange^2 >= 4
  BY <1>1, <1>3, ByteRangeAssumption
<1>5. ByteRange^2 * ByteRange^2 >= 4
  BY <1>2, <1>4
<1>6. ByteRange^4 >= 4
  BY <1>1, <1>5, <1>4
<1>7. ByteRange^4 \in Int
  BY <1>1, <1>4
<1>8. 0 \in I16
  BY <1>4 DEF I16, SignedRange
<1>9. 0 \in I32
  BY <1>6, <1>7 DEF I32, SignedRange
<1>. QED
  BY <1>8, <1>9

(* Branch-offset monotonicity (spec 8): from_src_to_dst fails exactly when *)
(* dst - src is outside i32 and otherwise yields dst - src.                *)
THEOREM FromSrcToDstExact ==
  ASSUME NEW src \in Word32, NEW dst \in Word32
  PROVE  /\ FromSrcToDst(src, dst).ok <=> dst - src \in I32
         /\ FromSrcToDst(src, dst).ok => FromSrcToDst(src, dst).val = dst - src
BY DEF FromSrcToDst, Ok, Err

(* A forward branch (src < dst) always gets an initialized offset, so the *)
(* assert!(valid_offset.is_init()) of init cannot fire for it.             *)
THEOREM ForwardOffsetInit ==
  ASSUME NEW src \in Word32, NEW dst \in Word32, src < dst,
         FromSrcToDst(src, dst).ok
  PROVE  IsInit(FromSrcToDst(src, dst).val)
<1>1. FromSrcToDst(src, dst).val = dst - src
  BY FromSrcToDstExact
<1>2. dst - src /= 0
  BY DEF Word32
<1>. QED
  BY <1>1, <1>2 DEF IsInit

(* BranchOffset16::init on a placeholder with a forward offset either     *)
(* stores that same offset or fails with BranchOffsetOutOfBounds; it never *)
(* panics and never truncates.                                             *)
THEOREM Init16NoPanic ==
  ASSUME NEW valid \in Int, valid > 0
  PROVE  \/ BranchOffset16Init(0, valid) = Ok(valid)
         \/ BranchOffset16Init(0, valid) = Err("BranchOffsetOutOfBounds")
BY DEF BranchOffset16Init, BranchOffset16TryFrom, IsInit, Ok, Err, Panic

(* Block fuel never wraps (spec 3): bump_by either yields exactly         *)
(* fuel + amount, which is a u32, or fails with BlockFuelOutOfBounds when  *)
(* the sum exceeds u32.                                                    *)
THEOREM BumpByExact ==
  ASSUME NEW fuel \in Word32, NEW amount \in Word64
  PROVE  /\ BumpBy(fuel, amount).ok =>
              /\ BumpBy(fuel, amount).val = fuel + amount
              /\ BumpBy(fuel, amount).val \in Word32
         /\ ~BumpBy(fuel, amount).ok =>
              /\ fuel + amount > U32 - 1
              /\ BumpBy(fuel, amount) = Err("BlockFuelOutOfBounds")
<1>1. U32 \in Nat \ {0} /\ U64 \in Nat \ {0} /\ U32 <= U64
  <2>1. U32 \in Nat \ {0} /\ U64 \in Nat \ {0}
    BY WordSizes
  <2>2. U64 = U32 * U32
    BY DEF U64
  <2>. QED
    BY <2>1, <2>2
<1>2. CASE fuel + amount \in Word32
  <2>1. fuel + amount \in Word64
    BY <1>1, <1>2 DEF Word32, Word64
  <2>2. BumpBy(fuel, amount) = Ok(fuel + amount)
    BY <1>2, <2>1 DEF BumpBy, BlockFuelTryFrom
  <2>. QED
    BY <1>2, <2>2 DEF Ok
<1>3. CASE fuel + amount \notin Word32
  <2>1. BumpBy(fuel, amount) = Err("BlockFuelOutOfBounds")
    BY <1>3 DEF BumpBy, BlockFuelTryFrom
  <2>2. fuel + amount > U32 - 1
    BY <1>1, <1>3 DEF Word32, Word64
  <2>. QED
    BY <2>1, <2>2 DEF Err
<1>. QED
  BY <1>2, <1>3

(* from_u64 reads back a comparator and a non-negative offset packed as   *)
(* cmp * 2^32 + offset, the word the spec's `hi << 32 | lo` builds for     *)
(* them.                                                                   *)
THEOREM FromU64NonNegative ==
  ASSUME NEW cmp \in 0..(NumComparators - 1), NEW offset \in 0..(U32 \div 2 - 1)
  PROVE  FromU64(cmp * U32 + offset) = Ok([cmp |-> cmp, offset |-> offset])
<1>1. U32 \in Nat \ {0}
  BY WordSizes
<1>a. offset \in 0..(U32 - 1) /\ cmp \in Nat
  BY <1>1 DEF NumComparators
<1>2. (cmp * U32 + offset) \div U32 = cmp /\ (cmp * U32 + offset) % U32 = offset
  BY <1>1, <1>a
<1>3. Signed(offset, 4) = offset
  BY <1>1 DEF Signed, U32
<1>. QED
  BY <1>2, <1>3 DEF FromU64, ComparatorTryFrom, Ok, Err

(* An `as iN` cast of an integer that is already an n-byte signed value  *)
(* gives it back unchanged.                                                 *)
LEMMA SignedRoundTrip ==
  ASSUME NEW n \in 0..8, NEW c \in SignedRange(n)
  PROVE  Signed(c, n) = c
<1>. DEFINE m == ByteRange^n
            u == c % m
<1>1. m \in Nat \ {0}
  BY RadixAssumption
<1>2. c \in Int /\ -(m \div 2) <= c /\ c <= m \div 2 - 1
  BY DEF SignedRange
<1>5. m \div 2 \in Nat /\ m \div 2 <= m - m \div 2
  BY <1>1
<1>6. Signed(c, n) = IF u >= m \div 2 THEN u - m ELSE u
  BY DEF Signed
<1>3. CASE c >= 0
  <2>1. u = c
    BY <1>1, <1>2, <1>3, <1>5
  <2>2. ~(u >= m \div 2)
    BY <1>2, <1>5, <2>1
  <2>. QED
    BY <1>6, <2>1, <2>2, Zenon
<1>4. CASE c < 0
  <2>1. u = c + m
    BY <1>1, <1>2, <1>4, <1>5
  <2>2. u >= m \div 2
    BY <1>1, <1>2, <1>5, <2>1
  <2>3. u - m = c
    BY <1>1, <1>2, <2>1
  <2>. QED
    BY <1>6, <2>2, <2>3, Zenon
<1>. QED
  BY <1>2, <1>3, <1>4

(* With an even number of byte values (a byte has 256), an `as iN` cast   *)
(* always yields an n-byte signed value.                                    *)
LEMMA SignedBounded ==
  ASSUME ByteRange % 2 = 0, NEW n \in 1..8, NEW c \in Int
  PROVE  Signed(c, n) \in SignedRange(n)
<1>. DEFINE m == ByteRange^n
            u == c % m
<1>1. m \in Nat \ {0} /\ ByteRange^(n - 1) \in Nat \ {0}
  BY RadixAssumption
<1>2. m = ByteRange^(n - 1) * ByteRange
  BY RadixStep
<1>3. m % 2 = 0
  <2>0. ByteRange = 2 * (ByteRange \div 2) /\ ByteRange \div 2 \in Nat
    BY ByteRangeAssumption
  <2>1. PICK h \in Nat : ByteRange = 2 * h
    BY <2>0
  <2>2. m = 2 * (ByteRange^(n - 1) * h)
    BY <1>1, <1>2, <2>1
  <2>. QED
    BY <1>1, <2>2
<1>4. u \in 0..(m - 1)
  BY <1>1
<1>5. m - m \div 2 = m \div 2
  BY <1>1, <1>3
<1>. QED
  BY <1>1, <1>4, <1>5 DEF Signed, SignedRange

(* The translator inlines a constant as a 16-bit immediate (Fits16, the  *)
(* `as i16` round trip) exactly when the constant is an i16.             *)
THEOREM Fits16Exact ==
  ASSUME ByteRange % 2 = 0, NEW c \in Int
  PROVE  Fits16(c) <=> c \in I16
<1>1. c \in I16 => Signed(c, 2) = c
  BY SignedRoundTrip DEF I16
<1>2. Signed(c, 2) \in I16
  BY SignedBounded DEF I16
<1>. QED
  BY <1>1, <1>2 DEF Fits16

(* from_u64 inverts the packing cmp << 32 | (offset as u32): with the    *)
(* offset's own u32 bit pattern in the low half, every comparator and    *)
(* every i32 offset, negative ones included, is read back.               *)
THEOREM FromU64RoundTrip ==
  ASSUME NEW cmp \in 0..(NumComparators - 1), NEW offset \in I32
  PROVE  FromU64(cmp * U32 + (offset % U32)) = Ok([cmp |-> cmp, offset |-> offset])
<1>1. U32 \in Nat \ {0} /\ U32 = ByteRange^4
  BY WordSizes DEF U32
<1>2. offset \in Int /\ cmp \in Nat
  BY DEF I32, SignedRange, NumComparators
<1>3. offset % U32 \in 0..(U32 - 1)
  BY <1>1, <1>2
<1>9. PICK r \in 0..(U32 - 1) : r = offset % U32
  BY <1>3
<1>10. U32 \in Nat \ {0} /\ cmp \in Nat
  BY <1>1, <1>2
<1>8. (cmp * U32 + r) \div U32 = cmp /\ (cmp * U32 + r) % U32 = r
  BY <1>9, <1>10
<1>4. (cmp * U32 + (offset % U32)) \div U32 = cmp /\ (cmp * U32 + (offset % U32)) % U32 = offset % U32
  BY <1>8, <1>9
<1>5. (offset % U32) % U32 = offset % U32
  BY <1>1, <1>3
<1>6. Signed(offset % U32, 4) = Signed(offset, 4)
  BY <1>1, <1>5 DEF Signed
<1>7. Signed(offset, 4) = offset
  BY SignedRoundTrip DEF I32
<1>. QED
  BY <1>4, <1>6, <1>7 DEF FromU64, ComparatorTryFrom, Ok, Err

=============================================================================
