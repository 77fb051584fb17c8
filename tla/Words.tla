------------------------------- MODULE Words -------------------------------
(***************************************************************************)
(* Fixed-width integers counted in bytes.  A byte has ByteRange values     *)
(* (256 in the code), so that u32 = ByteRange^4 and u64 = ByteRange^8 keep *)
(* their overflow thresholds, sign extension and byte order when a run     *)
(* uses a small ByteRange that makes a 64-bit word fit TLC's integers.     *)
(***************************************************************************)
EXTENDS Integers

CONSTANT ByteRange  \* number of values of a byte (256 in the code)

ASSUME ByteRangeAssumption == ByteRange \in Nat /\ ByteRange >= 2

(* The radix of every byte position of a 64-bit word is a positive number. *)
ASSUME RadixAssumption == \A i \in 0..8 : ByteRange^i \in Nat \ {0}

(* Each byte position is ByteRange times the one below it. *)
ASSUME RadixStep ==
  /\ ByteRange^0 = 1
  /\ \A i \in 0..7 : ByteRange^(i + 1) = ByteRange^i * ByteRange

U32 == ByteRange^4          \* 2^32
U64 == U32 * U32           \* 2^64
Bytes == 0..(ByteRange - 1)
Word32 == 0..(U32 - 1)      \* u32
Word64 == 0..(U64 - 1)      \* u64, the bit patterns of an UntypedVal

(* The values of an n-byte signed integer (i16 for n = 2, i32 for n = 4). *)
SignedRange(n) == (-(ByteRange^n \div 2))..(ByteRange^n \div 2 - 1)

(* The n-byte two's complement reading of the integer c (an `as iN` cast). *)
Signed(c, n) ==
  LET m == ByteRange^n
      u == c % m
  IN  IF u >= m \div 2 THEN u - m ELSE u

(* Whether c fits a Const16 (a 16-bit signed immediate). *)
Fits16(c) == Signed(c, 2) = c

(* Byte i (little-endian) of the bit pattern v. *)
ByteOf(v, i) == (v \div ByteRange^i) % ByteRange

=============================================================================
