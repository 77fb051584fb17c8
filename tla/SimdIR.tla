------------------------------- MODULE SimdIR -------------------------------
(***************************************************************************)
(* The v128 data and the SIMD slice of the IR (spec 4.4).  A v128 is an    *)
(* integer of Lanes bytes, lane i being byte i of its little-endian form   *)
(* (lane 0 least significant), as V128::as_u128 yields it.  Only the i8x16 *)
(* shape is kept: every lane is a byte of ByteRange values.               *)
(*                                                                         *)
(* The lane operations of the simd library layer and the translator's     *)
(* lowering are not part of the source: both are modelled from the spec   *)
(* (the Wasm lane semantics; the trailing Register slot of Shuffle and    *)
(* Bitselect, the shuffle immediate placed in the constant pool).          *)
(***************************************************************************)
EXTENDS Words, Sequences, FiniteSets

CONSTANTS
  Lanes,       \* bytes of a v128 (16 in the code)
  FrameRegs    \* the registers of the frame

ASSUME SimdIRAssumption ==
  /\ Lanes \in Nat \ {0}
  /\ \E k \in 1..ByteRange : 2^k = ByteRange
  /\ 2 * Lanes <= ByteRange
  /\ FrameRegs \subseteq Nat

LaneIdx  == 0..(Lanes - 1)
LaneIdx2 == 0..(2 * Lanes - 1)
V128Size == ByteRange^Lanes
V128 == 0..(V128Size - 1)

(* Bits of a lane: ByteRange = 2^LaneBits. *)
LaneBits == CHOOSE k \in 1..ByteRange : 2^k = ByteRange

Lane(v, i) == ByteOf(v, i)

(* The v128 whose lane i is l[i]. *)
FromLanes(l) == CHOOSE v \in V128 : \A i \in LaneIdx : Lane(v, i) = l[i]

(* Bit k of x. *)
Bit(x, k) == (x \div 2^k) % 2

(* The byte with the bits of x where z has a 1 and those of y elsewhere. *)
ByteSelect(x, y, z) ==
  CHOOSE w \in Bytes :
    \A k \in 0..(LaneBits - 1) : Bit(w, k) = IF Bit(z, k) = 1 THEN Bit(x, k) ELSE Bit(y, k)

(* Facts of positional notation that the provers cannot derive from ^:     *)
(* the powers a lane index reaches are positive, every choice of lanes and *)
(* every bitwise selection of bytes is a value (checked by TLC).           *)
ASSUME LaneRadixAssumption ==
  /\ \A i \in 0..Lanes : ByteRange^i \in Nat \ {0}
  /\ ByteRange <= V128Size
  /\ \A k \in 0..LaneBits : 2^k \in Nat \ {0}
  /\ \A l \in [LaneIdx -> Bytes] : \E v \in V128 : \A i \in LaneIdx : Lane(v, i) = l[i]
  /\ \A x, y, z \in Bytes : \E w \in Bytes :
       \A k \in 0..(LaneBits - 1) : Bit(w, k) = IF Bit(z, k) = 1 THEN Bit(x, k) ELSE Bit(y, k)

(***************************************************************************)
(* Lane semantics of the simd library functions the handlers call.         *)
(***************************************************************************)

(* simd::i8x16_shuffle: lane i of the result is lane sel[i] of lhs ++ rhs. *)
I8x16Shuffle(lhs, rhs, sel) ==
  FromLanes([i \in LaneIdx |-> IF sel[i] < Lanes THEN Lane(lhs, sel[i])
                                ELSE Lane(rhs, sel[i] - Lanes)])

(* simd::v128_bitselect: bits of lhs where c is 1, of rhs where it is 0; *)
(* a bitwise operation, so lane by lane.                                   *)
V128Bitselect(lhs, rhs, c) ==
  FromLanes([i \in LaneIdx |-> ByteSelect(Lane(lhs, i), Lane(rhs, i), Lane(c, i))])

(* simd::i8x16_neg and simd::i8x16_add, wrapping per lane. *)
I8x16Neg(v) == FromLanes([i \in LaneIdx |-> (ByteRange - Lane(v, i)) % ByteRange])

I8x16Add(a, b) == FromLanes([i \in LaneIdx |-> (Lane(a, i) + Lane(b, i)) % ByteRange])

(* simd::i8x16_extract_lane_u: the lane zero-extended. *)
I8x16ExtractLaneU(v, lane) == Lane(v, lane)

(* simd::i8x16_shl: each lane shifted left by the amount modulo its bits. *)
I8x16Shl(v, amount) ==
  FromLanes([i \in LaneIdx |-> (Lane(v, i) * 2^(amount % LaneBits)) % ByteRange])

(***************************************************************************)
(* Source operations and their lowering.                                   *)
(***************************************************************************)

R == FrameRegs

SrcOp ==
       [kind : {"i8x16.shuffle"}, result : R, lhs : R, rhs : R, lanes : [LaneIdx -> LaneIdx2]]
  \cup [kind : {"v128.bitselect"}, result : R, lhs : R, rhs : R, sel : R]
  \cup [kind : {"i8x16.neg"}, result : R, input : R]
  \cup [kind : {"i8x16.add"}, result : R, lhs : R, rhs : R]
  \cup [kind : {"i8x16.extract_lane_u"}, result : R, input : R, lane : LaneIdx]
  \cup [kind : {"i8x16.shl"}, result : R, lhs : R, amount : Word32]

(* The Wasm meaning of op: the value it writes to op.result given the     *)
(* registers g.                                                             *)
WasmResult(op, g) ==
  CASE op.kind = "i8x16.shuffle" -> I8x16Shuffle(g[op.lhs], g[op.rhs], op.lanes)
    [] op.kind = "v128.bitselect" -> V128Bitselect(g[op.lhs], g[op.rhs], g[op.sel])
    [] op.kind = "i8x16.neg" -> I8x16Neg(g[op.input])
    [] op.kind = "i8x16.add" -> I8x16Add(g[op.lhs], g[op.rhs])
    [] op.kind = "i8x16.extract_lane_u" -> I8x16ExtractLaneU(g[op.input], op.lane)
    [] op.kind = "i8x16.shl" -> I8x16Shl(g[op.lhs], op.amount)

Slot ==
       [tag : {"I8x16Shuffle", "V128Bitselect", "I8x16Add"}, result : R, lhs : R, rhs : R]
  \cup [tag : {"I8x16Neg"}, result : R, input : R]
  \cup [tag : {"I8x16ExtractLaneU"}, result : R, input : R, lane : LaneIdx]
  \cup [tag : {"I8x16ShlBy"}, result : R, lhs : R, amount : 0..(LaneBits - 1)]
  \cup [tag : {"Register"}, reg : Int]
  \cup [tag : {"Return"}]

IsShuffle(op) == op.kind = "i8x16.shuffle"

(* The constant pool of a body: the selector of its j-th shuffle, encoded *)
(* little-endian, is constant register -j.                                  *)
Pool(s) ==
  LET sh == SelectSeq(s, IsShuffle)
  IN  [j \in 1..Len(sh) |-> FromLanes(sh[j].lanes)]

ShuffleNo(s, k) == Cardinality({j \in 1..k : IsShuffle(s[j])})

HeadSlot(op, tag) == [result |-> op.result, lhs |-> op.lhs, rhs |-> op.rhs, tag |-> tag]

(* The slots emitted for the k-th operation of s.  The shift amount is    *)
(* stored as ShiftAmount, reduced modulo the lane bits.                    *)
Encode(s, k) ==
  LET op == s[k] IN
  CASE op.kind = "i8x16.shuffle" ->
         << HeadSlot(op, "I8x16Shuffle"), [tag |-> "Register", reg |-> -ShuffleNo(s, k)] >>
    [] op.kind = "v128.bitselect" ->
         << HeadSlot(op, "V128Bitselect"), [tag |-> "Register", reg |-> op.sel] >>
    [] op.kind = "i8x16.add" -> << HeadSlot(op, "I8x16Add") >>
    [] op.kind = "i8x16.neg" ->
         << [tag |-> "I8x16Neg", result |-> op.result, input |-> op.input] >>
    [] op.kind = "i8x16.extract_lane_u" ->
         << [tag |-> "I8x16ExtractLaneU", result |-> op.result, input |-> op.input,
             lane |-> op.lane] >>
    [] op.kind = "i8x16.shl" ->
         << [tag |-> "I8x16ShlBy", result |-> op.result, lhs |-> op.lhs,
             amount |-> op.amount % LaneBits] >>

Emitted(s) ==
  LET enc[k \in 0..Len(s)] == IF k = 0 THEN << >> ELSE enc[k - 1] \o Encode(s, k)
  IN  enc

Translate(s) == Emitted(s)[Len(s)] \o << [tag |-> "Return"] >>

OpStart(s, k) == Len(Emitted(s)[k - 1]) + 1

(* The layout of the stream Translate(s): the slots of the operations     *)
(* follow one another from slot 1 in program order, each run of slots is   *)
(* Encode(s, k), Return follows the last, and the selector of the j-th     *)
(* shuffle is pool entry j.  These are what the recursive Emitted and      *)
(* SelectSeq compute, stated for one body at a time.                        *)
Layout(s) ==
  LET n == Len(s)
      c == Translate(s)
  IN  /\ OpStart(s, 1) = 1
      /\ \A k \in 1..(n + 1) : OpStart(s, k) \in Nat
      /\ \A k \in 1..n :
           /\ OpStart(s, k + 1) = OpStart(s, k) + Len(Encode(s, k))
           /\ \A j \in 1..Len(Encode(s, k)) : c[OpStart(s, k) + j - 1] = Encode(s, k)[j]
           /\ IsShuffle(s[k]) => Pool(s)[ShuffleNo(s, k)] = FromLanes(s[k].lanes)
      /\ Len(c) = OpStart(s, n + 1)

(* Every byte of a shuffle selector is a lane index of lhs ++ rhs. *)
SelectorInBounds(v) == \A i \in LaneIdx : ByteOf(v, i) \in LaneIdx2

ParamHeads == {"I8x16Shuffle", "V128Bitselect"}

(* The stream invariants the handlers rely on (spec 3): a head first and  *)
(* Return last; Shuffle and Bitselect followed by their Register slot,    *)
(* naming a pool selector whose bytes are in bounds or a frame register; *)
(* a head, never a Register, after each instruction.                      *)
WellFormed(c, pool) ==
  /\ c \in Seq(Slot)
  /\ Len(c) >= 1
  /\ c[1].tag /= "Register"
  /\ c[Len(c)].tag = "Return"
  /\ \A i \in 1..Len(c) :
       /\ c[i].tag \in ParamHeads =>
            /\ i + 2 <= Len(c)
            /\ c[i + 1].tag = "Register"
            /\ c[i + 2].tag /= "Register"
            /\ c[i].tag = "I8x16Shuffle" =>
                 /\ -c[i + 1].reg \in DOMAIN pool
                 /\ SelectorInBounds(pool[-c[i + 1].reg])
            /\ c[i].tag = "V128Bitselect" => c[i + 1].reg \in FrameRegs
       /\ c[i].tag \in {"I8x16Neg", "I8x16Add", "I8x16ExtractLaneU", "I8x16ShlBy"} =>
            /\ i + 1 <= Len(c)
            /\ c[i + 1].tag /= "Register"

=============================================================================
