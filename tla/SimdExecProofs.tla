--------------------------- MODULE SimdExecProofs ---------------------------
(***************************************************************************)
(* Proofs about the SIMD handlers of SimdExec, for every byte range, lane  *)
(* count, frame, host byte order and set of bodies that satisfy the        *)
(* assumptions of Words, SimdIR and SimdExec.                              *)
(***************************************************************************)
EXTENDS SimdExec, TLAPS

(***************************************************************************)
(* Lemmas on the lane operators.                                           *)
(***************************************************************************)

(* The lane bits are a positive number. *)
LEMMA LaneBitsType == LaneBits \in 1..ByteRange
BY SimdIRAssumption DEF LaneBits

(* A lane of any integer is a byte. *)
LEMMA LaneType ==
  ASSUME NEW v \in Int, NEW i \in LaneIdx
  PROVE  Lane(v, i) \in Bytes
<1>1. ByteRange^i \in Nat \ {0}
  BY LaneRadixAssumption, SimdIRAssumption DEF LaneIdx
<1>2. ByteRange \in Nat \ {0}
  BY ByteRangeAssumption
<1>. QED
  BY <1>1, <1>2 DEF Lane, ByteOf, Bytes

(* A choice of lanes is a v128. *)
LEMMA FromLanesType ==
  ASSUME NEW l \in [LaneIdx -> Bytes]
  PROVE  FromLanes(l) \in V128
BY LaneRadixAssumption DEF FromLanes

(* A bitwise selection of bytes is a byte. *)
LEMMA ByteSelectType ==
  ASSUME NEW x \in Bytes, NEW y \in Bytes, NEW z \in Bytes
  PROVE  ByteSelect(x, y, z) \in Bytes
<1>1. \E w \in Bytes : \A k \in 0..(LaneBits - 1) :
        Bit(w, k) = IF Bit(z, k) = 1 THEN Bit(x, k) ELSE Bit(y, k)
  BY LaneRadixAssumption
<1>. QED
  BY <1>1, Zenon DEF ByteSelect

(* Positional facts the lane operations rest on. *)
LEMMA RadixFacts == V128 \subseteq Int /\ ByteRange \in Nat \ {0}
BY ByteRangeAssumption DEF V128

(* Each lane function a handler calls yields a v128, given v128 operands. *)
LEMMA ShuffleType ==
  ASSUME NEW a \in V128, NEW b \in V128, NEW sel \in [LaneIdx -> LaneIdx2]
  PROVE  I8x16Shuffle(a, b, sel) \in V128
<1>1. \A i \in LaneIdx : sel[i] < Lanes => sel[i] \in LaneIdx
  BY SimdIRAssumption DEF LaneIdx, LaneIdx2
<1>2. \A i \in LaneIdx : ~(sel[i] < Lanes) => sel[i] - Lanes \in LaneIdx
  BY SimdIRAssumption DEF LaneIdx, LaneIdx2
<1>3. [i \in LaneIdx |-> IF sel[i] < Lanes THEN Lane(a, sel[i])
                       ELSE Lane(b, sel[i] - Lanes)] \in [LaneIdx -> Bytes]
  BY <1>1, <1>2, RadixFacts, LaneType
<1>. QED
  BY <1>3, FromLanesType DEF I8x16Shuffle

LEMMA BitselectType ==
  ASSUME NEW a \in V128, NEW b \in V128, NEW c \in V128
  PROVE  V128Bitselect(a, b, c) \in V128
<1>1. [i \in LaneIdx |-> ByteSelect(Lane(a, i), Lane(b, i), Lane(c, i))]
        \in [LaneIdx -> Bytes]
  BY RadixFacts, LaneType, ByteSelectType
<1>. QED
  BY <1>1, FromLanesType DEF V128Bitselect

LEMMA NegType ==
  ASSUME NEW a \in V128
  PROVE  I8x16Neg(a) \in V128
<1>1. [i \in LaneIdx |-> (ByteRange - Lane(a, i)) % ByteRange] \in [LaneIdx -> Bytes]
  BY RadixFacts, LaneType DEF Bytes
<1>. QED
  BY <1>1, FromLanesType DEF I8x16Neg

LEMMA AddType ==
  ASSUME NEW a \in V128, NEW b \in V128
  PROVE  I8x16Add(a, b) \in V128
<1>1. [i \in LaneIdx |-> (Lane(a, i) + Lane(b, i)) % ByteRange] \in [LaneIdx -> Bytes]
  BY RadixFacts, LaneType DEF Bytes
<1>. QED
  BY <1>1, FromLanesType DEF I8x16Add

LEMMA ExtractType ==
  ASSUME NEW a \in V128, NEW lane \in LaneIdx
  PROVE  I8x16ExtractLaneU(a, lane) \in V128
<1>1. Lane(a, lane) \in Bytes
  BY RadixFacts, LaneType
<1>2. V128Size \in Nat /\ ByteRange <= V128Size
  BY LaneRadixAssumption, SimdIRAssumption DEF V128Size
<1>. QED
  BY <1>1, <1>2, RadixFacts DEF I8x16ExtractLaneU, Bytes, V128

LEMMA ShlType ==
  ASSUME NEW a \in V128, NEW n \in 0..(LaneBits - 1)
  PROVE  I8x16Shl(a, n) \in V128
<1>1. n % LaneBits \in 0..LaneBits
  BY LaneBitsType
<1>2. 2^(n % LaneBits) \in Nat
  BY <1>1, LaneRadixAssumption
<1>3. [i \in LaneIdx |-> (Lane(a, i) * 2^(n % LaneBits)) % ByteRange]
        \in [LaneIdx -> Bytes]
  BY <1>2, RadixFacts, LaneType DEF Bytes
<1>. QED
  BY <1>3, FromLanesType DEF I8x16Shl

(***************************************************************************)
(* The inductive invariant.                                                *)
(***************************************************************************)

(* TypeOK is not inductive: a handler reads code[ip + 1] and steps by 1 or *)
(* 2, which needs the shape of the translated stream.                      *)
IInv ==
  /\ TypeOK
  /\ WellFormed(code, Pool(src))
  /\ NoUnreachableReached

(* A frame register reads a v128. *)
LEMMA GetFrameRegister ==
  ASSUME regs \in [FrameRegs -> V128], NEW r \in FrameRegs
  PROVE  GetRegister(r) \in V128
BY SimdIRAssumption DEF GetRegister

(* The fields of a head slot. *)
LEMMA SlotFields ==
  ASSUME NEW s \in Slot
  PROVE  /\ s.tag \in ParamHeads \cup {"I8x16Add"} =>
              s.result \in FrameRegs /\ s.lhs \in FrameRegs /\ s.rhs \in FrameRegs
         /\ s.tag = "I8x16Neg" => s.result \in FrameRegs /\ s.input \in FrameRegs
         /\ s.tag = "I8x16ExtractLaneU" =>
              s.result \in FrameRegs /\ s.input \in FrameRegs /\ s.lane \in LaneIdx
         /\ s.tag = "I8x16ShlBy" =>
              s.result \in FrameRegs /\ s.lhs \in FrameRegs
              /\ s.amount \in 0..(LaneBits - 1)
         /\ s.tag = "Register" => s.reg \in Int
BY DEF Slot, R, ParamHeads

(* The slot at ip of a running call and the well-formedness facts for it. *)
LEMMA HeadFacts ==
  ASSUME IInv, status = "running"
  PROVE  /\ ip \in 1..Len(code)
         /\ code[ip] \in Slot
         /\ code[ip].tag /= "Register"
         /\ code[ip].tag \in ParamHeads =>
              /\ ip + 2 <= Len(code)
              /\ code[ip + 1].tag = "Register"
              /\ code[ip + 2].tag /= "Register"
              /\ code[ip].tag = "I8x16Shuffle" =>
                   /\ -code[ip + 1].reg \in DOMAIN Pool(src)
                   /\ SelectorInBounds(Pool(src)[-code[ip + 1].reg])
              /\ code[ip].tag = "V128Bitselect" => code[ip + 1].reg \in FrameRegs
         /\ code[ip].tag \in {"I8x16Neg", "I8x16Add", "I8x16ExtractLaneU", "I8x16ShlBy"} =>
              /\ ip + 1 <= Len(code)
              /\ code[ip + 1].tag /= "Register"
BY DEF IInv, TypeOK, WellFormed, NoUnreachableReached

(* A handler that writes a v128 to a frame register and steps over n     *)
(* slots onto a slot that is not a Register keeps the invariant.           *)
LEMMA WriteStep ==
  ASSUME IInv, status = "running",
         NEW r \in FrameRegs, NEW v \in V128, NEW n \in {1, 2},
         ip + n <= Len(code), code[ip + n].tag /= "Register",
         WriteAndStep(r, v, n)
  PROVE  IInv'
BY DEF IInv, TypeOK, WellFormed, NoUnreachableReached, WriteAndStep, Status

(* execute_i8x16_shuffle finds its Register slot, reads an in-bounds      *)
(* selector from the constant pool and steps onto a head.                  *)
LEMMA ShuffleInv ==
  ASSUME IInv, ExecShuffle
  PROVE  IInv'
<1>1. status = "running" /\ code[ip].tag = "I8x16Shuffle"
  BY DEF ExecShuffle, Running
<1>. DEFINE i == code[ip]
            p == code[ip + 1]
            sel == NeBytes(GetRegister(p.reg))
<1>2. /\ ip + 2 <= Len(code)
      /\ p.tag = "Register"
      /\ code[ip + 2].tag /= "Register"
      /\ -p.reg \in DOMAIN Pool(src)
      /\ SelectorInBounds(Pool(src)[-p.reg])
  BY <1>1, HeadFacts DEF ParamHeads
<1>3. /\ i.result \in FrameRegs /\ i.lhs \in FrameRegs /\ i.rhs \in FrameRegs
      /\ p.reg \in Int
  <2>1. i \in Slot /\ p \in Slot /\ ip \in 1..Len(code)
    BY <1>1, <1>2, HeadFacts DEF IInv, TypeOK
  <2>. QED
    BY <1>1, <1>2, <2>1, SlotFields DEF ParamHeads
<1>4. GetRegister(p.reg) = Pool(src)[-p.reg]
  BY <1>2, <1>3 DEF GetRegister, Pool
<1>5. LanesInBounds(sel)
  BY <1>2, <1>4, SimdExecAssumption, SimdIRAssumption
  DEF LanesInBounds, NeBytes, SelectorInBounds, LaneIdx
<1>6. sel \in [LaneIdx -> LaneIdx2]
  BY <1>5 DEF NeBytes, LanesInBounds
<1>7. GetRegister(i.lhs) \in V128 /\ GetRegister(i.rhs) \in V128
  BY <1>3, GetFrameRegister DEF IInv, TypeOK
<1>8. I8x16Shuffle(GetRegister(i.lhs), GetRegister(i.rhs), sel) \in V128
  BY <1>6, <1>7, ShuffleType
<1>9. WriteAndStep(i.result, I8x16Shuffle(GetRegister(i.lhs), GetRegister(i.rhs), sel), 2)
  BY <1>2, <1>5 DEF ExecShuffle, FetchRegister
<1>. QED
  BY <1>1, <1>2, <1>3, <1>8, <1>9, WriteStep

(* execute_v128_bitselect finds its Register slot, a frame register, and  *)
(* steps onto a head.                                                      *)
LEMMA BitselectInv ==
  ASSUME IInv, ExecBitselect
  PROVE  IInv'
<1>1. status = "running" /\ code[ip].tag = "V128Bitselect"
  BY DEF ExecBitselect, Running
<1>. DEFINE i == code[ip]
            p == code[ip + 1]
<1>2. /\ ip + 2 <= Len(code)
      /\ p.tag = "Register"
      /\ code[ip + 2].tag /= "Register"
      /\ p.reg \in FrameRegs
  BY <1>1, HeadFacts DEF ParamHeads
<1>3. i.result \in FrameRegs /\ i.lhs \in FrameRegs /\ i.rhs \in FrameRegs
  <2>1. i \in Slot
    BY <1>1, HeadFacts
  <2>. QED
    BY <1>1, <2>1, SlotFields DEF ParamHeads
<1>4. /\ GetRegister(i.lhs) \in V128 /\ GetRegister(i.rhs) \in V128
      /\ GetRegister(p.reg) \in V128
  BY <1>2, <1>3, GetFrameRegister DEF IInv, TypeOK
<1>5. V128Bitselect(GetRegister(i.lhs), GetRegister(i.rhs), GetRegister(p.reg)) \in V128
  BY <1>4, BitselectType
<1>6. WriteAndStep(i.result,
        V128Bitselect(GetRegister(i.lhs), GetRegister(i.rhs), GetRegister(p.reg)), 2)
  BY <1>2 DEF ExecBitselect, FetchRegister
<1>. QED
  BY <1>1, <1>2, <1>3, <1>5, <1>6, WriteStep

(* The one-slot handlers step onto the head the translator put next. *)
LEMMA OneSlotInv ==
  ASSUME IInv, ExecUnary \/ ExecBinary \/ ExecExtractLane \/ ExecShiftBy
  PROVE  IInv'
<1>. DEFINE i == code[ip]
<1>1. /\ status = "running"
      /\ i.tag \in {"I8x16Neg", "I8x16Add", "I8x16ExtractLaneU", "I8x16ShlBy"}
  BY DEF ExecUnary, ExecBinary, ExecExtractLane, ExecShiftBy, Running
<1>2. ip + 1 <= Len(code) /\ code[ip + 1].tag /= "Register" /\ i \in Slot
  BY <1>1, HeadFacts
<1>3. regs \in [FrameRegs -> V128]
  BY DEF IInv, TypeOK
<1>4. CASE ExecUnary
  <2>1. i.tag = "I8x16Neg"
    BY <1>4 DEF ExecUnary, Running
  <2>2. i.result \in FrameRegs /\ GetRegister(i.input) \in V128
    BY <1>2, <1>3, <2>1, SlotFields, GetFrameRegister
  <2>. QED
    BY <1>1, <1>2, <1>4, <2>2, NegType, WriteStep DEF ExecUnary
<1>5. CASE ExecBinary
  <2>1. i.tag = "I8x16Add"
    BY <1>5 DEF ExecBinary, Running
  <2>2. /\ i.result \in FrameRegs
        /\ GetRegister(i.lhs) \in V128 /\ GetRegister(i.rhs) \in V128
    BY <1>2, <1>3, <2>1, SlotFields, GetFrameRegister
  <2>. QED
    BY <1>1, <1>2, <1>5, <2>2, AddType, WriteStep DEF ExecBinary
<1>6. CASE ExecExtractLane
  <2>1. i.tag = "I8x16ExtractLaneU"
    BY <1>6 DEF ExecExtractLane, Running
  <2>2. /\ i.result \in FrameRegs /\ i.lane \in LaneIdx
        /\ GetRegister(i.input) \in V128
    BY <1>2, <1>3, <2>1, SlotFields, GetFrameRegister
  <2>. QED
    BY <1>1, <1>2, <1>6, <2>2, ExtractType, WriteStep DEF ExecExtractLane
<1>7. CASE ExecShiftBy
  <2>1. i.tag = "I8x16ShlBy"
    BY <1>7 DEF ExecShiftBy, Running
  <2>2. /\ i.result \in FrameRegs /\ i.amount \in 0..(LaneBits - 1)
        /\ GetRegister(i.lhs) \in V128
    BY <1>2, <1>3, <2>1, SlotFields, GetFrameRegister
  <2>. QED
    BY <1>1, <1>2, <1>7, <2>2, ShlType, WriteStep DEF ExecShiftBy
<1>. QED
  BY <1>4, <1>5, <1>6, <1>7

(* Return ends the call. *)
LEMMA ReturnInv ==
  ASSUME IInv, ExecReturn
  PROVE  IInv'
BY DEF IInv, ExecReturn, TypeOK, WellFormed, NoUnreachableReached, Status

(* The translated body of a call starts on a head. *)
LEMMA InitInv == Init => IInv
<1>. SUFFICES ASSUME Init PROVE IInv
  OBVIOUS
<1>1. WellFormed(code, Pool(src))
  BY TranslateAssumption DEF Init
<1>2. regs \in [FrameRegs -> V128] /\ src \in Seq(SrcOp)
  BY SimdExecAssumption DEF Init
<1>. QED
  BY <1>1, <1>2 DEF Init, IInv, TypeOK, WellFormed, NoUnreachableReached, Status

LEMMA IInvStep == IInv /\ [Next]_vars => IInv'
<1>. SUFFICES ASSUME IInv, [Next]_vars PROVE IInv'
  OBVIOUS
<1>1. CASE ExecShuffle
  BY <1>1, ShuffleInv
<1>2. CASE ExecBitselect
  BY <1>2, BitselectInv
<1>3. CASE ExecUnary \/ ExecBinary \/ ExecExtractLane \/ ExecShiftBy
  BY <1>3, OneSlotInv
<1>4. CASE ExecReturn
  BY <1>4, ReturnInv
<1>5. CASE UNCHANGED vars
  BY <1>5 DEF vars, IInv, TypeOK, WellFormed, NoUnreachableReached
<1>. QED
  BY <1>1, <1>2, <1>3, <1>4, <1>5 DEF Next

(***************************************************************************)
(* Theorems.                                                               *)
(***************************************************************************)

(* Every register the SIMD handlers write holds a v128 and ip stays on a  *)
(* slot of the stream, for every lane count, byte range and host order.    *)
THEOREM SimdTypeCorrect == Spec => []TypeOK
<1>1. Init => IInv
  BY InitInv
<1>2. IInv /\ [Next]_vars => IInv'
  BY IInvStep
<1>3. IInv => TypeOK
  BY DEF IInv
<1>. QED
  BY <1>1, <1>2, <1>3, PTL DEF Spec

(* No SIMD handler reaches an unreachable_unchecked! arm and ip never      *)
(* rests on a Register parameter slot, for every body the translator       *)
(* lowers well-formed.                                                     *)
THEOREM SimdNoUnreachable == Spec => []NoUnreachableReached
<1>1. Init => IInv
  BY InitInv
<1>2. IInv /\ [Next]_vars => IInv'
  BY IInvStep
<1>3. IInv => NoUnreachableReached
  BY DEF IInv
<1>. QED
  BY <1>1, <1>2, <1>3, PTL DEF Spec

=============================================================================
