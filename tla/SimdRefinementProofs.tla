------------------------ MODULE SimdRefinementProofs ------------------------
(***************************************************************************)
(* Proof that the SIMD handlers of SimdExec implement WasmSimd under the   *)
(* abstract program counter AbsPc, on a little-endian host, for every lane *)
(* count, byte range, frame and set of bodies that satisfy the assumptions *)
(* of Words, SimdIR and SimdExec.                                          *)
(***************************************************************************)
EXTENDS SimdExecProofs, FiniteSetTheorems

(***************************************************************************)
(* Lemmas on the translator's layout.                                      *)
(***************************************************************************)

(* What Encode emits for each kind of operation. *)
LEMMA EncodeFacts ==
  ASSUME NEW s \in Seq(SrcOp), NEW k \in 1..Len(s)
  PROVE  LET op == s[k]
             e  == Encode(s, k)
         IN  /\ op.kind = "i8x16.shuffle" =>
                  /\ Len(e) = 2 /\ e[1] = HeadSlot(op, "I8x16Shuffle")
                  /\ e[2] = [tag |-> "Register", reg |-> -ShuffleNo(s, k)]
             /\ op.kind = "v128.bitselect" =>
                  /\ Len(e) = 2 /\ e[1] = HeadSlot(op, "V128Bitselect")
                  /\ e[2] = [tag |-> "Register", reg |-> op.sel]
             /\ op.kind = "i8x16.add" =>
                  Len(e) = 1 /\ e[1] = HeadSlot(op, "I8x16Add")
             /\ op.kind = "i8x16.neg" =>
                  /\ Len(e) = 1
                  /\ e[1] = [tag |-> "I8x16Neg", result |-> op.result, input |-> op.input]
             /\ op.kind = "i8x16.extract_lane_u" =>
                  /\ Len(e) = 1
                  /\ e[1] = [tag |-> "I8x16ExtractLaneU", result |-> op.result,
                             input |-> op.input, lane |-> op.lane]
             /\ op.kind = "i8x16.shl" =>
                  /\ Len(e) = 1
                  /\ e[1] = [tag |-> "I8x16ShlBy", result |-> op.result, lhs |-> op.lhs,
                             amount |-> op.amount % LaneBits]
             /\ Len(e) \in {1, 2}
             /\ e[1].tag /= "Return" /\ e[1].tag /= "Register"
<1>. DEFINE op == s[k]
<1>1. op \in SrcOp
  OBVIOUS
<1>. QED
  BY <1>1 DEF Encode, SrcOp, HeadSlot

(* The tag of an operation's first slot tells which operation it is. *)
LEMMA EncodeHeadTag ==
  ASSUME NEW s \in Seq(SrcOp), NEW k \in 1..Len(s)
  PROVE
         /\ Encode(s, k)[1].tag = "I8x16Shuffle" => s[k].kind = "i8x16.shuffle"
         /\ Encode(s, k)[1].tag = "V128Bitselect" => s[k].kind = "v128.bitselect"
         /\ Encode(s, k)[1].tag = "I8x16Add" => s[k].kind = "i8x16.add"
         /\ Encode(s, k)[1].tag = "I8x16Neg" => s[k].kind = "i8x16.neg"
         /\ Encode(s, k)[1].tag = "I8x16ExtractLaneU" => s[k].kind = "i8x16.extract_lane_u"
         /\ Encode(s, k)[1].tag = "I8x16ShlBy" => s[k].kind = "i8x16.shl"
<1>1. s[k] \in SrcOp
  OBVIOUS
<1>2. CASE s[k].kind = "i8x16.shuffle"
  BY <1>2 DEF Encode, HeadSlot
<1>3. CASE s[k].kind = "v128.bitselect"
  BY <1>3 DEF Encode, HeadSlot
<1>4. CASE s[k].kind = "i8x16.add"
  BY <1>4 DEF Encode, HeadSlot
<1>5. CASE s[k].kind = "i8x16.neg"
  BY <1>5 DEF Encode, HeadSlot
<1>6. CASE s[k].kind = "i8x16.extract_lane_u"
  BY <1>6 DEF Encode, HeadSlot
<1>7. CASE s[k].kind = "i8x16.shl"
  BY <1>7 DEF Encode, HeadSlot
<1>. QED
  BY <1>1, <1>2, <1>3, <1>4, <1>5, <1>6, <1>7 DEF SrcOp

(* The operations' first slots rise strictly with the operation's index:  *)
(* each run of slots has one or two.                                       *)
LEMMA OpStartMonotone ==
  ASSUME NEW s \in SrcPrograms
  PROVE  \A k1, k2 \in 1..(Len(s) + 1) : k1 < k2 => OpStart(s, k1) < OpStart(s, k2)
<1>. DEFINE n == Len(s)
<1>1. Layout(s) /\ s \in Seq(SrcOp)
  BY LayoutAssumption, SimdExecAssumption
<1>2. \A k \in 1..(n + 1) : OpStart(s, k) \in Nat
  BY <1>1 DEF Layout
<1>3. \A k \in 1..n : OpStart(s, k) < OpStart(s, k + 1)
  <2>. SUFFICES ASSUME NEW k \in 1..n PROVE OpStart(s, k) < OpStart(s, k + 1)
    OBVIOUS
  <2>1. OpStart(s, k + 1) = OpStart(s, k) + Len(Encode(s, k))
    BY <1>1 DEF Layout
  <2>2. Len(Encode(s, k)) \in {1, 2}
    BY <1>1, EncodeFacts
  <2>3. k \in 1..(n + 1) /\ k + 1 \in 1..(n + 1)
    BY <1>1
  <2>4. OpStart(s, k) \in Nat
    BY <1>2, <2>3
  <2>5. \A a \in Nat, b \in {1, 2} : \A c : c = a + b => a < c
    OBVIOUS
  <2>. QED
    BY <2>1, <2>2, <2>4, <2>5, Zenon
<1>. SUFFICES ASSUME NEW k1 \in 1..(n + 1), NEW k2 \in 1..(n + 1), k1 < k2
              PROVE  OpStart(s, k1) < OpStart(s, k2)
  OBVIOUS
<1>. DEFINE T == {m \in (k1 + 1)..(n + 1) : ~(OpStart(s, k1) < OpStart(s, m))}
<1>. SUFFICES ASSUME T /= {} PROVE FALSE
  OBVIOUS
<1>4. \E m \in T : \A y \in T : ~(<<y, m>> \in OpToRel(<, Nat))
  <2>1. T \subseteq Nat
    OBVIOUS
  <2>. QED
    BY <2>1, WFMin, NatLessThanWellFounded
<1>5. PICK m \in T : \A y \in T : ~(<<y, m>> \in OpToRel(<, Nat))
  BY <1>4
<1>6. m - 1 \notin T
  <2>1. m - 1 \in Nat /\ m \in Nat /\ m - 1 < m
    OBVIOUS
  <2>. QED
    BY <1>5, <2>1 DEF OpToRel
<1>7. OpStart(s, m - 1) < OpStart(s, m)
  BY <1>3
<1>8. CASE m - 1 = k1
  BY <1>2, <1>7, <1>8
<1>9. CASE m - 1 /= k1
  <2>1. OpStart(s, k1) < OpStart(s, m - 1)
    BY <1>6, <1>9
  <2>. QED
    BY <1>2, <1>7, <2>1
<1>. QED
  BY <1>8, <1>9

(* At the first slot of operation p the abstract program counter is p. *)
LEMMA AbsPcValue ==
  ASSUME NEW s \in SrcPrograms, NEW p \in 1..(Len(s) + 1)
  PROVE  1 + Cardinality({k \in 1..Len(s) : OpStart(s, k) < OpStart(s, p)}) = p
<1>1. s \in Seq(SrcOp) /\ Layout(s)
  BY LayoutAssumption, SimdExecAssumption
<1>2. \A k \in 1..(Len(s) + 1) : OpStart(s, k) \in Nat
  BY <1>1 DEF Layout
<1>3. {k \in 1..Len(s) : OpStart(s, k) < OpStart(s, p)} = 1..(p - 1)
  BY <1>2, OpStartMonotone
<1>4. Cardinality(1..(p - 1)) = p - 1
  BY FS_Interval
<1>5. Cardinality({k \in 1..Len(s) : OpStart(s, k) < OpStart(s, p)}) = p - 1
  BY <1>3, <1>4, Zenon
<1>. QED
  BY <1>1, <1>5

(* The lanes of FromLanes(l) are l. *)
LEMMA FromLanesLanes ==
  ASSUME NEW l \in [LaneIdx -> Bytes]
  PROVE  \A i \in LaneIdx : Lane(FromLanes(l), i) = l[i]
BY LaneRadixAssumption DEF FromLanes

------------------------------------------------------------------------

(***************************************************************************)
(* The refinement invariant.                                               *)
(***************************************************************************)

(* ip rests on the first slot of an operation, or on the final Return. *)
OnOpStart == \E p \in 1..(Len(src) + 1) : ip = OpStart(src, p)

(* The invariant of SimdExecProofs, with the stream being the translation *)
(* of the body and ip on the first slot of an operation.                   *)
RInv ==
  /\ IInv
  /\ src \in SrcPrograms
  /\ code = Translate(src)
  /\ OnOpStart

(* What the stream holds at the first slot of operation p. *)
LEMMA CurrentOp ==
  ASSUME RInv, NEW p \in 1..(Len(src) + 1), ip = OpStart(src, p)
  PROVE  /\ AbsPc = p
         /\ p <= Len(src) =>
              /\ code[ip] = Encode(src, p)[1]
              /\ OpStart(src, p + 1) = ip + Len(Encode(src, p))
              /\ Len(Encode(src, p)) = 2 => code[ip + 1] = Encode(src, p)[2]
         /\ p = Len(src) + 1 => code[ip].tag = "Return"
<1>1. src \in SrcPrograms /\ src \in Seq(SrcOp) /\ Layout(src) /\ code = Translate(src)
  BY LayoutAssumption, SimdExecAssumption DEF RInv
<1>2. AbsPc = p
  BY <1>1, AbsPcValue DEF AbsPc, RInv
<1>3. ASSUME p <= Len(src)
      PROVE  /\ code[ip] = Encode(src, p)[1]
             /\ OpStart(src, p + 1) = ip + Len(Encode(src, p))
             /\ Len(Encode(src, p)) = 2 => code[ip + 1] = Encode(src, p)[2]
  <2>0. p \in 1..Len(src)
    BY <1>3
  <2>1. Len(Encode(src, p)) \in {1, 2}
    BY <1>1, <2>0, EncodeFacts
  <2>2. \A j \in 1..Len(Encode(src, p)) :
          code[OpStart(src, p) + j - 1] = Encode(src, p)[j]
    BY <1>1, <2>0 DEF Layout
  <2>3. OpStart(src, p + 1) = OpStart(src, p) + Len(Encode(src, p))
    BY <1>1, <2>0 DEF Layout
  <2>4. OpStart(src, p) \in Nat
    BY <1>1 DEF Layout
  <2>. QED
    BY <2>0, <2>1, <2>2, <2>3, <2>4
<1>4. ASSUME p = Len(src) + 1 PROVE code[ip].tag = "Return"
  <2>1. Len(code) = ip
    BY <1>1, <1>4 DEF Layout
  <2>. QED
    BY <2>1 DEF RInv, IInv, WellFormed
<1>. QED
  BY <1>2, <1>3, <1>4

(* WasmSimd and SimdExec read the same lane semantics of SimdIR: the     *)
(* instance's copy of WasmResult is WasmResult.                            *)
LEMMA AbsWasmResult ==
  ASSUME NEW op, NEW g
  PROVE  Abs!WasmResult(op, g) = WasmResult(op, g)
BY DEF Abs!WasmResult, WasmResult, Abs!I8x16Shuffle, I8x16Shuffle,
      Abs!V128Bitselect, V128Bitselect, Abs!I8x16Neg, I8x16Neg, Abs!I8x16Add,
      I8x16Add, Abs!I8x16ExtractLaneU, I8x16ExtractLaneU, Abs!I8x16Shl,
      I8x16Shl, Abs!FromLanes, FromLanes, Abs!Lane, Lane, Abs!ByteOf, ByteOf,
      Abs!ByteSelect, ByteSelect, Abs!Bit, Bit, Abs!LaneIdx, LaneIdx,
      Abs!LaneBits, LaneBits, Abs!V128, V128, Abs!V128Size, V128Size,
      Abs!Bytes, Bytes

(* A handler that writes the Wasm result of operation p and steps over    *)
(* the operation's slots performs WasmSimd's ExecuteOp.                    *)
LEMMA ExecuteStep ==
  ASSUME RInv, status = "running", NEW p \in 1..Len(src), ip = OpStart(src, p),
         WriteAndStep(src[p].result, WasmResult(src[p], regs), Len(Encode(src, p)))
  PROVE  Abs!ExecuteOp /\ OnOpStart' /\ UNCHANGED <<src, code>>
<1>1. AbsPc = p /\ OpStart(src, p + 1) = ip + Len(Encode(src, p))
  BY CurrentOp
<1>2. /\ regs' = [regs EXCEPT ![src[p].result] = WasmResult(src[p], regs)]
      /\ ip' = OpStart(src, p + 1)
      /\ UNCHANGED <<src, code, status>>
  BY <1>1 DEF WriteAndStep
<1>3. src \in SrcPrograms /\ p + 1 \in 1..(Len(src) + 1)
  BY SimdExecAssumption DEF RInv
<1>4. AbsPc' = p + 1
  BY <1>2, <1>3, AbsPcValue DEF AbsPc
<1>5. OnOpStart'
  BY <1>2, <1>3 DEF OnOpStart
<1>6. /\ AbsPc \in 1..Len(src)
      /\ regs' = [regs EXCEPT ![src[AbsPc].result] = WasmResult(src[AbsPc], regs)]
      /\ AbsPc' = AbsPc + 1
  BY <1>1, <1>2, <1>4
<1>7. Abs!ExecuteOp <=>
        /\ status = "running"
        /\ AbsPc \in 1..Len(src)
        /\ regs' = [regs EXCEPT ![src[AbsPc].result] = WasmResult(src[AbsPc], regs)]
        /\ AbsPc' = AbsPc + 1
        /\ UNCHANGED <<src, status>>
  BY AbsWasmResult DEF Abs!ExecuteOp
<1>8. src' = src /\ code' = code /\ status' = status
  BY <1>2
<1>. QED
  BY <1>5, <1>6, <1>7, <1>8

(* The operation at ip, when ip is on a head other than Return. *)
LEMMA HeadOp ==
  ASSUME RInv, status = "running", code[ip].tag /= "Return"
  PROVE  \E p \in 1..Len(src) :
           /\ ip = OpStart(src, p) /\ code[ip] = Encode(src, p)[1]
           /\ Len(Encode(src, p)) = 2 => code[ip + 1] = Encode(src, p)[2]
           /\ src[p] \in SrcOp
<1>1. PICK p \in 1..(Len(src) + 1) : ip = OpStart(src, p)
  BY DEF RInv, OnOpStart
<1>2. p /= Len(src) + 1
  BY <1>1, CurrentOp
<1>3. src \in Seq(SrcOp)
  BY SimdExecAssumption DEF RInv
<1>4. p \in 1..Len(src)
  BY <1>1, <1>2, <1>3
<1>. QED
  BY <1>1, <1>3, <1>4, CurrentOp

(* A register operand of a source operation reads the frame register. *)
LEMMA FrameRead ==
  ASSUME NEW r \in FrameRegs
  PROVE  GetRegister(r) = regs[r]
BY SimdIRAssumption DEF GetRegister

(* The binary handlers: i8x16_add of the two frame registers. *)
LEMMA BinaryRefines ==
  ASSUME RInv, ExecBinary
  PROVE  Abs!ExecuteOp /\ OnOpStart' /\ UNCHANGED <<src, code>>
<1>1. /\ status = "running" /\ code[ip].tag = "I8x16Add"
      /\ WriteAndStep(code[ip].result,
           I8x16Add(GetRegister(code[ip].lhs), GetRegister(code[ip].rhs)), 1)
  BY DEF ExecBinary, Running
<1>2. PICK p \in 1..Len(src) :
        /\ ip = OpStart(src, p) /\ code[ip] = Encode(src, p)[1]
        /\ src[p] \in SrcOp
  BY <1>1, HeadOp
<1>. DEFINE op == src[p]
<1>3. src \in Seq(SrcOp)
  BY SimdExecAssumption DEF RInv
<1>k. op.kind = "i8x16.add"
  BY <1>1, <1>2, <1>3, EncodeHeadTag
<1>4. /\ op.kind = "i8x16.add" /\ Len(Encode(src, p)) = 1
      /\ code[ip] = HeadSlot(op, "I8x16Add")
  BY <1>2, <1>3, <1>k, EncodeFacts
<1>5. op.lhs \in FrameRegs /\ op.rhs \in FrameRegs
  BY <1>2, <1>4 DEF SrcOp, R
<1>6. WasmResult(op, regs) = I8x16Add(GetRegister(op.lhs), GetRegister(op.rhs))
  BY <1>4, <1>5, FrameRead DEF WasmResult
<1>7. WriteAndStep(op.result, WasmResult(op, regs), Len(Encode(src, p)))
  BY <1>1, <1>4, <1>6 DEF HeadSlot
<1>. QED
  BY <1>1, <1>2, <1>7, ExecuteStep

(* The unary handlers: i8x16_neg of the frame register. *)
LEMMA UnaryRefines ==
  ASSUME RInv, ExecUnary
  PROVE  Abs!ExecuteOp /\ OnOpStart' /\ UNCHANGED <<src, code>>
<1>1. /\ status = "running" /\ code[ip].tag = "I8x16Neg"
      /\ WriteAndStep(code[ip].result, I8x16Neg(GetRegister(code[ip].input)), 1)
  BY DEF ExecUnary, Running
<1>2. PICK p \in 1..Len(src) :
        /\ ip = OpStart(src, p) /\ code[ip] = Encode(src, p)[1]
        /\ src[p] \in SrcOp
  BY <1>1, HeadOp
<1>. DEFINE op == src[p]
<1>3. src \in Seq(SrcOp)
  BY SimdExecAssumption DEF RInv
<1>k. op.kind = "i8x16.neg"
  BY <1>1, <1>2, <1>3, EncodeHeadTag
<1>4. /\ op.kind = "i8x16.neg" /\ Len(Encode(src, p)) = 1
      /\ code[ip] = [tag |-> "I8x16Neg", result |-> op.result, input |-> op.input]
  BY <1>2, <1>3, <1>k, EncodeFacts
<1>5. op.input \in FrameRegs
  BY <1>2, <1>4 DEF SrcOp, R
<1>6. WasmResult(op, regs) = I8x16Neg(GetRegister(op.input))
  BY <1>4, <1>5, FrameRead DEF WasmResult
<1>7. WriteAndStep(op.result, WasmResult(op, regs), Len(Encode(src, p)))
  BY <1>1, <1>4, <1>6
<1>. QED
  BY <1>1, <1>2, <1>7, ExecuteStep

(* execute_extract_lane: the lane of the frame register. *)
LEMMA ExtractRefines ==
  ASSUME RInv, ExecExtractLane
  PROVE  Abs!ExecuteOp /\ OnOpStart' /\ UNCHANGED <<src, code>>
<1>1. /\ status = "running" /\ code[ip].tag = "I8x16ExtractLaneU"
      /\ WriteAndStep(code[ip].result,
           I8x16ExtractLaneU(GetRegister(code[ip].input), code[ip].lane), 1)
  BY DEF ExecExtractLane, Running
<1>2. PICK p \in 1..Len(src) :
        /\ ip = OpStart(src, p) /\ code[ip] = Encode(src, p)[1]
        /\ src[p] \in SrcOp
  BY <1>1, HeadOp
<1>. DEFINE op == src[p]
<1>3. src \in Seq(SrcOp)
  BY SimdExecAssumption DEF RInv
<1>k. op.kind = "i8x16.extract_lane_u"
  BY <1>1, <1>2, <1>3, EncodeHeadTag
<1>4. /\ op.kind = "i8x16.extract_lane_u" /\ Len(Encode(src, p)) = 1
      /\ code[ip] = [tag |-> "I8x16ExtractLaneU", result |-> op.result,
                     input |-> op.input, lane |-> op.lane]
  BY <1>2, <1>3, <1>k, EncodeFacts
<1>5. op.input \in FrameRegs
  BY <1>2, <1>4 DEF SrcOp, R
<1>6. WasmResult(op, regs) = I8x16ExtractLaneU(GetRegister(op.input), op.lane)
  BY <1>4, <1>5, FrameRead DEF WasmResult
<1>7. WriteAndStep(op.result, WasmResult(op, regs), Len(Encode(src, p)))
  BY <1>1, <1>4, <1>6
<1>. QED
  BY <1>1, <1>2, <1>7, ExecuteStep

(* execute_simd_shift_by: the translator stores the amount modulo the     *)
(* lane bits, and i8x16_shl reduces it again, to the same amount.          *)
LEMMA ShiftRefines ==
  ASSUME RInv, ExecShiftBy
  PROVE  Abs!ExecuteOp /\ OnOpStart' /\ UNCHANGED <<src, code>>
<1>1. /\ status = "running" /\ code[ip].tag = "I8x16ShlBy"
      /\ WriteAndStep(code[ip].result,
           I8x16Shl(GetRegister(code[ip].lhs), code[ip].amount), 1)
  BY DEF ExecShiftBy, Running
<1>2. PICK p \in 1..Len(src) :
        /\ ip = OpStart(src, p) /\ code[ip] = Encode(src, p)[1]
        /\ src[p] \in SrcOp
  BY <1>1, HeadOp
<1>. DEFINE op == src[p]
<1>3. src \in Seq(SrcOp)
  BY SimdExecAssumption DEF RInv
<1>k. op.kind = "i8x16.shl"
  BY <1>1, <1>2, <1>3, EncodeHeadTag
<1>4. /\ op.kind = "i8x16.shl" /\ Len(Encode(src, p)) = 1
      /\ code[ip] = [tag |-> "I8x16ShlBy", result |-> op.result, lhs |-> op.lhs,
                     amount |-> op.amount % LaneBits]
  BY <1>2, <1>3, <1>k, EncodeFacts
<1>5. op.lhs \in FrameRegs /\ op.amount \in Nat
  BY <1>2, <1>4 DEF SrcOp, R, Word32
<1>6. (op.amount % LaneBits) % LaneBits = op.amount % LaneBits
  BY <1>5, LaneBitsType
<1>7. I8x16Shl(GetRegister(op.lhs), op.amount % LaneBits)
        = I8x16Shl(GetRegister(op.lhs), op.amount)
  BY <1>6 DEF I8x16Shl
<1>8. WasmResult(op, regs) = I8x16Shl(GetRegister(op.lhs), op.amount)
  BY <1>4, <1>5, FrameRead DEF WasmResult
<1>9. WriteAndStep(op.result, WasmResult(op, regs), Len(Encode(src, p)))
  BY <1>1, <1>4, <1>7, <1>8
<1>. QED
  BY <1>1, <1>2, <1>9, ExecuteStep

(* execute_v128_bitselect: the selector is the frame register the         *)
(* translator put in the Register slot.                                    *)
LEMMA BitselectRefines ==
  ASSUME RInv, ExecBitselect
  PROVE  Abs!ExecuteOp /\ OnOpStart' /\ UNCHANGED <<src, code>>
<1>1. status = "running" /\ code[ip].tag = "V128Bitselect"
  BY DEF ExecBitselect, Running
<1>2. PICK p \in 1..Len(src) :
        /\ ip = OpStart(src, p) /\ code[ip] = Encode(src, p)[1]
        /\ Len(Encode(src, p)) = 2 => code[ip + 1] = Encode(src, p)[2]
        /\ src[p] \in SrcOp
  BY <1>1, HeadOp
<1>. DEFINE op == src[p]
<1>3. src \in Seq(SrcOp)
  BY SimdExecAssumption DEF RInv
<1>k. op.kind = "v128.bitselect"
  BY <1>1, <1>2, <1>3, EncodeHeadTag
<1>4. /\ op.kind = "v128.bitselect" /\ Len(Encode(src, p)) = 2
      /\ code[ip] = HeadSlot(op, "V128Bitselect")
      /\ code[ip + 1] = [tag |-> "Register", reg |-> op.sel]
  BY <1>2, <1>3, <1>k, EncodeFacts
<1>5. op.lhs \in FrameRegs /\ op.rhs \in FrameRegs /\ op.sel \in FrameRegs
  BY <1>2, <1>4 DEF SrcOp, R
<1>6. WriteAndStep(code[ip].result,
        V128Bitselect(GetRegister(code[ip].lhs), GetRegister(code[ip].rhs),
                      GetRegister(op.sel)), 2)
  BY <1>4 DEF ExecBitselect, FetchRegister
<1>7. WasmResult(op, regs)
        = V128Bitselect(GetRegister(op.lhs), GetRegister(op.rhs), GetRegister(op.sel))
  BY <1>4, <1>5, FrameRead DEF WasmResult
<1>8. WriteAndStep(op.result, WasmResult(op, regs), Len(Encode(src, p)))
  BY <1>4, <1>6, <1>7 DEF HeadSlot
<1>. QED
  BY <1>1, <1>2, <1>8, ExecuteStep

(* The number of a shuffle among the body's shuffles is a natural. *)
LEMMA ShuffleNoType ==
  ASSUME NEW s \in Seq(SrcOp), NEW k \in 1..Len(s)
  PROVE  ShuffleNo(s, k) \in Nat
<1>1. IsFiniteSet(1..k)
  BY FS_Interval
<1>2. IsFiniteSet({j \in 1..k : IsShuffle(s[j])})
  BY <1>1, FS_Subset
<1>. QED
  BY <1>2, FS_CardinalityType DEF ShuffleNo

(* On a little-endian host, to_ne_bytes of the pool entry the translator *)
(* made from a shuffle's lane indices gives those lane indices back.       *)
LEMMA SelectorBytes ==
  ASSUME HostEndian = "little", NEW l \in [LaneIdx -> LaneIdx2]
  PROVE  NeBytes(FromLanes(l)) = l
<1>1. l \in [LaneIdx -> Bytes]
  BY SimdIRAssumption DEF LaneIdx2, Bytes
<1>2. \A i \in LaneIdx : ByteOf(FromLanes(l), i) = l[i]
  BY <1>1, FromLanesLanes DEF Lane
<1>. QED
  BY <1>2 DEF NeBytes

(* execute_i8x16_shuffle: the selector read from the constant pool is the *)
(* shuffle's immediate, on a little-endian host.                           *)
LEMMA ShuffleRefines ==
  ASSUME HostEndian = "little", RInv, ExecShuffle
  PROVE  Abs!ExecuteOp /\ OnOpStart' /\ UNCHANGED <<src, code>>
<1>1. status = "running" /\ code[ip].tag = "I8x16Shuffle"
  BY DEF ExecShuffle, Running
<1>2. PICK p \in 1..Len(src) :
        /\ ip = OpStart(src, p) /\ code[ip] = Encode(src, p)[1]
        /\ Len(Encode(src, p)) = 2 => code[ip + 1] = Encode(src, p)[2]
        /\ src[p] \in SrcOp
  BY <1>1, HeadOp
<1>. DEFINE op == src[p]
<1>3. src \in Seq(SrcOp) /\ Layout(src)
  BY SimdExecAssumption, LayoutAssumption DEF RInv
<1>k. op.kind = "i8x16.shuffle"
  BY <1>1, <1>2, <1>3, EncodeHeadTag
<1>4. /\ op.kind = "i8x16.shuffle" /\ Len(Encode(src, p)) = 2
      /\ code[ip] = HeadSlot(op, "I8x16Shuffle")
      /\ code[ip + 1] = [tag |-> "Register", reg |-> -ShuffleNo(src, p)]
  BY <1>2, <1>3, <1>k, EncodeFacts
<1>5. /\ op.lhs \in FrameRegs /\ op.rhs \in FrameRegs
      /\ op.lanes \in [LaneIdx -> LaneIdx2]
  BY <1>2, <1>4 DEF SrcOp, R
<1>6. ShuffleNo(src, p) \in Nat /\ ShuffleNo(src, p) \in DOMAIN Pool(src)
  <2>1. ShuffleNo(src, p) \in Nat
    BY <1>3, ShuffleNoType
  <2>2. -code[ip + 1].reg \in DOMAIN Pool(src)
    <3>1. IInv
      BY DEF RInv
    <3>. QED
      BY <1>1, <3>1, HeadFacts DEF ParamHeads
  <2>. QED
    BY <1>4, <2>1, <2>2
<1>7. ShuffleNo(src, p) >= 1
  BY <1>6 DEF Pool
<1>8. GetRegister(code[ip + 1].reg) = FromLanes(op.lanes)
  <2>1. Pool(src)[ShuffleNo(src, p)] = FromLanes(op.lanes)
    BY <1>3, <1>4 DEF Layout, IsShuffle
  <2>. QED
    BY <1>4, <1>6, <1>7, <2>1 DEF GetRegister
<1>9. NeBytes(GetRegister(code[ip + 1].reg)) = op.lanes
  BY <1>5, <1>8, SelectorBytes
<1>10. LanesInBounds(op.lanes)
  BY <1>5 DEF LanesInBounds
<1>11. WriteAndStep(code[ip].result,
         I8x16Shuffle(GetRegister(code[ip].lhs), GetRegister(code[ip].rhs), op.lanes), 2)
  BY <1>4, <1>9, <1>10 DEF ExecShuffle, FetchRegister
<1>12. WasmResult(op, regs)
         = I8x16Shuffle(GetRegister(op.lhs), GetRegister(op.rhs), op.lanes)
  BY <1>4, <1>5, FrameRead DEF WasmResult
<1>13. WriteAndStep(op.result, WasmResult(op, regs), Len(Encode(src, p)))
  BY <1>4, <1>11, <1>12 DEF HeadSlot
<1>. QED
  BY <1>1, <1>2, <1>13, ExecuteStep

(* execute_return at the Return after the last operation is WasmSimd's   *)
(* Return.                                                                 *)
LEMMA ReturnRefines ==
  ASSUME RInv, ExecReturn
  PROVE  Abs!Return /\ OnOpStart' /\ UNCHANGED <<src, code>>
<1>1. status = "running" /\ code[ip].tag = "Return"
      /\ status' = "returned" /\ UNCHANGED <<src, code, ip, regs>>
  BY DEF ExecReturn, Running
<1>2. PICK p \in 1..(Len(src) + 1) : ip = OpStart(src, p)
  BY DEF RInv, OnOpStart
<1>3. src \in Seq(SrcOp)
  BY SimdExecAssumption DEF RInv
<1>4. p = Len(src) + 1
  <2>. SUFFICES ASSUME p <= Len(src) PROVE FALSE
    BY <1>3
  <2>1. code[ip] = Encode(src, p)[1]
    BY <1>2, CurrentOp
  <2>2. p \in 1..Len(src)
    BY <1>3
  <2>3. Encode(src, p)[1].tag /= "Return"
    BY <1>3, <2>2, EncodeFacts
  <2>. QED
    BY <1>1, <2>1, <2>3
<1>5. AbsPc = Len(src) + 1
  BY <1>2, <1>4, CurrentOp
<1>6. AbsPc' = AbsPc
  BY <1>1 DEF AbsPc
<1>. QED
  BY <1>1, <1>5, <1>6 DEF Abs!Return, RInv, OnOpStart

(***************************************************************************)
(* The refinement.                                                         *)
(***************************************************************************)

LEMMA RInit == Init => RInv /\ Abs!Init
<1>. SUFFICES ASSUME Init PROVE RInv /\ Abs!Init
  OBVIOUS
<1>1. IInv
  BY InitInv
<1>2. src \in SrcPrograms /\ code = Translate(src) /\ ip = 1 /\ status = "running"
  BY DEF Init
<1>3. OpStart(src, 1) = 1 /\ src \in Seq(SrcOp)
  BY <1>2, LayoutAssumption, SimdExecAssumption DEF Layout
<1>4. OnOpStart
  BY <1>2, <1>3 DEF OnOpStart
<1>5. AbsPc = 1
  <2>1. RInv
    BY <1>1, <1>2, <1>4 DEF RInv
  <2>2. 1 \in 1..(Len(src) + 1) /\ ip = OpStart(src, 1)
    BY <1>2, <1>3
  <2>. QED
    BY <2>1, <2>2, CurrentOp
<1>. QED
  BY <1>1, <1>2, <1>4, <1>5 DEF RInv, Abs!Init

LEMMA RStep ==
  ASSUME HostEndian = "little", RInv, [Next]_vars
  PROVE  RInv' /\ [Abs!Next]_(Abs!vars)
<1>1. IInv'
  BY IInvStep DEF RInv
<1>2. CASE ExecShuffle
  BY <1>1, <1>2, ShuffleRefines DEF RInv, Abs!Next
<1>3. CASE ExecBitselect
  BY <1>1, <1>3, BitselectRefines DEF RInv, Abs!Next
<1>4. CASE ExecUnary
  BY <1>1, <1>4, UnaryRefines DEF RInv, Abs!Next
<1>5. CASE ExecBinary
  BY <1>1, <1>5, BinaryRefines DEF RInv, Abs!Next
<1>6. CASE ExecExtractLane
  BY <1>1, <1>6, ExtractRefines DEF RInv, Abs!Next
<1>7. CASE ExecShiftBy
  BY <1>1, <1>7, ShiftRefines DEF RInv, Abs!Next
<1>8. CASE ExecReturn
  BY <1>1, <1>8, ReturnRefines DEF RInv, Abs!Next
<1>9. CASE UNCHANGED vars
  <2>1. UNCHANGED <<src, code, ip, regs, status>>
    BY <1>9 DEF vars
  <2>2. AbsPc' = AbsPc
    BY <2>1 DEF AbsPc
  <2>. QED
    BY <1>1, <2>1, <2>2 DEF RInv, OnOpStart, Abs!vars
<1>. QED
  BY <1>2, <1>3, <1>4, <1>5, <1>6, <1>7, <1>8, <1>9 DEF Next

(* On a little-endian host, translate-then-execute behaves as the Wasm    *)
(* lane operations of the body: every step of the SIMD handlers, read     *)
(* through AbsPc, is a step of WasmSimd (the operation at pc writes its    *)
(* lane-wise result and pc moves on) or leaves it unchanged, for every     *)
(* lane count, byte range, frame and set of bodies.                        *)
THEOREM SimdRefinement ==
  ASSUME HostEndian = "little"
  PROVE  Spec => RefinesWasmSimd
<1>1. Init => RInv /\ Abs!Init
  BY RInit
<1>2. RInv /\ [Next]_vars => RInv' /\ [Abs!Next]_(Abs!vars)
  BY RStep
<1>. QED
  BY <1>1, <1>2, PTL DEF Spec, RefinesWasmSimd, Abs!Spec

=============================================================================
