-------------------------- MODULE StoreExecProofs --------------------------
(***************************************************************************)
(* Proofs about the store handlers of StoreExec, for every byte range,     *)
(* memory size, frame, constant pool and set of bodies that satisfy the    *)
(* assumptions of StoreIR and StoreExec.                                   *)
(***************************************************************************)
EXTENDS StoreExec, TLAPS

(***************************************************************************)
(* Lemmas on the operators the handlers are built from.                    *)
(***************************************************************************)

(* A byte of any integer bit pattern lies in 0..ByteRange-1. *)
LEMMA ByteOfType ==
  ASSUME NEW v \in Int, NEW i \in 0..7
  PROVE  ByteOf(v, i) \in Bytes
<1>1. ByteRange^i \in Nat \ {0}
  BY RadixAssumption
<1>2. ByteRange \in Nat \ {0}
  BY ByteRangeAssumption
<1>. QED
  BY <1>1, <1>2 DEF ByteOf, Bytes

(* UntypedVal::store* writes bytes: a write of 1..8 bytes of an integer at *)
(* an integer address keeps a memory a function from addresses to bytes.   *)
LEMMA WriteBytesType ==
  ASSUME NEW bytes \in [0..(MemSize - 1) -> Bytes],
         NEW ea \in Int, NEW v \in Int, NEW w \in 1..8
  PROVE  WriteBytes(bytes, ea, v, w) \in [0..(MemSize - 1) -> Bytes]
<1>1. \A a \in 0..(MemSize - 1) : a \in ea..(ea + w - 1) => a - ea \in 0..7
  OBVIOUS
<1>. QED
  BY <1>1, ByteOfType DEF WriteBytes

(* Every store kind writes between 1 and 8 bytes. *)
LEMMA WidthType ==
  ASSUME NEW k \in StoreKinds
  PROVE  Width(k) \in 1..8
BY DEF Width, StoreKinds

(* A valid register id reads a 64-bit pattern from the frame or the pool. *)
LEMMA GetRegisterType ==
  ASSUME regs \in [FrameRegs -> Word64], NEW r, ValidReg(r)
  PROVE  GetRegister(r) \in Word64
BY IRAssumption DEF GetRegister, ValidReg

(* The word sizes are positive numbers. *)
LEMMA U32Type == U32 \in Nat \ {0} /\ U64 \in Nat \ {0}
BY RadixAssumption DEF U32, U64

(* An inlined immediate becomes a non-negative integer. *)
LEMMA ImmToUntypedType ==
  ASSUME NEW k, NEW imm \in Int
  PROVE  ImmToUntyped(k, imm) \in Int
BY U32Type DEF ImmToUntyped

(* The fields a handler reads from a slot of a given tag are integers of   *)
(* the right kind (the unchecked fetches of store.rs read them as such).   *)
LEMMA SlotFields ==
  ASSUME NEW s \in Slot
  PROVE  /\ s.tag \in HeadTags \cup ParamTags
         /\ s.tag \in {"Store", "StoreImm"} =>
              s.op \in StoreKinds /\ s.ptr \in Int /\ s.offsetLo \in Int
         /\ s.tag \in {"StoreOffset16", "StoreOffset16Imm"} =>
              /\ s.op \in StoreKinds /\ s.ptr \in Int
              /\ s.offset \in Int /\ s.value \in Int
         /\ s.tag \in {"StoreAt", "StoreAtImm"} =>
              s.op \in StoreKinds /\ s.address \in Int /\ s.value \in Int
         /\ s.tag = "RegisterAndImm32" => s.reg \in Int /\ s.hi \in Int
         /\ s.tag = "Imm16AndOffsetHi" => s.imm \in Int /\ s.hi \in Int
         /\ s.tag = "MemoryIndex" => s.index \in Mems
BY DEF Slot, HeadTags, ParamTags

(* fetch_optional_memory names a memory of the instance. *)
LEMMA FetchOptionalMemoryType ==
  ASSUME code \in Seq(Slot), ip \in 1..Len(code), NEW d \in Nat
  PROVE  FetchOptionalMemory(d) \in Mems
<1>1. CASE ip + d <= Len(code) /\ code[ip + d].tag = "MemoryIndex"
  <2>1. code[ip + d] \in Slot
    BY <1>1
  <2>. QED
    BY <1>1, <2>1, SlotFields DEF FetchOptionalMemory, HasMemoryIndex
<1>2. CASE ~(ip + d <= Len(code) /\ code[ip + d].tag = "MemoryIndex")
  BY <1>2, IRAssumption DEF FetchOptionalMemory, HasMemoryIndex
<1>. QED
  BY <1>1, <1>2

MemType == [Mems -> [0..(MemSize - 1) -> Bytes]]

(* The store function either writes and moves on by delta from at, or     *)
(* traps with ip at at and every memory as it was.                          *)
LEMMA StoreWrapStep ==
  ASSUME mem \in MemType, NEW m \in Mems,
         NEW address \in Int, NEW offset \in Int, NEW value \in Int,
         NEW w \in 1..8, NEW at, NEW delta,
         StoreWrap(m, address, offset, value, w, at, delta)
  PROVE  /\ mem' \in MemType
         /\ \/ ip' = at + delta /\ status' = status
            \/ ip' = at /\ status' = "trapped" /\ mem' = mem
<1>. DEFINE ea == address + offset
<1>1. CASE ea <= U64 - 1 /\ ea + w <= MemSize
  <2>1. WriteBytes(mem[m], ea, value, w) \in [0..(MemSize - 1) -> Bytes]
    BY WriteBytesType DEF MemType
  <2>. QED
    BY <1>1, <2>1 DEF StoreWrap, MemType
<1>2. CASE ~(ea <= U64 - 1 /\ ea + w <= MemSize)
  BY <1>2 DEF StoreWrap
<1>. QED
  BY <1>1, <1>2

(* The same for the at-variants, which move on by one slot from at. *)
LEMMA StoreWrapAtStep ==
  ASSUME mem \in MemType, NEW m \in Mems,
         NEW address \in Int, NEW value \in Int, NEW w \in 1..8, NEW at,
         StoreWrapAt(m, address, value, w, at)
  PROVE  /\ mem' \in MemType
         /\ \/ ip' = at + 1 /\ status' = status
            \/ ip' = at /\ status' = "trapped" /\ mem' = mem
<1>1. CASE address + w <= MemSize
  <2>1. WriteBytes(mem[m], address, value, w) \in [0..(MemSize - 1) -> Bytes]
    BY WriteBytesType DEF MemType
  <2>. QED
    BY <1>1, <2>1 DEF StoreWrapAt, MemType
<1>2. CASE ~(address + w <= MemSize)
  BY <1>2 DEF StoreWrapAt
<1>. QED
  BY <1>1, <1>2

(***************************************************************************)
(* The inductive invariant.  TypeOK alone is not inductive: a handler      *)
(* reads its parameter slots at ip+1 and ip+2 without checking them, so    *)
(* the step needs the stream to be well formed (the translator's           *)
(* guarantee) and ip to be on a head.                                       *)
(***************************************************************************)
IInv ==
  /\ TypeOK
  /\ WellFormed(code)
  /\ IpOnHead

(* fetch_optional_memory(d) on a well-formed stream, with the slot at ip+d *)
(* a head or a MemoryIndex: ip after it is a slot of the stream, and d    *)
(* slots further on lies a head.                                           *)
LEMMA MemoryStep ==
  ASSUME IInv, ip \in 1..Len(code), NEW d \in {1, 2},
         ip + d <= Len(code), code[ip + d].tag \in Dispatchable
  PROVE  /\ IpAfterMemory(d) \in 1..Len(code)
         /\ IpAfterMemory(d) + d <= Len(code)
         /\ code[IpAfterMemory(d) + d].tag \in HeadTags
<1>1. CASE HasMemoryIndex(d)
  <2>1. code[ip + d].tag = "MemoryIndex" /\ SlotWellFormed(code, ip + d)
    BY <1>1 DEF HasMemoryIndex, IInv, WellFormed
  <2>2. ip + d + 1 <= Len(code) /\ code[ip + d + 1].tag \in HeadTags
    BY <2>1 DEF SlotWellFormed
  <2>3. IpAfterMemory(d) = ip + 1
    BY <1>1 DEF IpAfterMemory
  <2>. QED
    BY <2>2, <2>3
<1>2. CASE ~HasMemoryIndex(d)
  <2>1. code[ip + d].tag \in HeadTags
    BY <1>2 DEF HasMemoryIndex, Dispatchable
  <2>2. IpAfterMemory(d) = ip
    BY <1>2 DEF IpAfterMemory
  <2>. QED
    BY <2>1, <2>2
<1>. QED
  BY <1>1, <1>2

(* After a store handler either moves on by d from a slot a onto a head   *)
(* and keeps running, or traps at a, the invariant holds again.            *)
LEMMA HandlerStep ==
  ASSUME IInv, status = "running", UNCHANGED <<src, code, regs>>,
         mem' \in MemType,
         NEW a \in 1..Len(code), NEW d \in {1, 2}, a + d <= Len(code),
         code[a + d].tag \in HeadTags,
         \/ ip' = a + d /\ status' = status
         \/ ip' = a /\ status' = "trapped"
  PROVE  IInv'
<1>1. ip' \in 1..Len(code') /\ status' \in Status
  <2>1. a + d \in 1..Len(code)
    OBVIOUS
  <2>. QED
    BY <2>1 DEF IInv, TypeOK, Status
<1>2. TypeOK'
  BY <1>1 DEF IInv, TypeOK, MemType
<1>3. WellFormed(code)'
  BY DEF IInv
<1>4. IpOnHead'
  BY DEF IpOnHead
<1>. QED
  BY <1>2, <1>3, <1>4 DEF IInv

(* The slot at ip of a running call and the well-formedness facts for it. *)
LEMMA HeadFacts ==
  ASSUME IInv, status = "running"
  PROVE  /\ ip \in 1..Len(code)
         /\ code[ip] \in Slot
         /\ SlotWellFormed(code, ip)
BY DEF IInv, TypeOK, WellFormed

(* execute_store preserves the invariant. *)
LEMMA ExecStoreInv ==
  ASSUME IInv, ExecStore
  PROVE  IInv'
<1>. DEFINE i == code[ip]
            p == code[ip + 1]
            a == IpAfterMemory(2)
<1>1. status = "running" /\ i.tag = "Store"
  BY DEF ExecStore, Running
<1>2. ip \in 1..Len(code) /\ i \in Slot /\ SlotWellFormed(code, ip)
  BY <1>1, HeadFacts
<1>3. /\ ip + 2 <= Len(code)
      /\ p.tag = "RegisterAndImm32"
      /\ code[ip + 2].tag \in Dispatchable
      /\ ValidReg(i.ptr) /\ ValidReg(p.reg)
  BY <1>1, <1>2 DEF SlotWellFormed
<1>4. p \in Slot
  BY <1>2, <1>3 DEF IInv, TypeOK
<1>5. i.op \in StoreKinds /\ i.offsetLo \in Int /\ p.hi \in Int
  BY <1>1, <1>2, <1>3, <1>4, SlotFields
<1>6. GetRegister(i.ptr) \in Int /\ GetRegister(p.reg) \in Int
  BY <1>3, GetRegisterType DEF IInv, TypeOK, Word64
<1>7. FetchOptionalMemory(2) \in Mems
  BY <1>2, FetchOptionalMemoryType DEF IInv, TypeOK
<1>8. Width(i.op) \in 1..8 /\ Combine(p.hi, i.offsetLo) \in Int
  BY <1>5, WidthType, U32Type DEF Combine
<1>9. StoreWrap(FetchOptionalMemory(2), GetRegister(i.ptr),
                Combine(p.hi, i.offsetLo), GetRegister(p.reg), Width(i.op), a, 2)
  BY DEF ExecStore, FetchValueAndOffset
<1>10. a \in 1..Len(code) /\ a + 2 <= Len(code) /\ code[a + 2].tag \in HeadTags
  BY <1>2, <1>3, MemoryStep
<1>11. /\ mem' \in MemType
       /\ \/ ip' = a + 2 /\ status' = status
          \/ ip' = a /\ status' = "trapped" /\ mem' = mem
  BY <1>6, <1>7, <1>8, <1>9, StoreWrapStep DEF IInv, TypeOK, MemType
<1>. QED
  BY <1>1, <1>10, <1>11, HandlerStep DEF ExecStore

(* execute_store_imm preserves the invariant. *)
LEMMA ExecStoreImmInv ==
  ASSUME IInv, ExecStoreImm
  PROVE  IInv'
<1>. DEFINE i == code[ip]
            p == code[ip + 1]
            a == IpAfterMemory(2)
<1>1. status = "running" /\ i.tag = "StoreImm"
  BY DEF ExecStoreImm, Running
<1>2. ip \in 1..Len(code) /\ i \in Slot /\ SlotWellFormed(code, ip)
  BY <1>1, HeadFacts
<1>3. /\ ip + 2 <= Len(code)
      /\ p.tag = "Imm16AndOffsetHi"
      /\ code[ip + 2].tag \in Dispatchable
      /\ ValidReg(i.ptr)
  BY <1>1, <1>2 DEF SlotWellFormed
<1>4. p \in Slot
  BY <1>2, <1>3 DEF IInv, TypeOK
<1>5. i.op \in StoreKinds /\ i.offsetLo \in Int /\ p.hi \in Int /\ p.imm \in Int
  BY <1>1, <1>2, <1>3, <1>4, SlotFields
<1>6. GetRegister(i.ptr) \in Int /\ ImmToUntyped(i.op, p.imm) \in Int
  BY <1>3, <1>5, GetRegisterType, ImmToUntypedType DEF IInv, TypeOK, Word64
<1>7. FetchOptionalMemory(2) \in Mems
  BY <1>2, FetchOptionalMemoryType DEF IInv, TypeOK
<1>8. Width(i.op) \in 1..8 /\ Combine(p.hi, i.offsetLo) \in Int
  BY <1>5, WidthType, U32Type DEF Combine
<1>9. StoreWrap(FetchOptionalMemory(2), GetRegister(i.ptr),
                Combine(p.hi, i.offsetLo), ImmToUntyped(i.op, p.imm),
                Width(i.op), a, 2)
  BY DEF ExecStoreImm, FetchValueAndOffset
<1>10. a \in 1..Len(code) /\ a + 2 <= Len(code) /\ code[a + 2].tag \in HeadTags
  BY <1>2, <1>3, MemoryStep
<1>11. /\ mem' \in MemType
       /\ \/ ip' = a + 2 /\ status' = status
          \/ ip' = a /\ status' = "trapped" /\ mem' = mem
  BY <1>6, <1>7, <1>8, <1>9, StoreWrapStep DEF IInv, TypeOK, MemType
<1>. QED
  BY <1>1, <1>10, <1>11, HandlerStep DEF ExecStoreImm

(* execute_store_offset16 preserves the invariant. *)
LEMMA ExecStoreOffset16Inv ==
  ASSUME IInv, ExecStoreOffset16
  PROVE  IInv'
<1>. DEFINE i == code[ip]
<1>1. status = "running" /\ i.tag = "StoreOffset16"
  BY DEF ExecStoreOffset16, Running
<1>2. ip \in 1..Len(code) /\ i \in Slot /\ SlotWellFormed(code, ip)
  BY <1>1, HeadFacts
<1>3. /\ ip + 1 <= Len(code)
      /\ code[ip + 1].tag \in HeadTags
      /\ ValidReg(i.ptr) /\ ValidReg(i.value)
  BY <1>1, <1>2 DEF SlotWellFormed
<1>4. i.op \in StoreKinds /\ i.offset \in Int
  BY <1>1, <1>2, SlotFields
<1>5. GetRegister(i.ptr) \in Int /\ GetRegister(i.value) \in Int
  BY <1>3, GetRegisterType DEF IInv, TypeOK, Word64
<1>6. Width(i.op) \in 1..8 /\ 0 \in Mems
  BY <1>4, WidthType, IRAssumption
<1>7. StoreWrap(0, GetRegister(i.ptr), i.offset, GetRegister(i.value),
                Width(i.op), ip, 1)
  BY DEF ExecStoreOffset16, StoreWrapMem0
<1>8. /\ mem' \in MemType
      /\ \/ ip' = ip + 1 /\ status' = status
         \/ ip' = ip /\ status' = "trapped" /\ mem' = mem
  BY <1>4, <1>5, <1>6, <1>7, StoreWrapStep DEF IInv, TypeOK, MemType
<1>. QED
  BY <1>1, <1>2, <1>3, <1>8, HandlerStep DEF ExecStoreOffset16

(* execute_store_offset16_imm16 preserves the invariant. *)
LEMMA ExecStoreOffset16ImmInv ==
  ASSUME IInv, ExecStoreOffset16Imm
  PROVE  IInv'
<1>. DEFINE i == code[ip]
<1>1. status = "running" /\ i.tag = "StoreOffset16Imm"
  BY DEF ExecStoreOffset16Imm, Running
<1>2. ip \in 1..Len(code) /\ i \in Slot /\ SlotWellFormed(code, ip)
  BY <1>1, HeadFacts
<1>3. /\ ip + 1 <= Len(code)
      /\ code[ip + 1].tag \in HeadTags
      /\ ValidReg(i.ptr)
  BY <1>1, <1>2 DEF SlotWellFormed
<1>4. i.op \in StoreKinds /\ i.offset \in Int /\ i.value \in Int
  BY <1>1, <1>2, SlotFields
<1>5. GetRegister(i.ptr) \in Int /\ ImmToUntyped(i.op, i.value) \in Int
  BY <1>3, <1>4, GetRegisterType, ImmToUntypedType DEF IInv, TypeOK, Word64
<1>6. Width(i.op) \in 1..8 /\ 0 \in Mems
  BY <1>4, WidthType, IRAssumption
<1>7. StoreWrap(0, GetRegister(i.ptr), i.offset, ImmToUntyped(i.op, i.value),
                Width(i.op), ip, 1)
  BY DEF ExecStoreOffset16Imm, StoreWrapMem0
<1>8. /\ mem' \in MemType
      /\ \/ ip' = ip + 1 /\ status' = status
         \/ ip' = ip /\ status' = "trapped" /\ mem' = mem
  BY <1>4, <1>5, <1>6, <1>7, StoreWrapStep DEF IInv, TypeOK, MemType
<1>. QED
  BY <1>1, <1>2, <1>3, <1>8, HandlerStep DEF ExecStoreOffset16Imm

(* execute_store_at preserves the invariant. *)
LEMMA ExecStoreAtInv ==
  ASSUME IInv, ExecStoreAt
  PROVE  IInv'
<1>. DEFINE i == code[ip]
            a == IpAfterMemory(1)
<1>1. status = "running" /\ i.tag = "StoreAt"
  BY DEF ExecStoreAt, Running
<1>2. ip \in 1..Len(code) /\ i \in Slot /\ SlotWellFormed(code, ip)
  BY <1>1, HeadFacts
<1>3. /\ ip + 1 <= Len(code)
      /\ code[ip + 1].tag \in Dispatchable
      /\ ValidReg(i.value)
  BY <1>1, <1>2 DEF SlotWellFormed
<1>4. i.op \in StoreKinds /\ i.address \in Int
  BY <1>1, <1>2, SlotFields
<1>5. GetRegister(i.value) \in Int
  BY <1>3, GetRegisterType DEF IInv, TypeOK, Word64
<1>6. Width(i.op) \in 1..8 /\ FetchOptionalMemory(1) \in Mems
  BY <1>2, <1>4, WidthType, FetchOptionalMemoryType DEF IInv, TypeOK
<1>7. StoreWrapAt(FetchOptionalMemory(1), i.address, GetRegister(i.value),
                  Width(i.op), a)
  BY DEF ExecStoreAt
<1>8. a \in 1..Len(code) /\ a + 1 <= Len(code) /\ code[a + 1].tag \in HeadTags
  BY <1>2, <1>3, MemoryStep
<1>9. /\ mem' \in MemType
      /\ \/ ip' = a + 1 /\ status' = status
         \/ ip' = a /\ status' = "trapped" /\ mem' = mem
  BY <1>4, <1>5, <1>6, <1>7, StoreWrapAtStep DEF IInv, TypeOK, MemType
<1>. QED
  BY <1>1, <1>8, <1>9, HandlerStep DEF ExecStoreAt

(* execute_store_at_imm16 preserves the invariant. *)
LEMMA ExecStoreAtImmInv ==
  ASSUME IInv, ExecStoreAtImm
  PROVE  IInv'
<1>. DEFINE i == code[ip]
            a == IpAfterMemory(1)
<1>1. status = "running" /\ i.tag = "StoreAtImm"
  BY DEF ExecStoreAtImm, Running
<1>2. ip \in 1..Len(code) /\ i \in Slot /\ SlotWellFormed(code, ip)
  BY <1>1, HeadFacts
<1>3. ip + 1 <= Len(code) /\ code[ip + 1].tag \in Dispatchable
  BY <1>1, <1>2 DEF SlotWellFormed
<1>4. i.op \in StoreKinds /\ i.address \in Int /\ i.value \in Int
  BY <1>1, <1>2, SlotFields
<1>5. ImmToUntyped(i.op, i.value) \in Int
  BY <1>4, ImmToUntypedType
<1>6. Width(i.op) \in 1..8 /\ FetchOptionalMemory(1) \in Mems
  BY <1>2, <1>4, WidthType, FetchOptionalMemoryType DEF IInv, TypeOK
<1>7. StoreWrapAt(FetchOptionalMemory(1), i.address,
                  ImmToUntyped(i.op, i.value), Width(i.op), a)
  BY DEF ExecStoreAtImm
<1>8. a \in 1..Len(code) /\ a + 1 <= Len(code) /\ code[a + 1].tag \in HeadTags
  BY <1>2, <1>3, MemoryStep
<1>9. /\ mem' \in MemType
      /\ \/ ip' = a + 1 /\ status' = status
         \/ ip' = a /\ status' = "trapped" /\ mem' = mem
  BY <1>4, <1>5, <1>6, <1>7, StoreWrapAtStep DEF IInv, TypeOK, MemType
<1>. QED
  BY <1>1, <1>8, <1>9, HandlerStep DEF ExecStoreAtImm

(* The Trap and Return instructions end the call in place. *)
LEMMA EndInv ==
  ASSUME IInv, ExecTrap \/ ExecReturn
  PROVE  IInv'
BY DEF IInv, TypeOK, WellFormed, SlotWellFormed, IpOnHead, Status,
       ExecTrap, ExecReturn

(* Every call starts in a state of the invariant: the translator's stream *)
(* is well formed and begins with a head.                                  *)
LEMMA InitInv ==
  ASSUME Init
  PROVE  IInv
<1>1. WellFormed(code)
  BY TranslateAssumption DEF Init
<1>2. regs \in [FrameRegs -> Word64]
  BY StoreExecAssumption DEF Init
<1>3. src \in Seq(SrcOp)
  BY StoreExecAssumption DEF Init
<1>4. 0 \in Bytes
  BY ByteRangeAssumption DEF Bytes
<1>. QED
  BY <1>1, <1>2, <1>3, <1>4
  DEF Init, IInv, TypeOK, WellFormed, IpOnHead, Status

(* The invariant is inductive. *)
LEMMA IInvStep ==
  ASSUME IInv, [Next]_vars
  PROVE  IInv'
<1>1. CASE Next
  BY <1>1, ExecStoreInv, ExecStoreImmInv, ExecStoreOffset16Inv,
     ExecStoreOffset16ImmInv, ExecStoreAtInv, ExecStoreAtImmInv, EndInv
  DEF Next
<1>2. CASE UNCHANGED vars
  BY <1>2 DEF vars, IInv, TypeOK, WellFormed, SlotWellFormed, IpOnHead
<1>. QED
  BY <1>1, <1>2

(* Type correctness of the store handlers: every register, memory byte    *)
(* and instruction pointer the handlers of store.rs produce stays in its   *)
(* type, for every memory size, frame and well-formed stream.              *)
THEOREM TypeCorrect == Spec => []TypeOK
<1>1. Init => IInv
  BY InitInv
<1>2. IInv /\ [Next]_vars => IInv'
  BY IInvStep
<1>3. IInv => TypeOK
  BY DEF IInv
<1>. QED
  BY <1>1, <1>2, <1>3, PTL DEF Spec

(* The executor never dispatches a trailing parameter slot: the ip steps  *)
(* of store.rs (fetch_optional_memory over a MemoryIndex word, then        *)
(* try_next_instr_at(2) or try_next_instr) always land on a head, on every *)
(* well-formed stream.                                                      *)
THEOREM NoParamDispatchHolds == Spec => []NoParamDispatch
<1>1. Init => IInv
  BY InitInv
<1>2. IInv /\ [Next]_vars => IInv'
  BY IInvStep
<1>3. IInv => NoParamDispatch
  BY DEF IInv, IpOnHead, NoParamDispatch, HeadTags, ParamTags
<1>. QED
  BY <1>1, <1>2, <1>3, PTL DEF Spec

=============================================================================
