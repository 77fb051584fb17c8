----------------------------- MODULE StoreExec -----------------------------
(***************************************************************************)
(* The executor's store[N] handlers (executor/instrs/store.rs) walking the *)
(* instruction stream of one call with a single instruction pointer.       *)
(*                                                                         *)
(* A handler reads its head slot at ip, fetches its trailing parameter     *)
(* slots from ip+1 and ip+2 without checking them, resolves the memory     *)
(* (the cached default memory or, through the store, a memory named by an *)
(* optional MemoryIndex slot, which fetch_optional_memory steps ip over),  *)
(* performs UntypedVal::store* and either advances ip past its head and   *)
(* parameter slots or returns the MemoryOutOfBounds trap.                  *)
(*                                                                         *)
(* src is the Wasm body the stream was translated from; it never changes   *)
(* and is read only by the refinement mapping.                             *)
(***************************************************************************)
EXTENDS StoreIR, FiniteSets

CONSTANTS
  MemSize,              \* bytes of every linear memory
  RegValues,            \* values the frame registers may hold on entry
  SrcPrograms           \* the function bodies under consideration

ASSUME StoreExecAssumption ==
  /\ MemSize \in 1..U32
  /\ RegValues \subseteq Word64
  /\ SrcPrograms \subseteq Seq(SrcOp)

(* The translator emits a well-formed stream for every body (checked by   *)
(* TLC over the bodies of a run).                                          *)
ASSUME TranslateAssumption ==
  \A s \in SrcPrograms : WellFormed(Translate(s))

(* The translator lays every body out as Layout says, and every constant  *)
(* it does not inline is in the function's constant pool (both checked by *)
(* TLC over the bodies of a run: the provers cannot unfold Emitted's      *)
(* recursion, and the pool is a constant of the model).                    *)
ASSUME LayoutAssumption == \A s \in SrcPrograms : Layout(s)

ASSUME PoolAssumption ==
  \A s \in SrcPrograms : \A k \in 1..Len(s) :
    s[k].value.kind = "const" /\ ~IsImm(s[k].kind, s[k].value) =>
      \E i \in DOMAIN ConstPool : ConstPool[i] = s[k].value.val % U64

VARIABLES src, code, ip, regs, mem, status

vars == <<src, code, ip, regs, mem, status>>

Status == {"running", "trapped", "returned"}

(***************************************************************************)
(* Operand fetch.                                                          *)
(***************************************************************************)

(* get_register: a negative id reads the constant pool. *)
GetRegister(r) == IF r < 0 THEN ConstPool[-r] ELSE regs[r]

(* fetch_value_and_offset_hi / fetch_value_and_offset_imm: the parameter  *)
(* slot after the head, read without checking its tag.                     *)
FetchValueAndOffset == code[ip + 1]

(* fetch_optional_memory(delta) (not under src/; spec 4.4: ip advances by *)
(* the opcode's whole slot count): a MemoryIndex at ip+delta names the     *)
(* memory, and the helper steps ip over that slot; otherwise memory 0 and  *)
(* ip stays.                                                               *)
HasMemoryIndex(delta) ==
  ip + delta <= Len(code) /\ code[ip + delta].tag = "MemoryIndex"

FetchOptionalMemory(delta) ==
  IF HasMemoryIndex(delta) THEN code[ip + delta].index ELSE 0

(* A plausible bug: the helper returns the memory but leaves ip on it. *)
IpAfterMemoryNoStep(delta) == ip

(* ip once fetch_optional_memory(delta) has returned. *)
IpAfterMemory(delta) == IF HasMemoryIndex(delta) THEN ip + 1 ELSE ip

(* A plausible bug: the two 32-bit halves combined in swapped order. *)
CombineSwapped(hi, lo) == lo * U32 + hi

(* Offset64::combine(offset_hi, offset_lo). *)
Combine(hi, lo) == hi * U32 + lo

(* T::from(value).into(): the UntypedVal of an inlined immediate.  A       *)
(* Const16<i64> is sign-extended to 64 bits; the i8, i16 and Const16<i32>  *)
(* immediates become an i32.                                               *)
ImmToUntyped(k, imm) == IF k = "i64.store" THEN imm % U64 ELSE imm % U32

(* Memory bytes after writing the low w bytes of v at ea. *)
WriteBytes(bytes, ea, v, w) ==
  [a \in DOMAIN bytes |-> IF a \in ea..(ea + w - 1) THEN ByteOf(v, a - ea)
                                                    ELSE bytes[a]]

(***************************************************************************)
(* execute_store_wrap: resolve memory m (fetch_memory_bytes_mut: the       *)
(* cached default memory or the store's memory m) and run the store        *)
(* function: effective address address + offset by checked_add, the trap   *)
(* when a byte falls outside the memory, else the write.  at is ip after   *)
(* the memory fetch; on success the handler moves on by delta from there   *)
(* (try_next_instr_at), on a trap ip stays at.                             *)
(***************************************************************************)
StoreWrap(m, address, offset, value, w, at, delta) ==
  LET ea == address + offset IN
  IF ea <= U64 - 1 /\ ea + w <= MemSize
  THEN /\ mem' = [mem EXCEPT ![m] = WriteBytes(@, ea, value, w)]
       /\ ip' = at + delta
       /\ UNCHANGED status
  ELSE /\ status' = "trapped"
       /\ ip' = at
       /\ UNCHANGED mem

(* execute_store_wrap_mem0: the same on the cached default memory, with   *)
(* no memory slot to fetch; the handler moves on by one slot.              *)
StoreWrapMem0(address, offset, value, w) ==
  StoreWrap(0, address, offset, value, w, ip, 1)

(* A plausible bug: the at-variant moves on by 2 like execute_store. *)
StoreWrapAtSkip2(m, address, value, w, at) ==
  IF address + w <= MemSize
  THEN /\ mem' = [mem EXCEPT ![m] = WriteBytes(@, address, value, w)]
       /\ ip' = at + 2
       /\ UNCHANGED status
  ELSE /\ status' = "trapped"
       /\ ip' = at
       /\ UNCHANGED mem

(* execute_store_wrap_at: the address is already effective; try_next_instr *)
(* moves on by one slot from at.                                           *)
StoreWrapAt(m, address, value, w, at) ==
  IF address + w <= MemSize
  THEN /\ mem' = [mem EXCEPT ![m] = WriteBytes(@, address, value, w)]
       /\ ip' = at + 1
       /\ UNCHANGED status
  ELSE /\ status' = "trapped"
       /\ ip' = at
       /\ UNCHANGED mem

Running(tag) == status = "running" /\ code[ip].tag = tag

(***************************************************************************)
(* Handlers.                                                               *)
(***************************************************************************)

(* execute_store: Store{ptr, offset_lo} + RegisterAndImm32{value, offset_hi} *)
(* + optional MemoryIndex; moves on by 2 past the memory slot.            *)
ExecStore ==
  /\ Running("Store")
  /\ LET i == code[ip]
         p == FetchValueAndOffset
     IN  StoreWrap(FetchOptionalMemory(2), GetRegister(i.ptr),
                   Combine(p.hi, i.offsetLo), GetRegister(p.reg), Width(i.op),
                   IpAfterMemory(2), 2)
  /\ UNCHANGED <<src, code, regs>>

(* execute_store_imm: the value is the immediate of Imm16AndOffsetHi. *)
ExecStoreImm ==
  /\ Running("StoreImm")
  /\ LET i == code[ip]
         p == FetchValueAndOffset
     IN  StoreWrap(FetchOptionalMemory(2), GetRegister(i.ptr),
                   Combine(p.hi, i.offsetLo), ImmToUntyped(i.op, p.imm),
                   Width(i.op), IpAfterMemory(2), 2)
  /\ UNCHANGED <<src, code, regs>>

(* execute_store_offset16: default memory, 16-bit offset, value register. *)
ExecStoreOffset16 ==
  /\ Running("StoreOffset16")
  /\ LET i == code[ip] IN
     StoreWrapMem0(GetRegister(i.ptr), i.offset, GetRegister(i.value), Width(i.op))
  /\ UNCHANGED <<src, code, regs>>

(* execute_store_offset16_imm16: default memory, inlined value. *)
ExecStoreOffset16Imm ==
  /\ Running("StoreOffset16Imm")
  /\ LET i == code[ip] IN
     StoreWrapMem0(GetRegister(i.ptr), i.offset, ImmToUntyped(i.op, i.value),
                   Width(i.op))
  /\ UNCHANGED <<src, code, regs>>

(* execute_store_at: Address32 folded in; optional MemoryIndex at ip+1. *)
ExecStoreAt ==
  /\ Running("StoreAt")
  /\ LET i == code[ip] IN
     StoreWrapAt(FetchOptionalMemory(1), i.address, GetRegister(i.value), Width(i.op),
                 IpAfterMemory(1))
  /\ UNCHANGED <<src, code, regs>>

(* execute_store_at_imm16 *)
ExecStoreAtImm ==
  /\ Running("StoreAtImm")
  /\ LET i == code[ip] IN
     StoreWrapAt(FetchOptionalMemory(1), i.address, ImmToUntyped(i.op, i.value),
                 Width(i.op), IpAfterMemory(1))
  /\ UNCHANGED <<src, code, regs>>

(* The Trap instruction the translator emits for a constant address out   *)
(* of u32 range.                                                           *)
ExecTrap ==
  /\ Running("Trap")
  /\ status' = "trapped"
  /\ UNCHANGED <<src, code, ip, regs, mem>>

ExecReturn ==
  /\ Running("Return")
  /\ status' = "returned"
  /\ UNCHANGED <<src, code, ip, regs, mem>>

Init ==
  /\ src \in SrcPrograms
  /\ code = Translate(src)
  /\ ip = 1
  /\ regs \in [FrameRegs -> RegValues]
  /\ mem = [m \in Mems |-> [a \in 0..(MemSize - 1) |-> 0]]
  /\ status = "running"

Next ==
  \/ ExecStore \/ ExecStoreImm
  \/ ExecStoreOffset16 \/ ExecStoreOffset16Imm
  \/ ExecStoreAt \/ ExecStoreAtImm
  \/ ExecTrap \/ ExecReturn

Spec == Init /\ [][Next]_vars

(***************************************************************************)
(* Properties.                                                             *)
(***************************************************************************)

TypeOK ==
  /\ src \in Seq(SrcOp)
  /\ code \in Seq(Slot)
  /\ ip \in 1..Len(code)
  /\ regs \in [FrameRegs -> Word64]
  /\ mem \in [Mems -> [0..(MemSize - 1) -> Bytes]]
  /\ status \in Status

(* While the call runs, ip is on the head of an instruction. *)
IpOnHead == status = "running" => code[ip].tag \in HeadTags

(* The dispatch loop never meets a trailing parameter slot (spec 3: they  *)
(* are never executed): each handler moves ip past exactly the slots it   *)
(* consumed, its MemoryIndex included (fetch_optional_memory, then         *)
(* store.rs try_next_instr or try_next_instr_at).                          *)
NoParamDispatch == status = "running" => code[ip].tag \notin ParamTags

(* Translate-then-execute behaves as the Wasm stores of the body: the      *)
(* executor, with the abstract program counter the store whose slots hold *)
(* ip (the final Return after the last store), implements WasmStore.      *)
AbsPc == Cardinality({k \in 1..(Len(src) + 1) : OpStart(src, k) <= ip})

Abs == INSTANCE WasmStore WITH pc <- AbsPc

RefinesWasmStore == Abs!Spec

=============================================================================
