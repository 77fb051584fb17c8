------------------------------ MODULE SimdExec ------------------------------
(***************************************************************************)
(* The executor's SIMD handlers (executor/instrs/simd.rs) walking the      *)
(* instruction stream of one call.  Shuffle and Bitselect fetch their      *)
(* third operand from the Register slot after the head (fetch_register)    *)
(* and step ip over both slots; the unary, binary, extract-lane and        *)
(* shift-by handlers step over one.                                        *)
(*                                                                         *)
(* The handlers' unreachable_unchecked! arms are undefined behaviour: the *)
(* build may do anything there, and the model ends the call in status     *)
(* "undefined".  HostEndian is the byte order of the target, which         *)
(* u128::to_ne_bytes follows.                                              *)
(***************************************************************************)
EXTENDS SimdIR

CONSTANTS
  RegValues,     \* v128 values the frame registers may hold on entry
  SrcPrograms,   \* the function bodies under consideration
  HostEndian     \* "little" or "big"

ASSUME SimdExecAssumption ==
  /\ RegValues \subseteq V128
  /\ SrcPrograms \subseteq Seq(SrcOp)
  /\ HostEndian \in {"little", "big"}

(* The translator emits a well-formed stream for every body (checked by   *)
(* TLC over the bodies of a run).                                          *)
ASSUME TranslateAssumption ==
  \A s \in SrcPrograms : WellFormed(Translate(s), Pool(s))

(* The translator lays every body out as Layout says (checked by TLC over *)
(* the bodies of a run: the provers cannot unfold Emitted's recursion).   *)
ASSUME LayoutAssumption == \A s \in SrcPrograms : Layout(s)

VARIABLES src, code, ip, regs, status

vars == <<src, code, ip, regs, status>>

Status == {"running", "returned", "undefined"}

(* get_register: a negative id reads the body's constant pool. *)
GetRegister(r) == IF r < 0 THEN Pool(src)[-r] ELSE regs[r]

Running(tag) == status = "running" /\ code[ip].tag = tag

(* fetch_register: the slot after the head, which must be a Register.     *)
FetchRegister == code[ip + 1]

(* as_u128().to_ne_bytes(): the bytes of the selector in host order. *)
NeBytes(v) ==
  [i \in LaneIdx |-> IF HostEndian = "little" THEN ByteOf(v, i)
                     ELSE ByteOf(v, Lanes - 1 - i)]

(* The ImmLaneIdx32::try_from of every selector byte succeeds. *)
LanesInBounds(sel) == \A i \in LaneIdx : sel[i] \in LaneIdx2

(* The call reached an unreachable_unchecked! arm. *)
Undefined ==
  /\ status' = "undefined"
  /\ UNCHANGED <<src, code, ip, regs>>

(* set_register_as(result, v), then ip moved on by n slots. *)
WriteAndStep(result, v, n) ==
  /\ regs' = [regs EXCEPT ![result] = v]
  /\ ip' = ip + n
  /\ UNCHANGED <<src, code, status>>

(* A plausible bug: lhs and rhs passed to the shuffle in swapped order. *)
ExecShuffleSwapped ==
  /\ Running("I8x16Shuffle")
  /\ LET i == code[ip]
         p == FetchRegister
     IN  IF p.tag /= "Register" THEN Undefined
         ELSE LET sel == NeBytes(GetRegister(p.reg)) IN
              IF ~LanesInBounds(sel) THEN Undefined
              ELSE WriteAndStep(i.result,
                     I8x16Shuffle(GetRegister(i.rhs), GetRegister(i.lhs), sel), 2)

(* execute_i8x16_shuffle. *)
ExecShuffle ==
  /\ Running("I8x16Shuffle")
  /\ LET i == code[ip]
         p == FetchRegister
     IN  IF p.tag /= "Register" THEN Undefined
         ELSE LET sel == NeBytes(GetRegister(p.reg)) IN
              IF ~LanesInBounds(sel) THEN Undefined
              ELSE WriteAndStep(i.result,
                     I8x16Shuffle(GetRegister(i.lhs), GetRegister(i.rhs), sel), 2)

(* Plausible bugs: next_instr() in place of next_instr_at(2); a step of 3. *)
ExecBitselectNext1 ==
  /\ Running("V128Bitselect")
  /\ LET i == code[ip]
         p == FetchRegister
     IN  IF p.tag /= "Register" THEN Undefined
         ELSE WriteAndStep(i.result,
                V128Bitselect(GetRegister(i.lhs), GetRegister(i.rhs),
                              GetRegister(p.reg)), 1)

ExecBitselectSkip3 ==
  /\ Running("V128Bitselect")
  /\ LET i == code[ip]
         p == FetchRegister
     IN  IF p.tag /= "Register" THEN Undefined
         ELSE WriteAndStep(i.result,
                V128Bitselect(GetRegister(i.lhs), GetRegister(i.rhs),
                              GetRegister(p.reg)), 3)

(* execute_v128_bitselect. *)
ExecBitselect ==
  /\ Running("V128Bitselect")
  /\ LET i == code[ip]
         p == FetchRegister
     IN  IF p.tag /= "Register" THEN Undefined
         ELSE WriteAndStep(i.result,
                V128Bitselect(GetRegister(i.lhs), GetRegister(i.rhs),
                              GetRegister(p.reg)), 2)

(* The impl_unary_executors! handlers, i8x16_neg standing for the table. *)
ExecUnary ==
  /\ Running("I8x16Neg")
  /\ WriteAndStep(code[ip].result, I8x16Neg(GetRegister(code[ip].input)), 1)

(* The impl_binary_executors! handlers, i8x16_add standing for the table. *)
ExecBinary ==
  /\ Running("I8x16Add")
  /\ WriteAndStep(code[ip].result,
       I8x16Add(GetRegister(code[ip].lhs), GetRegister(code[ip].rhs)), 1)

(* execute_extract_lane with the inline ImmLaneIdx16. *)
ExecExtractLane ==
  /\ Running("I8x16ExtractLaneU")
  /\ WriteAndStep(code[ip].result,
       I8x16ExtractLaneU(GetRegister(code[ip].input), code[ip].lane), 1)

(* execute_simd_shift_by with the inline ShiftAmount. *)
ExecShiftBy ==
  /\ Running("I8x16ShlBy")
  /\ WriteAndStep(code[ip].result,
       I8x16Shl(GetRegister(code[ip].lhs), code[ip].amount), 1)

ExecReturn ==
  /\ Running("Return")
  /\ status' = "returned"
  /\ UNCHANGED <<src, code, ip, regs>>

Init ==
  /\ src \in SrcPrograms
  /\ code = Translate(src)
  /\ ip = 1
  /\ regs \in [FrameRegs -> RegValues]
  /\ status = "running"

Next ==
  \/ ExecShuffle \/ ExecBitselect
  \/ ExecUnary \/ ExecBinary \/ ExecExtractLane \/ ExecShiftBy
  \/ ExecReturn

Spec == Init /\ [][Next]_vars

(***************************************************************************)
(* Properties.                                                             *)
(***************************************************************************)

TypeOK ==
  /\ src \in Seq(SrcOp)
  /\ code \in Seq(Slot)
  /\ ip \in 1..Len(code)
  /\ regs \in [FrameRegs -> V128]
  /\ status \in Status

(* No handler reaches an unreachable_unchecked! arm and ip never rests on *)
(* a Register parameter slot, which is not an instruction (spec 3):       *)
(* fetch_register finds the Register the translator put after every       *)
(* Shuffle and Bitselect, every selector byte passes ImmLaneIdx32::       *)
(* try_from, and next_instr_at(2) steps over the slot (spec 7: internal   *)
(* invariants must never be violated silently).                            *)
NoUnreachableReached ==
  /\ status /= "undefined"
  /\ status = "running" => code[ip].tag /= "Register"

(* Translate-then-execute behaves as the Wasm lane operations of the body: *)
(* with the abstract program counter read off ip, the executor implements *)
(* WasmSimd (spec 4.4, scenario 4).                                        *)
AbsPc == 1 + Cardinality({k \in 1..Len(src) : OpStart(src, k) < ip})

Abs == INSTANCE WasmSimd WITH pc <- AbsPc

RefinesWasmSimd == Abs!Spec

=============================================================================
