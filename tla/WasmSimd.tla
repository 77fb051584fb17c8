------------------------------ MODULE WasmSimd ------------------------------
(***************************************************************************)
(* What a function body of Wasm SIMD lane operations promises: the         *)
(* operations run in program order, each writing the lane-wise result of   *)
(* its operands (spec 4.4, 6) to its result register; the shuffle reads    *)
(* its 16 lane indices from the instruction's immediate.                   *)
(***************************************************************************)
EXTENDS SimdIR

VARIABLES src, pc, regs, status

ExecuteOp ==
  /\ status = "running"
  /\ pc \in 1..Len(src)
  /\ regs' = [regs EXCEPT ![src[pc].result] = WasmResult(src[pc], regs)]
  /\ pc' = pc + 1
  /\ UNCHANGED <<src, status>>

Return ==
  /\ status = "running"
  /\ pc = Len(src) + 1
  /\ status' = "returned"
  /\ UNCHANGED <<src, pc, regs>>

Init ==
  /\ pc = 1
  /\ status = "running"

Next == ExecuteOp \/ Return

vars == <<src, pc, regs, status>>

Spec == Init /\ [][Next]_vars

=============================================================================
