----------------------------- MODULE WasmStore -----------------------------
(***************************************************************************)
(* What a function body made of Wasm store instructions promises, read     *)
(* from the source ISA: the stores run in program order; each computes the *)
(* effective address pointer + offset, traps with MemoryOutOfBounds when   *)
(* the bytes it would write do not all lie in the memory, and otherwise    *)
(* writes the low Width bytes of its value little-endian.  A trap ends the *)
(* call and leaves every memory as it was.                                 *)
(***************************************************************************)
EXTENDS StoreIR

CONSTANT MemSize    \* bytes of every linear memory

VARIABLES src, pc, regs, mem, status

(* The bit pattern of an operand: a register's value or the constant's. *)
OperandBits(o) == IF o.kind = "reg" THEN regs[o.id] ELSE o.val % U64

(* An i32 address operand is read as u32. *)
PointerValue(o) == IF o.kind = "reg" THEN regs[o.id] ELSE o.val % U32

(* Memory bytes after writing the low w bytes of v at ea. *)
WriteBytes(bytes, ea, v, w) ==
  [a \in DOMAIN bytes |-> IF a \in ea..(ea + w - 1) THEN ByteOf(v, a - ea)
                                                    ELSE bytes[a]]

ExecuteStore ==
  /\ status = "running"
  /\ pc \in 1..Len(src)
  /\ LET op == src[pc]
         ea == PointerValue(op.ptr) + op.offset
     IN  IF ea + Width(op.kind) <= MemSize
         THEN /\ mem' = [mem EXCEPT ![op.mem] =
                           WriteBytes(@, ea, OperandBits(op.value), Width(op.kind))]
              /\ pc' = pc + 1
              /\ UNCHANGED status
         ELSE /\ status' = "trapped"
              /\ UNCHANGED <<mem, pc>>
  /\ UNCHANGED <<src, regs>>

Return ==
  /\ status = "running"
  /\ pc = Len(src) + 1
  /\ status' = "returned"
  /\ UNCHANGED <<src, pc, regs, mem>>

(* A call starts at the first store with every memory zeroed. *)
Init ==
  /\ pc = 1
  /\ mem = [m \in Mems |-> [a \in 0..(MemSize - 1) |-> 0]]
  /\ status = "running"

Next == ExecuteStore \/ Return

vars == <<src, pc, regs, mem, status>>

Spec == Init /\ [][Next]_vars

=============================================================================
