------------------------------ MODULE StoreIR ------------------------------
(***************************************************************************)
(* The Wasm store instructions of a function body and their encoding as    *)
(* register-machine instruction slots (crates/ir).                         *)
(*                                                                         *)
(* Translate is the translator's lowering of a store (spec section 4.2:    *)
(* the 6-way expansion Store, StoreImm, StoreOffset16,                     *)
(* StoreOffset16Imm16, StoreAt, StoreAtImm16 and their trailing parameter  *)
(* slots); the translator is not part of the source and is modelled from   *)
(* the spec.                                                               *)
(***************************************************************************)
EXTENDS Words, Sequences

CONSTANTS
  Mems,       \* memory indices of the instance; 0 is the default memory
  FrameRegs,  \* register ids of the frame window (non-negative)
  ConstPool   \* the function's constant pool: register -i holds ConstPool[i]

ASSUME IRAssumption ==
  /\ Mems \subseteq Nat /\ 0 \in Mems
  /\ FrameRegs \subseteq Nat
  /\ ConstPool \in Seq(Word64)

(***************************************************************************)
(* Source stores.  An operand is a frame register or a constant.           *)
(***************************************************************************)
StoreKinds == {"i32.store", "i64.store", "i32.store8", "i32.store16",
               "i64.store8", "i64.store16", "i64.store32"}

(* Bytes written by each store: the UntypedVal::store* function the        *)
(* instruction tables bind to it.                                          *)
Width(k) ==
  CASE k \in {"i32.store8", "i64.store8"}   -> 1
    [] k \in {"i32.store16", "i64.store16"} -> 2
    [] k \in {"i32.store", "i64.store32"}   -> 4
    [] k = "i64.store"                      -> 8

Operand == [kind : {"reg"}, id : FrameRegs] \cup [kind : {"const"}, val : Int]

SrcOp == [kind : StoreKinds, mem : Mems, ptr : Operand,
          offset : Word64, value : Operand]

(***************************************************************************)
(* Instruction slots.  Heads carry the operation; RegisterAndImm32,        *)
(* Imm16AndOffsetHi and MemoryIndex are trailing parameter slots.          *)
(***************************************************************************)
HeadTags  == {"Store", "StoreImm", "StoreOffset16", "StoreOffset16Imm",
              "StoreAt", "StoreAtImm", "Trap", "Return"}
ParamTags == {"RegisterAndImm32", "Imm16AndOffsetHi", "MemoryIndex"}

Slot ==
       [tag : {"Store"}, op : StoreKinds, ptr : Int, offsetLo : 0..(U32 - 1)]
  \cup [tag : {"StoreImm"}, op : StoreKinds, ptr : Int, offsetLo : 0..(U32 - 1)]
  \cup [tag : {"StoreOffset16", "StoreOffset16Imm"}, op : StoreKinds,
        ptr : Int, offset : 0..(ByteRange^2 - 1), value : Int]
  \cup [tag : {"StoreAt", "StoreAtImm"}, op : StoreKinds,
        address : 0..(U32 - 1), value : Int]
  \cup [tag : {"Trap", "Return"}]
  \cup [tag : {"RegisterAndImm32"}, reg : Int, hi : 0..(U32 - 1)]
  \cup [tag : {"Imm16AndOffsetHi"}, imm : Int, hi : 0..(U32 - 1)]
  \cup [tag : {"MemoryIndex"}, index : Mems]

(***************************************************************************)
(* The invariants of a finalized stream (spec section 3) that the executor *)
(* relies on without checking: every head is followed by the parameter    *)
(* slots its handler fetches, then by the optional MemoryIndex word of a   *)
(* store that may name one, then by a head; every register id              *)
(* lies in the frame window or the constant pool; the stream ends in       *)
(* Return.                                                                 *)
(***************************************************************************)
Dispatchable == HeadTags \cup {"MemoryIndex"}

ValidReg(r) == r \in FrameRegs \/ (r < 0 /\ -r \in DOMAIN ConstPool)

SlotWellFormed(c, i) ==
  LET t == c[i].tag IN
  /\ t \in {"Store", "StoreImm"} =>
       /\ i + 2 <= Len(c)
       /\ c[i + 1].tag = IF t = "Store" THEN "RegisterAndImm32"
                                        ELSE "Imm16AndOffsetHi"
       /\ c[i + 2].tag \in Dispatchable
       /\ ValidReg(c[i].ptr)
       /\ t = "Store" => ValidReg(c[i + 1].reg)
  /\ t \in {"StoreOffset16", "StoreOffset16Imm"} =>
       /\ i + 1 <= Len(c)
       /\ c[i + 1].tag \in HeadTags
  /\ t \in {"StoreAt", "StoreAtImm"} =>
       /\ i + 1 <= Len(c)
       /\ c[i + 1].tag \in Dispatchable
  /\ t \in {"StoreOffset16", "StoreOffset16Imm"} => ValidReg(c[i].ptr)
  /\ t \in {"StoreOffset16", "StoreAt"} => ValidReg(c[i].value)
  /\ t = "MemoryIndex" => i + 1 <= Len(c) /\ c[i + 1].tag \in HeadTags

WellFormed(c) ==
  /\ c \in Seq(Slot)
  /\ Len(c) >= 1
  /\ c[1].tag \in HeadTags
  /\ c[Len(c)].tag = "Return"
  /\ \A i \in 1..Len(c) : SlotWellFormed(c, i)

(***************************************************************************)
(* The translator's lowering of one store (spec 4.2, 4.3).                 *)
(***************************************************************************)

(* The immediate the instruction variant carries for the constant c:       *)
(* i8 / i16 for the truncating stores, Const16<i32> for i32.store and      *)
(* i64.store32, Const16<i64> for i64.store.                                *)
InlineImm(k, c) ==
  CASE k \in {"i32.store8", "i64.store8"}   -> Signed(c, 1)
    [] k \in {"i32.store16", "i64.store16"} -> Signed(c, 2)
    [] k \in {"i32.store", "i64.store32"}   -> Signed(c, 4)
    [] k = "i64.store"                      -> c

IsImm(k, o) == o.kind = "const" /\ Fits16(InlineImm(k, o.val))

(* A constant that is not inlined lives in the constant pool. *)
PoolReg(c) == -(CHOOSE i \in DOMAIN ConstPool : ConstPool[i] = c % U64)

ValueReg(o) == IF o.kind = "reg" THEN o.id ELSE PoolReg(o.val)

MemorySlot(m) ==
  IF m = 0 THEN << >> ELSE << [tag |-> "MemoryIndex", index |-> m] >>

Encode(op) ==
  LET k == op.kind
      v == op.value
  IN
  IF op.ptr.kind = "const" THEN
    LET ea == (op.ptr.val % U32) + op.offset IN
    IF ea > U32 - 1 THEN << [tag |-> "Trap"] >>
    ELSE (IF IsImm(k, v)
          THEN << [tag |-> "StoreAtImm", op |-> k, address |-> ea,
                   value |-> InlineImm(k, v.val)] >>
          ELSE << [tag |-> "StoreAt", op |-> k, address |-> ea,
                   value |-> ValueReg(v)] >>) \o MemorySlot(op.mem)
  ELSE IF op.mem = 0 /\ op.offset < ByteRange^2 THEN
    IF IsImm(k, v)
    THEN << [tag |-> "StoreOffset16Imm", op |-> k, ptr |-> op.ptr.id,
             offset |-> op.offset, value |-> InlineImm(k, v.val)] >>
    ELSE << [tag |-> "StoreOffset16", op |-> k, ptr |-> op.ptr.id,
             offset |-> op.offset, value |-> ValueReg(v)] >>
  ELSE
    (IF IsImm(k, v)
     THEN << [tag |-> "StoreImm", op |-> k, ptr |-> op.ptr.id,
              offsetLo |-> op.offset % U32],
             [tag |-> "Imm16AndOffsetHi", imm |-> InlineImm(k, v.val),
              hi |-> op.offset \div U32] >>
     ELSE << [tag |-> "Store", op |-> k, ptr |-> op.ptr.id,
              offsetLo |-> op.offset % U32],
             [tag |-> "RegisterAndImm32", reg |-> ValueReg(v),
              hi |-> op.offset \div U32] >>) \o MemorySlot(op.mem)

(* Emitted(s)[k]: the slots emitted for the first k stores of s. *)
Emitted(s) ==
  LET enc[k \in 0..Len(s)] == IF k = 0 THEN << >> ELSE enc[k - 1] \o Encode(s[k])
  IN  enc

(* The finalized instruction stream of a function body s. *)
Translate(s) == Emitted(s)[Len(s)] \o << [tag |-> "Return"] >>

(* The slot at which the k-th store of s begins. *)
OpStart(s, k) == Len(Emitted(s)[k - 1]) + 1


(* The layout of the stream Translate(s): the slots of the stores follow  *)
(* one another from slot 1 in program order, each run of slots is         *)
(* Encode(s[k]), and Return follows the last.  These are what the          *)
(* recursive Emitted computes, stated for one body at a time.              *)
Layout(s) ==
  LET n == Len(s)
      c == Translate(s)
  IN  /\ OpStart(s, 1) = 1
      /\ \A k \in 1..(n + 1) : OpStart(s, k) \in Nat
      /\ \A k \in 1..n :
           /\ OpStart(s, k + 1) = OpStart(s, k) + Len(Encode(s[k]))
           /\ \A j \in 1..Len(Encode(s[k])) : c[OpStart(s, k) + j - 1] = Encode(s[k])[j]
      /\ Len(c) = OpStart(s, n + 1)

=============================================================================
