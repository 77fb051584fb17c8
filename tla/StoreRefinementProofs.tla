------------------------ MODULE StoreRefinementProofs ------------------------
(***************************************************************************)
(* Proof that the store handlers of StoreExec implement WasmStore under    *)
(* the abstract program counter AbsPc, for every byte range, memory size, *)
(* frame, constant pool and set of bodies that satisfy the assumptions of  *)
(* Words, StoreIR and StoreExec.                                           *)
(***************************************************************************)
EXTENDS StoreExecProofs, FiniteSetTheorems

(***************************************************************************)
(* Integer division and remainder.                                         *)
(***************************************************************************)

(* The quotient and remainder by a positive divisor are unique. *)
LEMMA DivModUnique ==
  ASSUME NEW a \in Int, NEW d \in Nat \ {0}, NEW q \in Int, NEW r \in 0..(d - 1),
         a = q * d + r
  PROVE  a \div d = q /\ a % d = r
OBVIOUS

(* Every integer has a quotient and a remainder by a positive divisor. *)
LEMMA DivModExists ==
  ASSUME NEW a \in Int, NEW d \in Nat \ {0}
  PROVE  \E q \in Int, r \in 0..(d - 1) : a = q * d + r
<1>1. a % d \in 0..(d - 1) /\ a \div d \in Int
  OBVIOUS
<1>2. a = (a \div d) * d + (a % d)
  OBVIOUS
<1>. QED
  BY <1>1, <1>2

(* Digit b of x in radix p: dividing by p and reducing modulo b reads the *)
(* same digit as reducing modulo p * b first.                              *)
LEMMA DivOfDiv ==
  ASSUME NEW x \in Int, NEW p \in Nat \ {0}, NEW b \in Nat \ {0}
  PROVE  (x \div p) % b = (x % (p * b)) \div p
<1>1. p * b \in Nat \ {0}
  OBVIOUS
<1>2. PICK Q1 \in Int, R1 \in 0..(p * b - 1) : x = Q1 * (p * b) + R1
  BY <1>1, DivModExists, Zenon
<1>3. R1 \in Int
  OBVIOUS
<1>4. PICK q2 \in Int, r2 \in 0..(p - 1) : R1 = q2 * p + r2
  BY <1>3, DivModExists, Zenon
<1>5. q2 \in 0..(b - 1)
  <2>1. q2 >= 0
    BY <1>4
  <2>2. q2 < b
    BY <1>4, <2>1
  <2>. QED
    BY <2>1, <2>2
<1>6. x = (Q1 * b + q2) * p + r2
  BY <1>2, <1>4
<1>7. x \div p = Q1 * b + q2
  BY <1>6, DivModUnique
<1>8. (Q1 * b + q2) % b = q2
  BY <1>5, DivModUnique
<1>9. x % (p * b) = R1
  BY <1>1, <1>2, DivModUnique
<1>10. R1 \div p = q2
  BY <1>4, DivModUnique
<1>. QED
  BY <1>7, <1>8, <1>9, <1>10

(* Reducing modulo a multiple of q and then modulo q is reducing modulo q. *)
LEMMA ModOfMod ==
  ASSUME NEW x \in Int, NEW q \in Nat \ {0}, NEW t \in Nat \ {0}
  PROVE  (x % (q * t)) % q = x % q
<1>1. q * t \in Nat \ {0}
  OBVIOUS
<1>2. PICK Q1 \in Int, R1 \in 0..(q * t - 1) : x = Q1 * (q * t) + R1
  BY <1>1, DivModExists, Zenon
<1>3. R1 \in Int
  OBVIOUS
<1>4. PICK q2 \in Int, r2 \in 0..(q - 1) : R1 = q2 * q + r2
  BY <1>3, DivModExists, Zenon
<1>5. x = (Q1 * t + q2) * q + r2
  BY <1>2, <1>4
<1>6. x % q = r2
  BY <1>5, DivModUnique
<1>7. x % (q * t) = R1
  BY <1>1, <1>2, DivModUnique
<1>8. R1 % q = r2
  BY <1>4, DivModUnique
<1>. QED
  BY <1>6, <1>7, <1>8

(***************************************************************************)
(* Byte positions.                                                         *)
(***************************************************************************)

(* A lower byte position divides a higher one. *)
LEMMA PowDivides ==
  ASSUME NEW a \in 0..8, NEW b \in a..8
  PROVE  \E t \in Nat \ {0} : ByteRange^b = ByteRange^a * t
<1>. DEFINE P(c) == \E t \in Nat \ {0} : ByteRange^c = ByteRange^a * t
            T == {c \in a..8 : ~P(c)}
<1>. SUFFICES ASSUME T /= {} PROVE FALSE
  OBVIOUS
<1>1. \E m \in T : \A y \in T : ~(<<y, m>> \in OpToRel(<, Nat))
  <2>1. T \subseteq Nat
    OBVIOUS
  <2>. QED
    BY <2>1, WFMin, NatLessThanWellFounded
<1>2. PICK m \in T : \A y \in T : ~(<<y, m>> \in OpToRel(<, Nat))
  BY <1>1
<1>3. m /= a
  <2>1. ByteRange^a \in Nat \ {0}
    BY RadixAssumption
  <2>2. ByteRange^a = ByteRange^a * 1
    BY <2>1
  <2>. QED
    BY <2>2
<1>4. m - 1 \in a..8 /\ m - 1 \notin T
  <2>1. m - 1 \in a..8 /\ m - 1 \in Nat /\ m \in Nat /\ m - 1 < m
    BY <1>3
  <2>. QED
    BY <1>2, <2>1 DEF OpToRel
<1>5. PICK t0 \in Nat \ {0} : ByteRange^(m - 1) = ByteRange^a * t0
  BY <1>4
<1>6. ByteRange^m = ByteRange^(m - 1) * ByteRange
  <2>1. m - 1 \in 0..7 /\ (m - 1) + 1 = m
    BY <1>3
  <2>. QED
    BY <2>1, RadixStep
<1>7. ByteRange^a \in Int /\ ByteRange \in Nat \ {0}
  BY RadixAssumption, ByteRangeAssumption
<1>8. ByteRange^m = ByteRange^a * (t0 * ByteRange) /\ t0 * ByteRange \in Nat \ {0}
  BY <1>5, <1>6, <1>7
<1>. QED
  BY <1>8

(* Byte j of x is read from x modulo the byte position above it. *)
LEMMA ByteOfLow ==
  ASSUME NEW x \in Int, NEW j \in 0..7
  PROVE  ByteOf(x, j) = (x % ByteRange^(j + 1)) \div ByteRange^j
<1>1. ByteRange^j \in Nat \ {0} /\ ByteRange \in Nat \ {0}
  BY RadixAssumption, ByteRangeAssumption
<1>2. ByteRange^(j + 1) = ByteRange^j * ByteRange
  BY RadixStep
<1>. QED
  BY <1>1, <1>2, DivOfDiv DEF ByteOf

(* Two integers equal modulo ByteRange^w have the same low w bytes. *)
LEMMA ByteOfCongruent ==
  ASSUME NEW x \in Int, NEW y \in Int, NEW w \in 1..8,
         x % ByteRange^w = y % ByteRange^w
  PROVE  \A j \in 0..(w - 1) : ByteOf(x, j) = ByteOf(y, j)
<1>. SUFFICES ASSUME NEW j \in 0..(w - 1) PROVE ByteOf(x, j) = ByteOf(y, j)
  OBVIOUS
<1>1. PICK t \in Nat \ {0} : ByteRange^w = ByteRange^(j + 1) * t
  BY PowDivides
<1>2. ByteRange^(j + 1) \in Nat \ {0}
  BY RadixAssumption
<1>3. x % ByteRange^(j + 1) = y % ByteRange^(j + 1)
  <2>1. (x % ByteRange^w) % ByteRange^(j + 1) = x % ByteRange^(j + 1)
    BY <1>1, <1>2, ModOfMod
  <2>2. (y % ByteRange^w) % ByteRange^(j + 1) = y % ByteRange^(j + 1)
    BY <1>1, <1>2, ModOfMod
  <2>. QED
    BY <2>1, <2>2
<1>. QED
  BY <1>3, ByteOfLow

(***************************************************************************)
(* Inlined immediates.                                                     *)
(***************************************************************************)

(* An `as iN` cast keeps the integer modulo ByteRange^n. *)
LEMMA SignedCongruent ==
  ASSUME NEW c \in Int, NEW n \in 0..8
  PROVE  Signed(c, n) \in Int /\ Signed(c, n) % ByteRange^n = c % ByteRange^n
<1>. DEFINE m == ByteRange^n
            u == c % m
<1>1. m \in Nat \ {0}
  BY RadixAssumption
<1>2. u \in 0..(m - 1)
  BY <1>1
<1>3. CASE u >= m \div 2
  <2>1. u - m = (-1) * m + u
    BY <1>1, <1>2
  <2>2. (u - m) % m = u
    BY <1>1, <1>2, <2>1, DivModUnique
  <2>. QED
    BY <1>1, <1>3, <2>2 DEF Signed
<1>4. CASE ~(u >= m \div 2)
  <2>1. u % m = u
    BY <1>1, <1>2, DivModUnique
  <2>. QED
    BY <1>1, <1>4, <2>1 DEF Signed
<1>. QED
  BY <1>3, <1>4

(* The UntypedVal of an inlined immediate has the low Width bytes of the   *)
(* constant it stands for: T::from(value).into() sign-extends the i8, i16  *)
(* or Const16 the translator narrowed the constant to.                     *)
LEMMA ImmBytes ==
  ASSUME NEW k \in StoreKinds, NEW c \in Int
  PROVE  \A j \in 0..(Width(k) - 1) :
           ByteOf(ImmToUntyped(k, InlineImm(k, c)), j) = ByteOf(c % U64, j)
<1>1. U32 = ByteRange^4 /\ U64 = U32 * U32 /\ U32 \in Nat \ {0}
  BY U32Type DEF U32, U64
<1>2. CASE k = "i64.store"
  BY <1>2 DEF InlineImm, ImmToUntyped
<1>3. CASE k /= "i64.store"
  <2>. DEFINE w == Width(k)
              s == Signed(c, w)
  <2>1. w \in {1, 2, 4} /\ InlineImm(k, c) = s /\ ImmToUntyped(k, s) = s % U32
    BY <1>3 DEF StoreKinds, Width, InlineImm, ImmToUntyped
  <2>2. s \in Int /\ s % ByteRange^w = c % ByteRange^w
    <3>1. w \in 0..8
      BY <2>1
    <3>. QED
      BY <3>1, SignedCongruent
  <2>3. PICK t \in Nat \ {0} : U32 = ByteRange^w * t
    BY <1>1, <2>1, PowDivides
  <2>4. ByteRange^w \in Nat \ {0}
    BY <2>1, RadixAssumption
  <2>5. (s % U32) % ByteRange^w = c % ByteRange^w
    BY <2>2, <2>3, <2>4, ModOfMod
  <2>6. (c % U64) % ByteRange^w = c % ByteRange^w
    <3>1. U64 = ByteRange^w * (t * U32) /\ t * U32 \in Nat \ {0}
      BY <1>1, <2>3, <2>4
    <3>. QED
      BY <2>4, <3>1, ModOfMod
  <2>7. s % U32 \in Int /\ c % U64 \in Int
    BY <1>1, <2>2
  <2>. QED
    BY <2>1, <2>5, <2>6, <2>7, ByteOfCongruent
<1>. QED
  BY <1>2, <1>3

(***************************************************************************)
(* What the translator emits for one store.                                *)
(***************************************************************************)

(* The MemoryIndex word that names memory m. *)
MI(m) == [tag |-> "MemoryIndex", index |-> m]

(* The number of MemoryIndex words a store to memory m carries. *)
MemSlots(m) == IF m = 0 THEN 0 ELSE 1

(* A head (and its parameter slot) followed by the optional MemoryIndex. *)
LEMMA MemorySlotConcat ==
  ASSUME NEW S, NEW hs \in Seq(S), NEW m
  PROVE  /\ Len(hs \o MemorySlot(m)) = Len(hs) + MemSlots(m)
         /\ \A j \in 1..Len(hs) : (hs \o MemorySlot(m))[j] = hs[j]
         /\ m /= 0 => (hs \o MemorySlot(m))[Len(hs) + 1] = MI(m)
<1>1. CASE m = 0
  BY <1>1 DEF MemorySlot, MemSlots
<1>2. CASE m /= 0
  BY <1>2 DEF MemorySlot, MemSlots, MI
<1>. QED
  BY <1>1, <1>2

(* The seven ways the translator lowers a store (spec 4.2): a constant    *)
(* address out of u32 range becomes Trap; a constant address becomes      *)
(* StoreAt(Imm); a register address with memory 0 and a 16-bit offset      *)
(* becomes StoreOffset16(Imm); any other becomes Store(Imm) with its       *)
(* parameter slot.                                                          *)
LEMMA EncodeCases ==
  ASSUME NEW op \in SrcOp
  PROVE  LET k   == op.kind
             v   == op.value
             ea0 == (op.ptr.val % U32) + op.offset
             e   == Encode(op)
         IN  \/ /\ op.ptr.kind = "const" /\ ea0 > U32 - 1
                /\ e = << [tag |-> "Trap"] >>
             \/ /\ op.ptr.kind = "const" /\ ea0 <= U32 - 1 /\ IsImm(k, v)
                /\ e = << [tag |-> "StoreAtImm", op |-> k, address |-> ea0,
                           value |-> InlineImm(k, v.val)] >> \o MemorySlot(op.mem)
             \/ /\ op.ptr.kind = "const" /\ ea0 <= U32 - 1 /\ ~IsImm(k, v)
                /\ e = << [tag |-> "StoreAt", op |-> k, address |-> ea0,
                           value |-> ValueReg(v)] >> \o MemorySlot(op.mem)
             \/ /\ op.ptr.kind = "reg" /\ op.mem = 0 /\ op.offset < ByteRange^2
                /\ IsImm(k, v)
                /\ e = << [tag |-> "StoreOffset16Imm", op |-> k, ptr |-> op.ptr.id,
                           offset |-> op.offset, value |-> InlineImm(k, v.val)] >>
             \/ /\ op.ptr.kind = "reg" /\ op.mem = 0 /\ op.offset < ByteRange^2
                /\ ~IsImm(k, v)
                /\ e = << [tag |-> "StoreOffset16", op |-> k, ptr |-> op.ptr.id,
                           offset |-> op.offset, value |-> ValueReg(v)] >>
             \/ /\ op.ptr.kind = "reg" /\ ~(op.mem = 0 /\ op.offset < ByteRange^2)
                /\ IsImm(k, v)
                /\ e = << [tag |-> "StoreImm", op |-> k, ptr |-> op.ptr.id,
                           offsetLo |-> op.offset % U32],
                         [tag |-> "Imm16AndOffsetHi", imm |-> InlineImm(k, v.val),
                          hi |-> op.offset \div U32] >> \o MemorySlot(op.mem)
             \/ /\ op.ptr.kind = "reg" /\ ~(op.mem = 0 /\ op.offset < ByteRange^2)
                /\ ~IsImm(k, v)
                /\ e = << [tag |-> "Store", op |-> k, ptr |-> op.ptr.id,
                           offsetLo |-> op.offset % U32],
                         [tag |-> "RegisterAndImm32", reg |-> ValueReg(v),
                          hi |-> op.offset \div U32] >> \o MemorySlot(op.mem)
<1>. DEFINE k   == op.kind
            v   == op.value
            ea0 == (op.ptr.val % U32) + op.offset
<1>1. op.ptr.kind \in {"reg", "const"}
  BY DEF SrcOp, Operand
<1>0. op.ptr.kind = "const" => ea0 \in Int /\ U32 \in Int
  BY U32Type DEF SrcOp, Operand, Word64
<1>2. CASE op.ptr.kind = "const" /\ ea0 > U32 - 1
  BY <1>2 DEF Encode
<1>3. CASE op.ptr.kind = "const" /\ ~(ea0 > U32 - 1) /\ IsImm(k, v)
  BY <1>0, <1>3 DEF Encode
<1>4. CASE op.ptr.kind = "const" /\ ~(ea0 > U32 - 1) /\ ~IsImm(k, v)
  BY <1>0, <1>4 DEF Encode
<1>5. CASE op.ptr.kind = "reg" /\ op.mem = 0 /\ op.offset < ByteRange^2 /\ IsImm(k, v)
  BY <1>5 DEF Encode
<1>6. CASE op.ptr.kind = "reg" /\ op.mem = 0 /\ op.offset < ByteRange^2 /\ ~IsImm(k, v)
  BY <1>6 DEF Encode
<1>7. CASE op.ptr.kind = "reg" /\ ~(op.mem = 0 /\ op.offset < ByteRange^2) /\ IsImm(k, v)
  BY <1>7 DEF Encode
<1>8. CASE op.ptr.kind = "reg" /\ ~(op.mem = 0 /\ op.offset < ByteRange^2) /\ ~IsImm(k, v)
  BY <1>8 DEF Encode
<1>. QED
  BY <1>1, <1>2, <1>3, <1>4, <1>5, <1>6, <1>7, <1>8

(* The slots of each of the seven lowerings, read off EncodeCases: one    *)
(* operator per shape, so that a proof can name the shape a head tag       *)
(* selects before it opens it.                                              *)
Ea0(op) == (op.ptr.val % U32) + op.offset

ShapeTrap(op) ==
  /\ op.ptr.kind = "const" /\ Ea0(op) > U32 - 1
  /\ Len(Encode(op)) = 1 /\ Encode(op)[1] = [tag |-> "Trap"]

ShapeAtImm(op) ==
  /\ op.ptr.kind = "const" /\ Ea0(op) <= U32 - 1 /\ IsImm(op.kind, op.value)
  /\ Encode(op)[1] = [tag |-> "StoreAtImm", op |-> op.kind, address |-> Ea0(op),
                      value |-> InlineImm(op.kind, op.value.val)]
  /\ Len(Encode(op)) = 1 + MemSlots(op.mem)
  /\ op.mem /= 0 => Encode(op)[2] = MI(op.mem)

ShapeAt(op) ==
  /\ op.ptr.kind = "const" /\ Ea0(op) <= U32 - 1 /\ ~IsImm(op.kind, op.value)
  /\ Encode(op)[1] = [tag |-> "StoreAt", op |-> op.kind, address |-> Ea0(op),
                      value |-> ValueReg(op.value)]
  /\ Len(Encode(op)) = 1 + MemSlots(op.mem)
  /\ op.mem /= 0 => Encode(op)[2] = MI(op.mem)

ShapeOffset16Imm(op) ==
  /\ op.ptr.kind = "reg" /\ op.mem = 0 /\ IsImm(op.kind, op.value)
  /\ Encode(op)[1] = [tag |-> "StoreOffset16Imm", op |-> op.kind, ptr |-> op.ptr.id,
                      offset |-> op.offset, value |-> InlineImm(op.kind, op.value.val)]
  /\ Len(Encode(op)) = 1

ShapeOffset16(op) ==
  /\ op.ptr.kind = "reg" /\ op.mem = 0 /\ ~IsImm(op.kind, op.value)
  /\ Encode(op)[1] = [tag |-> "StoreOffset16", op |-> op.kind, ptr |-> op.ptr.id,
                      offset |-> op.offset, value |-> ValueReg(op.value)]
  /\ Len(Encode(op)) = 1

ShapeStoreImm(op) ==
  /\ op.ptr.kind = "reg" /\ IsImm(op.kind, op.value)
  /\ Encode(op)[1] = [tag |-> "StoreImm", op |-> op.kind, ptr |-> op.ptr.id,
                      offsetLo |-> op.offset % U32]
  /\ Encode(op)[2] = [tag |-> "Imm16AndOffsetHi",
                      imm |-> InlineImm(op.kind, op.value.val),
                      hi |-> op.offset \div U32]
  /\ Len(Encode(op)) = 2 + MemSlots(op.mem)
  /\ op.mem /= 0 => Encode(op)[3] = MI(op.mem)

ShapeStore(op) ==
  /\ op.ptr.kind = "reg" /\ ~IsImm(op.kind, op.value)
  /\ Encode(op)[1] = [tag |-> "Store", op |-> op.kind, ptr |-> op.ptr.id,
                      offsetLo |-> op.offset % U32]
  /\ Encode(op)[2] = [tag |-> "RegisterAndImm32", reg |-> ValueReg(op.value),
                      hi |-> op.offset \div U32]
  /\ Len(Encode(op)) = 2 + MemSlots(op.mem)
  /\ op.mem /= 0 => Encode(op)[3] = MI(op.mem)

(* Every store is lowered to exactly one of the seven shapes. *)
LEMMA EncodeShapes ==
  ASSUME NEW op \in SrcOp
  PROVE  \/ ShapeTrap(op) \/ ShapeAtImm(op) \/ ShapeAt(op)
         \/ ShapeOffset16Imm(op) \/ ShapeOffset16(op)
         \/ ShapeStoreImm(op) \/ ShapeStore(op)
<1>. DEFINE k   == op.kind
            v   == op.value
            m   == op.mem
            ea0 == (op.ptr.val % U32) + op.offset
            e   == Encode(op)
<1>1. \/ /\ op.ptr.kind = "const" /\ ea0 > U32 - 1
         /\ e = << [tag |-> "Trap"] >>
      \/ /\ op.ptr.kind = "const" /\ ea0 <= U32 - 1 /\ IsImm(k, v)
         /\ e = << [tag |-> "StoreAtImm", op |-> k, address |-> ea0,
                    value |-> InlineImm(k, v.val)] >> \o MemorySlot(m)
      \/ /\ op.ptr.kind = "const" /\ ea0 <= U32 - 1 /\ ~IsImm(k, v)
         /\ e = << [tag |-> "StoreAt", op |-> k, address |-> ea0,
                    value |-> ValueReg(v)] >> \o MemorySlot(m)
      \/ /\ op.ptr.kind = "reg" /\ m = 0 /\ op.offset < ByteRange^2 /\ IsImm(k, v)
         /\ e = << [tag |-> "StoreOffset16Imm", op |-> k, ptr |-> op.ptr.id,
                    offset |-> op.offset, value |-> InlineImm(k, v.val)] >>
      \/ /\ op.ptr.kind = "reg" /\ m = 0 /\ op.offset < ByteRange^2 /\ ~IsImm(k, v)
         /\ e = << [tag |-> "StoreOffset16", op |-> k, ptr |-> op.ptr.id,
                    offset |-> op.offset, value |-> ValueReg(v)] >>
      \/ /\ op.ptr.kind = "reg" /\ ~(m = 0 /\ op.offset < ByteRange^2) /\ IsImm(k, v)
         /\ e = << [tag |-> "StoreImm", op |-> k, ptr |-> op.ptr.id,
                    offsetLo |-> op.offset % U32],
                  [tag |-> "Imm16AndOffsetHi", imm |-> InlineImm(k, v.val),
                   hi |-> op.offset \div U32] >> \o MemorySlot(m)
      \/ /\ op.ptr.kind = "reg" /\ ~(m = 0 /\ op.offset < ByteRange^2) /\ ~IsImm(k, v)
         /\ e = << [tag |-> "Store", op |-> k, ptr |-> op.ptr.id,
                    offsetLo |-> op.offset % U32],
                  [tag |-> "RegisterAndImm32", reg |-> ValueReg(v),
                   hi |-> op.offset \div U32] >> \o MemorySlot(m)
  BY EncodeCases
<1>2. CASE /\ op.ptr.kind = "const" /\ ea0 > U32 - 1
            /\ e = << [tag |-> "Trap"] >>
  BY <1>2 DEF ShapeTrap, Ea0, MemorySlot, MemSlots, MI
<1>3. CASE /\ op.ptr.kind = "const" /\ ea0 <= U32 - 1 /\ IsImm(k, v)
            /\ e = << [tag |-> "StoreAtImm", op |-> k, address |-> ea0,
                       value |-> InlineImm(k, v.val)] >> \o MemorySlot(m)
  BY <1>3 DEF ShapeAtImm, Ea0, MemorySlot, MemSlots, MI
<1>4. CASE /\ op.ptr.kind = "const" /\ ea0 <= U32 - 1 /\ ~IsImm(k, v)
            /\ e = << [tag |-> "StoreAt", op |-> k, address |-> ea0,
                       value |-> ValueReg(v)] >> \o MemorySlot(m)
  BY <1>4 DEF ShapeAt, Ea0, MemorySlot, MemSlots, MI
<1>5. CASE /\ op.ptr.kind = "reg" /\ m = 0 /\ op.offset < ByteRange^2 /\ IsImm(k, v)
            /\ e = << [tag |-> "StoreOffset16Imm", op |-> k, ptr |-> op.ptr.id,
                       offset |-> op.offset, value |-> InlineImm(k, v.val)] >>
  BY <1>5 DEF ShapeOffset16Imm, Ea0, MemorySlot, MemSlots, MI
<1>6. CASE /\ op.ptr.kind = "reg" /\ m = 0 /\ op.offset < ByteRange^2 /\ ~IsImm(k, v)
            /\ e = << [tag |-> "StoreOffset16", op |-> k, ptr |-> op.ptr.id,
                       offset |-> op.offset, value |-> ValueReg(v)] >>
  BY <1>6 DEF ShapeOffset16, Ea0, MemorySlot, MemSlots, MI
<1>7. CASE /\ op.ptr.kind = "reg" /\ ~(m = 0 /\ op.offset < ByteRange^2) /\ IsImm(k, v)
            /\ e = << [tag |-> "StoreImm", op |-> k, ptr |-> op.ptr.id,
                       offsetLo |-> op.offset % U32],
                     [tag |-> "Imm16AndOffsetHi", imm |-> InlineImm(k, v.val),
                      hi |-> op.offset \div U32] >> \o MemorySlot(m)
  BY <1>7 DEF ShapeStoreImm, Ea0, MemorySlot, MemSlots, MI
<1>8. CASE /\ op.ptr.kind = "reg" /\ ~(m = 0 /\ op.offset < ByteRange^2) /\ ~IsImm(k, v)
            /\ e = << [tag |-> "Store", op |-> k, ptr |-> op.ptr.id,
                       offsetLo |-> op.offset % U32],
                     [tag |-> "RegisterAndImm32", reg |-> ValueReg(v),
                      hi |-> op.offset \div U32] >> \o MemorySlot(m)
  BY <1>8 DEF ShapeStore, Ea0, MemorySlot, MemSlots, MI
<1>. QED
  BY <1>1, <1>2, <1>3, <1>4, <1>5, <1>6, <1>7, <1>8

(* The head tag of a lowering names its shape. *)
LEMMA ShapeTag ==
  ASSUME NEW op
  PROVE  /\ ShapeTrap(op) => Encode(op)[1].tag = "Trap"
         /\ ShapeAtImm(op) => Encode(op)[1].tag = "StoreAtImm"
         /\ ShapeAt(op) => Encode(op)[1].tag = "StoreAt"
         /\ ShapeOffset16Imm(op) => Encode(op)[1].tag = "StoreOffset16Imm"
         /\ ShapeOffset16(op) => Encode(op)[1].tag = "StoreOffset16"
         /\ ShapeStoreImm(op) => Encode(op)[1].tag = "StoreImm"
         /\ ShapeStore(op) => Encode(op)[1].tag = "Store"
BY DEF ShapeTrap, ShapeAtImm, ShapeAt, ShapeOffset16Imm, ShapeOffset16,
       ShapeStoreImm, ShapeStore

(* Which shape a head tag selects. *)
LEMMA ShapeOfTag ==
  ASSUME NEW op \in SrcOp
  PROVE  /\ Encode(op)[1].tag = "Trap" => ShapeTrap(op)
         /\ Encode(op)[1].tag = "StoreAtImm" => ShapeAtImm(op)
         /\ Encode(op)[1].tag = "StoreAt" => ShapeAt(op)
         /\ Encode(op)[1].tag = "StoreOffset16Imm" => ShapeOffset16Imm(op)
         /\ Encode(op)[1].tag = "StoreOffset16" => ShapeOffset16(op)
         /\ Encode(op)[1].tag = "StoreImm" => ShapeStoreImm(op)
         /\ Encode(op)[1].tag = "Store" => ShapeStore(op)
         /\ Encode(op)[1].tag \in {"Trap", "StoreAt", "StoreAtImm", "StoreOffset16",
                                  "StoreOffset16Imm", "Store", "StoreImm"}
BY EncodeShapes, ShapeTag, Zenon

(* Every store emits one to three slots. *)
LEMMA EncodeLen ==
  ASSUME NEW op \in SrcOp
  PROVE  Len(Encode(op)) \in 1..3
<1>1. MemSlots(op.mem) \in 0..1
  BY DEF MemSlots
<1>2. ShapeTrap(op) \/ ShapeOffset16Imm(op) \/ ShapeOffset16(op) => Len(Encode(op)) \in 1..3
  BY DEF ShapeTrap, ShapeOffset16Imm, ShapeOffset16
<1>3. ShapeAtImm(op) \/ ShapeAt(op) => Len(Encode(op)) = 1 + MemSlots(op.mem)
  BY Zenon DEF ShapeAtImm, ShapeAt
<1>4. ShapeStoreImm(op) \/ ShapeStore(op) => Len(Encode(op)) = 2 + MemSlots(op.mem)
  BY Zenon DEF ShapeStoreImm, ShapeStore
<1>5. 1 + MemSlots(op.mem) \in 1..3 /\ 2 + MemSlots(op.mem) \in 1..3
  BY <1>1
<1>. QED
  BY <1>2, <1>3, <1>4, <1>5, EncodeShapes, Zenon

------------------------------------------------------------------------

(***************************************************************************)
(* The layout of a translated body.                                        *)
(***************************************************************************)

(* Every body is a sequence of stores laid out as Layout says. *)
LEMMA BodyFacts ==
  ASSUME NEW s \in SrcPrograms
  PROVE  /\ s \in Seq(SrcOp)
         /\ Layout(s)
         /\ \A k \in 1..(Len(s) + 1) : OpStart(s, k) \in Nat
BY StoreExecAssumption, LayoutAssumption DEF Layout

(* The stores' first slots rise strictly with the store's index: each run *)
(* of slots has one to three.                                              *)
LEMMA OpStartMonotone ==
  ASSUME NEW s \in SrcPrograms
  PROVE  \A k1, k2 \in 1..(Len(s) + 1) : k1 < k2 => OpStart(s, k1) < OpStart(s, k2)
<1>. DEFINE n == Len(s)
<1>1. s \in Seq(SrcOp) /\ Layout(s) /\ \A k \in 1..(n + 1) : OpStart(s, k) \in Nat
  BY BodyFacts
<1>2. \A k \in 1..n : OpStart(s, k) < OpStart(s, k + 1)
  <2>. SUFFICES ASSUME NEW k \in 1..n PROVE OpStart(s, k) < OpStart(s, k + 1)
    OBVIOUS
  <2>1. OpStart(s, k + 1) = OpStart(s, k) + Len(Encode(s[k]))
    BY <1>1 DEF Layout
  <2>2. s[k] \in SrcOp
    BY <1>1
  <2>3. Len(Encode(s[k])) \in 1..3
    BY <2>2, EncodeLen
  <2>4. OpStart(s, k) \in Nat
    BY <1>1
  <2>5. \A a \in Nat, l \in 1..3 : a < a + l
    OBVIOUS
  <2>. QED
    BY <2>1, <2>3, <2>4, <2>5, Zenon
<1>. SUFFICES ASSUME NEW k1 \in 1..(n + 1), NEW k2 \in 1..(n + 1), k1 < k2
              PROVE  OpStart(s, k1) < OpStart(s, k2)
  OBVIOUS
<1>. DEFINE T == {m \in (k1 + 1)..(n + 1) : ~(OpStart(s, k1) < OpStart(s, m))}
<1>. SUFFICES ASSUME T /= {} PROVE FALSE
  OBVIOUS
<1>3. \E m \in T : \A y \in T : ~(<<y, m>> \in OpToRel(<, Nat))
  <2>1. T \subseteq Nat
    OBVIOUS
  <2>. QED
    BY <2>1, WFMin, NatLessThanWellFounded
<1>4. PICK m \in T : \A y \in T : ~(<<y, m>> \in OpToRel(<, Nat))
  BY <1>3
<1>5. m - 1 \notin T
  <2>1. m - 1 \in Nat /\ m \in Nat /\ m - 1 < m
    OBVIOUS
  <2>. QED
    BY <1>4, <2>1 DEF OpToRel
<1>6. OpStart(s, m - 1) < OpStart(s, m)
  BY <1>2
<1>7. CASE m - 1 = k1
  BY <1>1, <1>6, <1>7
<1>8. CASE m - 1 /= k1
  <2>1. OpStart(s, k1) < OpStart(s, m - 1)
    BY <1>5, <1>8
  <2>. QED
    BY <1>1, <1>6, <2>1
<1>. QED
  BY <1>7, <1>8

(* A slot x from the first slot of store p up to (not including) the      *)
(* first slot of store p + 1 lies at or past the first slots of exactly p  *)
(* stores and the final Return: the abstract program counter there is p.  *)
LEMMA AbsPcWithin ==
  ASSUME NEW s \in SrcPrograms, NEW p \in 1..(Len(s) + 1), NEW x \in Int,
         OpStart(s, p) <= x,
         p <= Len(s) => x < OpStart(s, p + 1)
  PROVE  Cardinality({k \in 1..(Len(s) + 1) : OpStart(s, k) <= x}) = p
<1>1. s \in Seq(SrcOp) /\ \A k \in 1..(Len(s) + 1) : OpStart(s, k) \in Nat
  BY BodyFacts
<1>2. ASSUME NEW k \in 1..(Len(s) + 1), k <= p PROVE OpStart(s, k) <= x
  <2>1. CASE k = p
    BY <1>2, <2>1
  <2>2. CASE k < p
    BY <1>1, <1>2, <2>2, OpStartMonotone
  <2>. QED
    BY <2>1, <2>2, <1>2
<1>3. ASSUME NEW k \in 1..(Len(s) + 1), k > p PROVE ~(OpStart(s, k) <= x)
  <2>1. p <= Len(s) /\ p + 1 \in 1..(Len(s) + 1)
    BY <1>1, <1>3
  <2>2. CASE k = p + 1
    BY <1>1, <2>1, <2>2
  <2>3. CASE k > p + 1
    BY <1>1, <1>3, <2>1, <2>3, OpStartMonotone
  <2>. QED
    BY <2>2, <2>3, <1>3
<1>4. {k \in 1..(Len(s) + 1) : OpStart(s, k) <= x} = 1..p
  BY <1>1, <1>2, <1>3
<1>5. Cardinality(1..p) = p
  BY FS_Interval
<1>. QED
  BY <1>4, <1>5, Zenon

------------------------------------------------------------------------

(***************************************************************************)
(* The refinement invariant.                                               *)
(***************************************************************************)

(* While the call runs, ip rests on the first slot of a store or on the  *)
(* final Return.                                                           *)
OnOpStart ==
  status = "running" => \E p \in 1..(Len(src) + 1) : ip = OpStart(src, p)

(* The invariant of StoreExecProofs, with the stream being the translation *)
(* of the body and ip where OnOpStart says.                                *)
RInv ==
  /\ IInv
  /\ src \in SrcPrograms
  /\ code = Translate(src)
  /\ OnOpStart

(* The first slot of every store, and the slot after the last store, is a *)
(* head: a store's head or the final Return.                               *)
LEMMA FirstSlot ==
  ASSUME NEW s \in SrcPrograms, NEW q \in 1..(Len(s) + 1)
  PROVE  /\ OpStart(s, q) \in 1..Len(Translate(s))
         /\ Translate(s)[OpStart(s, q)].tag \in HeadTags
<1>. DEFINE n == Len(s)
            c == Translate(s)
<1>1. s \in Seq(SrcOp) /\ Layout(s) /\ \A k \in 1..(n + 1) : OpStart(s, k) \in Nat
  BY BodyFacts
<1>2. OpStart(s, 1) = 1 /\ Len(c) = OpStart(s, n + 1)
  BY <1>1 DEF Layout
<1>3. OpStart(s, q) \in 1..Len(c)
  <2>1. q > 1 => OpStart(s, 1) < OpStart(s, q)
    BY <1>1, OpStartMonotone
  <2>2. q < n + 1 => OpStart(s, q) < OpStart(s, n + 1)
    BY <1>1, OpStartMonotone
  <2>. QED
    BY <1>1, <1>2, <2>1, <2>2
<1>4. CASE q = n + 1
  <2>1. WellFormed(c)
    BY TranslateAssumption
  <2>. QED
    BY <1>2, <1>3, <1>4, <2>1 DEF WellFormed, HeadTags
<1>5. CASE q \in 1..n
  <2>1. s[q] \in SrcOp
    BY <1>1, <1>5
  <2>2. 1 \in 1..Len(Encode(s[q]))
    <3>1. Len(Encode(s[q])) \in 1..3
      BY <2>1, EncodeLen
    <3>. QED
      BY <3>1
  <2>5. \A j \in 1..Len(Encode(s[q])) : c[OpStart(s, q) + j - 1] = Encode(s[q])[j]
    BY <1>1, <1>5 DEF Layout
  <2>6. OpStart(s, q) + 1 - 1 = OpStart(s, q)
    BY <1>1, <1>5
  <2>3. c[OpStart(s, q)] = Encode(s[q])[1]
    BY <2>2, <2>5, <2>6, Zenon
  <2>4. Encode(s[q])[1].tag \in HeadTags
    BY <2>1, ShapeOfTag DEF HeadTags
  <2>. QED
    BY <1>3, <2>3, <2>4, Zenon
<1>. QED
  BY <1>3, <1>4, <1>5

(* What the stream holds at the first slot of store p. *)
LEMMA CurrentOp ==
  ASSUME RInv, NEW p \in 1..Len(src), ip = OpStart(src, p)
  PROVE  /\ AbsPc = p
         /\ src[p] \in SrcOp
         /\ \A j \in 1..Len(Encode(src[p])) : code[ip + j - 1] = Encode(src[p])[j]
         /\ OpStart(src, p + 1) = ip + Len(Encode(src[p]))
         /\ OpStart(src, p + 1) \in 1..Len(code)
         /\ code[OpStart(src, p + 1)].tag \in HeadTags
<1>1. /\ src \in SrcPrograms /\ code = Translate(src)
      /\ src \in Seq(SrcOp) /\ Layout(src)
      /\ \A k \in 1..(Len(src) + 1) : OpStart(src, k) \in Nat
  BY BodyFacts DEF RInv
<1>2. AbsPc = p
  <2>1. OpStart(src, p) < OpStart(src, p + 1)
    BY <1>1, OpStartMonotone
  <2>2. p \in 1..(Len(src) + 1) /\ ip \in Int /\ OpStart(src, p) <= ip
    BY <1>1
  <2>3. Cardinality({k \in 1..(Len(src) + 1) : OpStart(src, k) <= ip}) = p
    BY <1>1, <2>1, <2>2, AbsPcWithin
  <2>. QED
    BY <2>3 DEF AbsPc
<1>3. /\ \A j \in 1..Len(Encode(src[p])) : code[ip + j - 1] = Encode(src[p])[j]
      /\ OpStart(src, p + 1) = ip + Len(Encode(src[p]))
  BY <1>1 DEF Layout
<1>4. p + 1 \in 1..(Len(src) + 1)
  BY <1>1
<1>. QED
  BY <1>1, <1>2, <1>3, <1>4, FirstSlot

------------------------------------------------------------------------

(***************************************************************************)
(* The abstract store step, and the step every store handler takes.        *)
(***************************************************************************)

(* WasmStore's operand readings, over the executor's registers. *)
OperandBits(o) == IF o.kind = "reg" THEN regs[o.id] ELSE o.val % U64

PointerValue(o) == IF o.kind = "reg" THEN regs[o.id] ELSE o.val % U32

(* WasmStore's ExecuteStore read through the instance: its operators are   *)
(* the ones of StoreIR and StoreExec.                                      *)
LEMMA AbsExecuteStoreDef ==
  Abs!ExecuteStore <=>
    /\ status = "running"
    /\ AbsPc \in 1..Len(src)
    /\ LET op == src[AbsPc]
           ea == PointerValue(op.ptr) + op.offset
       IN  IF ea + Width(op.kind) <= MemSize
           THEN /\ mem' = [mem EXCEPT ![op.mem] =
                             WriteBytes(@, ea, OperandBits(op.value), Width(op.kind))]
                /\ AbsPc' = AbsPc + 1
                /\ status' = status
           ELSE /\ status' = "trapped"
                /\ mem' = mem /\ AbsPc' = AbsPc
    /\ src' = src /\ regs' = regs
BY DEF Abs!ExecuteStore, Abs!PointerValue, PointerValue, Abs!OperandBits,
       OperandBits, Abs!WriteBytes, WriteBytes, Abs!Width, Width, Abs!ByteOf,
       ByteOf, Abs!U32, U32, Abs!U64, U64

(* Two values with the same low w bytes write the same memory. *)
LEMMA WriteBytesLow ==
  ASSUME NEW b, NEW ea \in Int, NEW v1, NEW v2, NEW w \in Nat,
         \A j \in 0..(w - 1) : ByteOf(v1, j) = ByteOf(v2, j)
  PROVE  WriteBytes(b, ea, v1, w) = WriteBytes(b, ea, v2, w)
<1>1. \A a \in ea..(ea + w - 1) : a - ea \in 0..(w - 1)
  OBVIOUS
<1>. QED
  BY <1>1 DEF WriteBytes

(* The bounds check of the store functions: with the memory no larger than *)
(* u32, an effective address whose bytes fit the memory is below u64.      *)
LEMMA StoreCheck ==
  ASSUME NEW ea \in Int, NEW w \in 1..8
  PROVE  (ea <= U64 - 1 /\ ea + w <= MemSize) <=> ea + w <= MemSize
<1>1. MemSize \in 1..U32 /\ U32 \in Nat \ {0} /\ U64 = U32 * U32
  BY StoreExecAssumption, U32Type DEF U64
<1>2. U32 <= U64
  BY <1>1
<1>. QED
  BY <1>1, <1>2

(* A handler at the first slot of store p that runs the store function on *)
(* the store's memory, with an address and offset that add up to the      *)
(* store's effective address and a value with the low bytes of the       *)
(* store's operand, from ip past the store's MemoryIndex word (at), and   *)
(* moves on by its head and parameter slot (d of them), takes WasmStore's *)
(* step of store p.                                                        *)
LEMMA HandlerRefines ==
  ASSUME RInv, status = "running",
         NEW p \in 1..Len(src), ip = OpStart(src, p),
         NEW d \in {1, 2},
         Len(Encode(src[p])) = d + MemSlots(src[p].mem),
         NEW at, at = ip + MemSlots(src[p].mem),
         NEW address \in Int, NEW offset \in Int, NEW value \in Int,
         address + offset = PointerValue(src[p].ptr) + src[p].offset,
         \A j \in 0..(Width(src[p].kind) - 1) :
           ByteOf(value, j) = ByteOf(OperandBits(src[p].value), j),
         StoreWrap(src[p].mem, address, offset, value, Width(src[p].kind), at, d),
         UNCHANGED <<src, code, regs>>
  PROVE  Abs!ExecuteStore /\ OnOpStart'
<1>. DEFINE op == src[p]
            w  == Width(op.kind)
            ea == address + offset
<1>1. /\ AbsPc = p
      /\ op \in SrcOp
      /\ OpStart(src, p + 1) = ip + Len(Encode(op))
  BY CurrentOp
<1>2. w \in 1..8
  BY <1>1, WidthType DEF SrcOp
<1>3. /\ src \in SrcPrograms /\ code = Translate(src)
      /\ \A k \in 1..(Len(src) + 1) : OpStart(src, k) \in Nat
      /\ ip \in Int /\ p + 1 \in 1..(Len(src) + 1)
  BY BodyFacts DEF RInv
<1>4. \A b : WriteBytes(b, ea, value, w) = WriteBytes(b, ea, OperandBits(op.value), w)
  <2>1. ea \in Int /\ w \in Nat
    BY <1>2
  <2>2. \A j \in 0..(w - 1) : ByteOf(value, j) = ByteOf(OperandBits(op.value), j)
    OBVIOUS
  <2>. QED
    BY <2>1, <2>2, WriteBytesLow, Zenon
<1>5. MemSlots(op.mem) \in {0, 1}
  BY DEF MemSlots
<1>6. CASE ea + w <= MemSize
  <2>0. ea <= U64 - 1 /\ ea + w <= MemSize
    <3>1. ea \in Int
      OBVIOUS
    <3>. QED
      BY <1>2, <1>6, <3>1, StoreCheck
  <2>1. /\ mem' = [mem EXCEPT ![op.mem] = WriteBytes(@, ea, value, w)]
        /\ ip' = at + d /\ status' = status
    BY <2>0 DEF StoreWrap
  <2>2. mem' = [mem EXCEPT ![op.mem] = WriteBytes(@, ea, OperandBits(op.value), w)]
    BY <2>1, <1>4
  <2>3. ip' = OpStart(src, p + 1)
    <3>1. ip' = ip + MemSlots(op.mem) + d
      BY <1>3, <1>5, <2>1
    <3>2. OpStart(src, p + 1) = ip + d + MemSlots(op.mem)
      BY <1>1, <1>3, <1>5
    <3>. QED
      BY <1>3, <1>5, <3>1, <3>2
  <2>4. AbsPc' = p + 1
    <3>1. Cardinality({k \in 1..(Len(src) + 1) : OpStart(src, k) <= ip'}) = p + 1
      <4>1. ip' \in Int /\ OpStart(src, p + 1) <= ip'
        BY <1>3, <2>3
      <4>2. p + 1 <= Len(src) => ip' < OpStart(src, p + 1 + 1)
        <5>. SUFFICES ASSUME p + 1 <= Len(src) PROVE ip' < OpStart(src, p + 1 + 1)
          OBVIOUS
        <5>1. p + 1 + 1 \in 1..(Len(src) + 1) /\ p + 1 < p + 1 + 1
          OBVIOUS
        <5>2. OpStart(src, p + 1) < OpStart(src, p + 1 + 1)
          BY <1>3, <5>1, OpStartMonotone
        <5>. QED
          BY <2>3, <5>2
      <4>. QED
        BY <1>3, <4>1, <4>2, AbsPcWithin
    <3>. QED
      BY <3>1 DEF AbsPc
  <2>5. OnOpStart'
    BY <1>3, <2>3 DEF OnOpStart
  <2>. QED
    BY <1>1, <1>6, <2>1, <2>2, <2>4, <2>5, AbsExecuteStoreDef
<1>7. CASE ~(ea + w <= MemSize)
  <2>1. status' = "trapped" /\ mem' = mem /\ ip' = at
    BY <1>2, <1>7, StoreCheck DEF StoreWrap
  <2>2. AbsPc' = p
    <3>1. Cardinality({k \in 1..(Len(src) + 1) : OpStart(src, k) <= ip'}) = p
      <4>1. ip' \in Int /\ OpStart(src, p) <= ip' /\ ip' < OpStart(src, p + 1)
        BY <1>1, <1>3, <1>5, <2>1
      <4>2. p \in 1..(Len(src) + 1)
        OBVIOUS
      <4>. QED
        BY <1>3, <4>1, <4>2, AbsPcWithin
    <3>. QED
      BY <3>1 DEF AbsPc
  <2>3. OnOpStart'
    BY <2>1 DEF OnOpStart
  <2>. QED
    BY <1>1, <1>7, <2>1, <2>2, <2>3, AbsExecuteStoreDef
<1>. QED
  BY <1>6, <1>7

(* fetch_optional_memory(d) after a head and parameter part of d slots   *)
(* finds the store's memory: its MemoryIndex word, which it steps ip over, *)
(* or memory 0, leaving ip, when the next store's head (or Return)         *)
(* follows.                                                                *)
LEMMA MemoryOf ==
  ASSUME RInv, NEW p \in 1..Len(src), ip = OpStart(src, p),
         NEW d \in {1, 2},
         Len(Encode(src[p])) = d + MemSlots(src[p].mem),
         src[p].mem /= 0 => Encode(src[p])[d + 1] = MI(src[p].mem)
  PROVE  /\ FetchOptionalMemory(d) = src[p].mem
         /\ IpAfterMemory(d) = ip + MemSlots(src[p].mem)
<1>. DEFINE op == src[p]
<1>1. /\ \A j \in 1..Len(Encode(op)) : code[ip + j - 1] = Encode(op)[j]
      /\ OpStart(src, p + 1) = ip + Len(Encode(op))
      /\ OpStart(src, p + 1) \in 1..Len(code)
      /\ code[OpStart(src, p + 1)].tag \in HeadTags
  BY CurrentOp
<1>2. ip \in Int
  BY DEF RInv, IInv, TypeOK
<1>3. CASE op.mem = 0
  <2>1. ip + d = OpStart(src, p + 1)
    BY <1>1, <1>2, <1>3 DEF MemSlots
  <2>2. code[ip + d].tag /= "MemoryIndex"
    BY <1>1, <2>1 DEF HeadTags
  <2>3. ~HasMemoryIndex(d)
    BY <2>2 DEF HasMemoryIndex
  <2>. QED
    BY <1>2, <1>3, <2>3 DEF FetchOptionalMemory, IpAfterMemory, MemSlots
<1>4. CASE op.mem /= 0
  <2>1. d + 1 \in 1..Len(Encode(op)) /\ ip + (d + 1) - 1 = ip + d
    BY <1>2, <1>4 DEF MemSlots
  <2>2. code[ip + d] = MI(op.mem)
    BY <1>1, <1>4, <2>1
  <2>3. ip + d <= Len(code)
    BY <1>1, <1>2, <1>4 DEF MemSlots
  <2>4. HasMemoryIndex(d)
    BY <2>2, <2>3 DEF HasMemoryIndex, MI
  <2>. QED
    BY <1>4, <2>2, <2>4 DEF FetchOptionalMemory, IpAfterMemory, MemSlots, MI
<1>. QED
  BY <1>3, <1>4

(* Offset64::combine of the two halves Offset64::split gives back the     *)
(* offset.                                                                  *)
LEMMA CombineSplit ==
  ASSUME NEW off \in Int
  PROVE  Combine(off \div U32, off % U32) = off
BY U32Type DEF Combine

(* A register operand reads the frame register. *)
LEMMA RegRead ==
  ASSUME NEW o \in Operand, o.kind = "reg"
  PROVE  /\ GetRegister(o.id) = regs[o.id]
         /\ PointerValue(o) = regs[o.id]
         /\ OperandBits(o) = regs[o.id]
<1>1. o.id \in FrameRegs
  BY DEF Operand
<1>2. o.id \in Nat
  BY <1>1, IRAssumption
<1>. QED
  BY <1>2 DEF GetRegister, PointerValue, OperandBits

(* A value that is not inlined is read from its register: the frame       *)
(* register, or the constant-pool entry the translator allocated for the  *)
(* constant (get_register with a negative id).                             *)
LEMMA ValueRead ==
  ASSUME NEW s \in SrcPrograms, NEW p \in 1..Len(s),
         ~IsImm(s[p].kind, s[p].value)
  PROVE  GetRegister(ValueReg(s[p].value)) = OperandBits(s[p].value)
<1>. DEFINE v == s[p].value
<1>1. v \in Operand
  <2>1. s[p] \in SrcOp
    BY BodyFacts
  <2>. QED
    BY <2>1 DEF SrcOp
<1>2. CASE v.kind = "reg"
  BY <1>1, <1>2, RegRead DEF ValueReg
<1>3. CASE v.kind = "const"
  <2>1. \E i \in DOMAIN ConstPool : ConstPool[i] = v.val % U64
    BY <1>3, PoolAssumption
  <2>. DEFINE i == CHOOSE i \in DOMAIN ConstPool : ConstPool[i] = v.val % U64
  <2>2. i \in DOMAIN ConstPool /\ ConstPool[i] = v.val % U64
    BY <2>1
  <2>3. i \in Nat \ {0}
    BY <2>2, IRAssumption
  <2>4. ValueReg(v) = -i
    BY <1>3 DEF ValueReg, PoolReg
  <2>5. GetRegister(-i) = ConstPool[i]
    BY <2>3 DEF GetRegister
  <2>. QED
    BY <1>3, <2>2, <2>4, <2>5 DEF OperandBits
<1>. QED
  BY <1>1, <1>2, <1>3 DEF Operand

(* An inlined value has the low bytes of the constant it stands for. *)
LEMMA ImmRead ==
  ASSUME NEW op \in SrcOp, IsImm(op.kind, op.value)
  PROVE  \A j \in 0..(Width(op.kind) - 1) :
           ByteOf(ImmToUntyped(op.kind, InlineImm(op.kind, op.value.val)), j)
             = ByteOf(OperandBits(op.value), j)
<1>1. op.value.kind = "const" /\ op.value.val \in Int /\ op.kind \in StoreKinds
  BY DEF IsImm, SrcOp, Operand
<1>2. OperandBits(op.value) = op.value.val % U64
  BY <1>1 DEF OperandBits
<1>. QED
  BY <1>1, <1>2, ImmBytes

(* The operand readings are integers. *)
LEMMA OperandType ==
  ASSUME regs \in [FrameRegs -> Word64], NEW o \in Operand
  PROVE  OperandBits(o) \in Int /\ PointerValue(o) \in Int
BY U32Type DEF Operand, OperandBits, PointerValue, Word64

StoreHeadTags == {"Trap", "StoreAt", "StoreAtImm", "StoreOffset16",
                  "StoreOffset16Imm", "Store", "StoreImm"}

(* A running call on the head of a store is at the first slot of a store. *)
LEMMA HeadOp ==
  ASSUME RInv, status = "running", code[ip].tag \in StoreHeadTags
  PROVE  \E p \in 1..Len(src) : ip = OpStart(src, p)
<1>2. PICK p \in 1..(Len(src) + 1) : ip = OpStart(src, p)
  BY DEF RInv, OnOpStart
<1>3. src \in SrcPrograms /\ src \in Seq(SrcOp) /\ Layout(src) /\ code = Translate(src)
  BY BodyFacts DEF RInv
<1>4. p /= Len(src) + 1
  <2>. SUFFICES ASSUME p = Len(src) + 1 PROVE FALSE
    OBVIOUS
  <2>1. ip = Len(code)
    BY <1>2, <1>3 DEF Layout
  <2>2. code[Len(code)].tag = "Return"
    BY DEF RInv, IInv, WellFormed
  <2>. QED
    BY <2>1, <2>2 DEF StoreHeadTags
<1>. QED
  BY <1>2, <1>3, <1>4

(* The slots at ip when it is the first slot of store p, with the shape  *)
(* of the store's lowering.                                                *)
LEMMA HeadSlots ==
  ASSUME RInv, NEW p \in 1..Len(src), ip = OpStart(src, p)
  PROVE  LET op == src[p] IN
         /\ op \in SrcOp
         /\ code[ip] = Encode(op)[1]
         /\ Len(Encode(op)) >= 2 => code[ip + 1] = Encode(op)[2]
<1>. DEFINE op == src[p]
<1>1. /\ op \in SrcOp
      /\ \A j \in 1..Len(Encode(op)) : code[ip + j - 1] = Encode(op)[j]
  BY CurrentOp
<1>2. Len(Encode(op)) \in 1..3
  BY <1>1, EncodeLen
<1>3. ip \in Int
  BY DEF RInv, IInv, TypeOK
<1>4. code[ip + 1 - 1] = Encode(op)[1] /\ ip + 1 - 1 = ip
  BY <1>1, <1>2, <1>3
<1>5. Len(Encode(op)) >= 2 => code[ip + 2 - 1] = Encode(op)[2] /\ ip + 2 - 1 = ip + 1
  BY <1>1, <1>2, <1>3
<1>. QED
  BY <1>1, <1>4, <1>5

(* execute_store is WasmStore's step of the store at ip. *)
LEMMA ExecStoreRefines ==
  ASSUME RInv, ExecStore
  PROVE  Abs!ExecuteStore /\ OnOpStart' /\ UNCHANGED <<src, code>>
<1>1. status = "running" /\ code[ip].tag = "Store"
  BY DEF ExecStore, Running
<1>2. PICK p \in 1..Len(src) : ip = OpStart(src, p)
  BY <1>1, HeadOp DEF StoreHeadTags
<1>. DEFINE op == src[p]
<1>3. /\ op \in SrcOp
      /\ code[ip] = Encode(op)[1]
      /\ Len(Encode(op)) >= 2 => code[ip + 1] = Encode(op)[2]
  BY <1>2, HeadSlots
<1>4. ShapeStore(op)
  BY <1>1, <1>3, ShapeOfTag
<1>5. /\ op.ptr.kind = "reg" /\ ~IsImm(op.kind, op.value)
      /\ code[ip].ptr = op.ptr.id /\ code[ip].op = op.kind
      /\ code[ip].offsetLo = op.offset % U32
      /\ code[ip + 1].hi = op.offset \div U32
      /\ code[ip + 1].reg = ValueReg(op.value)
      /\ Len(Encode(op)) = 2 + MemSlots(op.mem)
      /\ op.mem /= 0 => Encode(op)[2 + 1] = MI(op.mem)
  <2>1. Len(Encode(op)) >= 2
    BY <1>4 DEF ShapeStore, MemSlots
  <2>. QED
    BY <1>3, <1>4, <2>1 DEF ShapeStore
<1>6. /\ FetchOptionalMemory(2) = op.mem
      /\ IpAfterMemory(2) = ip + MemSlots(op.mem)
  BY <1>2, <1>5, MemoryOf
<1>7. /\ regs \in [FrameRegs -> Word64] /\ src \in SrcPrograms
      /\ op.ptr \in Operand /\ op.value \in Operand /\ op.offset \in Int
  BY <1>3 DEF RInv, IInv, TypeOK, SrcOp, Word64
<1>8. GetRegister(code[ip].ptr) = PointerValue(op.ptr)
  BY <1>5, <1>7, RegRead
<1>9. Combine(code[ip + 1].hi, code[ip].offsetLo) = op.offset
  BY <1>5, <1>7, CombineSplit
<1>10. GetRegister(code[ip + 1].reg) = OperandBits(op.value)
  BY <1>5, <1>7, ValueRead
<1>11. StoreWrap(op.mem, PointerValue(op.ptr), op.offset, OperandBits(op.value),
                 Width(op.kind), ip + MemSlots(op.mem), 2)
  BY <1>5, <1>6, <1>8, <1>9, <1>10 DEF ExecStore, FetchValueAndOffset
<1>12. /\ PointerValue(op.ptr) \in Int /\ OperandBits(op.value) \in Int
  BY <1>7, OperandType
<1>13. /\ \A j \in 0..(Width(op.kind) - 1) :
           ByteOf(OperandBits(op.value), j) = ByteOf(OperandBits(op.value), j)
       /\ PointerValue(op.ptr) + op.offset = PointerValue(op.ptr) + op.offset
       /\ UNCHANGED <<src, code, regs>>
       /\ 2 \in {1, 2}
       /\ ip + MemSlots(op.mem) = ip + MemSlots(op.mem)
  BY DEF ExecStore
<1>14. Abs!ExecuteStore /\ OnOpStart'
  BY <1>1, <1>2, <1>5, <1>6, <1>7, <1>11, <1>12, <1>13, HandlerRefines, Zenon
<1>. QED
  BY <1>14 DEF ExecStore

(* The immediate a store carries is an integer. *)
LEMMA InlineImmType ==
  ASSUME NEW k \in StoreKinds, NEW c \in Int
  PROVE  InlineImm(k, c) \in Int
<1>1. Signed(c, 1) \in Int /\ Signed(c, 2) \in Int /\ Signed(c, 4) \in Int
  BY SignedCongruent
<1>2. CASE k \in {"i32.store8", "i64.store8"}
  BY <1>1, <1>2 DEF InlineImm
<1>3. CASE k \in {"i32.store16", "i64.store16"}
  BY <1>1, <1>3 DEF InlineImm
<1>4. CASE k \in {"i32.store", "i64.store32"}
  BY <1>1, <1>4 DEF InlineImm
<1>5. CASE k = "i64.store"
  BY <1>5 DEF InlineImm
<1>. QED
  BY <1>2, <1>3, <1>4, <1>5 DEF StoreKinds

(* execute_store_imm is WasmStore's step of the store at ip. *)
LEMMA ExecStoreImmRefines ==
  ASSUME RInv, ExecStoreImm
  PROVE  Abs!ExecuteStore /\ OnOpStart' /\ UNCHANGED <<src, code>>
<1>1. status = "running" /\ code[ip].tag = "StoreImm"
  BY DEF ExecStoreImm, Running
<1>2. PICK p \in 1..Len(src) : ip = OpStart(src, p)
  BY <1>1, HeadOp DEF StoreHeadTags
<1>. DEFINE op == src[p]
            imm == ImmToUntyped(op.kind, InlineImm(op.kind, op.value.val))
<1>3. /\ op \in SrcOp
      /\ code[ip] = Encode(op)[1]
      /\ Len(Encode(op)) >= 2 => code[ip + 1] = Encode(op)[2]
  BY <1>2, HeadSlots
<1>4. ShapeStoreImm(op)
  BY <1>1, <1>3, ShapeOfTag
<1>5. /\ op.ptr.kind = "reg" /\ IsImm(op.kind, op.value)
      /\ code[ip].ptr = op.ptr.id /\ code[ip].op = op.kind
      /\ code[ip].offsetLo = op.offset % U32
      /\ code[ip + 1].hi = op.offset \div U32
      /\ code[ip + 1].imm = InlineImm(op.kind, op.value.val)
      /\ Len(Encode(op)) = 2 + MemSlots(op.mem)
      /\ op.mem /= 0 => Encode(op)[2 + 1] = MI(op.mem)
  <2>1. Len(Encode(op)) >= 2
    BY <1>4 DEF ShapeStoreImm, MemSlots
  <2>. QED
    BY <1>3, <1>4, <2>1 DEF ShapeStoreImm
<1>6. /\ FetchOptionalMemory(2) = op.mem
      /\ IpAfterMemory(2) = ip + MemSlots(op.mem)
  BY <1>2, <1>5, MemoryOf
<1>7. /\ regs \in [FrameRegs -> Word64] /\ src \in SrcPrograms
      /\ op.ptr \in Operand /\ op.value \in Operand /\ op.offset \in Int
      /\ op.kind \in StoreKinds
  BY <1>3 DEF RInv, IInv, TypeOK, SrcOp, Word64
<1>8. GetRegister(code[ip].ptr) = PointerValue(op.ptr)
  BY <1>5, <1>7, RegRead
<1>9. Combine(code[ip + 1].hi, code[ip].offsetLo) = op.offset
  BY <1>5, <1>7, CombineSplit
<1>10. StoreWrap(op.mem, PointerValue(op.ptr), op.offset, imm, Width(op.kind),
                 ip + MemSlots(op.mem), 2)
  BY <1>5, <1>6, <1>8, <1>9 DEF ExecStoreImm, FetchValueAndOffset
<1>11. /\ PointerValue(op.ptr) \in Int
       /\ imm \in Int
  <2>1. op.value.kind = "const" /\ op.value.val \in Int
    BY <1>5, <1>7 DEF IsImm, Operand
  <2>2. InlineImm(op.kind, op.value.val) \in Int
    BY <1>7, <2>1, InlineImmType
  <2>. QED
    BY <1>7, <2>2, OperandType, ImmToUntypedType
<1>12. /\ \A j \in 0..(Width(op.kind) - 1) :
           ByteOf(imm, j) = ByteOf(OperandBits(op.value), j)
       /\ PointerValue(op.ptr) + op.offset = PointerValue(op.ptr) + op.offset
       /\ UNCHANGED <<src, code, regs>>
       /\ 2 \in {1, 2}
       /\ ip + MemSlots(op.mem) = ip + MemSlots(op.mem)
  BY <1>3, <1>5, ImmRead DEF ExecStoreImm
<1>13. Abs!ExecuteStore /\ OnOpStart'
  BY <1>1, <1>2, <1>5, <1>6, <1>7, <1>10, <1>11, <1>12, HandlerRefines, Zenon
<1>. QED
  BY <1>13 DEF ExecStoreImm

(* execute_store_offset16 is WasmStore's step of the store at ip. *)
LEMMA ExecStoreOffset16Refines ==
  ASSUME RInv, ExecStoreOffset16
  PROVE  Abs!ExecuteStore /\ OnOpStart' /\ UNCHANGED <<src, code>>
<1>1. status = "running" /\ code[ip].tag = "StoreOffset16"
  BY DEF ExecStoreOffset16, Running
<1>2. PICK p \in 1..Len(src) : ip = OpStart(src, p)
  BY <1>1, HeadOp DEF StoreHeadTags
<1>. DEFINE op == src[p]
<1>3. op \in SrcOp /\ code[ip] = Encode(op)[1]
  BY <1>2, HeadSlots
<1>4. ShapeOffset16(op)
  BY <1>1, <1>3, ShapeOfTag
<1>5. /\ op.ptr.kind = "reg" /\ op.mem = 0 /\ ~IsImm(op.kind, op.value)
      /\ code[ip].ptr = op.ptr.id /\ code[ip].op = op.kind
      /\ code[ip].offset = op.offset /\ code[ip].value = ValueReg(op.value)
      /\ Len(Encode(op)) = 1 + MemSlots(op.mem)
  BY <1>3, <1>4 DEF ShapeOffset16, MemSlots
<1>7. /\ regs \in [FrameRegs -> Word64] /\ src \in SrcPrograms
      /\ op.ptr \in Operand /\ op.value \in Operand /\ op.offset \in Int
  BY <1>3 DEF RInv, IInv, TypeOK, SrcOp, Word64
<1>8. GetRegister(code[ip].ptr) = PointerValue(op.ptr)
  BY <1>5, <1>7, RegRead
<1>10. GetRegister(code[ip].value) = OperandBits(op.value)
  BY <1>5, <1>7, ValueRead
<1>9. ip \in Int /\ ip + MemSlots(op.mem) = ip
  BY <1>5 DEF RInv, IInv, TypeOK, MemSlots
<1>11. StoreWrap(op.mem, PointerValue(op.ptr), op.offset, OperandBits(op.value),
                 Width(op.kind), ip + MemSlots(op.mem), 1)
  BY <1>5, <1>8, <1>9, <1>10 DEF ExecStoreOffset16, StoreWrapMem0
<1>12. /\ PointerValue(op.ptr) \in Int /\ OperandBits(op.value) \in Int
  BY <1>7, OperandType
<1>13. /\ \A j \in 0..(Width(op.kind) - 1) :
           ByteOf(OperandBits(op.value), j) = ByteOf(OperandBits(op.value), j)
       /\ PointerValue(op.ptr) + op.offset = PointerValue(op.ptr) + op.offset
       /\ UNCHANGED <<src, code, regs>>
       /\ 1 \in {1, 2}
       /\ ip + MemSlots(op.mem) = ip + MemSlots(op.mem)
  BY <1>5 DEF ExecStoreOffset16
<1>14. Abs!ExecuteStore /\ OnOpStart'
  BY <1>1, <1>2, <1>5, <1>7, <1>11, <1>12, <1>13, HandlerRefines, Zenon
<1>. QED
  BY <1>14 DEF ExecStoreOffset16

(* execute_store_offset16_imm16 is WasmStore's step of the store at ip. *)
LEMMA ExecStoreOffset16ImmRefines ==
  ASSUME RInv, ExecStoreOffset16Imm
  PROVE  Abs!ExecuteStore /\ OnOpStart' /\ UNCHANGED <<src, code>>
<1>1. status = "running" /\ code[ip].tag = "StoreOffset16Imm"
  BY DEF ExecStoreOffset16Imm, Running
<1>2. PICK p \in 1..Len(src) : ip = OpStart(src, p)
  BY <1>1, HeadOp DEF StoreHeadTags
<1>. DEFINE op == src[p]
            imm == ImmToUntyped(op.kind, InlineImm(op.kind, op.value.val))
<1>3. op \in SrcOp /\ code[ip] = Encode(op)[1]
  BY <1>2, HeadSlots
<1>4. ShapeOffset16Imm(op)
  BY <1>1, <1>3, ShapeOfTag
<1>5. /\ op.ptr.kind = "reg" /\ op.mem = 0 /\ IsImm(op.kind, op.value)
      /\ code[ip].ptr = op.ptr.id /\ code[ip].op = op.kind
      /\ code[ip].offset = op.offset
      /\ code[ip].value = InlineImm(op.kind, op.value.val)
      /\ Len(Encode(op)) = 1 + MemSlots(op.mem)
  BY <1>3, <1>4 DEF ShapeOffset16Imm, MemSlots
<1>7. /\ regs \in [FrameRegs -> Word64] /\ src \in SrcPrograms
      /\ op.ptr \in Operand /\ op.value \in Operand /\ op.offset \in Int
      /\ op.kind \in StoreKinds
  BY <1>3 DEF RInv, IInv, TypeOK, SrcOp, Word64
<1>8. GetRegister(code[ip].ptr) = PointerValue(op.ptr)
  BY <1>5, <1>7, RegRead
<1>9. ip \in Int /\ ip + MemSlots(op.mem) = ip
  BY <1>5 DEF RInv, IInv, TypeOK, MemSlots
<1>11. StoreWrap(op.mem, PointerValue(op.ptr), op.offset, imm, Width(op.kind),
                 ip + MemSlots(op.mem), 1)
  BY <1>5, <1>8, <1>9 DEF ExecStoreOffset16Imm, StoreWrapMem0
<1>12. /\ PointerValue(op.ptr) \in Int
       /\ imm \in Int
  <2>1. op.value.kind = "const" /\ op.value.val \in Int
    BY <1>5, <1>7 DEF IsImm, Operand
  <2>2. InlineImm(op.kind, op.value.val) \in Int
    BY <1>7, <2>1, InlineImmType
  <2>. QED
    BY <1>7, <2>2, OperandType, ImmToUntypedType
<1>13. /\ \A j \in 0..(Width(op.kind) - 1) :
           ByteOf(imm, j) = ByteOf(OperandBits(op.value), j)
       /\ PointerValue(op.ptr) + op.offset = PointerValue(op.ptr) + op.offset
       /\ UNCHANGED <<src, code, regs>>
       /\ 1 \in {1, 2}
       /\ ip + MemSlots(op.mem) = ip + MemSlots(op.mem)
  BY <1>3, <1>5, ImmRead DEF ExecStoreOffset16Imm
<1>14. Abs!ExecuteStore /\ OnOpStart'
  BY <1>1, <1>2, <1>5, <1>7, <1>11, <1>12, <1>13, HandlerRefines, Zenon
<1>. QED
  BY <1>14 DEF ExecStoreOffset16Imm

(* execute_store_wrap_at is the store function with offset 0 that moves  *)
(* on by one slot: its address is already effective and below u32.         *)
LEMMA AtIsWrap ==
  ASSUME NEW m, NEW a \in Int, NEW v, NEW w \in 1..8, NEW at,
         StoreWrapAt(m, a, v, w, at)
  PROVE  StoreWrap(m, a, 0, v, w, at, 1)
<1>1. a + 0 = a
  OBVIOUS
<1>2. (a <= U64 - 1 /\ a + w <= MemSize) <=> a + w <= MemSize
  BY StoreCheck
<1>. QED
  BY <1>1, <1>2 DEF StoreWrapAt, StoreWrap

(* A constant pointer is read as u32 and folded with the offset: the      *)
(* address of StoreAt is the store's effective address.                    *)
LEMMA AtAddress ==
  ASSUME NEW op \in SrcOp, op.ptr.kind = "const"
  PROVE  /\ Ea0(op) \in Int
         /\ Ea0(op) + 0 = PointerValue(op.ptr) + op.offset
BY U32Type DEF Ea0, PointerValue, SrcOp, Operand, Word64

(* execute_store_at is WasmStore's step of the store at ip. *)
LEMMA ExecStoreAtRefines ==
  ASSUME RInv, ExecStoreAt
  PROVE  Abs!ExecuteStore /\ OnOpStart' /\ UNCHANGED <<src, code>>
<1>1. status = "running" /\ code[ip].tag = "StoreAt"
  BY DEF ExecStoreAt, Running
<1>2. PICK p \in 1..Len(src) : ip = OpStart(src, p)
  BY <1>1, HeadOp DEF StoreHeadTags
<1>. DEFINE op == src[p]
<1>3. op \in SrcOp /\ code[ip] = Encode(op)[1]
  BY <1>2, HeadSlots
<1>4. ShapeAt(op)
  BY <1>1, <1>3, ShapeOfTag
<1>5. /\ op.ptr.kind = "const" /\ ~IsImm(op.kind, op.value)
      /\ code[ip].address = Ea0(op) /\ code[ip].op = op.kind
      /\ code[ip].value = ValueReg(op.value)
      /\ Len(Encode(op)) = 1 + MemSlots(op.mem)
      /\ op.mem /= 0 => Encode(op)[1 + 1] = MI(op.mem)
  BY <1>3, <1>4 DEF ShapeAt
<1>6. /\ FetchOptionalMemory(1) = op.mem
      /\ IpAfterMemory(1) = ip + MemSlots(op.mem)
  BY <1>2, <1>5, MemoryOf
<1>7. /\ regs \in [FrameRegs -> Word64] /\ src \in SrcPrograms
      /\ op.value \in Operand /\ op.kind \in StoreKinds
  BY <1>3 DEF RInv, IInv, TypeOK, SrcOp
<1>8. /\ Ea0(op) \in Int
      /\ Ea0(op) + 0 = PointerValue(op.ptr) + op.offset
  BY <1>3, <1>5, AtAddress
<1>10. GetRegister(code[ip].value) = OperandBits(op.value)
  BY <1>5, <1>7, ValueRead
<1>11. StoreWrapAt(op.mem, Ea0(op), OperandBits(op.value), Width(op.kind),
                   ip + MemSlots(op.mem))
  BY <1>5, <1>6, <1>10 DEF ExecStoreAt
<1>12. StoreWrap(op.mem, Ea0(op), 0, OperandBits(op.value), Width(op.kind),
                 ip + MemSlots(op.mem), 1)
  <2>1. Width(op.kind) \in 1..8
    BY <1>7, WidthType
  <2>. QED
    BY <1>8, <1>11, <2>1, AtIsWrap
<1>13. /\ OperandBits(op.value) \in Int
       /\ \A j \in 0..(Width(op.kind) - 1) :
            ByteOf(OperandBits(op.value), j) = ByteOf(OperandBits(op.value), j)
       /\ UNCHANGED <<src, code, regs>>
       /\ 1 \in {1, 2} /\ 0 \in Int
       /\ ip + MemSlots(op.mem) = ip + MemSlots(op.mem)
  <2>1. OperandBits(op.value) \in Int
    BY <1>7, OperandType
  <2>2. UNCHANGED <<src, code, regs>>
    BY DEF ExecStoreAt
  <2>. QED
    BY <2>1, <2>2
<1>14. Abs!ExecuteStore /\ OnOpStart'
  BY <1>1, <1>2, <1>5, <1>6, <1>8, <1>12, <1>13, HandlerRefines, Zenon
<1>. QED
  BY <1>14 DEF ExecStoreAt

(* execute_store_at_imm16 is WasmStore's step of the store at ip. *)
LEMMA ExecStoreAtImmRefines ==
  ASSUME RInv, ExecStoreAtImm
  PROVE  Abs!ExecuteStore /\ OnOpStart' /\ UNCHANGED <<src, code>>
<1>1. status = "running" /\ code[ip].tag = "StoreAtImm"
  BY DEF ExecStoreAtImm, Running
<1>2. PICK p \in 1..Len(src) : ip = OpStart(src, p)
  BY <1>1, HeadOp DEF StoreHeadTags
<1>. DEFINE op == src[p]
            imm == ImmToUntyped(op.kind, InlineImm(op.kind, op.value.val))
<1>3. op \in SrcOp /\ code[ip] = Encode(op)[1]
  BY <1>2, HeadSlots
<1>4. ShapeAtImm(op)
  BY <1>1, <1>3, ShapeOfTag
<1>5. /\ op.ptr.kind = "const" /\ IsImm(op.kind, op.value)
      /\ code[ip].address = Ea0(op) /\ code[ip].op = op.kind
      /\ code[ip].value = InlineImm(op.kind, op.value.val)
      /\ Len(Encode(op)) = 1 + MemSlots(op.mem)
      /\ op.mem /= 0 => Encode(op)[1 + 1] = MI(op.mem)
  BY <1>3, <1>4 DEF ShapeAtImm
<1>6. /\ FetchOptionalMemory(1) = op.mem
      /\ IpAfterMemory(1) = ip + MemSlots(op.mem)
  BY <1>2, <1>5, MemoryOf
<1>7. /\ regs \in [FrameRegs -> Word64] /\ src \in SrcPrograms
      /\ op.value \in Operand /\ op.kind \in StoreKinds
  BY <1>3 DEF RInv, IInv, TypeOK, SrcOp
<1>8. /\ Ea0(op) \in Int
      /\ Ea0(op) + 0 = PointerValue(op.ptr) + op.offset
  BY <1>3, <1>5, AtAddress
<1>11. StoreWrapAt(op.mem, Ea0(op), imm, Width(op.kind), ip + MemSlots(op.mem))
  BY <1>5, <1>6 DEF ExecStoreAtImm
<1>9. imm \in Int
  <2>1. op.value.kind = "const" /\ op.value.val \in Int
    BY <1>5, <1>7 DEF IsImm, Operand
  <2>2. InlineImm(op.kind, op.value.val) \in Int
    BY <1>7, <2>1, InlineImmType
  <2>. QED
    BY <2>2, ImmToUntypedType
<1>12. StoreWrap(op.mem, Ea0(op), 0, imm, Width(op.kind), ip + MemSlots(op.mem), 1)
  <2>1. Width(op.kind) \in 1..8
    BY <1>7, WidthType
  <2>. QED
    BY <1>8, <1>11, <2>1, AtIsWrap
<1>13. /\ \A j \in 0..(Width(op.kind) - 1) :
            ByteOf(imm, j) = ByteOf(OperandBits(op.value), j)
       /\ UNCHANGED <<src, code, regs>>
       /\ 1 \in {1, 2} /\ 0 \in Int
       /\ ip + MemSlots(op.mem) = ip + MemSlots(op.mem)
  BY <1>3, <1>5, ImmRead DEF ExecStoreAtImm
<1>14. Abs!ExecuteStore /\ OnOpStart'
  BY <1>1, <1>2, <1>5, <1>6, <1>8, <1>9, <1>12, <1>13, HandlerRefines
<1>. QED
  BY <1>14 DEF ExecStoreAtImm

(* The Trap the translator emits for a constant address out of u32 range *)
(* is WasmStore's trapping step of that store: its bytes cannot fit a      *)
(* memory of at most u32 bytes.                                            *)
LEMMA ExecTrapRefines ==
  ASSUME RInv, ExecTrap
  PROVE  Abs!ExecuteStore /\ OnOpStart' /\ UNCHANGED <<src, code>>
<1>1. /\ status = "running" /\ code[ip].tag = "Trap"
      /\ status' = "trapped" /\ UNCHANGED <<src, code, ip, regs, mem>>
  BY DEF ExecTrap, Running
<1>2. PICK p \in 1..Len(src) : ip = OpStart(src, p)
  BY <1>1, HeadOp DEF StoreHeadTags
<1>. DEFINE op == src[p]
<1>3. op \in SrcOp /\ code[ip] = Encode(op)[1] /\ AbsPc = p
  BY <1>2, HeadSlots, CurrentOp
<1>4. op.ptr.kind = "const" /\ Ea0(op) > U32 - 1
  BY <1>1, <1>3, ShapeOfTag DEF ShapeTrap
<1>5. ~(PointerValue(op.ptr) + op.offset + Width(op.kind) <= MemSize)
  <2>1. Ea0(op) \in Int /\ Ea0(op) + 0 = PointerValue(op.ptr) + op.offset
    BY <1>3, <1>4, AtAddress
  <2>2. Width(op.kind) \in 1..8
    BY <1>3, WidthType DEF SrcOp
  <2>3. MemSize \in 1..U32 /\ U32 \in Nat
    BY StoreExecAssumption, U32Type
  <2>. QED
    BY <1>4, <2>1, <2>2, <2>3
<1>6. AbsPc' = AbsPc
  BY <1>1 DEF AbsPc
<1>7. OnOpStart'
  BY <1>1 DEF RInv, OnOpStart
<1>. QED
  BY <1>1, <1>3, <1>5, <1>6, <1>7, AbsExecuteStoreDef

(* execute_return at the Return after the last store is WasmStore's       *)
(* Return.                                                                 *)
LEMMA ExecReturnRefines ==
  ASSUME RInv, ExecReturn
  PROVE  Abs!Return /\ OnOpStart' /\ UNCHANGED <<src, code>>
<1>1. /\ status = "running" /\ code[ip].tag = "Return"
      /\ status' = "returned" /\ UNCHANGED <<src, code, ip, regs, mem>>
  BY DEF ExecReturn, Running
<1>2. PICK p \in 1..(Len(src) + 1) : ip = OpStart(src, p)
  BY <1>1 DEF RInv, OnOpStart
<1>3. src \in SrcPrograms /\ src \in Seq(SrcOp)
  BY BodyFacts DEF RInv
<1>4. p = Len(src) + 1
  <2>. SUFFICES ASSUME p <= Len(src) PROVE FALSE
    BY <1>3
  <2>1. p \in 1..Len(src)
    BY <1>3
  <2>2. src[p] \in SrcOp /\ code[ip] = Encode(src[p])[1]
    BY <1>2, <2>1, HeadSlots
  <2>3. Encode(src[p])[1].tag \in StoreHeadTags
    BY <2>2, ShapeOfTag DEF StoreHeadTags
  <2>. QED
    BY <1>1, <2>2, <2>3 DEF StoreHeadTags
<1>5. AbsPc = Len(src) + 1
  <2>1. ip \in Int
    BY DEF RInv, IInv, TypeOK
  <2>2. Cardinality({k \in 1..(Len(src) + 1) : OpStart(src, k) <= ip}) = p
    BY <1>2, <1>3, <1>4, <2>1, AbsPcWithin
  <2>. QED
    BY <1>4, <2>2 DEF AbsPc
<1>6. AbsPc' = AbsPc
  BY <1>1 DEF AbsPc
<1>7. OnOpStart'
  BY <1>1 DEF RInv, OnOpStart
<1>. QED
  BY <1>1, <1>5, <1>6, <1>7 DEF Abs!Return

------------------------------------------------------------------------

(***************************************************************************)
(* The refinement.                                                         *)
(***************************************************************************)

LEMMA RInit == Init => RInv /\ Abs!Init
<1>. SUFFICES ASSUME Init PROVE RInv /\ Abs!Init
  OBVIOUS
<1>1. IInv
  BY InitInv
<1>2. /\ src \in SrcPrograms /\ code = Translate(src) /\ ip = 1
      /\ status = "running"
      /\ mem = [m \in Mems |-> [a \in 0..(MemSize - 1) |-> 0]]
  BY DEF Init
<1>3. OpStart(src, 1) = 1 /\ src \in Seq(SrcOp)
  BY <1>2, BodyFacts DEF Layout
<1>4. OnOpStart
  BY <1>2, <1>3 DEF OnOpStart
<1>5. AbsPc = 1
  <2>1. 1 <= Len(src) => 1 < OpStart(src, 1 + 1)
    BY <1>2, <1>3, OpStartMonotone
  <2>2. Cardinality({k \in 1..(Len(src) + 1) : OpStart(src, k) <= ip}) = 1
    BY <1>2, <1>3, <2>1, AbsPcWithin
  <2>. QED
    BY <2>2 DEF AbsPc
<1>. QED
  BY <1>1, <1>2, <1>4, <1>5 DEF RInv, Abs!Init

LEMMA RStep ==
  ASSUME RInv, [Next]_vars
  PROVE  RInv' /\ [Abs!Next]_(Abs!vars)
<1>1. IInv'
  BY IInvStep DEF RInv
<1>3. ASSUME OnOpStart', UNCHANGED <<src, code>> PROVE RInv'
  BY <1>1, <1>3 DEF RInv
<1>4. CASE ExecStore
  BY <1>3, <1>4, ExecStoreRefines DEF Abs!Next
<1>5. CASE ExecStoreImm
  BY <1>3, <1>5, ExecStoreImmRefines DEF Abs!Next
<1>6. CASE ExecStoreOffset16
  BY <1>3, <1>6, ExecStoreOffset16Refines DEF Abs!Next
<1>7. CASE ExecStoreOffset16Imm
  BY <1>3, <1>7, ExecStoreOffset16ImmRefines DEF Abs!Next
<1>8. CASE ExecStoreAt
  BY <1>3, <1>8, ExecStoreAtRefines DEF Abs!Next
<1>9. CASE ExecStoreAtImm
  BY <1>3, <1>9, ExecStoreAtImmRefines DEF Abs!Next
<1>10. CASE ExecTrap
  BY <1>3, <1>10, ExecTrapRefines DEF Abs!Next
<1>11. CASE ExecReturn
  BY <1>3, <1>11, ExecReturnRefines DEF Abs!Next
<1>13. CASE UNCHANGED vars
  <2>1. UNCHANGED <<src, code, ip, regs, mem, status>>
    BY <1>13 DEF vars
  <2>2. AbsPc' = AbsPc
    BY <2>1 DEF AbsPc
  <2>. QED
    BY <1>1, <2>1, <2>2 DEF RInv, OnOpStart, Abs!vars
<1>. QED
  BY <1>4, <1>5, <1>6, <1>7, <1>8, <1>9, <1>10, <1>11, <1>13 DEF Next

(* Translate-then-execute behaves as the Wasm stores of the body: every   *)
(* step of the store handlers of store.rs, read through AbsPc, is a step  *)
(* of WasmStore (the store at pc traps with every memory unchanged, or    *)
(* writes the low bytes of its value at pointer + offset of its memory    *)
(* and pc moves on) or leaves it unchanged, for every byte range, memory  *)
(* size, frame, constant pool and set of bodies.                          *)
THEOREM StoreRefinement == Spec => RefinesWasmStore
<1>1. Init => RInv /\ Abs!Init
  BY RInit
<1>2. RInv /\ [Next]_vars => RInv' /\ [Abs!Next]_(Abs!vars)
  BY RStep
<1>. QED
  BY <1>1, <1>2, PTL DEF Spec, RefinesWasmStore, Abs!Spec

=============================================================================
