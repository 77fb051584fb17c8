----------------------------- MODULE FuelProofs -----------------------------
(***************************************************************************)
(* Proofs about fuel metering (Fuel), for every set of bodies and budgets  *)
(* that satisfy FuelAssumption and every byte range.                       *)
(***************************************************************************)
EXTENDS Fuel, PrimitivesProofs, WellFoundedInduction

(* TypeOK is not inductive by itself: LeaveBlock and EndBlock stay inside  *)
(* the body only because the body is one of Programs.                      *)
IInv == TypeOK /\ prog \in Programs

(* The shape of a body that FuelAssumption grants. *)
LEMMA ProgFacts ==
  ASSUME NEW p \in Programs
  PROVE  /\ Len(p) \in Nat \ {0}
         /\ \A b \in 1..Len(p) :
              /\ p[b].costs \in Seq(Word64)
              /\ Len(p[b].costs) \in Nat
              /\ p[b].succ \subseteq 0..Len(p)
<1>1. p \in Seq(Block(Len(p))) /\ Len(p) >= 1
  BY FuelAssumption
<1>2. \A b \in 1..Len(p) : p[b] \in Block(Len(p))
  BY <1>1
<1>. QED
  BY <1>1, <1>2 DEF Block

(* The translator bumps the block's fuel through bump_by, which keeps it  *)
(* a u32 or fails with BlockFuelOutOfBounds.                               *)
LEMMA TranslateInstrInv ==
  ASSUME IInv, TranslateInstr
  PROVE  IInv'
<1>. DEFINE cost == prog[tb].costs[ti]
            r == BumpBy(blockFuel[tb], cost)
<1>1. /\ tb \in Blocks /\ ti \in 1..Len(prog[tb].costs)
      /\ blockFuel \in [Blocks -> Word32] /\ prog \in Programs
  BY DEF IInv, TypeOK, TranslateInstr
<1>2. cost \in Word64 /\ Len(prog[tb].costs) \in Nat
  BY <1>1, ProgFacts DEF Blocks
<1>3. blockFuel[tb] \in Word32
  BY <1>1
<1>4. CASE r.ok
  <2>1. r.val \in Word32
    BY <1>3, <1>2, <1>4, BumpByExact
  <2>2. blockFuel' = [blockFuel EXCEPT ![tb] = r.val] /\ ti' = ti + 1
        /\ UNCHANGED <<prog, tb, phase, fuel0, fuel, pc, charged, visits>>
    BY <1>4 DEF TranslateInstr
  <2>. QED
    BY <1>1, <1>2, <2>1, <2>2 DEF IInv, TypeOK, Blocks
<1>5. CASE ~r.ok
  <2>1. r.err = "BlockFuelOutOfBounds"
    BY <1>3, <1>2, <1>5, BumpByExact DEF Err
  <2>2. phase' = r.err /\ UNCHANGED <<prog, tb, ti, blockFuel, fuel0, fuel, pc, charged, visits>>
    BY <1>5 DEF TranslateInstr
  <2>. QED
    BY <2>1, <2>2 DEF IInv, TypeOK, Blocks
<1>. QED
  BY <1>4, <1>5

(* Closing a block moves to the next block of the body or starts it. *)
LEMMA EndBlockInv ==
  ASSUME IInv, EndBlock
  PROVE  IInv'
<1>1. tb \in Blocks /\ prog \in Programs
  BY DEF IInv, TypeOK
<1>2. CASE tb < Len(prog)
  <2>1. tb + 1 \in Blocks /\ Len(prog[tb + 1].costs) \in Nat
    BY <1>1, <1>2, ProgFacts DEF Blocks
  <2>. QED
    BY <1>2, <2>1 DEF EndBlock, IInv, TypeOK, Blocks
<1>3. CASE ~(tb < Len(prog))
  BY <1>3 DEF EndBlock, IInv, TypeOK, Blocks
<1>. QED
  BY <1>2, <1>3

(* ConsumeFuel takes the block's fuel only when the budget covers it, so  *)
(* the remaining fuel never goes below zero.                               *)
LEMMA ConsumeFuelInv ==
  ASSUME IInv, ConsumeFuel
  PROVE  IInv'
<1>1. pc \in Blocks /\ blockFuel[pc] \in Word32 /\ fuel \in Word64
      /\ visits \in [Blocks -> Nat]
  BY DEF IInv, TypeOK
<1>2. CASE fuel < blockFuel[pc]
  <2>1. phase' = "OutOfFuel"
        /\ UNCHANGED <<prog, tb, ti, blockFuel, fuel0, fuel, pc, charged, visits>>
    BY <1>2 DEF ConsumeFuel
  <2>. QED
    BY <2>1 DEF IInv, TypeOK, Blocks
<1>3. CASE ~(fuel < blockFuel[pc])
  <2>1. fuel - blockFuel[pc] \in Word64
    BY <1>1, <1>3, WordSizes DEF Word32, Word64
  <2>2. [visits EXCEPT ![pc] = @ + 1] \in [Blocks -> Nat]
    BY <1>1
  <2>3. /\ fuel' = fuel - blockFuel[pc] /\ charged' = TRUE
        /\ visits' = [visits EXCEPT ![pc] = @ + 1]
        /\ UNCHANGED <<prog, tb, ti, blockFuel, phase, fuel0, pc>>
    BY <1>3 DEF ConsumeFuel
  <2>. QED
    BY <2>1, <2>2, <2>3 DEF IInv, TypeOK, Blocks
<1>. QED
  BY <1>2, <1>3

(* A block is left for one of its successors, all blocks of the body. *)
LEMMA LeaveBlockInv ==
  ASSUME IInv, LeaveBlock
  PROVE  IInv'
<1>1. pc \in Blocks /\ prog \in Programs
  BY DEF IInv, TypeOK
<1>2. prog[pc].succ \subseteq 0..Len(prog)
  BY <1>1, ProgFacts DEF Blocks
<1>3. PICK s \in prog[pc].succ :
        IF s = 0 THEN /\ phase' = "returned" /\ UNCHANGED <<pc, charged>>
                 ELSE /\ pc' = s /\ charged' = FALSE /\ UNCHANGED phase
  BY DEF LeaveBlock
<1>4. UNCHANGED <<prog, tb, ti, blockFuel, fuel0, fuel, visits>>
  BY DEF LeaveBlock
<1>5. CASE s = 0
  BY <1>3, <1>4, <1>5 DEF IInv, TypeOK, Blocks
<1>6. CASE s /= 0
  <2>1. s \in Blocks
    BY <1>2, <1>6 DEF Blocks
  <2>. QED
    BY <1>3, <1>4, <1>6, <2>1 DEF IInv, TypeOK, Blocks
<1>. QED
  BY <1>5, <1>6

LEMMA InitInv == Init => IInv
<1>. SUFFICES ASSUME Init PROVE IInv
  OBVIOUS
<1>1. prog \in Programs /\ fuel0 \in Budgets
  BY DEF Init
<1>2. Len(prog) \in Nat \ {0} /\ Len(prog[1].costs) \in Nat
  BY <1>1, ProgFacts
<1>3. fuel \in Word64
  BY <1>1, FuelAssumption DEF Init
<1>4. 0 \in Word32
  BY WordSizes DEF Word32
<1>5. /\ tb \in Blocks /\ ti \in 1..(Len(prog[tb].costs) + 1) /\ pc \in Blocks
  BY <1>2 DEF Init, Blocks
<1>6. blockFuel \in [Blocks -> Word32] /\ visits \in [Blocks -> Nat]
  BY <1>4 DEF Init, Blocks
<1>7. phase = "translating" /\ charged = FALSE
  BY DEF Init
<1>. QED
  BY <1>1, <1>3, <1>5, <1>6, <1>7 DEF IInv, TypeOK

LEMMA IInvStep == IInv /\ [Next]_vars => IInv'
<1>. SUFFICES ASSUME IInv, [Next]_vars PROVE IInv'
  OBVIOUS
<1>1. CASE TranslateInstr
  BY <1>1, TranslateInstrInv
<1>2. CASE EndBlock
  BY <1>2, EndBlockInv
<1>3. CASE ConsumeFuel
  BY <1>3, ConsumeFuelInv
<1>4. CASE LeaveBlock
  BY <1>4, LeaveBlockInv
<1>5. CASE UNCHANGED vars
  BY <1>5 DEF vars, IInv, TypeOK, Blocks
<1>. QED
  BY <1>1, <1>2, <1>3, <1>4, <1>5 DEF Next

(* The store's remaining fuel is a u64 at every step: ConsumeFuel never   *)
(* takes more than is left, and every BlockFuel the translator accumulates *)
(* through bump_by is a u32, for every body and budget.                    *)
THEOREM FuelTypeCorrect == Spec => []TypeOK
<1>1. Init => IInv
  BY InitInv
<1>2. IInv /\ [Next]_vars => IInv'
  BY IInvStep
<1>3. IInv => TypeOK
  BY DEF IInv
<1>. QED
  BY <1>1, <1>2, <1>3, PTL DEF Spec

(***************************************************************************)
(* Fuel accounting.  Fuel's CostPrefix and ChargedTotal are prefix sums,  *)
(* defined as recursive functions; PSum is their common form, and the     *)
(* lemmas below give its recurrence by well-founded induction on Nat      *)
(* (WFMin), since no prover can instantiate an induction rule over a      *)
(* predicate.                                                              *)
(***************************************************************************)

(* The sum of g[1], ..., g[k]. *)
PSum(g, k) ==
  LET s[j \in 0..k] == IF j = 0 THEN 0 ELSE s[j - 1] + g[j]
  IN  s[k]

(* f is the table of the prefix sums of g up to n. *)
PEq(g, f, n) == f = [j \in 0..n |-> IF j = 0 THEN 0 ELSE f[j - 1] + g[j]]

(* The table of prefix sums exists for every length. *)
LEMMA PSumExists ==
  ASSUME NEW g, NEW k \in Nat, \A j \in 1..k : g[j] \in Int
  PROVE  \E f \in [0..k -> Int] : PEq(g, f, k)
<1>. DEFINE T == {n \in 0..k : ~\E f \in [0..n -> Int] : PEq(g, f, n)}
<1>. SUFFICES ASSUME T /= {} PROVE FALSE
  BY DEF PEq
<1>0. \E m \in T : \A n \in T : ~(<<n, m>> \in OpToRel(<, Nat))
  <2>1. T \subseteq Nat
    OBVIOUS
  <2>. QED
    BY <2>1, WFMin, NatLessThanWellFounded
<1>1. PICK m \in T : \A n \in T : ~(<<n, m>> \in OpToRel(<, Nat))
  BY <1>0
<1>2. CASE m = 0
  <2>1. [j \in 0..0 |-> 0] \in [0..0 -> Int] /\ PEq(g, [j \in 0..0 |-> 0], 0)
    BY DEF PEq
  <2>. QED
    BY <1>1, <1>2, <2>1
<1>3. CASE m /= 0
  <2>0. m - 1 \in Nat /\ m \in Nat /\ m - 1 < m
    BY <1>3
  <2>1. m - 1 \notin T
    BY <1>1, <2>0 DEF OpToRel
  <2>2. PICK f \in [0..(m - 1) -> Int] : PEq(g, f, m - 1)
    BY <2>0, <2>1
  <2>. DEFINE h == [j \in 0..m |-> IF j = m THEN f[m - 1] + g[m] ELSE f[j]]
  <2>5. m \in 1..k /\ g[m] \in Int /\ f[m - 1] \in Int
    BY <1>3, <2>0
  <2>3. h \in [0..m -> Int]
    BY <2>5
  <2>6. \A j \in 0..(m - 1) : f[j] = IF j = 0 THEN 0 ELSE f[j - 1] + g[j]
    BY <2>2, Zenon DEF PEq
  <2>4. PEq(g, h, m)
    BY <2>5, <2>6 DEF PEq
  <2>. QED
    BY <1>1, <2>3, <2>4
<1>. QED
  BY <1>2, <1>3

(* The table PSum's recursive definition chooses. *)
PSumFcn(g, k) == CHOOSE f : PEq(g, f, k)

(* PSum reads its value from that table. *)
LEMMA PSumIsFcn ==
  ASSUME NEW g, NEW k \in Nat
  PROVE  PSum(g, k) = PSumFcn(g, k)[k]
BY DEF PSum, PSumFcn, PEq

(* Two tables of the prefix sums of g up to n are equal. *)
LEMMA PSumUnique ==
  ASSUME NEW g, NEW n \in Nat, \A j \in 1..n : g[j] \in Int,
         NEW f1, NEW f2, PEq(g, f1, n), PEq(g, f2, n)
  PROVE  f1 = f2
<1>. DEFINE D == {j \in 0..n : f1[j] /= f2[j]}
<1>1. f1 = [j \in 0..n |-> f1[j]] /\ f2 = [j \in 0..n |-> f2[j]]
  BY Zenon DEF PEq
<1>. SUFFICES ASSUME D /= {} PROVE FALSE
  BY <1>1
<1>2. \E m \in D : \A y \in D : ~(<<y, m>> \in OpToRel(<, Nat))
  <2>1. D \subseteq Nat
    OBVIOUS
  <2>. QED
    BY <2>1, WFMin, NatLessThanWellFounded
<1>3. PICK m \in D : \A y \in D : ~(<<y, m>> \in OpToRel(<, Nat))
  BY <1>2
<1>4. \A j \in 0..n : /\ f1[j] = IF j = 0 THEN 0 ELSE f1[j - 1] + g[j]
                      /\ f2[j] = IF j = 0 THEN 0 ELSE f2[j - 1] + g[j]
  BY Zenon DEF PEq
<1>5. CASE m = 0
  BY <1>3, <1>4, <1>5
<1>6. CASE m /= 0
  <2>1. m - 1 \in Nat /\ m \in Nat /\ m - 1 < m
    BY <1>6
  <2>2. m - 1 \notin D
    BY <1>3, <2>1 DEF OpToRel
  <2>3. m \in 1..n /\ f1[m - 1] = f2[m - 1]
    BY <1>6, <2>2
  <2>4. f1[m] = f1[m - 1] + g[m] /\ f2[m] = f2[m - 1] + g[m]
    BY <1>4, <2>3
  <2>. QED
    BY <2>3, <2>4
<1>. QED
  BY <1>5, <1>6

(* The chosen table is a table of prefix sums. *)
LEMMA PSumFcnEq ==
  ASSUME NEW g, NEW k \in Nat, \A j \in 1..k : g[j] \in Int
  PROVE  PEq(g, PSumFcn(g, k), k) /\ PSumFcn(g, k) \in [0..k -> Int]
<1>1. \E f : PEq(g, f, k)
  BY PSumExists
<1>2. PEq(g, PSumFcn(g, k), k)
  BY <1>1 DEF PSumFcn
<1>3. PICK f \in [0..k -> Int] : PEq(g, f, k)
  BY PSumExists
<1>4. PSumFcn(g, k) = f
  BY <1>2, <1>3, PSumUnique
<1>. QED
  BY <1>2, <1>3, <1>4

(* The recurrence: PSum(g, 0) = 0 and each step adds g[k]. *)
LEMMA PSumStep ==
  ASSUME NEW g, NEW k \in Nat, \A j \in 1..k : g[j] \in Int
  PROVE  /\ PSum(g, k) \in Int
         /\ k = 0 => PSum(g, k) = 0
         /\ k > 0 => PSum(g, k) = PSum(g, k - 1) + g[k]
<1>. DEFINE F == PSumFcn(g, k)
<1>1. PEq(g, F, k) /\ F \in [0..k -> Int]
  BY PSumFcnEq
<1>2. \A j \in 0..k : F[j] = IF j = 0 THEN 0 ELSE F[j - 1] + g[j]
  BY <1>1, Zenon DEF PEq
<1>3. PSum(g, k) = F[k]
  BY PSumIsFcn
<1>4. k > 0 => PSum(g, k) = PSum(g, k - 1) + g[k]
  <2>. SUFFICES ASSUME k > 0 PROVE PSum(g, k) = PSum(g, k - 1) + g[k]
    OBVIOUS
  <2>. DEFINE G == PSumFcn(g, k - 1)
              R == [j \in 0..(k - 1) |-> F[j]]
  <2>1. k - 1 \in Nat /\ \A j \in 1..(k - 1) : g[j] \in Int
    OBVIOUS
  <2>2. PEq(g, G, k - 1)
    BY <2>1, PSumFcnEq
  <2>3. PEq(g, R, k - 1)
    BY <1>2 DEF PEq
  <2>4. R = G
    BY <2>1, <2>2, <2>3, PSumUnique
  <2>5. PSum(g, k - 1) = G[k - 1]
    BY <2>1, PSumIsFcn
  <2>6. F[k] = F[k - 1] + g[k]
    BY <1>2
  <2>. QED
    BY <1>3, <2>4, <2>5, <2>6
<1>. QED
  BY <1>1, <1>2, <1>3, <1>4

(* Adding d to one term adds d to every sum that contains it: the effect *)
(* of one more visit of a block on ChargedTotal.                           *)
LEMMA PSumExcept ==
  ASSUME NEW g, NEW n \in Nat, NEW i, NEW d \in Int,
         \A j \in 1..n : g[j] \in Int,
         g = [j \in DOMAIN g |-> g[j]], i \in DOMAIN g
  PROVE  \A k \in 0..n :
           PSum([g EXCEPT ![i] = g[i] + d], k)
             = PSum(g, k) + (IF i \in 1..k THEN d ELSE 0)
<1>. DEFINE h == [g EXCEPT ![i] = g[i] + d]
            Holds(k) == PSum(h, k) = PSum(g, k) + (IF i \in 1..k THEN d ELSE 0)
            T == {k \in 0..n : ~Holds(k)}
<1>1. \A j \in 1..n : h[j] \in Int /\ h[j] = g[j] + (IF j = i THEN d ELSE 0)
  OBVIOUS
<1>. SUFFICES ASSUME T /= {} PROVE FALSE
  OBVIOUS
<1>2. \E m \in T : \A y \in T : ~(<<y, m>> \in OpToRel(<, Nat))
  <2>1. T \subseteq Nat
    OBVIOUS
  <2>. QED
    BY <2>1, WFMin, NatLessThanWellFounded
<1>3. PICK m \in T : \A y \in T : ~(<<y, m>> \in OpToRel(<, Nat))
  BY <1>2
<1>4. m \in 0..n /\ ~Holds(m)
  OBVIOUS
<1>5. \A j \in 1..m : h[j] \in Int /\ g[j] \in Int
  BY <1>1, <1>4
<1>6. CASE m = 0
  <2>1. PSum(h, 0) = 0 /\ PSum(g, 0) = 0
    BY PSumStep
  <2>. QED
    BY <1>4, <1>6, <2>1
<1>7. CASE m /= 0
  <2>1. m - 1 \in Nat /\ m \in Nat /\ m - 1 < m /\ m - 1 \in 0..n
    BY <1>4, <1>7
  <2>2. Holds(m - 1)
    BY <1>3, <2>1 DEF OpToRel
  <2>3. m \in Nat /\ m > 0
    BY <2>1, <1>7
  <2>6. PSum(h, m) = PSum(h, m - 1) + h[m]
    BY <1>5, <2>3, PSumStep
  <2>7. PSum(g, m) = PSum(g, m - 1) + g[m]
    BY <1>5, <2>3, PSumStep
  <2>9. \A j \in 1..(m - 1) : h[j] \in Int /\ g[j] \in Int
    BY <1>5, <2>1
  <2>10. PSum(h, m - 1) \in Int
    BY <2>1, <2>9, PSumStep
  <2>11. PSum(g, m - 1) \in Int
    BY <2>1, <2>9, PSumStep
  <2>4. PSum(h, m - 1) \in Int /\ PSum(g, m - 1) \in Int
    BY <2>10, <2>11
  <2>5. h[m] = g[m] + (IF m = i THEN d ELSE 0) /\ g[m] \in Int
    BY <1>1, <1>4, <1>7
  <2>8. (IF i \in 1..m THEN d ELSE 0)
          = (IF i \in 1..(m - 1) THEN d ELSE 0) + (IF m = i THEN d ELSE 0)
    BY <2>3
  <2>. QED
    BY <1>4, <2>2, <2>4, <2>5, <2>6, <2>7, <2>8
<1>. QED
  BY <1>6, <1>7

(* Sums of naturals rise with their length. *)
LEMMA PSumMono ==
  ASSUME NEW g, NEW n \in Nat, \A j \in 1..n : g[j] \in Nat
  PROVE  \A k \in 0..n : PSum(g, k) \in Nat /\ PSum(g, k) <= PSum(g, n)
<1>. DEFINE Holds(k) == PSum(g, k) \in Nat /\ \A j \in 0..k : PSum(g, j) <= PSum(g, k)
            T == {k \in 0..n : ~Holds(k)}
<1>0. \A k \in 0..n : \A j \in 1..k : g[j] \in Int
  OBVIOUS
<1>1. \A k \in 0..n : Holds(k)
  <2>. SUFFICES ASSUME T /= {} PROVE FALSE
    OBVIOUS
  <2>1. \E m \in T : \A y \in T : ~(<<y, m>> \in OpToRel(<, Nat))
    <3>1. T \subseteq Nat
      OBVIOUS
    <3>. QED
      BY <3>1, WFMin, NatLessThanWellFounded
  <2>2. PICK m \in T : \A y \in T : ~(<<y, m>> \in OpToRel(<, Nat))
    BY <2>1
  <2>3. m \in 0..n /\ ~Holds(m)
    OBVIOUS
  <2>4. CASE m = 0
    <3>1. PSum(g, 0) = 0
      BY PSumStep
    <3>. QED
      BY <2>3, <2>4, <3>1
  <2>5. CASE m /= 0
    <3>1. m - 1 \in Nat /\ m \in Nat /\ m - 1 < m /\ m - 1 \in 0..n /\ m > 0
      BY <2>3, <2>5
    <3>2. Holds(m - 1)
      BY <2>2, <3>1 DEF OpToRel
    <3>3. PSum(g, m) = PSum(g, m - 1) + g[m]
      BY <1>0, <2>3, <3>1, PSumStep
    <3>4. g[m] \in Nat
      BY <2>3, <3>1
    <3>5. PSum(g, m) \in Nat /\ PSum(g, m - 1) <= PSum(g, m)
      BY <3>2, <3>3, <3>4
    <3>6. \A j \in 0..m : PSum(g, j) <= PSum(g, m)
      <4>. SUFFICES ASSUME NEW j \in 0..m PROVE PSum(g, j) <= PSum(g, m)
        OBVIOUS
      <4>1. CASE j = m
        BY <3>5, <4>1
      <4>2. CASE j /= m
        <5>1. j \in 0..(m - 1)
          BY <4>2
        <5>2. PSum(g, j) <= PSum(g, m - 1)
          BY <3>2, <5>1
        <5>3. PSum(g, j) \in Int
          <6>1. j \in Nat /\ \A jj \in 1..j : g[jj] \in Int
            BY <1>0, <2>3, <5>1
          <6>. QED
            BY <6>1, PSumStep
        <5>. QED
          BY <3>5, <5>2, <5>3, <3>2
      <4>. QED
        BY <4>1, <4>2
    <3>. QED
      BY <2>3, <3>5, <3>6
  <2>. QED
    BY <2>4, <2>5
<1>. QED
  BY <1>1

(* A sum of zeros is zero. *)
LEMMA PSumZero ==
  ASSUME NEW g, NEW n \in Nat, \A j \in 1..n : g[j] = 0
  PROVE  PSum(g, n) = 0
<1>. DEFINE T == {k \in 0..n : PSum(g, k) /= 0}
<1>0. \A k \in 0..n : \A j \in 1..k : g[j] \in Int
  OBVIOUS
<1>. SUFFICES ASSUME T /= {} PROVE FALSE
  OBVIOUS
<1>1. \E m \in T : \A y \in T : ~(<<y, m>> \in OpToRel(<, Nat))
  <2>1. T \subseteq Nat
    OBVIOUS
  <2>. QED
    BY <2>1, WFMin, NatLessThanWellFounded
<1>2. PICK m \in T : \A y \in T : ~(<<y, m>> \in OpToRel(<, Nat))
  BY <1>1
<1>3. m \in 0..n /\ PSum(g, m) /= 0
  OBVIOUS
<1>4. CASE m = 0
  <2>1. PSum(g, 0) = 0
    BY PSumStep
  <2>. QED
    BY <1>3, <1>4, <2>1
<1>5. CASE m /= 0
  <2>1. m - 1 \in Nat /\ m \in Nat /\ m - 1 < m /\ m - 1 \in 0..n /\ m > 0
    BY <1>3, <1>5
  <2>2. PSum(g, m - 1) = 0
    BY <1>2, <2>1 DEF OpToRel
  <2>3. PSum(g, m) = PSum(g, m - 1) + g[m]
    BY <1>0, <1>3, <2>1, PSumStep
  <2>. QED
    BY <1>3, <2>1, <2>2, <2>3
<1>. QED
  BY <1>4, <1>5

(* Fuel's sums as operators of the body p and the visit counts v, so that *)
(* one lemma serves a state and its successor.                           *)
CostPrefixOf(p, b, k) ==
  LET c == p[b].costs
      s[j \in 0..k] == IF j = 0 THEN 0 ELSE s[j - 1] + c[j]
  IN  s[k]

StaticCostOf(p, b) == CostPrefixOf(p, b, Len(p[b].costs))

VisitCostOf(p, v) == [j \in 1..Len(p) |-> v[j] * StaticCostOf(p, j)]

ChargedTotalOf(p, v) ==
  LET s[j \in 0..Len(p)] ==
        IF j = 0 THEN 0 ELSE s[j - 1] + v[j] * StaticCostOf(p, j)
  IN  s[Len(p)]

(* Fuel's sums in a state and in its successor. *)
LEMMA SumsOf ==
  /\ \A b, k : CostPrefix(b, k) = CostPrefixOf(prog, b, k)
  /\ \A b : StaticCost(b) = StaticCostOf(prog, b)
  /\ ChargedTotal = ChargedTotalOf(prog, visits)
  /\ \A b, k : CostPrefix(b, k)' = CostPrefixOf(prog', b, k)
  /\ \A b : StaticCost(b)' = StaticCostOf(prog', b)
  /\ ChargedTotal' = ChargedTotalOf(prog', visits')
BY DEF CostPrefix, CostPrefixOf, StaticCost, StaticCostOf, ChargedTotal, ChargedTotalOf

(* The costs of a block's instructions, summed: every prefix of a block *)
(* of a body is a natural number no larger than the block's cost.        *)
LEMMA CostPrefixFacts ==
  ASSUME NEW p \in Programs, NEW b \in 1..Len(p)
  PROVE  /\ StaticCostOf(p, b) \in Nat
         /\ CostPrefixOf(p, b, 0) = 0
         /\ \A k \in 0..Len(p[b].costs) :
              /\ CostPrefixOf(p, b, k) \in Nat
              /\ CostPrefixOf(p, b, k) <= StaticCostOf(p, b)
              /\ k > 0 => CostPrefixOf(p, b, k) = CostPrefixOf(p, b, k - 1) + p[b].costs[k]
<1>. DEFINE c == p[b].costs
            n == Len(c)
<1>1. c \in Seq(Word64) /\ n \in Nat
  BY ProgFacts
<1>2. \A j \in 1..n : c[j] \in Nat
  <2>1. Word64 \subseteq Nat
    BY WordSizes DEF Word64
  <2>2. \A j \in 1..n : c[j] \in Word64
    BY <1>1
  <2>. QED
    BY <2>1, <2>2
<1>3. \A k \in 0..n : PSum(c, k) \in Nat /\ PSum(c, k) <= PSum(c, n)
  BY <1>1, <1>2, PSumMono
<1>4. \A k \in 0..n : k > 0 => PSum(c, k) = PSum(c, k - 1) + c[k]
  <2>. SUFFICES ASSUME NEW k \in 0..n, k > 0 PROVE PSum(c, k) = PSum(c, k - 1) + c[k]
    OBVIOUS
  <2>1. k \in Nat /\ \A j \in 1..k : c[j] \in Int
    BY <1>2
  <2>. QED
    BY <2>1, PSumStep
<1>5. \A k \in Nat : CostPrefixOf(p, b, k) = PSum(c, k)
  BY DEF CostPrefixOf, PSum
<1>6. StaticCostOf(p, b) = PSum(c, n)
  BY <1>1, <1>5 DEF StaticCostOf
<1>7. StaticCostOf(p, b) \in Nat
  BY <1>1, <1>3, <1>6
<1>8. \A k \in 0..n : CostPrefixOf(p, b, k) \in Nat /\ CostPrefixOf(p, b, k) <= StaticCostOf(p, b)
  BY <1>3, <1>5, <1>6
<1>9. \A k \in 0..n : k > 0 => CostPrefixOf(p, b, k) = CostPrefixOf(p, b, k - 1) + c[k]
  <2>. SUFFICES ASSUME NEW k \in 0..n, k > 0
               PROVE  CostPrefixOf(p, b, k) = CostPrefixOf(p, b, k - 1) + c[k]
    OBVIOUS
  <2>1. k - 1 \in 0..n
    OBVIOUS
  <2>. QED
    BY <1>4, <1>5, <2>1
<1>10. CostPrefixOf(p, b, 0) = 0
  <2>1. PSum(c, 0) = 0
    BY PSumStep
  <2>. QED
    BY <1>5, <2>1
<1>. QED
  BY <1>7, <1>8, <1>9, <1>10

(* The table ChargedTotal's recursive definition chooses. *)
ChargedFcn(p, v) ==
  CHOOSE s : s = [j \in 0..Len(p) |->
                    IF j = 0 THEN 0 ELSE s[j - 1] + v[j] * StaticCostOf(p, j)]

(* The fuel charged so far is the prefix sum of the visits' costs. *)
LEMMA ChargedTotalIsPSum ==
  ASSUME NEW p \in Programs, NEW v \in [1..Len(p) -> Nat]
  PROVE  /\ \A j \in 1..Len(p) : VisitCostOf(p, v)[j] \in Nat
         /\ ChargedTotalOf(p, v) = PSum(VisitCostOf(p, v), Len(p))
<1>. DEFINE n == Len(p)
            vc == VisitCostOf(p, v)
<1>0. n \in Nat
  BY ProgFacts
<1>1. \A j \in 1..n : vc[j] \in Nat
  <2>. SUFFICES ASSUME NEW j \in 1..n PROVE vc[j] \in Nat
    OBVIOUS
  <2>1. StaticCostOf(p, j) \in Nat
    BY CostPrefixFacts
  <2>. QED
    BY <2>1 DEF VisitCostOf
<1>11. \A j \in 1..n : vc[j] \in Int
  BY <1>1
<1>2. ChargedTotalOf(p, v) = ChargedFcn(p, v)[n]
  BY DEF ChargedTotalOf, ChargedFcn
<1>3. PICK f \in [0..n -> Int] : PEq(vc, f, n)
  BY <1>0, <1>11, PSumExists
<1>9. \A j \in 1..n : vc[j] = v[j] * StaticCostOf(p, j)
  BY DEF VisitCostOf
<1>4. f = [j \in 0..n |-> IF j = 0 THEN 0 ELSE f[j - 1] + v[j] * StaticCostOf(p, j)]
  BY <1>3, <1>9 DEF PEq
<1>5. ChargedFcn(p, v)
        = [j \in 0..n |-> IF j = 0 THEN 0 ELSE ChargedFcn(p, v)[j - 1] + v[j] * StaticCostOf(p, j)]
  BY <1>4, Zenon DEF ChargedFcn
<1>6. PEq(vc, ChargedFcn(p, v), n)
  BY <1>5, <1>9 DEF PEq
<1>7. PEq(vc, PSumFcn(vc, n), n)
  BY <1>0, <1>11, PSumFcnEq
<1>8. ChargedFcn(p, v) = PSumFcn(vc, n)
  BY <1>0, <1>11, <1>6, <1>7, PSumUnique
<1>10. PSum(vc, n) = PSumFcn(vc, n)[n]
  BY <1>0, PSumIsFcn
<1>. QED
  BY <1>1, <1>2, <1>8, <1>10

(* FuelAccounting is not inductive: while translating nothing has been    *)
(* charged and the blocks after tb are still empty, which is what the     *)
(* finalized body starts from; once running, tb is the last block, so the *)
(* second and fourth conjuncts of FuelAccounting cover every block.        *)
FInv ==
  /\ IInv
  /\ FuelAccounting
  /\ phase = "translating" =>
       /\ fuel = fuel0 /\ visits = [b \in Blocks |-> 0]
       /\ \A b \in (tb + 1)..Len(prog) : blockFuel[b] = 0
  /\ phase \in {"running", "returned", "OutOfFuel"} => tb = Len(prog)

(* A bump that succeeds adds the instruction's cost to the block's prefix *)
(* sum; one that fails leaves a block whose cost is past a u32.           *)
LEMMA TranslateInstrAcct ==
  ASSUME FInv, TranslateInstr
  PROVE  FInv'
<1>. DEFINE c == prog[tb].costs
            r == BumpBy(blockFuel[tb], c[ti])
<1>1. /\ prog \in Programs /\ tb \in Blocks /\ ti \in 1..Len(c)
      /\ blockFuel \in [Blocks -> Word32] /\ phase = "translating"
  BY DEF FInv, IInv, TypeOK, TranslateInstr
<1>2. /\ \A b \in 1..(tb - 1) : blockFuel[b] = StaticCostOf(prog, b)
      /\ blockFuel[tb] = CostPrefixOf(prog, tb, ti - 1)
      /\ fuel = fuel0 /\ visits = [b \in Blocks |-> 0]
      /\ \A b \in (tb + 1)..Len(prog) : blockFuel[b] = 0
  BY <1>1, SumsOf DEF FInv, FuelAccounting
<1>3. /\ c[ti] \in Word64 /\ blockFuel[tb] \in Word32
      /\ CostPrefixOf(prog, tb, ti) = CostPrefixOf(prog, tb, ti - 1) + c[ti]
      /\ CostPrefixOf(prog, tb, ti) <= StaticCostOf(prog, tb)
      /\ CostPrefixOf(prog, tb, ti) \in Nat /\ StaticCostOf(prog, tb) \in Nat
  <2>1. c \in Seq(Word64) /\ Len(c) \in Nat
    BY <1>1, ProgFacts DEF Blocks
  <2>2. ti \in 0..Len(c) /\ ti > 0
    BY <1>1, <2>1
  <2>. QED
    BY <1>1, <2>1, <2>2, CostPrefixFacts DEF Blocks
<1>4. IInv'
  BY TranslateInstrInv DEF FInv
<1>5. UNCHANGED <<prog, tb, fuel0, fuel, pc, charged, visits>>
  BY DEF TranslateInstr
<1>6. CASE r.ok
  <2>1. r.val = blockFuel[tb] + c[ti]
    BY <1>3, <1>6, BumpByExact
  <2>2. blockFuel' = [blockFuel EXCEPT ![tb] = r.val] /\ ti' = ti + 1 /\ phase' = phase
    BY <1>6 DEF TranslateInstr
  <2>3. blockFuel'[tb] = CostPrefixOf(prog, tb, ti' - 1)
    BY <1>1, <1>2, <1>3, <2>1, <2>2
  <2>4. \A b \in Blocks \ {tb} : blockFuel'[b] = blockFuel[b]
    BY <1>1, <2>2
  <2>. QED
    BY <1>1, <1>2, <1>4, <1>5, <2>2, <2>3, <2>4, SumsOf DEF FInv, FuelAccounting, Blocks
<1>7. CASE ~r.ok
  <2>1. blockFuel[tb] + c[ti] > U32 - 1 /\ r.err = "BlockFuelOutOfBounds"
    BY <1>3, <1>7, BumpByExact DEF Err
  <2>2. phase' = r.err /\ UNCHANGED <<blockFuel, ti>>
    BY <1>7 DEF TranslateInstr
  <2>3. StaticCostOf(prog, tb) > U32 - 1
    BY <1>2, <1>3, <2>1, WordSizes DEF Word32, Word64
  <2>. QED
    BY <1>1, <1>2, <1>4, <1>5, <2>1, <2>2, <2>3, SumsOf DEF FInv, FuelAccounting
<1>. QED
  BY <1>6, <1>7

(* Closing a block fixes its fuel at its full cost; finalizing the body  *)
(* starts execution with nothing charged.                                *)
LEMMA EndBlockAcct ==
  ASSUME FInv, EndBlock
  PROVE  FInv'
<1>. DEFINE n == Len(prog)
<1>1. /\ prog \in Programs /\ tb \in Blocks /\ phase = "translating"
      /\ ti = Len(prog[tb].costs) + 1
  <2>1. ti \in 1..(Len(prog[tb].costs) + 1) /\ Len(prog[tb].costs) \in Nat
    BY ProgFacts DEF FInv, IInv, TypeOK, Blocks
  <2>. QED
    BY <2>1 DEF FInv, IInv, TypeOK, EndBlock
<1>2. /\ \A b \in 1..(tb - 1) : blockFuel[b] = StaticCostOf(prog, b)
      /\ blockFuel[tb] = StaticCostOf(prog, tb)
      /\ fuel = fuel0 /\ visits = [b \in Blocks |-> 0]
      /\ \A b \in (tb + 1)..n : blockFuel[b] = 0
  BY <1>1, SumsOf DEF FInv, FuelAccounting, StaticCostOf
<1>3. IInv'
  BY EndBlockInv DEF FInv
<1>4. UNCHANGED <<prog, blockFuel, fuel0, fuel, pc, charged, visits>>
  BY DEF EndBlock
<1>5. CASE tb < n
  <2>1. tb' = tb + 1 /\ ti' = 1 /\ phase' = phase
    BY <1>5 DEF EndBlock
  <2>2. CostPrefixOf(prog, tb + 1, 0) = 0
    BY <1>1, <1>5, CostPrefixFacts DEF Blocks
  <2>3. (\A b \in 1..(tb - 1) : blockFuel[b] = StaticCost(b))'
    BY <1>1, <1>2, <1>4, <2>1, SumsOf
  <2>6. blockFuel'[tb'] = 0 /\ CostPrefixOf(prog', tb', ti' - 1) = 0
    BY <1>1, <1>2, <1>4, <1>5, <2>1, <2>2 DEF Blocks
  <2>4. (blockFuel[tb] = CostPrefix(tb, ti - 1))'
    BY <2>6, SumsOf
  <2>5. /\ fuel' = fuel0' /\ visits' = [b \in Blocks' |-> 0]
        /\ \A b \in (tb' + 1)..Len(prog') : blockFuel'[b] = 0
    BY <1>2, <1>4, <2>1 DEF Blocks
  <2>. QED
    BY <1>3, <2>1, <2>3, <2>4, <2>5, <1>1 DEF FInv, FuelAccounting
<1>6. CASE ~(tb < n)
  <2>1. phase' = "running" /\ UNCHANGED <<tb, ti>> /\ tb = n
    BY <1>1, <1>6 DEF EndBlock, Blocks
  <2>2. ChargedTotalOf(prog, visits) = 0
    <3>1. n \in Nat /\ visits \in [1..n -> Nat]
      BY <1>1, <1>2, ProgFacts DEF Blocks
    <3>2. ChargedTotalOf(prog, visits) = PSum(VisitCostOf(prog, visits), n)
      BY <1>1, <3>1, ChargedTotalIsPSum
    <3>3. \A j \in 1..n : VisitCostOf(prog, visits)[j] = 0
      <4>. SUFFICES ASSUME NEW j \in 1..n PROVE VisitCostOf(prog, visits)[j] = 0
        OBVIOUS
      <4>1. StaticCostOf(prog, j) \in Nat /\ visits[j] = 0
        BY <1>1, <1>2, CostPrefixFacts DEF Blocks
      <4>. QED
        BY <4>1 DEF VisitCostOf
    <3>. QED
      BY <3>1, <3>2, <3>3, PSumZero
  <2>3. fuel0 - fuel = 0
    BY <1>2, FuelAssumption DEF FInv, IInv, TypeOK, Word64
  <2>. QED
    BY <1>2, <1>3, <1>4, <2>1, <2>2, <2>3, SumsOf DEF FInv, FuelAccounting
<1>. QED
  BY <1>5, <1>6

(* Every block's ConsumeFuel charges the block's full cost, so the fuel  *)
(* taken grows by exactly what ChargedTotal adds for one more visit.      *)
LEMMA ConsumeFuelAcct ==
  ASSUME FInv, ConsumeFuel
  PROVE  FInv'
<1>. DEFINE n == Len(prog)
            vc == VisitCostOf(prog, visits)
<1>1. /\ prog \in Programs /\ pc \in Blocks /\ phase = "running" /\ tb = n
      /\ visits \in [Blocks -> Nat] /\ fuel \in Word64 /\ fuel0 \in Budgets
  BY DEF FInv, IInv, TypeOK, ConsumeFuel
<1>2. /\ \A b \in Blocks : blockFuel[b] = StaticCostOf(prog, b)
      /\ fuel0 - fuel = ChargedTotalOf(prog, visits)
  BY <1>1, SumsOf DEF FInv, FuelAccounting, Blocks
<1>3. IInv'
  BY ConsumeFuelInv DEF FInv
<1>4. UNCHANGED <<prog, tb, ti, blockFuel, fuel0, pc>>
  BY DEF ConsumeFuel
<1>5. CASE fuel < blockFuel[pc]
  <2>1. phase' = "OutOfFuel" /\ UNCHANGED <<fuel, charged, visits>>
    BY <1>5 DEF ConsumeFuel
  <2>. QED
    BY <1>1, <1>3, <1>4, <2>1, SumsOf DEF FInv, FuelAccounting
<1>6. CASE ~(fuel < blockFuel[pc])
  <2>1. /\ fuel' = fuel - blockFuel[pc] /\ visits' = [visits EXCEPT ![pc] = @ + 1]
        /\ phase' = phase
    BY <1>6 DEF ConsumeFuel
  <2>2. n \in Nat /\ visits \in [1..n -> Nat] /\ visits' \in [1..n -> Nat]
    BY <1>1, <2>1, ProgFacts DEF Blocks
  <2>3. StaticCostOf(prog, pc) \in Nat
    BY <1>1, CostPrefixFacts DEF Blocks
  <2>8. \A j \in 1..n : StaticCostOf(prog, j) \in Nat
    BY <1>1, CostPrefixFacts
  <2>4. VisitCostOf(prog, visits') = [vc EXCEPT ![pc] = vc[pc] + StaticCostOf(prog, pc)]
    <3>1. \A j \in 1..n : visits'[j] = IF j = pc THEN visits[j] + 1 ELSE visits[j]
      BY <1>1, <2>1 DEF Blocks
    <3>2. \A j \in 1..n : visits'[j] * StaticCostOf(prog, j)
            = IF j = pc THEN visits[j] * StaticCostOf(prog, j) + StaticCostOf(prog, pc)
                        ELSE visits[j] * StaticCostOf(prog, j)
      <4>. SUFFICES ASSUME NEW j \in 1..n
                    PROVE  visits'[j] * StaticCostOf(prog, j)
                             = IF j = pc THEN visits[j] * StaticCostOf(prog, j) + StaticCostOf(prog, pc)
                                         ELSE visits[j] * StaticCostOf(prog, j)
        OBVIOUS
      <4>1. visits[j] \in Nat /\ StaticCostOf(prog, j) \in Nat
        BY <2>2, <2>8
      <4>2. CASE j = pc
        <5>1. visits'[j] = visits[j] + 1
          BY <3>1, <4>2
        <5>2. \A v, c \in Nat : (v + 1) * c = v * c + c
          OBVIOUS
        <5>. QED
          BY <4>1, <4>2, <5>1, <5>2
      <4>3. CASE j /= pc
        BY <3>1, <4>3
      <4>. QED
        BY <4>2, <4>3
    <3>3. pc \in 1..n
      BY <1>1 DEF Blocks
    <3>. QED
      BY <3>2, <3>3 DEF VisitCostOf
  <2>5. /\ \A j \in 1..n : vc[j] \in Nat
        /\ ChargedTotalOf(prog, visits) = PSum(vc, n)
        /\ ChargedTotalOf(prog, visits') = PSum(VisitCostOf(prog, visits'), n)
    BY <1>1, <2>2, ChargedTotalIsPSum
  <2>6. PSum([vc EXCEPT ![pc] = vc[pc] + StaticCostOf(prog, pc)], n)
          = PSum(vc, n) + StaticCostOf(prog, pc)
    <3>1. vc = [j \in DOMAIN vc |-> vc[j]] /\ pc \in DOMAIN vc /\ n \in 0..n
      BY <1>1 DEF VisitCostOf, Blocks
    <3>2. \A k \in 0..n :
            PSum([vc EXCEPT ![pc] = vc[pc] + StaticCostOf(prog, pc)], k)
              = PSum(vc, k) + (IF pc \in 1..k THEN StaticCostOf(prog, pc) ELSE 0)
      <4>1. \A j \in 1..n : vc[j] \in Int
        BY <2>5
      <4>2. StaticCostOf(prog, pc) \in Int
        BY <2>3
      <4>. QED
        BY <2>2, <3>1, <4>1, <4>2, PSumExcept
    <3>. QED
      BY <1>1, <3>1, <3>2 DEF Blocks
  <2>7. fuel0 - fuel' = ChargedTotalOf(prog, visits')
    <3>1. PSum(vc, n) \in Int
      BY <2>2, <2>5, PSumStep
    <3>. QED
      BY <1>1, <1>2, <2>1, <2>3, <2>4, <2>5, <2>6, <3>1, FuelAssumption DEF Word64
  <2>. QED
    BY <1>1, <1>3, <1>4, <2>1, <2>7, SumsOf DEF FInv, FuelAccounting
<1>. QED
  BY <1>5, <1>6

(* Leaving a block charges nothing. *)
LEMMA LeaveBlockAcct ==
  ASSUME FInv, LeaveBlock
  PROVE  FInv'
<1>1. IInv'
  BY LeaveBlockInv DEF FInv
<1>2. /\ UNCHANGED <<prog, tb, ti, blockFuel, fuel0, fuel, visits>>
      /\ phase = "running" /\ phase' \in {"running", "returned"}
  BY DEF LeaveBlock
<1>. QED
  BY <1>1, <1>2, SumsOf DEF FInv, FuelAccounting

(* Translation starts with block 1 empty and nothing charged. *)
LEMMA InitAcct == Init => FInv
<1>. SUFFICES ASSUME Init PROVE FInv
  OBVIOUS
<1>1. IInv
  BY InitInv
<1>2. prog \in Programs /\ Len(prog) \in Nat \ {0}
  BY ProgFacts DEF Init
<1>3. CostPrefixOf(prog, 1, 0) = 0
  BY <1>2, CostPrefixFacts
<1>4. /\ tb = 1 /\ ti = 1 /\ phase = "translating" /\ fuel = fuel0
      /\ blockFuel = [b \in Blocks |-> 0] /\ visits = [b \in Blocks |-> 0]
  BY DEF Init, Blocks
<1>. QED
  BY <1>1, <1>2, <1>3, <1>4, SumsOf DEF FInv, FuelAccounting, Blocks

(* Every step of the translator or the executor keeps FInv. *)
LEMMA FInvStep == FInv /\ [Next]_vars => FInv'
<1>. SUFFICES ASSUME FInv, [Next]_vars PROVE FInv'
  OBVIOUS
<1>1. CASE TranslateInstr
  BY <1>1, TranslateInstrAcct
<1>2. CASE EndBlock
  BY <1>2, EndBlockAcct
<1>3. CASE ConsumeFuel
  BY <1>3, ConsumeFuelAcct
<1>4. CASE LeaveBlock
  BY <1>4, LeaveBlockAcct
<1>5. CASE UNCHANGED vars
  <2>1. IInv'
    BY <1>5 DEF vars, FInv, IInv, TypeOK, Blocks
  <2>. QED
    BY <1>5, <2>1, SumsOf DEF vars, FInv, FuelAccounting, Blocks
<1>. QED
  BY <1>1, <1>2, <1>3, <1>4, <1>5 DEF Next

(* Fuel accounting holds for every body, budget and byte range: no        *)
(* bump_by of the translator wraps, so a block's BlockFuel is its exact   *)
(* static cost, ConsumeFuel takes exactly that, and the translator fails  *)
(* with BlockFuelOutOfBounds only on a block costing more than a u32.     *)
THEOREM FuelAccountingHolds == Spec => []FuelAccounting
<1>1. Init => FInv
  BY InitAcct
<1>2. FInv /\ [Next]_vars => FInv'
  BY FInvStep
<1>3. FInv => FuelAccounting
  BY DEF FInv
<1>. QED
  BY <1>1, <1>2, <1>3, PTL DEF Spec

=============================================================================
