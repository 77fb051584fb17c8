-------------------------------- MODULE Fuel --------------------------------
(***************************************************************************)
(* Block fuel metering (spec 3, 4.4): the translator and the executor      *)
(* composed over one function body.                                        *)
(*                                                                         *)
(* Translation emits a ConsumeFuel at the top of every basic block with a  *)
(* BlockFuel of 0 and bumps it (BlockFuel::bump_by) by the static cost of *)
(* each instruction it adds to the block; a failed bump ends translation  *)
(* with BlockFuelOutOfBounds.  Execution enters a block by its            *)
(* ConsumeFuel, which takes the block's fuel from the store's remaining   *)
(* budget or traps with OutOfFuel when the budget would go negative; the  *)
(* block then ends in one of its successors (0: the function returns).     *)
(*                                                                         *)
(* bump_by is the source's; the translator's accumulation and the          *)
(* ConsumeFuel handler are not part of the source and are modelled from    *)
(* the spec.  The instructions of a block are only their costs.            *)
(***************************************************************************)
EXTENDS Primitives, Sequences

CONSTANTS
  Programs,      \* bodies: sequences of [costs : Seq(cost), succ : successors]
  Budgets        \* the store's fuel budgets a call may start with

Block(n) == [costs : Seq(Word64), succ : SUBSET (0..n)]

(* Every instruction is charged at least one unit of fuel. *)
ASSUME FuelAssumption ==
  /\ \A p \in Programs :
       /\ p \in Seq(Block(Len(p))) /\ Len(p) >= 1
       /\ \A b \in 1..Len(p) : /\ Len(p[b].costs) >= 1 /\ p[b].succ /= {}
                               /\ \A k \in 1..Len(p[b].costs) : p[b].costs[k] >= 1
  /\ Budgets \subseteq Word64

VARIABLES
  prog,        \* the body being translated and run
  tb, ti,      \* translation: the block and the instruction within it
  blockFuel,   \* block -> the BlockFuel of its ConsumeFuel
  phase,       \* "translating", "running", "returned", or the error
  fuel0,       \* the budget the call started with
  fuel,        \* the store's remaining fuel
  pc,          \* the block being executed
  charged,     \* whether the ConsumeFuel of pc has executed
  visits       \* block -> how many times its ConsumeFuel has charged

vars == <<prog, tb, ti, blockFuel, phase, fuel0, fuel, pc, charged, visits>>

Blocks == 1..Len(prog)

(* The sum of the first k costs of block b, in unbounded integers. *)
CostPrefix(b, k) ==
  LET c == prog[b].costs
      s[j \in 0..k] == IF j = 0 THEN 0 ELSE s[j - 1] + c[j]
  IN  s[k]

StaticCost(b) == CostPrefix(b, Len(prog[b].costs))

(* The static costs of every block entry so far. *)
ChargedTotal ==
  LET s[j \in 0..Len(prog)] ==
        IF j = 0 THEN 0 ELSE s[j - 1] + visits[j] * StaticCost(j)
  IN  s[Len(prog)]

Init ==
  /\ prog \in Programs
  /\ tb = 1 /\ ti = 1
  /\ blockFuel = [b \in 1..Len(prog) |-> 0]
  /\ phase = "translating"
  /\ fuel0 \in Budgets /\ fuel = fuel0
  /\ pc = 1 /\ charged = FALSE
  /\ visits = [b \in 1..Len(prog) |-> 0]

(* The translator adds instruction ti of block tb and bumps the block's   *)
(* fuel by its cost.                                                       *)
TranslateInstr ==
  /\ phase = "translating"
  /\ ti <= Len(prog[tb].costs)
  /\ LET r == BumpBy(blockFuel[tb], prog[tb].costs[ti]) IN
     IF r.ok THEN /\ blockFuel' = [blockFuel EXCEPT ![tb] = r.val]
                  /\ ti' = ti + 1
                  /\ UNCHANGED phase
             ELSE /\ phase' = r.err
                  /\ UNCHANGED <<blockFuel, ti>>
  /\ UNCHANGED <<prog, tb, fuel0, fuel, pc, charged, visits>>

(* The block is complete: the next one starts, or the body is finalized.  *)
EndBlock ==
  /\ phase = "translating"
  /\ ti > Len(prog[tb].costs)
  /\ IF tb < Len(prog) THEN /\ tb' = tb + 1 /\ ti' = 1 /\ UNCHANGED phase
                       ELSE /\ phase' = "running" /\ UNCHANGED <<tb, ti>>
  /\ UNCHANGED <<prog, blockFuel, fuel0, fuel, pc, charged, visits>>

(* Plausible bugs: the budget is not reduced; the check is left out.      *)
ConsumeFuelNoCharge ==
  /\ phase = "running" /\ ~charged
  /\ IF fuel < blockFuel[pc] THEN /\ phase' = "OutOfFuel"
                                  /\ UNCHANGED <<fuel, charged, visits>>
     ELSE /\ charged' = TRUE
          /\ UNCHANGED <<phase, fuel, visits>>
  /\ UNCHANGED <<prog, tb, ti, blockFuel, fuel0, pc>>

ConsumeFuelUnchecked ==
  /\ phase = "running" /\ ~charged
  /\ fuel' = fuel - blockFuel[pc]
  /\ charged' = TRUE
  /\ visits' = [visits EXCEPT ![pc] = @ + 1]
  /\ UNCHANGED <<prog, tb, ti, blockFuel, phase, fuel0, pc>>

(* The ConsumeFuel at the top of block pc. *)
ConsumeFuel ==
  /\ phase = "running" /\ ~charged
  /\ IF fuel < blockFuel[pc] THEN /\ phase' = "OutOfFuel"
                                  /\ UNCHANGED <<fuel, charged, visits>>
     ELSE /\ fuel' = fuel - blockFuel[pc]
          /\ charged' = TRUE
          /\ visits' = [visits EXCEPT ![pc] = @ + 1]
          /\ UNCHANGED phase
  /\ UNCHANGED <<prog, tb, ti, blockFuel, fuel0, pc>>

(* The rest of block pc runs and leaves it by one of its exits. *)
LeaveBlock ==
  /\ phase = "running" /\ charged
  /\ \E s \in prog[pc].succ :
       IF s = 0 THEN /\ phase' = "returned" /\ UNCHANGED <<pc, charged>>
                ELSE /\ pc' = s /\ charged' = FALSE /\ UNCHANGED phase
  /\ UNCHANGED <<prog, tb, ti, blockFuel, fuel0, fuel, visits>>

Next == TranslateInstr \/ EndBlock \/ ConsumeFuel \/ LeaveBlock

Spec == Init /\ [][Next]_vars

(* The run loop never suspends (spec 5): while it can take a step it does. *)
FairSpec == Spec /\ WF_vars(Next)

(***************************************************************************)
(* Properties.                                                             *)
(***************************************************************************)

TypeOK ==
  /\ tb \in Blocks /\ ti \in 1..(Len(prog[tb].costs) + 1)
  /\ blockFuel \in [Blocks -> Word32]
  /\ phase \in {"translating", "running", "returned", "OutOfFuel",
                "BlockFuelOutOfBounds"}
  /\ fuel0 \in Budgets /\ fuel \in Word64
  /\ pc \in Blocks /\ charged \in BOOLEAN
  /\ visits \in [Blocks -> Nat]

(* Fuel accounting (spec 8): the BlockFuel of every translated block is    *)
(* the exact sum of its instructions' static costs (bump_by never wraps),  *)
(* and the fuel a call has consumed is the sum of the static costs of the *)
(* blocks it entered; translation fails with BlockFuelOutOfBounds only    *)
(* when the block being built costs more than a u32 holds.                 *)
FuelAccounting ==
  /\ \A b \in 1..(tb - 1) : blockFuel[b] = StaticCost(b)
  /\ phase = "translating" => blockFuel[tb] = CostPrefix(tb, ti - 1)
  /\ phase = "BlockFuelOutOfBounds" => StaticCost(tb) > U32 - 1
  /\ phase \in {"running", "returned", "OutOfFuel"} =>
       /\ blockFuel[tb] = StaticCost(tb)
       /\ fuel0 - fuel = ChargedTotal

(* Every call ends: translation finishes or fails, and execution returns  *)
(* or runs out of fuel, however the blocks loop (spec 5: fuel is the only *)
(* cancellation).                                                          *)
Terminates ==
  <>(phase \in {"returned", "OutOfFuel", "BlockFuelOutOfBounds"})

=============================================================================
