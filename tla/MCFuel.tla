------------------------------- MODULE MCFuel -------------------------------
(***************************************************************************)
(* Fuel on small instances: a byte has 4 values, so a BlockFuel holds     *)
(* 0..255 and the store's budget 0..65535.                                 *)
(***************************************************************************)
EXTENDS Fuel

B(costs, succ) == [costs |-> costs, succ |-> succ]

(* Spec scenario 2: a loop whose body costs 1.  A block costing exactly   *)
(* u32::MAX (255) with a loop through a cheap one; blocks of 300 and of   *)
(* 255 + 65535, past u32 and past u64 in checked_add; a block left early  *)
(* or late by a branch.                                                    *)
MCPrograms ==
  { << B(<< 1 >>, {1}) >>,
    << B(<< 100, 155 >>, {2}), B(<< 1 >>, {0, 1}) >>,
    << B(<< 2, 1 >>, {2}), B(<< 200, 100 >>, {0}) >>,
    << B(<< 1 >>, {2}), B(<< 255, 65535 >>, {0}) >>,
    << B(<< 1, 2 >>, {1, 2}), B(<< 3 >>, {0, 1}) >> }

MCBudgets == {0, 3, 300}

=============================================================================
