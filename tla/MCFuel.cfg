CONSTANTS
  ByteRange = 4
  Programs <- MCPrograms
  Budgets <- MCBudgets
SPECIFICATION FairSpec
CHECK_DEADLOCK FALSE
INVARIANTS
  TypeOK
  FuelAccounting
PROPERTIES
  Terminates
