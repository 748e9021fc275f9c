SPECIFICATION PlanSpec
CONSTANTS
  Lengths <- MCLengths
  Mtus <- MCMtus
INVARIANTS PlanIsTheSector
CHECK_DEADLOCK FALSE
