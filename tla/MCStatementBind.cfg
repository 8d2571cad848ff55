SPECIFICATION Spec
CONSTANTS
    Values = {1, 2}
    Outputs = {3}
    Args <- MCArgs
INVARIANTS
    RunsWithItsArguments
    DamageNeedsArray
CHECK_DEADLOCK FALSE
