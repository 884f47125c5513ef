SPECIFICATION Spec
CONSTANTS
    Giga = 4
    MaxUint32 = 7
    Periods = {4}
    MaxClock = 18
INVARIANTS PanicsOnlyOnStep
CHECK_DEADLOCK FALSE
