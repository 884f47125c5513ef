SPECIFICATION Spec
CONSTANTS
    Giga = 4
    MaxUint32 = 7
    Periods = {0, 3, 6, 8, 9}
    MaxClock = 14
INVARIANTS TypeOK PanicsOnlyOnStep
PROPERTIES KeepsPeriod
CHECK_DEADLOCK FALSE
