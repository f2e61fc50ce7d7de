\* The stall watchdog under a clock of 10 values.
SPECIFICATION Spec
CONSTANTS
    Half = 5
    NO_HOST_MS = 2
    TX_WEDGE_MS = 3
    HEARTBEAT_MS = 1
    DEMO_MS = 1
INVARIANTS TypeOK ReasonTold CureIsEarned
PROPERTIES DeadPathCured RowsTakenDown
