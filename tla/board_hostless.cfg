\* Does the watchdog ever reboot a board that nobody speaks to?
SPECIFICATION Spec
CONSTANTS
    Half = 5
    NO_HOST_MS = 2
    TX_WEDGE_MS = 3
    HEARTBEAT_MS = 1
    DEMO_MS = 1
INVARIANT CureNeedsHost
