\* Does a board without a host always say so?
SPECIFICATION Spec
CONSTANTS
    Half = 5
    NO_HOST_MS = 2
    TX_WEDGE_MS = 3
    HEARTBEAT_MS = 1
    DEMO_MS = 1
PROPERTY NoHostShown
