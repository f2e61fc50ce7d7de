\* Two heartbeats, a buffer for two, a pipe of two bytes.
SPECIFICATION Spec
CONSTANTS
    Beat = {b1, b2}
    Length <- TwoBytes
    NL = NL
    TX_BUF = 6
    PIPE = 2
    RX_MAX = 2
    RECONNECT_S = 1
    REFUSED_RETRY_S = 2
    HB_TIMEOUT_S = 2
INVARIANTS TypeOK HeartbeatsGenuine WholeOrNotAtAll
PROPERTIES StoppedIsReported WorkingIsHeard
