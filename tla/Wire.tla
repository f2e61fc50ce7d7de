-------------------------------- MODULE Wire --------------------------------
(***************************************************************************)
(* The cable from the board to the daemon: the transmit buffer of the      *)
(* firmware at one end, the serial link of the daemon at the other, and    *)
(* between them a USB pipe that a suspend closes, a close may empty and a  *)
(* replug breaks.                                                          *)
(*                                                                         *)
(* The board is "gone" (unplugged, or between reset and enumeration),      *)
(* "runs" or is "mute" (it says nothing: its sketch hangs or its return    *)
(* path is dead).  Any write to a board that is there may be taken or      *)
(* refused: the host cannot see how much room there is, or how soon it is  *)
(* read.                                                                   *)
(***************************************************************************)
EXTENDS TxRing, SerialLink

CONSTANT PIPE       \* bytes the pipe holds

ASSUME PipeAssumption == PIPE \in Nat \ {0}

VARIABLES
    board,          \* what the board does
    suspended,      \* its host-attached flag is down, whoever holds the port
    pipe,           \* bytes that have left the board and have not been read
    broken          \* the port the daemon holds is of a board that has gone since

cable == <<board, suspended, pipe, broken>>
vars == <<ring, link, cable>>

Init ==
    /\ RingInit /\ LinkInit
    /\ board \in {"gone", "runs"} /\ suspended = FALSE /\ pipe = <<>> /\ broken = FALSE

----------------------------------------------------------------------------
\* The board

\* hostAttached(): the port is held, and the link is not suspended.
Attached == connected /\ ~broken /\ ~suspended

Runs == board = "runs"

\* A heartbeat is due. Without a host it is not queued.
Beats(b) ==
    /\ Runs
    /\ IF Attached THEN TxLine(b) ELSE UNCHANGED ring
    /\ UNCHANGED <<link, cable>>

\* availableForWrite()
Room == PIPE - Len(pipe)

\* txPump(): as many bytes as there is room for, or fewer.
Pumps(n) ==
    /\ Runs /\ ~Empty /\ Attached
    /\ n <= Len(Queued) /\ n <= Room
    /\ TxSend(n)
    /\ pipe' = pipe \o SubSeq(Queued, 1, n)
    /\ UNCHANGED <<link, board, suspended, broken>>

\* txPump() without a host.
PumpsNobody == Runs /\ ~Empty /\ ~Attached /\ Discarded /\ UNCHANGED <<link, cable>>

----------------------------------------------------------------------------
\* The daemon

\* Closing a port may empty the pipe, or part of it.
Drained(closes) ==
    IF closes THEN \E n \in 0 .. Len(pipe) : pipe' = SubSeq(pipe, n + 1, Len(pipe))
              ELSE UNCHANGED pipe

Polls(n) ==
    /\ ~broken
    /\ n \in 1 .. Len(pipe)
    /\ Read(SubSeq(pipe, 1, n))
    /\ pipe' = SubSeq(pipe, n + 1, Len(pipe))
    /\ UNCHANGED <<ring, board, suspended, broken>>

PollsBroken ==
    /\ broken /\ ReadFails
    /\ broken' = FALSE
    /\ UNCHANGED <<ring, board, suspended, pipe>>

\* The write of a message.
Sends(taken) ==
    /\ taken => ~broken
    /\ Writes(taken)
    /\ Drained(~taken)
    /\ broken' = FALSE
    /\ UNCHANGED <<ring, board, suspended>>

\* The port cannot be opened: no board, or another program holds it.
SendsUnopened ==
    /\ OpenFails
    /\ UNCHANGED <<ring, cable>>

\* The port opens.
SendsOpening ==
    /\ board # "gone"
    /\ \E hello, taken \in BOOLEAN : Opens(hello, taken)
    /\ Drained(~connected')
    /\ broken' = FALSE
    /\ UNCHANGED <<ring, board, suspended>>

\* A write is refused, or taken.
Refuses == Sends(FALSE) \/ (SendsOpening /\ ~connected')

Takes == Sends(TRUE) \/ (SendsOpening /\ connected')

----------------------------------------------------------------------------
\* What happens to them

\* Unplugged, replugged, hung, reset by a watchdog: a board that comes back has
\* an empty buffer and another connection.
BoardBecomes(b) ==
    /\ b # board /\ board' = b
    /\ b = "gone" \/ board \in {"gone", "runs"}
    /\ IF b = "gone" THEN Discarded /\ pipe' = <<>> /\ broken' = connected
                     ELSE UNCHANGED <<ring, pipe, broken>>
    /\ UNCHANGED <<link, suspended>>

\* USB selective suspend.
Suspends == suspended' = ~suspended /\ UNCHANGED <<ring, link, board, pipe, broken>>

TimePasses == LinkAges /\ UNCHANGED <<ring, cable>>

Next ==
    \/ \E b \in Beat : Beats(b)
    \/ \E n \in 1 .. PIPE : Pumps(n) \/ Polls(n)
    \/ PumpsNobody \/ PollsBroken
    \/ \E taken \in BOOLEAN : Sends(taken)
    \/ SendsUnopened \/ SendsOpening
    \/ \E b \in {"gone", "runs", "mute"} : BoardBecomes(b)
    \/ Suspends
    \/ TimePasses

\* The board's loop beats and pumps, the main loop polls, the port is not for ever
\* held by another program, and time passes.
Fairness ==
    /\ \A b \in Beat : WF_vars(Beats(b))
    /\ WF_vars(\E n \in 1 .. PIPE : Pumps(n)) /\ WF_vars(PumpsNobody)
    /\ WF_vars(\E n \in 1 .. PIPE : Polls(n)) /\ WF_vars(PollsBroken)
    /\ SF_vars(SendsOpening) /\ WF_vars(TimePasses)

Spec == Init /\ [][Next]_vars /\ Fairness

----------------------------------------------------------------------------
\* The buffer is within its bounds and so is what the daemon keeps of a line.
TypeOK ==
    /\ txTail <= TX_BUF /\ txHead <= txTail
    /\ Len(pipe) <= PIPE /\ Len(rx) <= RX_MAX
    /\ next_try <= REFUSED_RETRY_S
    /\ {opened_at, last_hb_at} \subseteq 0 .. HB_TIMEOUT_S
    /\ {connected, suspended, broken} \subseteq BOOLEAN

\* What the daemon takes for a heartbeat is one that the board has sent, however
\* lines were cut, dropped and thrown away on the way and whatever was left over
\* from before a reconnect: never the beginning of one and the end of another
\* (txLine, txPump, poll, ensure_open).
HeartbeatsGenuine == Genuine(last_hb)

\* The board never queues a line cut short: behind the line being sent come
\* whole lines only ("whole or not at all", txLine).
WholeOrNotAtAll ==
    \A i \in DOMAIN Queued :
        \/ i = 1
        \/ Queued[i] # NL /\ Queued[i][2] = 1 /\ Queued[i - 1] = NL
        \/ Queued[i] # NL /\ Queued[i - 1] = <<Queued[i][1], Queued[i][2] - 1>>
        \/ Queued[i] = NL /\ Queued[i - 1][2] = Length[Queued[i - 1][1]]

\* A board that has stopped for good is not reported as working for good, whatever
\* becomes of the writes to it; and once they are all taken, or all refused, it is
\* never again: neither a write it takes nor an open it refuses the message of is a
\* sign of life.  One that now takes and now refuses them has each open's grace
\* (ensure_open, send, DeviceHealth).
StoppedIsReported ==
    \A b \in {"gone", "mute"} : <>[](board = b) =>
        /\ []<>(device_state # "ok")
        /\ <>[][~Refuses]_vars \/ <>[][~Takes]_vars => <>[](device_state # "ok")

\* A board that works, stays attached and takes its writes is heard again, whatever
\* was torn, left over, refused or waited out before.
WorkingIsHeard ==
    <>[](Runs /\ ~suspended) /\ <>[][~Refuses]_vars => []<>(last_hb_at = 0)
=============================================================================
