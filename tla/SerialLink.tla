----------------------------- MODULE SerialLink -----------------------------
(***************************************************************************)
(* The daemon's end of the cable (serial_link.py): the port that is opened *)
(* again and again, the lines put together from what is read, and what the *)
(* heartbeats among them say of the board.                                 *)
(*                                                                         *)
(* As in the session table, a moment is modelled by its age, here up to    *)
(* HB_TIMEOUT_S, and _next_try by the time still to wait for it.  What a   *)
(* port does when it is opened, read or written is the caller's to say.    *)
(***************************************************************************)
EXTENDS Heartbeat

CONSTANTS
    RECONNECT_S, REFUSED_RETRY_S,   \* when to try the port again
    HB_TIMEOUT_S,                   \* how long a board may say nothing
    RX_MAX                          \* the longest beginning of a line that is kept

ASSUME LinkAssumption ==
    /\ {RECONNECT_S, REFUSED_RETRY_S, HB_TIMEOUT_S, RX_MAX} \subseteq Nat \ {0}
    /\ RECONNECT_S <= REFUSED_RETRY_S

VARIABLES
    connected,      \* the port is open
    next_try,       \* how long ensure_open() will not try again
    rx,             \* _rx: what has been read of a line
    opened_at,      \* the age of the last open
    last_hb_at,     \* the age of the last heartbeat
    last_hb         \* the last heartbeat, or nothing yet

link == <<connected, next_try, rx, opened_at, last_hb_at, last_hb>>

LinkInit ==
    /\ connected = FALSE /\ next_try = 0 /\ rx = <<>>
    /\ opened_at = HB_TIMEOUT_S /\ last_hb_at = HB_TIMEOUT_S /\ last_hb = <<>>

----------------------------------------------------------------------------
\* DeviceHealth

\* The age of the later of the open and the last heartbeat.
heard == IF opened_at < last_hb_at THEN opened_at ELSE last_hb_at

device_state ==
    IF ~connected THEN "absent" ELSE IF heard < HB_TIMEOUT_S THEN "ok" ELSE "silent"

----------------------------------------------------------------------------
\* poll()

Newlines(data) == {i \in DOMAIN data : data[i] = NL}

\* The lines that end in what has been read, as their first and last places.
Lines(data) ==
    {w \in (1 .. Len(data)) \X (0 .. Len(data)) :
        /\ w[1] - 1 \in {0} \cup Newlines(data) /\ w[2] + 1 \in Newlines(data)
        /\ \A i \in w[1] .. w[2] : data[i] # NL}

\* Mutant: what is behind the last newline is not kept.
LatestNone(rest) == <<>>

\* "rest[-RX_MAX:]"
Latest(rest) == IF Len(rest) > RX_MAX THEN SubSeq(rest, Len(rest) - RX_MAX + 1, Len(rest))
                                      ELSE rest

\* What read() returned. A line that is no heartbeat changes nothing, and what is
\* behind the last newline is kept. Reads are short here: they end at most one line.
Read(new) ==
    LET data == rx \o new
        beats == {l \in {SubSeq(data, w[1], w[2]) : w \in Lines(data)} : Parses(l)}
    IN  /\ connected
        /\ \E last \in {0} \cup Newlines(data) :
            /\ \A i \in Newlines(data) : i <= last
            /\ rx' = Latest(SubSeq(data, last + 1, Len(data)))
        /\ IF beats = {} THEN UNCHANGED <<last_hb_at, last_hb>>
           ELSE last_hb_at' = 0 /\ last_hb' \in beats
        /\ UNCHANGED <<connected, next_try, opened_at>>

\* close(), when a read or a write has failed.
Closes == connected' = FALSE

ReadFails ==
    connected /\ Closes /\ UNCHANGED <<next_try, rx, opened_at, last_hb_at, last_hb>>

----------------------------------------------------------------------------
\* send()

\* Mutant: a board that takes a write is taken for one that works.
WritesHeard(taken) ==
    /\ connected
    /\ IF taken THEN last_hb_at' = 0 /\ UNCHANGED connected ELSE Closes /\ UNCHANGED last_hb_at
    /\ UNCHANGED <<next_try, rx, opened_at, last_hb>>

\* A write to a port that is open.
Writes(taken) ==
    /\ connected
    /\ IF taken THEN UNCHANGED connected ELSE Closes
    /\ UNCHANGED <<next_try, rx, opened_at, last_hb_at, last_hb>>

MayTry == ~connected /\ next_try = 0

\* No board is found, or its port cannot be opened.
OpenFails ==
    /\ MayTry
    /\ next_try' = RECONNECT_S
    /\ UNCHANGED <<connected, rx, opened_at, last_hb_at, last_hb>>

\* Mutant: what was read of a line before stays.
rxOnOpenKept == rx

rxOnOpen == <<>>

\* How long until the next try, by whether the hello was taken.
Backoff(hello) == IF hello THEN RECONNECT_S ELSE REFUSED_RETRY_S

\* The port opens, and is sent a hello; only one that takes it is sent the
\* message that send() was called with.
Opens(hello, taken) ==
    /\ MayTry
    /\ rx' = rxOnOpen /\ opened_at' = 0
    /\ connected' = (hello /\ taken)
    /\ next_try' = Backoff(hello)
    /\ UNCHANGED <<last_hb_at, last_hb>>

----------------------------------------------------------------------------
Later(age) == IF age < HB_TIMEOUT_S THEN age + 1 ELSE age

LinkAges ==
    /\ next_try' = IF next_try > 0 THEN next_try - 1 ELSE 0
    /\ opened_at' = Later(opened_at) /\ last_hb_at' = Later(last_hb_at)
    /\ UNCHANGED <<connected, rx, last_hb>>
=============================================================================
