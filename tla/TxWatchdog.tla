----------------------------- MODULE TxWatchdog -----------------------------
(***************************************************************************)
(* The board's loop() as far as time is concerned (beacon.ino): when the   *)
(* host was last heard, when the "no host" screen goes up, when a          *)
(* heartbeat is queued, what leaves the board, and the watchdog that       *)
(* reboots it when it is sent snapshots and not one byte leaves.           *)
(*                                                                         *)
(* millis() is a 32-bit counter; here it counts modulo 2 * Half, and what  *)
(* the code does with stamps is done with those stamps.  The queue is      *)
(* reduced to whether anything waits in it.  hostAttached() and the room   *)
(* in the USB pipe are read afresh at every use and may be anything each   *)
(* time, so what comes of a reading is a choice.  What is only reported    *)
(* (the changes of that flag, the count of cures and their cause) is left  *)
(* out.                                                                    *)
(***************************************************************************)
EXTENDS Naturals

CONSTANTS
    Half,           \* half the range of millis(): 2^31 in the code
    NO_HOST_MS, TX_WEDGE_MS, HEARTBEAT_MS,
    DEMO_MS         \* the second after which demo mode counts on

ASSUME ClockAssumption ==
    /\ Half \in Nat
    /\ {NO_HOST_MS, TX_WEDGE_MS, HEARTBEAT_MS, DEMO_MS} \subseteq 1 .. Half - 1

\* The board gives up the host before it gives up its return path.
ASSUME WedgeAssumption == NO_HOST_MS <= TX_WEDGE_MS

VARIABLES
    clock,          \* millis()
    lastMsgMs, lastHbMs,
    wedgeSinceMs,   \* when the contradiction started; 0: not in one
    txProgressed,   \* a byte has left since the watchdog last looked
    queued,         \* txHead # txTail
    demoMode, showingNoHost,
    panel,          \* the screen last drawn: "nohost", "rows" or "version"
    mark,           \* the word that survives a reset but not a power cycle
    bootReason,     \* what setup() took for the reason of this boot
    \* History
    sinceMsg,       \* for how long the host has not been heard; Half: longer
    sinceByte,      \* for how long no byte has left, or since the boot
    boot            \* the true reason of this boot

stamps == <<lastMsgMs, lastHbMs, wedgeSinceMs>>

vars == <<clock, stamps, txProgressed, queued, demoMode, showingNoHost, panel,
          mark, bootReason, sinceMsg, sinceByte, boot>>

Millis == 0 .. 2 * Half - 1

\* uint32_t now - since
Behind(now, since) ==
    IF now >= since THEN now - since ELSE now + 2 * Half - since

\* Mutant: plain unsigned subtraction, without the cast.
elapsedUnsigned(now, since, ms) == Behind(now, since) >= ms

\* A signed difference: a stamp that is ahead has not elapsed, nor has one that
\* is half the range behind.
elapsed(now, since, ms) == Behind(now, since) < Half /\ Behind(now, since) >= ms

\* Mutant: one more, which wraps.
OrOneMore(now) == now + 1

\* now | 1: never 0, the sentinel, and never out of range
OrOne(now) == IF now % 2 = 0 THEN now + 1 ELSE now

Later(now, dt) ==
    IF now + dt < 2 * Half THEN now + dt ELSE now + dt - 2 * Half

\* A true age after dt more, saturating at most.
Longer(age, dt, most) == IF age + dt < most THEN age + dt ELSE most

----------------------------------------------------------------------------
\* Boots

\* Mutant: the mark of a cure is not taken back.
markReadKept(marked) == marked

\* What resetReason() leaves of the mark it has read.
markRead(marked) == FALSE

\* resetReason(): on the RP2040 a cure and the loop watchdog look alike to the
\* hardware, and only the mark a cure leaves tells them apart.
resetReason(marked) == IF marked THEN "sw" ELSE "wdt"

\* setup(), and what a reset does to the variables: all start anew.
Boot(name, marked, why) ==
    /\ clock' = 0
    /\ lastMsgMs' = 0 /\ lastHbMs' = 0 /\ wedgeSinceMs' = 0
    /\ txProgressed' = FALSE /\ queued' = FALSE
    /\ demoMode' = FALSE /\ showingNoHost' = TRUE /\ panel' = "nohost"
    /\ mark' = marked
    /\ bootReason' = name
    /\ sinceByte' = 0
    /\ boot' = why

\* A reset that the hardware reports as the watchdog's.
Reset(marked, why) == Boot(resetReason(marked), markRead(marked), why)

Init ==
    /\ clock = 0
    /\ lastMsgMs = 0 /\ lastHbMs = 0 /\ wedgeSinceMs = 0
    /\ txProgressed = FALSE /\ queued = FALSE
    /\ demoMode = FALSE /\ showingNoHost = TRUE /\ panel = "nohost"
    /\ mark = FALSE
    /\ bootReason = "power"
    /\ sinceMsg = Half /\ sinceByte = 0
    /\ boot = "power"

\* The word is garbage, the cookie beside it does not match, and it starts anew.
PowerCycle ==
    /\ Boot("power", FALSE, "power")
    /\ sinceMsg' = Half

\* loop() hangs, is not fed for five seconds, and the loop watchdog resets.
LoopHangs ==
    /\ Reset(mark, "hang")
    /\ sinceMsg' = Longer(sinceMsg, 1, Half)

----------------------------------------------------------------------------
\* One pass of loop()

\* What may have been read at its start: a line the board draws, one of another
\* protocol version, one it only takes note of (hello, an unknown type), a
\* command, or nothing it can parse.
Line == {"snap", "version", "hello", "demo", "live", "none"}

Heard(line) == line \in {"snap", "version", "hello"}

DemoAfter(line) == IF line = "demo" THEN TRUE ELSE IF line = "live" THEN FALSE ELSE demoMode

ReadAfter(line) == IF Heard(line) THEN clock ELSE lastMsgMs

\* Demo mode stands in for the host: once a second it counts and draws.
DemoCounts(line, now) == DemoAfter(line) /\ elapsed(now, ReadAfter(line), DEMO_MS)

MsgAfter(line, now) == IF DemoCounts(line, now) THEN now ELSE ReadAfter(line)

Drawn(line, now) == line \in {"snap", "demo"} \/ DemoCounts(line, now)

\* Mutant: the silence is measured from the last heartbeat.
SilentByHeartbeat(line, now) ==
    ~DemoAfter(line) /\ elapsed(now, lastHbMs, NO_HOST_MS)

Silent(line, now) ==
    ~DemoAfter(line) /\ elapsed(now, MsgAfter(line, now), NO_HOST_MS)

\* Rendering lowers the flag; silence raises it.
NoHostAfter(line, now) == (showingNoHost /\ ~Drawn(line, now)) \/ Silent(line, now)

\* The "no host" screen is drawn when the flag goes up, so not over a version
\* error that was drawn while it was up.
PanelAfter(line, now) ==
    IF Silent(line, now) /\ ~(showingNoHost /\ ~Drawn(line, now)) THEN "nohost"
    ELSE IF Drawn(line, now) THEN "rows"
    ELSE IF line = "version" THEN "version" ELSE panel

\* Mutant: the count starts anew at every pass.
episodeRestarts(line, now) ==
    IF \/ txProgressed \/ DemoAfter(line)
       \/ elapsed(now, MsgAfter(line, now), NO_HOST_MS)
    THEN 0
    ELSE OrOne(now)

\* wedgeSinceMs after txWatchdog() has looked at this pass.
episode(line, now) ==
    IF \/ txProgressed \/ DemoAfter(line)
       \/ elapsed(now, MsgAfter(line, now), NO_HOST_MS)
    THEN 0
    ELSE IF wedgeSinceMs = 0 THEN OrOne(now) ELSE wedgeSinceMs

Overdue(line, now) ==
    /\ episode(line, now) # 0
    /\ elapsed(now, episode(line, now), TX_WEDGE_MS)

\* Whether anything waits after txLine(): a reply to a command, or a heartbeat
\* that is due, is queued if the flag reads attached.
Waiting(line, now) ==
    IF queued THEN {TRUE}
    ELSE IF line \in {"demo", "live"} \/ elapsed(now, lastHbMs, HEARTBEAT_MS)
         THEN BOOLEAN ELSE {FALSE}

HeardAfter(line, dt) == Longer(IF Heard(line) THEN 0 ELSE sinceMsg, dt, Half)

\* txPump(): what waits leaves, whole or in part, or finds no room, or is thrown
\* away because the flag reads detached.
Pump(waiting, dt) ==
    \/ /\ waiting
       /\ txProgressed' = TRUE
       /\ queued' \in BOOLEAN
       /\ sinceByte' = 0
    \/ /\ txProgressed' = FALSE
       /\ queued' \in {FALSE, waiting}
       /\ sinceByte' = Longer(sinceByte, dt, TX_WEDGE_MS)

\* A pass that takes dt, with or without something to send.
Pass(line, dt, waiting) ==
    LET now == Later(clock, dt)
    IN  /\ ~Overdue(line, now)
        /\ clock' = now
        /\ lastMsgMs' = MsgAfter(line, now)
        /\ lastHbMs' = IF elapsed(now, lastHbMs, HEARTBEAT_MS) THEN now ELSE lastHbMs
        /\ wedgeSinceMs' = episode(line, now)
        /\ demoMode' = DemoAfter(line)
        /\ showingNoHost' = NoHostAfter(line, now) /\ panel' = PanelAfter(line, now)
        /\ waiting \in Waiting(line, now) /\ Pump(waiting, dt)
        /\ sinceMsg' = HeardAfter(line, dt)
        /\ UNCHANGED <<mark, bootReason, boot>>

\* A pass that ends in the watchdog's reboot, marked as its own.
Cure(line, dt) ==
    /\ Overdue(line, Later(clock, dt))
    /\ Reset(TRUE, "cure")
    /\ sinceMsg' = HeardAfter(line, dt)

\* A pass takes a unit of time or none: one of seconds is the loop watchdog's.
Loop(dt) ==
    \E line \in Line :
        \/ \E waiting \in BOOLEAN : Pass(line, dt, waiting)
        \/ Cure(line, dt)

Next == Loop(0) \/ Loop(1) \/ LoopHangs \/ PowerCycle

\* loop() runs for ever, and time passes with it.
Fairness == WF_vars(Loop(1))

Spec == Init /\ [][Next]_vars /\ Fairness

----------------------------------------------------------------------------
\* Every stamp is a value of millis().
TypeOK ==
    /\ {clock, lastMsgMs, lastHbMs, wedgeSinceMs} \subseteq Millis
    /\ {txProgressed, queued, demoMode, showingNoHost} \subseteq BOOLEAN
    /\ panel \in {"nohost", "rows", "version"}
    /\ mark \in BOOLEAN /\ bootReason \in {"power", "sw", "wdt"} /\ boot \in {"power", "cure", "hang"}
    /\ sinceMsg \in 0 .. Half /\ sinceByte \in 0 .. TX_WEDGE_MS

\* The watchdog never reboots a board whose bytes still leave, and one that is
\* not being spoken to only if the last word is half the clock's range ago:
\* txWatchdog(), through every flicker of the attached flag, change of demo
\* mode and rollover of millis().
CureIsEarned ==
    \A line \in Line, dt \in {0, 1} :
        Overdue(line, Later(clock, dt)) =>
            /\ sinceByte + dt >= TX_WEDGE_MS
            /\ HeardAfter(line, dt) < NO_HOST_MS \/ HeardAfter(line, dt) = Half

\* "No recent snapshot means the host really has gone, which is not this fault."
\* (beacon.ino, txWatchdog): without a recent line there is no reboot.
CureNeedsHost ==
    \A line \in Line, dt \in {0, 1} :
        Overdue(line, Later(clock, dt)) => HeardAfter(line, dt) < NO_HOST_MS

\* The reason a heartbeat reports is that of this boot, whatever resets came
\* before it: the mark of a cure is good for one boot (resetReason).
ReasonTold ==
    bootReason = CASE boot = "power" -> "power"
                   [] boot = "cure"  -> "sw"
                   [] boot = "hang"  -> "wdt"

\* A board that goes on being sent lines while nothing leaves it does not stay
\* so: it reboots, whatever the attached flag reads (txWatchdog).
DeadPathCured ==
    ~<>[](~demoMode /\ sinceMsg < NO_HOST_MS /\ sinceByte > 0)

\* The rows of a host that has gone are not left on display for ever (the end
\* of loop()).
RowsTakenDown ==
    (sinceMsg >= NO_HOST_MS /\ ~demoMode)
        ~> (panel # "rows" \/ sinceMsg < NO_HOST_MS \/ demoMode)

\* "The device shows a "no host" screen after 10 s without any message."
\* (docs/protocol.md)
NoHostShown ==
    (sinceMsg >= NO_HOST_MS /\ ~demoMode)
        ~> (panel = "nohost" \/ sinceMsg < NO_HOST_MS \/ demoMode)
=============================================================================
