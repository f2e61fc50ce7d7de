---------------------------- MODULE SessionStore ----------------------------
(***************************************************************************)
(* The session table of the daemon (state.py, class SessionStore): a dict  *)
(* of rows that hook events, statusline payloads, the process check, the   *)
(* /forget request and the passing of time all change.                     *)
(*                                                                         *)
(* All of it runs on the daemon's main thread, so each handler is one      *)
(* atomic action; what is interleaved is their order.  Every hook may      *)
(* arrive in any state of a row: hooks are separate processes racing to    *)
(* one socket, and the code assumes no order.                              *)
(***************************************************************************)
EXTENDS SessionRow

CONSTANTS
    Sid,          \* session ids
    Cwd,          \* the labels of the working directories payloads name
    Lists,        \* the background_tasks lists payloads may carry
    Key,          \* what /forget may be asked for
    KeyIds,       \* per key, the ids it is a long enough prefix of
    KeyLabels     \* per key, the labels it equals, whole or elided

ASSUME PayloadAssumption ==
    /\ Cwd \subseteq Label \cup {NoLabel}
    /\ \A list \in Lists : list \subseteq Task /\ IsFiniteSet(list)
    /\ KeyIds \in [Key -> SUBSET Sid]
    /\ KeyLabels \in [Key -> SUBSET (Label \cup {NoLabel})]

VARIABLES
    sessions,     \* SessionStore.sessions, with ages for stamps
    published     \* the rows are as tick() left them: what snapshot() shows

vars == <<sessions, published>>

\* What a hook carries whatever its name.  Only the main thread starts, ends,
\* prompts and stops; a tool, a request or a notice may be any agent's.
Header == [sid : Sid, cwd : Cwd, agent : Agent \cup {Main}, proc : Proc \cup {NoProc}]

FromMain == {h \in Header : h.agent = Main}

FromSubagent == {h \in Header : h.agent # Main}

Live == {sid \in DOMAIN sessions : sessions[sid].state # "end"}

Init == sessions = <<>> /\ published = TRUE

Put(sid, row) ==
    [k \in DOMAIN sessions \cup {sid} |-> IF k = sid THEN row ELSE sessions[k]]

GetOrCreate(sid, cwd) ==
    IF sid \notin DOMAIN sessions THEN NewSession(cwd)
    ELSE IF cwd # NoLabel THEN [sessions[sid] EXCEPT !.label = cwd]
    ELSE sessions[sid]

\* The row a handler starts from.
Before(h, starting) == Arrived(GetOrCreate(h.sid, h.cwd), starting, h.agent, h.proc)

Apply(h, row) == sessions' = Put(h.sid, row) /\ published' = FALSE

----------------------------------------------------------------------------
\* apply_event()

SessionStart(h) == Apply(h, OnSessionStart(Before(h, TRUE)))

UserPromptSubmit(h) == Apply(h, OnUserPromptSubmit(Before(h, FALSE)))

ToolEvent(h) == Apply(h, OnTool(Before(h, FALSE), h.agent))

PermissionRequest(h) == Apply(h, OnPermissionRequest(Before(h, FALSE), h.agent))

Notification(h, notice) == Apply(h, OnNotification(Before(h, FALSE), h.agent, notice))

Stop(h, list) == Apply(h, OnStop(Before(h, FALSE), list))

\* A payload without a list is an empty one that is not listed.
SubagentStop(h, listed, list) ==
    Apply(h, OnSubagentStop(Before(h, FALSE), h.agent, listed, list))

StopFailure(h) == Apply(h, OnStopFailure(Before(h, FALSE)))

SessionEnd(h) == Apply(h, OnSessionEnd(Before(h, FALSE)))

\* A hook under any other name.
OtherEvent(h) == Apply(h, Heard(Before(h, FALSE)))

Hook ==
    \/ \E h \in FromMain : SessionStart(h)
    \/ \E h \in FromMain : UserPromptSubmit(h)
    \/ \E h \in Header : ToolEvent(h)
    \/ \E h \in Header : PermissionRequest(h)
    \/ \E h \in Header, notice \in Notice : Notification(h, notice)
    \/ \E h \in FromMain, list \in Lists : Stop(h, list)
    \/ \E h \in FromSubagent, list \in Lists : SubagentStop(h, TRUE, list)
    \/ \E h \in FromSubagent : SubagentStop(h, FALSE, {})
    \/ \E h \in FromMain : StopFailure(h)
    \/ \E h \in FromMain : SessionEnd(h)
    \/ \E h \in Header : OtherEvent(h)

----------------------------------------------------------------------------
\* The other inputs

\* apply_status(): it may create the row, and stamps nothing.
Status(sid, cwd) ==
    /\ sessions' = Put(sid, GetOrCreate(sid, cwd))
    /\ published' = FALSE

\* process_gone(): the operating system says the session's process has exited.
ProcessGone(sid) ==
    /\ sid \in Live
    /\ sessions' = Put(sid, set_state(sessions[sid], "end"))
    /\ published' = FALSE

\* The sessions /forget would end: ids first, labels only if no id matches.
Hits(key) ==
    LET byId == {sid \in Live : sid \in KeyIds[key]}
    IN  IF byId # {} THEN byId
        ELSE {sid \in Live : sessions[sid].label \in KeyLabels[key]}

\* forget(): a key that names several sessions ends none of them.
Forget(key) ==
    \E sid \in Live :
        /\ Hits(key) = {sid}
        /\ sessions' = Put(sid, set_state(sessions[sid], "end"))
        /\ published' = FALSE

\* tick(), followed by the snapshot the main loop takes of what it leaves.
Tick ==
    /\ sessions' = [sid \in {k \in DOMAIN sessions : ~Dropped(sessions[k])} |->
                        Settled(sessions[sid])]
    /\ published' = TRUE

\* Time passes, with or without a tick: a laptop may have been asleep.
Advance ==
    /\ sessions' = [sid \in DOMAIN sessions |-> Aged(sessions[sid])]
    /\ published' = FALSE

Next ==
    \/ Hook
    \/ \E sid \in Sid, cwd \in Cwd : Status(sid, cwd)
    \/ \E sid \in Sid : ProcessGone(sid)
    \/ \E key \in Key : Forget(key)
    \/ Tick
    \/ Advance

\* The main loop ticks every 50 ms whatever the inputs are, and time passes.
Fairness == WF_vars(Tick) /\ WF_vars(Advance)

Spec == Init /\ [][Next]_vars /\ Fairness
----------------------------------------------------------------------------
\* Safety

\* The table maps known session ids to well-formed rows.
TypeOK ==
    /\ DOMAIN sessions \subseteq Sid
    /\ sessions \in [DOMAIN sessions -> Row]
    /\ published \in BOOLEAN

\* "The turn is over but the machine is still busy" (state.py, turn_over) is
\* only ever said of a row that still counts a subagent: every handler that
\* lowers the count also closes the turn, or the row would stay blue for good.
TurnOverHasWork == \A sid \in DOMAIN sessions : TurnOK(sessions[sid])

\* The stamps of a row agree: nothing is recorded of a row, neither a change of
\* its state nor a confirmation of its count, without renewing last_event, the
\* stamp that keeps it from going stale and from being dropped as a ghost.
StampsAgree == \A sid \in DOMAIN sessions : StampsOK(sessions[sid])

\* A row is on a quieter rung of the ladder only once its own age says so: no
\* interleaving of notices, restarts of the wait and late ticks demotes a
\* prompt that has just been raised (the elif chain that ends tick()).
RungNotEarly == \A sid \in DOMAIN sessions : RungOK(sessions[sid])

\* One pass of tick() is enough after any gap: no row it leaves for the
\* snapshot has outlived the timer of the state it is in, no expired count is
\* still believed, and no held idle_prompt waits for nothing ("the ladder
\* settles in a single tick however long it has been since the last one").
PublishedIsSettled ==
    published => \A sid \in DOMAIN sessions : SettledOK(sessions[sid])

\* What an agent other than the one that raised a prompt does with tools,
\* requests and notices changes nothing of the wait: not its rung, not its age
\* and not whose it is (_activity, _want_attention, _idle_prompt).
OthersLeaveTheWait ==
    [][\A sid \in Live : LET s == sessions[sid] IN
        s.state \in ATTENTION_STATES =>
            \A h \in {g \in Header : g.sid = sid /\ g.agent # s.attn_agent} :
                \/ ToolEvent(h) \/ PermissionRequest(h) \/ OtherEvent(h)
                \/ \E notice \in Notice : Notification(h, notice)
                =>  /\ sessions'[sid].state = s.state
                    /\ sessions'[sid].state_since = s.state_since
                    /\ sessions'[sid].attn_agent = s.attn_agent]_vars

----------------------------------------------------------------------------
\* Liveness

In(sid, states) == sid \in DOMAIN sessions /\ sessions[sid].state \in states

\* An alarm that nobody answers does not sound for ever, even if it is raised
\* again and again: repeats do not restart the ladder (_want_attention).
AlarmEnds == \A sid \in Sid : In(sid, {"need", "held"}) ~> ~In(sid, {"need", "held"})

\* A finished turn does not stay green, and a softened prompt does not stay
\* cyan, however many notices and late SubagentStops arrive meanwhile: both
\* timers run from state_since and never from last_event (tick).
SoftStatesEnd ==
    \A sid \in Sid : /\ In(sid, {"idle"}) ~> ~In(sid, {"idle"})
                     /\ In(sid, {"look"}) ~> ~In(sid, {"look"})

\* A session whose hooks stop leaves the table, whatever statusline payloads go
\* on coming: they may bring the row back but cannot keep it, and the stamps
\* tick() itself renews on the way (STALE, IDLE, the ladder) run out.
SilentRowGoes ==
    \A sid \in Sid : []<><<Hook>>_vars \/ []<>(sid \notin DOMAIN sessions)
=============================================================================
