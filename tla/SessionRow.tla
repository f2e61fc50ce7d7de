----------------------------- MODULE SessionRow -----------------------------
(***************************************************************************)
(* One row of the beacon's session table: the Session record of state.py   *)
(* and everything that is done to it, as operators from a row to a row.    *)
(* SessionStore composes them into actions.                                *)
(*                                                                         *)
(* The code stamps a row with the wall clock (state_since, last_event,     *)
(* bg_seen) and only ever compares now - stamp with a threshold, so a      *)
(* stamp is modelled by its AGE: 0 is a stamp taken now, time passing adds *)
(* one to every age, and all ages beyond every threshold are one, Horizon. *)
(* Time is therefore unbounded and the state space finite.                 *)
(*                                                                         *)
(* last_tool, model, cost_usd, ctx_pct, permission_mode and error_type     *)
(* decide nothing and are left out. cwd is abstracted to the label it      *)
(* resolves to.                                                            *)
(***************************************************************************)
EXTENDS Naturals, FiniteSets

CONSTANTS
    Agent,          \* ids of the subagents of a session
    Main,           \* agent_id "": the session's main thread
    Label,          \* what a working directory resolves to
    NoLabel,        \* the label "?" of a session never seen with a cwd
    Proc,           \* (pid, creation time) pairs
    NoProc,         \* pid 0: the process behind the session is not known
    stale_after_s, idle_prompt_s, idle_stale_s, need_pulse_s, need_red_s,
    look_s, ended_grace_s, ghost_after_s, bg_quiet_s,
    Horizon         \* the age of everything older than every threshold

Threshold == {stale_after_s, idle_prompt_s, idle_stale_s, need_pulse_s,
              need_red_s, look_s, ended_grace_s, ghost_after_s, bg_quiet_s}

ASSUME ThresholdAssumption ==
    /\ Horizon \in Nat
    /\ Threshold \subseteq Nat
    /\ \A t \in Threshold : t < Horizon

\* The defaults put every rung of the ladder after the one before it.
ASSUME LadderAssumption == need_pulse_s < need_red_s

ASSUME NameAssumption ==
    /\ Main \notin Agent
    /\ NoLabel \notin Label
    /\ NoProc \notin Proc

----------------------------------------------------------------------------
\* Data

State == {"start", "work", "need", "held", "look", "wait", "err", "idle",
          "stale", "end"}

ATTENTION_STATES == {"need", "held", "wait"}

ATTENTION_NOTIFICATIONS ==
    {"permission_prompt", "idle_prompt", "elicitation_dialog",
     "elicitation_url_dialog", "agent_needs_input"}

\* "auth_success" stands for every notification type that asks for nothing.
Notice == ATTENTION_NOTIFICATIONS \cup {"auth_success"}

Age == 0 .. Horizon

Row == [state           : State,
        state_since     : Age,
        last_event      : Age,
        bg_tasks        : Nat,
        bg_other        : Nat,
        bg_seen         : Age,
        attn_agent      : Agent \cup {Main},
        turn_over       : BOOLEAN,
        idle_held       : BOOLEAN,
        idle_held_agent : Agent \cup {Main},
        pid             : Proc \cup {NoProc},
        label           : Label \cup {NoLabel}]

\* An entry of a payload's background_tasks list.
Task == [id     : Agent \cup {Main},  \* Main: an id that names no subagent
         type   : {"subagent", "workflow", "monitor"},
         status : {"running", "pending", "done", "absent"}]

COUNTED_TASK_TYPES == {"subagent"}

UNTRACKED_EXCLUDED_TYPES == {"monitor"}

\* A task with no status counts as running.
LIVE_STATUSES == {"running", "pending", "absent"}

\* The tasks of a list that are in flight, but for the agent being excluded.
InFlight(list, exclude) ==
    {t \in list : t.status \in LIVE_STATUSES /\ ~(exclude # Main /\ t.id = exclude)}

running_background_tasks(list, exclude) ==
    Cardinality({t \in InFlight(list, exclude) : t.type \in COUNTED_TASK_TYPES})

untracked_background_tasks(list, exclude) ==
    Cardinality({t \in InFlight(list, exclude) :
                    t.type \notin COUNTED_TASK_TYPES \cup UNTRACKED_EXCLUDED_TYPES})

----------------------------------------------------------------------------
\* Stamps

Older(age) == IF age < Horizon THEN age + 1 ELSE Horizon

\* One unit of time passes.
Aged(s) == [s EXCEPT !.state_since = Older(@),
                     !.last_event  = Older(@),
                     !.bg_seen     = Older(@)]

\* "s.last_event = now"
Heard(s) == [s EXCEPT !.last_event = 0]

\* Mutant: a new state is not an event.
set_stateUnheard(s, new) ==
    [s EXCEPT !.state = new, !.state_since = IF s.state = new THEN @ ELSE 0]

set_state(s, new) ==
    [s EXCEPT !.state       = new,
              !.state_since = IF s.state = new THEN s.state_since ELSE 0,
              !.last_event  = 0]

NewSession(label) ==
    [state |-> "start", state_since |-> 0, last_event |-> 0,
     bg_tasks |-> 0, bg_other |-> 0, bg_seen |-> Horizon,
     attn_agent |-> Main, turn_over |-> FALSE,
     idle_held |-> FALSE, idle_held_agent |-> Main,
     pid |-> NoProc, label |-> label]

\* What every hook does to the row before it looks at the event's name.
Arrived(s, starting, agent, proc) ==
    [s EXCEPT !.pid     = IF proc # NoProc /\ (starting \/ s.pid = NoProc)
                          THEN proc ELSE s.pid,
              !.bg_seen = IF agent # Main THEN 0 ELSE s.bg_seen]
----------------------------------------------------------------------------
\* The three helpers the handlers and tick() share

\* Mutant: any agent's tool event ends the wait.
activityOfAnyone(s, agent) ==
    set_state(IF agent = Main
              THEN [s EXCEPT !.turn_over = FALSE, !.idle_held = FALSE]
              ELSE s, "work")

\* A tool event. It ends a wait only when it comes from the agent that raised
\* it; from any other it only shows that the session is alive.
activity(s, agent) ==
    LET t == IF agent = Main
             THEN [s EXCEPT !.turn_over = FALSE, !.idle_held = FALSE]
             ELSE s
    IN  IF t.state \in ATTENTION_STATES /\ agent # t.attn_agent
        THEN Heard(t)
        ELSE set_state(t, "work")

\* Mutant: every notification starts the ladder again.
want_attentionRearmed(s, agent) ==
    [s EXCEPT !.state = "need", !.state_since = 0, !.last_event = 0,
              !.idle_held = FALSE, !.attn_agent = agent]

\* Enter the ladder, or stay on the rung already reached.
want_attention(s, agent) ==
    IF s.state \in ATTENTION_STATES
    THEN Heard(s)
    ELSE set_state([s EXCEPT !.idle_held = FALSE, !.attn_agent = agent], "need")

\* An idle_prompt nothing holds back; untracked work softens it.
idle_prompt(s, agent) ==
    IF s.state \in ATTENTION_STATES \cup {"look"} THEN Heard(s)
    ELSE IF s.bg_other = 0 THEN want_attention(s, agent)
    ELSE set_state([s EXCEPT !.idle_held = FALSE, !.attn_agent = agent], "look")

----------------------------------------------------------------------------
\* The handlers of apply_event(), one for each kind of hook

OnSessionStart(s) == set_state(s, "start")

\* Mutant: a new prompt resets the counts and forgets that the turn was over.
OnUserPromptSubmitTurnKept(s) ==
    set_state([s EXCEPT !.bg_tasks = 0, !.bg_other = 0, !.idle_held = FALSE], "work")

OnUserPromptSubmit(s) ==
    set_state([s EXCEPT !.bg_tasks = 0, !.bg_other = 0,
                        !.turn_over = FALSE, !.idle_held = FALSE], "work")

\* PreToolUse, PostToolUse, PostToolUseFailure, PostToolBatch, PermissionDenied
OnTool(s, agent) == activity(s, agent)

OnPermissionRequest(s, agent) == want_attention(s, agent)

\* Mutant: an idle_prompt that comes while subagents run is dropped.
OnNotificationDropped(s, agent, notice) ==
    CASE notice \notin ATTENTION_NOTIFICATIONS -> Heard(s)
      [] notice = "idle_prompt" ->
            IF s.bg_tasks > 0 THEN Heard(s) ELSE idle_prompt(s, agent)
      [] OTHER -> want_attention(s, agent)

\* An idle_prompt is held, not dropped, while subagents are outstanding.
OnNotification(s, agent, notice) ==
    CASE notice \notin ATTENTION_NOTIFICATIONS -> Heard(s)
      [] notice = "idle_prompt" /\ s.bg_tasks > 0 ->
            Heard([s EXCEPT !.idle_held = TRUE, !.idle_held_agent = agent])
      [] notice = "idle_prompt" /\ s.bg_tasks = 0 -> idle_prompt(s, agent)
      [] OTHER -> want_attention(s, agent)

OnStop(s, list) ==
    LET tasks == running_background_tasks(list, Main)
    IN  set_state([s EXCEPT !.bg_tasks  = tasks,
                            !.bg_other  = untracked_background_tasks(list, Main),
                            !.bg_seen   = 0,
                            !.turn_over = tasks > 0],
                  IF tasks > 0 THEN "work" ELSE "idle")

\* Mutant: the count is decremented without a floor.
RecountedNoFloor(s, agent, listed, list) ==
    IF listed
    THEN [s EXCEPT !.bg_tasks = running_background_tasks(list, agent),
                   !.bg_other = untracked_background_tasks(list, agent),
                   !.bg_seen  = 0]
    ELSE [s EXCEPT !.bg_tasks = @ - 1, !.bg_seen = 0]

\* What a SubagentStop knows of the work still running: a recount when the
\* payload has a list, one less when it has none.
Recounted(s, agent, listed, list) ==
    IF listed
    THEN [s EXCEPT !.bg_tasks = running_background_tasks(list, agent),
                   !.bg_other = untracked_background_tasks(list, agent),
                   !.bg_seen  = 0]
    ELSE [s EXCEPT !.bg_tasks = IF @ > 0 THEN @ - 1 ELSE 0,
                   !.bg_seen  = 0]

OnSubagentStop(s, agent, listed, list) ==
    LET t == Recounted(s, agent, listed, list)
    IN  IF t.turn_over /\ t.bg_tasks = 0
        THEN set_state([t EXCEPT !.turn_over = FALSE], "idle")
        ELSE Heard(t)

OnStopFailure(s) == set_state(s, "err")

OnSessionEnd(s) == set_state(s, "end")

----------------------------------------------------------------------------
\* tick(), for one row: dropped, or settled by three stages in this order

\* Mutant: a parked row is never a ghost.
DroppedNotParked(s) ==
    IF s.state = "end" THEN s.state_since > ended_grace_s
                       ELSE s.state # "wait" /\ s.last_event > ghost_after_s

Dropped(s) ==
    IF s.state = "end" THEN s.state_since > ended_grace_s
                       ELSE s.last_event > ghost_after_s

\* A count nothing has confirmed for bg_quiet_s is evidence of nothing.
Retired(s) ==
    IF s.bg_tasks > 0 /\ s.bg_seen > bg_quiet_s
    THEN LET t == [s EXCEPT !.bg_tasks = 0, !.turn_over = FALSE]
         IN  IF s.turn_over /\ s.state = "work" THEN set_state(t, "idle") ELSE t
    ELSE s

\* The held idle_prompt is let go once nothing holds it.
Released(s) ==
    IF s.idle_held /\ s.bg_tasks = 0
    THEN idle_prompt([s EXCEPT !.idle_held = FALSE, !.idle_held_agent = Main],
                     s.idle_held_agent)
    ELSE s

\* Mutant: a rung is entered through set_state(), which restarts the age.
DescendedRestarting(s) ==
    CASE s.state_since > need_red_s -> set_state(s, "wait")
      [] s.state_since > need_pulse_s /\ s.state_since <= need_red_s ->
            set_state(s, "held")
      [] OTHER -> s

\* Mutant: the smaller threshold is tested first.
DescendedPulseFirst(s) ==
    CASE s.state_since > need_pulse_s -> [s EXCEPT !.state = "held"]
      [] s.state_since > need_red_s /\ s.state_since <= need_pulse_s ->
            [s EXCEPT !.state = "wait"]
      [] OTHER -> s

\* The rungs are absolute positions, measured from the entry into the family,
\* and assigned without set_state(): the age goes on counting.
Descended(s) ==
    CASE s.state_since > need_red_s -> [s EXCEPT !.state = "wait"]
      [] s.state_since > need_pulse_s /\ s.state_since <= need_red_s ->
            [s EXCEPT !.state = "held"]
      [] OTHER -> s

\* Mutant: the timer of a finished turn runs from the last event.
TimedOutSinceHeard(s) ==
    CASE s.state = "work" /\ s.last_event > stale_after_s ->
            set_state(s, IF s.turn_over THEN "idle" ELSE "stale")
      [] s.state = "idle" /\ s.last_event > idle_prompt_s -> idle_prompt(s, Main)
      [] s.state = "start" /\ s.last_event > idle_stale_s -> set_state(s, "stale")
      [] s.state = "look" /\ s.state_since > look_s -> want_attention(s, s.attn_agent)
      [] s.state \in {"need", "held"} -> Descended(s)
      [] OTHER -> s

TimedOut(s) ==
    CASE s.state = "work" /\ s.last_event > stale_after_s ->
            set_state(s, IF s.turn_over THEN "idle" ELSE "stale")
      [] s.state = "idle" /\ s.state_since > idle_prompt_s -> idle_prompt(s, Main)
      [] s.state = "start" /\ s.last_event > idle_stale_s -> set_state(s, "stale")
      [] s.state = "look" /\ s.state_since > look_s -> want_attention(s, s.attn_agent)
      [] s.state \in {"need", "held"} -> Descended(s)
      [] OTHER -> s

\* Mutant: the held idle_prompt is looked at before the count is retired.
SettledReleaseFirst(s) ==
    IF s.state = "end" THEN s ELSE TimedOut(Retired(Released(s)))

Settled(s) ==
    IF s.state = "end" THEN s ELSE TimedOut(Released(Retired(s)))

----------------------------------------------------------------------------
\* What the invariants of the session table ask of one row

TurnOK(s) == s.turn_over => s.bg_tasks > 0

StampsOK(s) == s.last_event <= s.state_since /\ s.last_event <= s.bg_seen

RungOK(s) == /\ s.state = "held" => s.state_since > need_pulse_s
             /\ s.state = "wait" => s.state_since > need_red_s

\* What a row may look like when tick() has just run, however long ago the tick
\* before it was: no timer of its state has run out.
SettledOK(s) ==
    /\ s.state = "end"   => s.state_since <= ended_grace_s
    /\ s.state # "end"   => s.last_event <= ghost_after_s
    /\ s.state = "work"  => s.last_event <= stale_after_s
    /\ s.state = "start" => s.last_event <= idle_stale_s
    /\ s.state = "idle"  => s.state_since <= idle_prompt_s
    /\ s.state = "look"  => s.state_since <= look_s
    /\ s.state = "need"  => s.state_since <= need_pulse_s
    /\ s.state = "held"  => s.state_since <= need_red_s
    /\ s.state # "end" /\ s.bg_tasks > 0 => s.bg_seen <= bg_quiet_s
    /\ s.state # "end" /\ s.idle_held => s.bg_tasks > 0
=============================================================================
