---------------------- MODULE SessionRefinementProofs -----------------------
(***************************************************************************)
(* Every behaviour of the session table, seen through the row of one       *)
(* session, is a behaviour of the attention ladder: the initial state maps *)
(* to the ladder's, and every step to a step of the ladder or to none.     *)
(* And every step, seen through the processes on record, is the step of    *)
(* its kind of the reduced table that the daemon's threads work with.      *)
(* Proved for any thresholds and any number of sessions and agents.        *)
(***************************************************************************)
EXTENDS SessionLadder, TableRows, SessionStoreProofs

OnLadder(s) == s.state \in ATTENTION_STATES

\* What a handler may do to the ladder: nothing, leave it, or enter at the top.
Moves(old, new) ==
    \/ OnLadder(old) /\ new.state = old.state /\ new.state_since = old.state_since
    \/ ~OnLadder(new)
    \/ ~OnLadder(old) /\ new.state = "need" /\ new.state_since = 0

----------------------------------------------------------------------------
\* The handlers move a row as the ladder allows

LEMMA HeardMoves ==
    ASSUME NEW s \in Row
    PROVE  Moves(s, Heard(s))
BY DEF Moves, OnLadder, Heard, Row

\* A state off the ladder is off the ladder, whatever the fields are.
LEMMA OffLadderMoves ==
    ASSUME NEW s, NEW t \in Row, NEW new \in State \ ATTENTION_STATES
    PROVE  Moves(s, set_state(t, new))
BY SetStateFields DEF Moves, OnLadder

LEMMA WantAttentionMoves ==
    ASSUME NEW s \in Row, NEW agent \in AgentId
    PROVE  Moves(s, want_attention(s, agent))
BY WantAttentionFields DEF Moves, OnLadder

LEMMA IdlePromptMoves ==
    ASSUME NEW s \in Row, NEW agent \in AgentId
    PROVE  Moves(s, idle_prompt(s, agent))
BY IdlePromptFields DEF Moves, OnLadder, ATTENTION_STATES

LEMMA ActivityMoves ==
    ASSUME NEW s \in Row, NEW agent \in AgentId
    PROVE  Moves(s, activity(s, agent))
<1> DEFINE t == IF agent = Main
                THEN [s EXCEPT !.turn_over = FALSE, !.idle_held = FALSE]
                ELSE s
<1>1. t \in Row /\ t.state = s.state /\ t.state_since = s.state_since
  BY DEF Row
<1> HIDE DEF t
<1>2. Moves(s, Heard(t))
  BY <1>1, HeardMoves DEF Moves, OnLadder
<1>3. Moves(s, set_state(t, "work"))
  BY <1>1, OffLadderMoves DEF State, ATTENTION_STATES
<1> QED
  BY <1>2, <1>3 DEF activity, t

LEMMA NotificationMoves ==
    ASSUME NEW s \in Row, NEW agent \in AgentId, NEW notice \in Notice
    PROVE  Moves(s, OnNotification(s, agent, notice))
<1> DEFINE t == [s EXCEPT !.idle_held = TRUE, !.idle_held_agent = agent]
<1>1. t \in Row /\ t.state = s.state /\ t.state_since = s.state_since
  BY DEF Row, AgentId
<1>2. Moves(s, Heard(t))
  <2> HIDE DEF t
  <2> QED BY <1>1, HeardMoves DEF Moves, OnLadder
<1>3. s.bg_tasks > 0 \/ s.bg_tasks = 0
  BY DEF Row
<1> QED
  BY <1>2, <1>3, HeardMoves, IdlePromptMoves, WantAttentionMoves DEF OnNotification

LEMMA UserPromptSubmitMoves ==
    ASSUME NEW s \in Row
    PROVE  Moves(s, OnUserPromptSubmit(s))
<1> DEFINE t == [s EXCEPT !.bg_tasks = 0, !.bg_other = 0,
                          !.turn_over = FALSE, !.idle_held = FALSE]
<1>1. t \in Row
  BY DEF Row
<1> QED
  BY <1>1, OffLadderMoves DEF OnUserPromptSubmit, State, ATTENTION_STATES

LEMMA StopMoves ==
    ASSUME NEW s \in Row, NEW list, IsFiniteSet(list)
    PROVE  Moves(s, OnStop(s, list))
<1> DEFINE tasks == running_background_tasks(list, Main)
           other == untracked_background_tasks(list, Main)
           over == tasks > 0
           t == [s EXCEPT !.bg_tasks = tasks, !.bg_other = other,
                          !.bg_seen = 0, !.turn_over = over]
<1>1. tasks \in Nat /\ other \in Nat /\ over \in BOOLEAN
  BY Counts
<1>2. OnStop(s, list) = set_state(t, IF over THEN "work" ELSE "idle")
  BY Zenon DEF OnStop
<1> HIDE DEF tasks, other, over
<1>3. t \in Row
  BY <1>1, Ages DEF Row
<1> HIDE DEF t
<1> QED
  BY <1>2, <1>3, OffLadderMoves DEF State, ATTENTION_STATES

LEMMA SubagentStopMoves ==
    ASSUME NEW s \in Row, NEW agent \in AgentId,
           NEW listed \in BOOLEAN, NEW list, IsFiniteSet(list)
    PROVE  Moves(s, OnSubagentStop(s, agent, listed, list))
<1> DEFINE t == Recounted(s, agent, listed, list)
           closed == [t EXCEPT !.turn_over = FALSE]
<1>1. t \in Row
  BY RecountedRow
<1>2. t.state = s.state /\ t.state_since = s.state_since
  BY DEF Recounted, Row
<1> HIDE DEF t
<1>3. closed \in Row
  BY <1>1 DEF Row
<1>4. Moves(s, set_state(closed, "idle"))
  BY <1>3, OffLadderMoves DEF State, ATTENTION_STATES
<1>5. Moves(s, Heard(t))
  BY <1>1, <1>2, HeardMoves DEF Moves, OnLadder
<1> QED
  BY <1>4, <1>5 DEF OnSubagentStop, t

----------------------------------------------------------------------------
\* tick() moves a row as the ladder allows

\* The rung a wait of this age is on.
RungOf(age) == IF age > need_red_s THEN "wait"
               ELSE IF age > need_pulse_s THEN "held" ELSE "need"

\* Retiring a count leaves a row of the ladder where it is, and puts no row on it.
LEMMA RetiredMoves ==
    ASSUME NEW s \in Row
    PROVE  /\ OnLadder(s) => /\ Retired(s).state = s.state
                             /\ Retired(s).state_since = s.state_since
           /\ ~OnLadder(s) => ~OnLadder(Retired(s))
<1> DEFINE t == [s EXCEPT !.bg_tasks = 0, !.turn_over = FALSE]
<1>1. t \in Row /\ t.state = s.state /\ t.state_since = s.state_since
  BY DEF Row
<1>2. set_state(t, "idle").state = "idle"
  <2> HIDE DEF t
  <2> QED BY <1>1, SetStateFields DEF State
<1>3. Retired(s) \in {s, t} \/ (s.state = "work" /\ Retired(s) = set_state(t, "idle"))
  BY DEF Retired
<1> HIDE DEF t
<1> QED
  BY <1>1, <1>2, <1>3 DEF OnLadder, ATTENTION_STATES

\* Releasing a held idle_prompt keeps a wait, or starts one, or does neither.
LEMMA ReleasedMoves ==
    ASSUME NEW s \in Row
    PROVE  Moves(s, Released(s))
<1> DEFINE t == [s EXCEPT !.idle_held = FALSE, !.idle_held_agent = Main]
           agent == s.idle_held_agent
<1>1. t \in Row /\ t.state = s.state /\ t.state_since = s.state_since
      /\ agent \in AgentId
  BY DEF Row, AgentId
<1>2. Released(s) \in {s, idle_prompt(t, agent)}
  BY DEF Released
<1> HIDE DEF t, agent
<1>3. Moves(s, idle_prompt(t, agent))
  BY <1>1, IdlePromptMoves DEF Moves, OnLadder
<1> QED
  BY <1>2, <1>3 DEF Moves, OnLadder

LEMMA ReleasedOnLadder ==
    ASSUME NEW s \in Row, OnLadder(s)
    PROVE  OnLadder(Released(s))
<1> DEFINE t == [s EXCEPT !.idle_held = FALSE, !.idle_held_agent = Main]
           agent == s.idle_held_agent
<1>1. t \in Row /\ OnLadder(t) /\ agent \in AgentId
  BY DEF Row, AgentId, OnLadder
<1>2. Released(s) \in {s, idle_prompt(t, agent)}
  BY DEF Released
<1> HIDE DEF t, agent
<1> QED
  BY <1>1, <1>2, IdlePromptFields DEF OnLadder

\* The ladder's stage of tick() lands on the rung of the row's age.
LEMMA DescendedMoves ==
    ASSUME NEW s, Good(s), s.state \in {"need", "held"}
    PROVE  /\ Descended(s).state = RungOf(s.state_since)
           /\ Descended(s).state_since = s.state_since
<1>1. s.state_since \in Nat /\ s \in Row
  BY Thresholds DEF Good, Row, Age
<1>2. CASE s.state_since > need_red_s
  <2>1. ~(s.state_since <= need_red_s)
    BY <1>1, <1>2, Thresholds
  <2> QED
    BY <1>1, <1>2, <2>1 DEF Descended, RungOf, Row
<1>3. CASE s.state_since > need_pulse_s /\ s.state_since <= need_red_s
  <2>1. ~(s.state_since > need_red_s)
    BY <1>1, <1>3, Thresholds
  <2> QED
    BY <1>1, <1>3, <2>1 DEF Descended, RungOf, Row
<1>4. CASE s.state_since <= need_pulse_s
  <2>1. ~(s.state_since > need_red_s) /\ ~(s.state_since > need_pulse_s)
    BY <1>1, <1>4, Thresholds, LadderAssumption
  <2>2. s.state = "need"
    BY <1>1, <1>4, <2>1 DEF Good, RungOK
  <2> QED
    BY <2>1, <2>2 DEF Descended, RungOf
<1> QED
  BY <1>1, <1>2, <1>3, <1>4, Thresholds

\* The third stage: a row of the ladder descends to the rung of its age, and a
\* row off it stays off or enters at the top.
LEMMA TimedOutMoves ==
    ASSUME NEW s, Good(s)
    PROVE  IF OnLadder(s)
           THEN /\ TimedOut(s).state = RungOf(s.state_since)
                /\ TimedOut(s).state_since = s.state_since
           ELSE Moves(s, TimedOut(s))
<1>1. s \in Row /\ s.state_since \in Nat /\ s.attn_agent \in AgentId
  BY Thresholds DEF Good, Row, Age, AgentId
<1>2. CASE s.state \in {"need", "held"}
  <2>1. TimedOut(s) = Descended(s)
    BY <1>2 DEF TimedOut
  <2> QED
    BY <1>2, <2>1, DescendedMoves DEF OnLadder, ATTENTION_STATES
<1>3. CASE s.state = "wait"
  <2>1. TimedOut(s) = s
    BY <1>3 DEF TimedOut
  <2> QED
    BY <1>3, <2>1 DEF RungOf, Good, RungOK, OnLadder, ATTENTION_STATES
<1>4. CASE ~OnLadder(s)
  <2> DEFINE new == IF s.turn_over THEN "idle" ELSE "stale"
  <2>1. new \in State \ ATTENTION_STATES /\ "stale" \in State \ ATTENTION_STATES
    BY DEF State, ATTENTION_STATES
  <2>2. \/ TimedOut(s) \in {s, set_state(s, new), set_state(s, "stale")}
        \/ TimedOut(s) \in {idle_prompt(s, Main), want_attention(s, s.attn_agent)}
    BY <1>4 DEF TimedOut, OnLadder, ATTENTION_STATES
  <2> HIDE DEF new
  <2>3. /\ Moves(s, s)
        /\ Moves(s, set_state(s, new))
        /\ Moves(s, set_state(s, "stale"))
    BY <1>1, <2>1, OffLadderMoves DEF Moves, OnLadder
  <2>4. /\ Moves(s, idle_prompt(s, Main))
        /\ Moves(s, want_attention(s, s.attn_agent))
    BY <1>1, IdlePromptMoves, WantAttentionMoves DEF AgentId
  <2> QED
    BY <1>4, <2>2, <2>3, <2>4
<1> QED
  BY <1>2, <1>3, <1>4 DEF OnLadder, ATTENTION_STATES

\* All of tick(): one step of the ladder, or none.
LEMMA SettledMoves ==
    ASSUME NEW s, Good(s), ~Dropped(s)
    PROVE  IF OnLadder(s)
           THEN /\ Settled(s).state = RungOf(s.state_since)
                /\ Settled(s).state_since = s.state_since
           ELSE Moves(s, Settled(s))
<1>1. CASE s.state = "end"
  BY <1>1 DEF Settled, Moves, OnLadder, ATTENTION_STATES
<1>2. CASE s.state # "end"
  <2> DEFINE r == Retired(s)
             q == Released(r)
  <2>1. Good(r) /\ r.state # "end" /\ (r.bg_tasks > 0 => r.bg_seen <= bg_quiet_s)
    BY <1>2, RetiredGood
  <2>2. /\ OnLadder(s) => r.state = s.state /\ r.state_since = s.state_since
        /\ ~OnLadder(s) => ~OnLadder(r)
    BY RetiredMoves DEF Good
  <2> HIDE DEF r
  <2>3. Good(q) /\ Moves(r, q) /\ q.state # "end"
    BY <2>1, ReleasedGood, ReleasedMoves DEF Good
  <2>4. Settled(s) = TimedOut(q)
    BY <1>2 DEF Settled, r
  <2>5. OnLadder(s) => /\ OnLadder(q) /\ q.state_since = s.state_since
    <3>1. SUFFICES ASSUME OnLadder(s) PROVE OnLadder(q) /\ q.state_since = s.state_since
      OBVIOUS
    <3>2. r \in Row /\ OnLadder(r)
      BY <2>1, <2>2, <3>1 DEF Good, OnLadder
    <3>3. OnLadder(q)
      BY <3>2, ReleasedOnLadder
    <3> QED
      BY <2>2, <2>3, <3>1, <3>2, <3>3 DEF Moves
  <2>6. CASE OnLadder(s)
    BY <2>3, <2>4, <2>5, <2>6, TimedOutMoves
  <2>7. CASE ~OnLadder(s) /\ OnLadder(q)
    <3>1. q.state = "need" /\ q.state_since = 0
      BY <2>2, <2>3, <2>7 DEF Moves
    <3>2. RungOf(q.state_since) = "need"
      BY <3>1, Thresholds DEF RungOf
    <3> QED
      BY <2>3, <2>4, <2>7, <3>1, <3>2, TimedOutMoves DEF Moves
  <2>8. CASE ~OnLadder(s) /\ ~OnLadder(q)
    BY <2>3, <2>4, <2>8, TimedOutMoves DEF Moves
  <2> QED
    BY <2>6, <2>7, <2>8
<1> QED
  BY <1>1, <1>2

----------------------------------------------------------------------------
\* Every step is a step of the ladder, or none

\* The row of the session looked at, before a handler creates or finds it.
Found(sid) == IF sid \in DOMAIN sessions THEN sessions[sid] ELSE NewSession(NoLabel)

LEMMA BeforeFound ==
    ASSUME IInv, NEW h \in Header, NEW starting \in BOOLEAN
    PROVE  /\ Before(h, starting).state = Found(h.sid).state
           /\ Before(h, starting).state_since = Found(h.sid).state_since
<1> DEFINE g == GetOrCreate(h.sid, h.cwd)
<1>1. g \in Row
  BY GetOrCreateGood, HeaderFields DEF Good
<1>2. g.state = Found(h.sid).state /\ g.state_since = Found(h.sid).state_since
  BY DEF GetOrCreate, Found, NewSession, IInv, Good, Row
<1> HIDE DEF g
<1>3. LET b == Arrived(g, starting, h.agent, h.proc)
      IN  b.state = g.state /\ b.state_since = g.state_since
  BY <1>1 DEF Arrived, Row
<1> QED
  BY <1>2, <1>3 DEF Before, g

LadderStep == [Ladder!Next]_Ladder!vars

\* A row put in the table is a step of the ladder if the row has moved as the
\* ladder allows, whoever's row it is.
LEMMA PutIsStep ==
    ASSUME IInv, NEW sid \in Sid, NEW row, Moves(Found(sid), row),
           sessions' = Put(sid, row)
    PROVE  LadderStep
<1>1. CASE sid # seen
  BY <1>1 DEF LadderStep, Ladder!vars, LadderRung, LadderWaited, In, Put
<1>2. CASE sid = seen
  <2>1. seen \in DOMAIN sessions' /\ sessions'[seen] = row
    BY <1>2 DEF Put
  <2>2. /\ LadderRung = IF OnLadder(Found(seen)) THEN Found(seen).state ELSE "off"
        /\ LadderWaited = IF OnLadder(Found(seen)) THEN Found(seen).state_since ELSE 0
    BY DEF LadderRung, LadderWaited, In, Found, OnLadder, NewSession, ATTENTION_STATES
  <2>3. /\ LadderRung' = IF OnLadder(row) THEN row.state ELSE "off"
        /\ LadderWaited' = IF OnLadder(row) THEN row.state_since ELSE 0
    BY <2>1 DEF LadderRung, LadderWaited, In, OnLadder
  <2> QED
    BY <1>2, <2>2, <2>3
       DEF Moves, OnLadder, ATTENTION_STATES, LadderStep, Ladder!vars,
           Ladder!Next, Ladder!Raise, Ladder!Clear
<1> QED
  BY <1>1, <1>2

LEMMA ApplyIsStep ==
    ASSUME IInv, NEW h \in Header, NEW starting \in BOOLEAN, NEW row,
           Moves(Before(h, starting), row), Apply(h, row)
    PROVE  LadderStep
<1>1. Moves(Found(h.sid), row)
  BY BeforeFound DEF Moves, OnLadder
<1> QED
  BY <1>1, PutIsStep, HeaderFields DEF Apply

LEMMA HookIsStep ==
    ASSUME IInv, Hook
    PROVE  LadderStep
<1> FromMain \subseteq Header /\ FromSubagent \subseteq Header
  BY DEF FromMain, FromSubagent
<1> USE BeforeGood, HeaderFields, ApplyIsStep
<1>1. {"start", "err", "end"} \subseteq State \ ATTENTION_STATES
  BY DEF State, ATTENTION_STATES
<1>2. CASE \E h \in FromMain : SessionStart(h)
  BY <1>1, <1>2, OffLadderMoves DEF SessionStart, OnSessionStart
<1>3. CASE \E h \in FromMain : UserPromptSubmit(h)
  BY <1>3, UserPromptSubmitMoves DEF UserPromptSubmit
<1>4. CASE \E h \in Header : ToolEvent(h)
  BY <1>4, ActivityMoves DEF ToolEvent, OnTool
<1>5. CASE \E h \in Header : PermissionRequest(h)
  BY <1>5, WantAttentionMoves DEF PermissionRequest, OnPermissionRequest
<1>6. CASE \E h \in Header, notice \in Notice : Notification(h, notice)
  BY <1>6, NotificationMoves DEF Notification
<1>7. CASE \E h \in FromMain, list \in Lists : Stop(h, list)
  BY <1>7, StopMoves, PayloadAssumption DEF Stop
<1>8. CASE \E h \in FromSubagent, list \in Lists : SubagentStop(h, TRUE, list)
  BY <1>8, SubagentStopMoves, PayloadAssumption DEF SubagentStop
<1>9. CASE \E h \in FromSubagent : SubagentStop(h, FALSE, {})
  BY <1>9, SubagentStopMoves, FS_EmptySet DEF SubagentStop
<1>10. CASE \E h \in FromMain : StopFailure(h)
  BY <1>1, <1>10, OffLadderMoves DEF StopFailure, OnStopFailure
<1>11. CASE \E h \in FromMain : SessionEnd(h)
  BY <1>1, <1>11, OffLadderMoves DEF SessionEnd, OnSessionEnd
<1>12. CASE \E h \in Header : OtherEvent(h)
  BY <1>12, HeardMoves DEF OtherEvent
<1> QED
  BY <1>2, <1>3, <1>4, <1>5, <1>6, <1>7, <1>8, <1>9, <1>10, <1>11, <1>12 DEF Hook

LEMMA EndingIsStep ==
    ASSUME IInv, NEW sid \in Live,
           sessions' = Put(sid, set_state(sessions[sid], "end"))
    PROVE  LadderStep
<1>1. sid \in Sid /\ sid \in DOMAIN sessions /\ sessions[sid] \in Row
  BY DEF IInv, Live, Good
<1>2. Moves(Found(sid), set_state(sessions[sid], "end"))
  BY <1>1, OffLadderMoves DEF Found, State, ATTENTION_STATES
<1> QED
  BY <1>1, <1>2, PutIsStep

LEMMA StatusIsStep ==
    ASSUME IInv, NEW sid \in Sid, NEW cwd \in Cwd, Status(sid, cwd)
    PROVE  LadderStep
<1>1. Moves(Found(sid), GetOrCreate(sid, cwd))
  BY DEF Moves, OnLadder, Found, GetOrCreate, NewSession, IInv, Good, Row,
         ATTENTION_STATES
<1> QED
  BY <1>1, PutIsStep DEF Status

LEMMA TickIsStep ==
    ASSUME IInv, Tick
    PROVE  LadderStep
<1> DEFINE s == sessions[seen]
<1>1. CASE ~In(seen, ATTENTION_STATES) /\ seen \notin DOMAIN sessions'
  BY <1>1 DEF LadderStep, Ladder!vars, LadderRung, LadderWaited, In
<1>2. CASE In(seen, ATTENTION_STATES) /\ seen \notin DOMAIN sessions'
  BY <1>2 DEF LadderStep, Ladder!Next, Ladder!Clear, LadderRung, LadderWaited, In,
              ATTENTION_STATES
<1>3. CASE seen \in DOMAIN sessions'
  <2>1. /\ seen \in DOMAIN sessions /\ ~Dropped(s) /\ Good(s)
        /\ sessions'[seen] = Settled(s)
    BY <1>3 DEF Tick, IInv
  <2> HIDE DEF s
  <2>2. IF OnLadder(s)
        THEN Settled(s).state = RungOf(s.state_since)
             /\ Settled(s).state_since = s.state_since
        ELSE Moves(s, Settled(s))
    BY <2>1, SettledMoves
  <2>3. /\ LadderRung = IF OnLadder(s) THEN s.state ELSE "off"
        /\ LadderWaited = IF OnLadder(s) THEN s.state_since ELSE 0
    BY <2>1 DEF LadderRung, LadderWaited, In, OnLadder, s
  <2>4. /\ LadderRung' = IF OnLadder(Settled(s)) THEN Settled(s).state ELSE "off"
        /\ LadderWaited' = IF OnLadder(Settled(s)) THEN Settled(s).state_since ELSE 0
    BY <1>3, <2>1 DEF LadderRung, LadderWaited, In, OnLadder
  <2>5. CASE OnLadder(s)
    <3>1. OnLadder(Settled(s))
      BY <2>2, <2>5 DEF RungOf, OnLadder, ATTENTION_STATES
    <3> QED
      BY <2>2, <2>3, <2>4, <2>5, <3>1
         DEF LadderStep, Ladder!Next, Ladder!Descend, Ladder!RungAt, RungOf, OnLadder,
             ATTENTION_STATES
  <2>6. CASE ~OnLadder(s)
    BY <2>2, <2>3, <2>4, <2>6
       DEF Moves, OnLadder, ATTENTION_STATES, LadderStep, Ladder!vars,
           Ladder!Next, Ladder!Raise
  <2> QED
    BY <2>5, <2>6
<1> QED
  BY <1>1, <1>2, <1>3

LEMMA AdvanceIsStep ==
    ASSUME IInv, Advance
    PROVE  LadderStep
<1> DEFINE s == sessions[seen]
<1>1. CASE ~In(seen, ATTENTION_STATES)
  <2>1. ~In(seen, ATTENTION_STATES)'
    BY <1>1 DEF In, Advance, Aged, IInv, Good, Row
  <2> QED
    BY <1>1, <2>1 DEF LadderStep, Ladder!vars, LadderRung, LadderWaited
<1>2. CASE In(seen, ATTENTION_STATES)
  <2>1. s \in Row /\ OnLadder(s) /\ s.state_since \in 0 .. Horizon
    BY <1>2 DEF In, IInv, Good, Row, Age, OnLadder
  <2>2. sessions'[seen] = Aged(s) /\ seen \in DOMAIN sessions'
    BY <1>2 DEF Advance, In
  <2>3. Aged(s).state = s.state /\ Aged(s).state_since = Older(s.state_since)
    BY <2>1 DEF Aged, Row
  <2>4. /\ LadderRung = s.state /\ LadderWaited = s.state_since
        /\ LadderRung' = s.state /\ LadderWaited' = Older(s.state_since)
    BY <1>2, <2>1, <2>2, <2>3 DEF LadderRung, LadderWaited, In, OnLadder
  <2>5. s.state # "off"
    BY <2>1 DEF OnLadder, ATTENTION_STATES
  <2> HIDE DEF s
  <2>6. CASE s.state_since < Horizon
    BY <2>4, <2>5, <2>6 DEF LadderStep, Ladder!Next, Ladder!Clock, Older
  <2>7. CASE s.state_since = Horizon
    BY <2>4, <2>7, Thresholds DEF LadderStep, Ladder!vars, Older
  <2> QED
    BY <2>1, <2>6, <2>7, Thresholds
<1> QED
  BY <1>1, <1>2

LEMMA NextIsStep == IInv /\ [Next]_vars => LadderStep
<1> SUFFICES ASSUME IInv, [Next]_vars
             PROVE  LadderStep
  OBVIOUS
<1>1. CASE Hook
  BY <1>1, HookIsStep
<1>2. CASE \E sid \in Sid, cwd \in Cwd : Status(sid, cwd)
  BY <1>2, StatusIsStep
<1>3. CASE \E sid \in Sid : ProcessGone(sid)
  BY <1>3, EndingIsStep DEF ProcessGone
<1>4. CASE \E key \in Key : Forget(key)
  BY <1>4, EndingIsStep DEF Forget
<1>5. CASE Tick
  BY <1>5, TickIsStep
<1>6. CASE Advance
  BY <1>6, AdvanceIsStep
<1>7. CASE UNCHANGED vars
  BY <1>7 DEF vars, LadderStep, Ladder!vars, LadderRung, LadderWaited, In
<1> QED
  BY <1>1, <1>2, <1>3, <1>4, <1>5, <1>6, <1>7 DEF Next

\* The session table implements the attention ladder, for every session, any
\* thresholds and any agents: a wait starts at the top, ages without a break,
\* never climbs, and is only ever left by leaving the family of states.
THEOREM LadderRefined == Spec => LadderSteps
<1>1. Init => Ladder!Init
  BY DEF Init, Ladder!Init, LadderRung, LadderWaited, In
<1>2. IInv /\ [Next]_vars => [Ladder!Next]_Ladder!vars
  BY NextIsStep DEF LadderStep
<1> QED
  BY <1>1, <1>2, Invariance, PTL DEF Spec, LadderSteps

----------------------------------------------------------------------------
\* The process on record

\* A handler, and each stage of tick(), leaves the process of a row alone.
LEMMA SetStatePid ==
    ASSUME NEW s \in Row, NEW new \in State
    PROVE  set_state(s, new).pid = s.pid /\ set_state(s, new).state = new
BY DEF set_state, Row

LEMMA HeardPid ==
    ASSUME NEW s \in Row
    PROVE  Heard(s).pid = s.pid /\ Heard(s).state = s.state
BY DEF Heard, Row

LEMMA ActivityPid ==
    ASSUME NEW s \in Row, NEW agent \in AgentId
    PROVE  activity(s, agent).pid = s.pid
<1> DEFINE t == IF agent = Main
                THEN [s EXCEPT !.turn_over = FALSE, !.idle_held = FALSE]
                ELSE s
<1>1. t \in Row /\ t.pid = s.pid
  BY DEF Row
<1>2. activity(s, agent) \in {Heard(t), set_state(t, "work")}
  BY DEF activity
<1> HIDE DEF t
<1> QED
  BY <1>1, <1>2, HeardPid, SetStatePid DEF State

LEMMA WantAttentionPid ==
    ASSUME NEW s \in Row, NEW agent \in AgentId
    PROVE  want_attention(s, agent).pid = s.pid
<1> DEFINE t == [s EXCEPT !.idle_held = FALSE, !.attn_agent = agent]
<1>1. t \in Row /\ t.pid = s.pid
  BY DEF Row, AgentId
<1>2. want_attention(s, agent) \in {Heard(s), set_state(t, "need")}
  BY DEF want_attention
<1> HIDE DEF t
<1> QED
  BY <1>1, <1>2, HeardPid, SetStatePid DEF State

LEMMA IdlePromptPid ==
    ASSUME NEW s \in Row, NEW agent \in AgentId
    PROVE  idle_prompt(s, agent).pid = s.pid
<1> DEFINE t == [s EXCEPT !.idle_held = FALSE, !.attn_agent = agent]
<1>1. t \in Row /\ t.pid = s.pid
  BY DEF Row, AgentId
<1>2. idle_prompt(s, agent) \in {Heard(s), want_attention(s, agent), set_state(t, "look")}
  BY DEF idle_prompt
<1> HIDE DEF t
<1> QED
  BY <1>1, <1>2, HeardPid, WantAttentionPid, SetStatePid DEF State

LEMMA NotificationPid ==
    ASSUME NEW s \in Row, NEW agent \in AgentId, NEW notice \in Notice
    PROVE  OnNotification(s, agent, notice).pid = s.pid
<1> DEFINE t == [s EXCEPT !.idle_held = TRUE, !.idle_held_agent = agent]
<1>1. t \in Row /\ t.pid = s.pid
  BY DEF Row, AgentId
<1>2. s.bg_tasks > 0 \/ s.bg_tasks = 0
  BY DEF Row
<1>3. OnNotification(s, agent, notice)
        \in {Heard(s), Heard(t), idle_prompt(s, agent), want_attention(s, agent)}
  BY <1>2 DEF OnNotification
<1> HIDE DEF t
<1> QED
  BY <1>1, <1>3, HeardPid, IdlePromptPid, WantAttentionPid

LEMMA UserPromptSubmitPid ==
    ASSUME NEW s \in Row
    PROVE  OnUserPromptSubmit(s).pid = s.pid
<1> DEFINE t == [s EXCEPT !.bg_tasks = 0, !.bg_other = 0,
                          !.turn_over = FALSE, !.idle_held = FALSE]
<1>1. t \in Row /\ t.pid = s.pid
  BY DEF Row
<1>2. OnUserPromptSubmit(s) = set_state(t, "work")
  BY DEF OnUserPromptSubmit
<1> HIDE DEF t
<1> QED
  BY <1>1, <1>2, SetStatePid DEF State

LEMMA StopPid ==
    ASSUME NEW s \in Row, NEW list, IsFiniteSet(list)
    PROVE  OnStop(s, list).pid = s.pid
<1> DEFINE tasks == running_background_tasks(list, Main)
           other == untracked_background_tasks(list, Main)
           over == tasks > 0
           t == [s EXCEPT !.bg_tasks = tasks, !.bg_other = other,
                          !.bg_seen = 0, !.turn_over = over]
<1>1. tasks \in Nat /\ other \in Nat /\ over \in BOOLEAN
  BY Counts
<1>2. OnStop(s, list) = set_state(t, IF over THEN "work" ELSE "idle")
  BY Zenon DEF OnStop
<1> HIDE DEF tasks, other, over
<1>3. t \in Row /\ t.pid = s.pid
  BY <1>1, Ages DEF Row
<1> HIDE DEF t
<1> QED
  BY <1>2, <1>3, SetStatePid DEF State

LEMMA SubagentStopPid ==
    ASSUME NEW s \in Row, NEW agent \in AgentId,
           NEW listed \in BOOLEAN, NEW list, IsFiniteSet(list)
    PROVE  OnSubagentStop(s, agent, listed, list).pid = s.pid
<1> DEFINE t == Recounted(s, agent, listed, list)
           closed == [t EXCEPT !.turn_over = FALSE]
<1>1. t \in Row
  BY RecountedRow
<1>2. t.pid = s.pid
  BY DEF Recounted, Row
<1>3. OnSubagentStop(s, agent, listed, list) \in {set_state(closed, "idle"), Heard(t)}
  BY DEF OnSubagentStop
<1> HIDE DEF t
<1>4. closed \in Row /\ closed.pid = t.pid
  BY <1>1 DEF Row
<1> HIDE DEF closed
<1> QED
  BY <1>1, <1>2, <1>3, <1>4, HeardPid, SetStatePid DEF State

LEMMA RetiredPid ==
    ASSUME NEW s \in Row
    PROVE  Retired(s).pid = s.pid
<1> DEFINE t == [s EXCEPT !.bg_tasks = 0, !.turn_over = FALSE]
<1>1. t \in Row /\ t.pid = s.pid
  BY DEF Row
<1>2. Retired(s) \in {s, t, set_state(t, "idle")}
  BY DEF Retired
<1> HIDE DEF t
<1> QED
  BY <1>1, <1>2, SetStatePid DEF State

LEMMA ReleasedPid ==
    ASSUME NEW s \in Row
    PROVE  Released(s).pid = s.pid
<1> DEFINE t == [s EXCEPT !.idle_held = FALSE, !.idle_held_agent = Main]
           agent == s.idle_held_agent
<1>1. t \in Row /\ t.pid = s.pid /\ agent \in AgentId
  BY DEF Row, AgentId
<1>2. Released(s) \in {s, idle_prompt(t, agent)}
  BY DEF Released
<1> HIDE DEF t, agent
<1> QED
  BY <1>1, <1>2, IdlePromptPid

\* The last stage of tick() ends no row either.
LEMMA TimedOutPid ==
    ASSUME NEW s \in Row, s.state # "end"
    PROVE  TimedOut(s).pid = s.pid /\ TimedOut(s).state # "end"
<1> DEFINE new == IF s.turn_over THEN "idle" ELSE "stale"
           d == Descended(s)
<1>1. new \in State /\ new # "end" /\ "stale" \in State /\ s.attn_agent \in AgentId
  BY DEF State, Row, AgentId
<1>2. d.pid = s.pid /\ d.state # "end"
  <2> DEFINE held == [s EXCEPT !.state = "held"]
             wait == [s EXCEPT !.state = "wait"]
  <2>1. /\ held.pid = s.pid /\ held.state = "held"
        /\ wait.pid = s.pid /\ wait.state = "wait"
    BY DEF Row
  <2>2. d \in {s, held, wait}
    BY DEF Descended
  <2> HIDE DEF held, wait, d
  <2> QED
    BY <2>1, <2>2
<1>3. TimedOut(s) \in {s, d, set_state(s, new), set_state(s, "stale"),
                       idle_prompt(s, Main), want_attention(s, s.attn_agent)}
  BY DEF TimedOut
<1> HIDE DEF new, d
<1>4. /\ idle_prompt(s, Main).pid = s.pid /\ idle_prompt(s, Main).state # "end"
      /\ want_attention(s, s.attn_agent).pid = s.pid
      /\ want_attention(s, s.attn_agent).state # "end"
  BY <1>1, IdlePromptPid, WantAttentionPid, IdlePromptFields, WantAttentionFields
     DEF AgentId, ATTENTION_STATES
<1> QED
  BY <1>1, <1>2, <1>3, <1>4, SetStatePid

LEMMA SettledPid ==
    ASSUME NEW s, Good(s)
    PROVE  /\ Settled(s).pid = s.pid
           /\ Settled(s).state = "end" <=> s.state = "end"
<1>1. CASE s.state = "end"
  BY <1>1 DEF Settled
<1>2. CASE s.state # "end"
  <2> DEFINE r == Retired(s)
             q == Released(r)
  <2>1. Good(r) /\ r.state # "end" /\ (r.bg_tasks > 0 => r.bg_seen <= bg_quiet_s)
    BY <1>2, RetiredGood
  <2>2. r.pid = s.pid
    BY RetiredPid DEF Good
  <2> HIDE DEF r
  <2>3. Good(q) /\ q.pid = r.pid /\ q.state # "end"
    BY <2>1, ReleasedGood, ReleasedPid DEF Good
  <2>4. Settled(s) = TimedOut(q)
    BY <1>2 DEF Settled, r
  <2> HIDE DEF q
  <2> QED
    BY <1>2, <2>2, <2>3, <2>4, TimedOutPid DEF Good
<1> QED
  BY <1>1, <1>2

----------------------------------------------------------------------------
\* Every step is a step of the reduced table

ReducedRow(s) == [state |-> IF s.state = "end" THEN "end" ELSE "live", proc |-> s.pid]

TableOf == [sid \in Sid |-> Reduced(sid)]

\* The reduced table after a row has been put.
LEMMA PutReduced ==
    ASSUME NEW sid \in Sid, NEW row, sessions' = Put(sid, row)
    PROVE  TableOf' = [TableOf EXCEPT ![sid] = ReducedRow(row)]
<1>1. \A k \in Sid : Reduced(k)' = IF k = sid THEN ReducedRow(row) ELSE Reduced(k)
  BY DEF Put, Reduced, ReducedRow
<1> QED
  BY <1>1 DEF TableOf

\* The process of the row a handler starts from, in terms of the reduced table.
LEMMA BeforePid ==
    ASSUME IInv, NEW h \in Header, NEW starting \in BOOLEAN, NEW kind,
           starting <=> kind = "SessionStart"
    PROVE  Before(h, starting).pid = Table!OnRecord(Reduced(h.sid), kind, h.proc)
<1> DEFINE g == GetOrCreate(h.sid, h.cwd)
<1>1. g \in Row
  BY GetOrCreateGood, HeaderFields DEF Good
<1>2. g.pid = Reduced(h.sid).proc
  BY DEF GetOrCreate, Reduced, NewSession, IInv, Good, Row
<1> HIDE DEF g
<1>3. Arrived(g, starting, h.agent, h.proc).pid =
        IF h.proc # NoProc /\ (starting \/ g.pid = NoProc) THEN h.proc ELSE g.pid
  BY <1>1 DEF Arrived, Row
<1> QED
  BY <1>2, <1>3 DEF Before, g, Table!OnRecord

\* What a hook leaves: the process as it was when the handler started, and a
\* state the reduced table knows.
LEMMA ApplyTakes ==
    ASSUME IInv, NEW h \in Header, NEW starting \in BOOLEAN, NEW row,
           NEW kind \in {"SessionStart", "Other"}, starting <=> kind = "SessionStart",
           row.pid = Before(h, starting).pid, starting => row.state # "end",
           Apply(h, row)
    PROVE  Table!Takes(h.sid, kind, h.proc)
<1>1. h.sid \in Sid
  BY HeaderFields
<1>2. TableOf' = [TableOf EXCEPT ![h.sid] = ReducedRow(row)]
  BY <1>1, PutReduced DEF Apply
<1>3. TableOf[h.sid] = Reduced(h.sid)
  BY <1>1 DEF TableOf
<1>4. row.pid = Table!OnRecord(TableOf[h.sid], kind, h.proc)
  BY <1>3, BeforePid
<1> DEFINE state == IF row.state = "end" THEN "end" ELSE "live"
<1>5. state \in Table!StatesAfter(TableOf[h.sid], kind)
  BY DEF Table!StatesAfter
<1>6. ReducedRow(row) = [state |-> state, proc |-> Table!OnRecord(TableOf[h.sid], kind, h.proc)]
  BY <1>4 DEF ReducedRow
<1> HIDE DEF state
<1> QED
  BY <1>2, <1>5, <1>6 DEF Table!Takes, TableOf

LEMMA SessionStartTakes ==
    ASSUME IInv, NEW h \in Header, SessionStart(h)
    PROVE  Table!Takes(h.sid, "SessionStart", h.proc)
<1> DEFINE b == Before(h, TRUE)
<1>1. b \in Row
  BY BeforeGood
<1>2. Apply(h, OnSessionStart(b))
  BY DEF SessionStart
<1> HIDE DEF b
<1>3. OnSessionStart(b).pid = b.pid /\ OnSessionStart(b).state # "end"
  BY <1>1, SetStatePid DEF OnSessionStart, State
<1> QED
  BY <1>2, <1>3, ApplyTakes DEF b

LEMMA OtherHookTakes ==
    ASSUME IInv, NEW h \in Header, OtherHook(h)
    PROVE  Table!Takes(h.sid, "Other", h.proc)
<1> DEFINE b == Before(h, FALSE)
<1>1. b \in Row /\ h.agent \in AgentId
  BY BeforeGood, HeaderFields
<1>2. \A list \in Lists : IsFiniteSet(list)
  BY PayloadAssumption
<1>3. SUFFICES \E row : row.pid = b.pid /\ Apply(h, row)
  <2> HIDE DEF b
  <2>1. PICK row : row.pid = b.pid /\ Apply(h, row)
    BY <1>3
  <2> QED
    BY <2>1, ApplyTakes DEF b
<1>4. CASE UserPromptSubmit(h)
  BY <1>1, <1>4, UserPromptSubmitPid DEF UserPromptSubmit
<1>5. CASE StopFailure(h)
  BY <1>1, <1>5, SetStatePid DEF StopFailure, OnStopFailure, State
<1>6. CASE SessionEnd(h)
  BY <1>1, <1>6, SetStatePid DEF SessionEnd, OnSessionEnd, State
<1>7. CASE \E list \in Lists : Stop(h, list)
  BY <1>1, <1>2, <1>7, StopPid DEF Stop
<1>8. CASE SubagentStop(h, FALSE, {})
  BY <1>1, <1>8, SubagentStopPid, FS_EmptySet DEF SubagentStop
<1>9. CASE \E list \in Lists : SubagentStop(h, TRUE, list)
  BY <1>1, <1>2, <1>9, SubagentStopPid DEF SubagentStop
<1>10. CASE ToolEvent(h)
  BY <1>1, <1>10, ActivityPid DEF ToolEvent, OnTool
<1>11. CASE PermissionRequest(h)
  BY <1>1, <1>11, WantAttentionPid DEF PermissionRequest, OnPermissionRequest
<1>12. CASE OtherEvent(h)
  BY <1>1, <1>12, HeardPid DEF OtherEvent
<1>13. CASE \E notice \in Notice : Notification(h, notice)
  BY <1>1, <1>13, NotificationPid DEF Notification
<1> QED
  BY <1>4, <1>5, <1>6, <1>7, <1>8, <1>9, <1>10, <1>11, <1>12, <1>13 DEF OtherHook

LEMMA StatusTakes ==
    ASSUME IInv, NEW sid \in Sid, NEW cwd \in Cwd, Status(sid, cwd)
    PROVE  Table!Takes(sid, "status", NoProc)
<1> DEFINE g == GetOrCreate(sid, cwd)
           row == Reduced(sid)
           state == IF row.state = "absent" THEN "live" ELSE row.state
<1>1. TableOf' = [TableOf EXCEPT ![sid] = ReducedRow(g)]
  BY PutReduced DEF Status
<1>2. TableOf[sid] = row
  BY DEF TableOf
<1>3. ReducedRow(g) = [state |-> state, proc |-> row.proc]
  BY DEF ReducedRow, GetOrCreate, Reduced, NewSession, IInv, Good, Row
<1>4. Table!OnRecord(row, "status", NoProc) = row.proc
  BY DEF Table!OnRecord
<1>5. state \in Table!StatesAfter(row, "status")
  BY DEF Table!StatesAfter
<1> HIDE DEF g, row, state
<1> QED
  BY <1>1, <1>2, <1>3, <1>4, <1>5 DEF Table!Takes, TableOf

LEMMA EndingClears ==
    ASSUME IInv, NEW sid \in Live,
           sessions' = Put(sid, set_state(sessions[sid], "end"))
    PROVE  EndsOnly(sid)
<1> DEFINE s == sessions[sid]
<1>1. sid \in Sid /\ s \in Row /\ s.state # "end" /\ sid \in DOMAIN sessions
  BY DEF IInv, Live, Good
<1>2. TableOf' = [TableOf EXCEPT ![sid] = ReducedRow(set_state(s, "end"))]
  BY <1>1, PutReduced
<1>3. TableOf[sid] = [state |-> "live", proc |-> s.pid]
  BY <1>1 DEF TableOf, Reduced
<1>4. ReducedRow(set_state(s, "end")) = [state |-> "end", proc |-> s.pid]
  BY <1>1, SetStatePid DEF ReducedRow, State
<1> HIDE DEF s
<1>5. ReducedRow(set_state(s, "end")) = [TableOf[sid] EXCEPT !.state = "end"]
  BY <1>3, <1>4
<1>6. sid \in Table!LiveRows
  BY <1>1, <1>3 DEF Table!LiveRows, TableOf
<1>7. TableOf' = [k \in Sid |-> IF k = sid THEN [TableOf[k] EXCEPT !.state = "end"]
                                ELSE TableOf[k]]
  BY <1>1, <1>2, <1>5 DEF TableOf
<1>8. Table!Clears({sid}, {})
  BY <1>7 DEF Table!Clears, TableOf
<1> QED
  BY <1>6, <1>8 DEF EndsOnly

LEMMA TickClears ==
    ASSUME IInv, Tick
    PROVE  Table!Clears({}, DOMAIN sessions \ DOMAIN sessions')
<1>1. /\ DOMAIN sessions' \subseteq DOMAIN sessions
      /\ \A sid \in DOMAIN sessions' : sessions'[sid] = Settled(sessions[sid])
  BY DEF Tick
<1>2. \A sid \in DOMAIN sessions' : /\ sessions'[sid].pid = sessions[sid].pid
                                    /\ sessions'[sid].state = "end" <=> sessions[sid].state = "end"
  BY <1>1, SettledPid DEF IInv
<1>3. \A sid \in Sid : Reduced(sid)' = IF sid \in DOMAIN sessions \ DOMAIN sessions'
                                       THEN [state |-> "absent", proc |-> NoProc] ELSE Reduced(sid)
  BY <1>1, <1>2 DEF Reduced
<1> QED
  BY <1>3 DEF Table!Clears, Table!Absent

LEMMA AdvanceClears ==
    ASSUME IInv, Advance
    PROVE  Table!Clears({}, {})
<1>1. \A sid \in DOMAIN sessions : /\ Aged(sessions[sid]).pid = sessions[sid].pid
                                   /\ Aged(sessions[sid]).state = sessions[sid].state
  BY DEF Aged, IInv, Good, Row
<1>2. DOMAIN sessions' = DOMAIN sessions
      /\ \A sid \in DOMAIN sessions : sessions'[sid] = Aged(sessions[sid])
  BY DEF Advance
<1>3. \A sid \in Sid : Reduced(sid)' = Reduced(sid)
  BY <1>1, <1>2 DEF Reduced
<1> QED
  BY <1>3 DEF Table!Clears

\* The reduced table that the daemon's threads are modelled with is what the
\* whole table is for them: each handler, /forget, the process check and tick()
\* do to the state and the process of every row what the reduced step of their
\* kind does, for any number of sessions and processes.
THEOREM ReducedTableIsFaithful == Spec => TableSteps
<1>1. Init => TableOf = Table!AllAbsent
  BY DEF Init, TableOf, Reduced, Table!AllAbsent, Table!Absent
<1>2. IInv => TableStep
  <2> SUFFICES ASSUME IInv
               PROVE  TableStep
    OBVIOUS
  <2>1. \A h \in FromMain : SessionStart(h) => Table!Takes(h.sid, "SessionStart", h.proc)
    BY SessionStartTakes DEF FromMain
  <2>2. \A h \in Header : OtherHook(h) => Table!Takes(h.sid, "Other", h.proc)
    BY OtherHookTakes
  <2>3. \A sid \in Sid, cwd \in Cwd : Status(sid, cwd) => Table!Takes(sid, "status", NoProc)
    BY StatusTakes
  <2>4. \A sid \in Sid : ProcessGone(sid) => EndsOnly(sid)
    BY EndingClears DEF ProcessGone
  <2>5. \A key \in Key : Forget(key) => \E sid \in Hits(key) : Hits(key) = {sid} /\ EndsOnly(sid)
    BY EndingClears DEF Forget
  <2> QED
    BY <2>1, <2>2, <2>3, <2>4, <2>5, TickClears, AdvanceClears DEF TableStep
<1>3. IInv => [TableStep]_vars
  BY <1>2
<1> QED
  BY <1>1, <1>3, Invariance, PTL DEF Spec, TableSteps, TableOf
=============================================================================
