------------------------- MODULE SessionStoreProofs -------------------------
(***************************************************************************)
(* The safety of the session table, for any number of sessions, agents,    *)
(* processes and labels, any thresholds, and any background_tasks lists.   *)
(*                                                                         *)
(* The first half is about one row.  A row is Good when it is well typed   *)
(* and its turn, its stamps and its rung agree; each handler, each stage   *)
(* of tick() and the passing of time keep a row Good.                      *)
(*                                                                         *)
(* The second half is about the table.  The inductive invariant is that    *)
(* every row is Good and, while published, settled.  That a tick settles a *)
(* row follows from what is Good about it at that moment, not from the     *)
(* tick before; that the row follows the ladder (SessionRefinementProofs)  *)
(* needs RungOK, or a row found at "held" could be seen to stay there      *)
(* below its age.                                                          *)
(***************************************************************************)
EXTENDS SessionStore, FiniteSetTheorems, TLAPS

\* What is true of a row between any two steps.
Good(s) == s \in Row /\ TurnOK(s) /\ StampsOK(s) /\ RungOK(s)

AgentId == Agent \cup {Main}

----------------------------------------------------------------------------
\* Constants and ages

\* The thresholds are naturals below the horizon, which is a natural itself.
LEMMA Thresholds ==
    /\ Horizon \in Nat
    /\ stale_after_s \in Nat /\ stale_after_s < Horizon
    /\ idle_prompt_s \in Nat /\ idle_prompt_s < Horizon
    /\ idle_stale_s \in Nat /\ idle_stale_s < Horizon
    /\ need_pulse_s \in Nat /\ need_pulse_s < Horizon
    /\ need_red_s \in Nat /\ need_red_s < Horizon
    /\ look_s \in Nat /\ look_s < Horizon
    /\ ended_grace_s \in Nat /\ ended_grace_s < Horizon
    /\ ghost_after_s \in Nat /\ ghost_after_s < Horizon
    /\ bg_quiet_s \in Nat /\ bg_quiet_s < Horizon
BY ThresholdAssumption DEF Threshold

\* Age 0 and the horizon are ages, and getting older yields an age, keeps the
\* order of two ages, and never brings one back below a threshold.
LEMMA Ages ==
    /\ 0 \in Age
    /\ Horizon \in Age
    /\ \A a \in Age : /\ Older(a) \in Age
                      /\ a <= Older(a)
                      /\ 0 <= a
    /\ \A a, b \in Age : a <= b => Older(a) <= Older(b)
BY Thresholds DEF Age, Older

\* Counting a payload's list gives a natural number.
LEMMA Counts ==
    ASSUME NEW list, IsFiniteSet(list), NEW agent
    PROVE  /\ running_background_tasks(list, agent) \in Nat
           /\ untracked_background_tasks(list, agent) \in Nat
<1>1. IsFiniteSet({t \in InFlight(list, agent) : t.type \in COUNTED_TASK_TYPES})
  BY FS_Subset DEF InFlight
<1>2. IsFiniteSet({t \in InFlight(list, agent) :
                t.type \notin COUNTED_TASK_TYPES \cup UNTRACKED_EXCLUDED_TYPES})
  BY FS_Subset DEF InFlight
<1> QED
  BY <1>1, <1>2, FS_CardinalityType
     DEF running_background_tasks, untracked_background_tasks

----------------------------------------------------------------------------
\* set_state() and the renewal of last_event

\* Entering any state but the two lower rungs leaves a Good row, whatever the
\* stamps were, provided the turn and the count agree.
LEMMA SetStateGood ==
    ASSUME NEW s \in Row, TurnOK(s), NEW new \in State \ {"held", "wait"}
    PROVE  Good(set_state(s, new))
BY Ages DEF Good, TurnOK, StampsOK, RungOK, set_state, Row, Age

\* The fields of a row whose state has been set.
LEMMA SetStateFields ==
    ASSUME NEW s \in Row, NEW new \in State
    PROVE  LET t == set_state(s, new) IN
           /\ t.state = new
           /\ t.state_since = IF s.state = new THEN s.state_since ELSE 0
           /\ t.last_event = 0
           /\ t.bg_tasks = s.bg_tasks
           /\ t.bg_seen = s.bg_seen
           /\ t.idle_held = s.idle_held
BY DEF set_state, Row

\* Hearing of a row renews a stamp and touches nothing else.
LEMMA HeardGood ==
    ASSUME NEW s \in Row, TurnOK(s), RungOK(s)
    PROVE  Good(Heard(s))
BY Ages DEF Good, TurnOK, StampsOK, RungOK, Heard, Row, Age
----------------------------------------------------------------------------
\* The helpers and the handlers

LEMMA ActivityGood ==
    ASSUME NEW s \in Row, TurnOK(s), RungOK(s), NEW agent \in AgentId
    PROVE  Good(activity(s, agent))
<1> DEFINE t == IF agent = Main
                THEN [s EXCEPT !.turn_over = FALSE, !.idle_held = FALSE]
                ELSE s
<1>1. t \in Row /\ TurnOK(t) /\ RungOK(t)
  BY DEF Good, Row, TurnOK, RungOK
<1>2. Good(Heard(t))
  BY <1>1, HeardGood
<1>3. Good(set_state(t, "work"))
  BY <1>1, SetStateGood DEF State
<1> QED
  BY <1>2, <1>3 DEF activity

LEMMA WantAttentionGood ==
    ASSUME NEW s \in Row, TurnOK(s), RungOK(s), NEW agent \in AgentId
    PROVE  Good(want_attention(s, agent))
<1> DEFINE t == [s EXCEPT !.idle_held = FALSE, !.attn_agent = agent]
<1>1. t \in Row /\ TurnOK(t)
  BY DEF Row, TurnOK, AgentId
<1>2. Good(set_state(t, "need"))
  BY <1>1, SetStateGood DEF State
<1> QED
  BY <1>2, HeardGood DEF want_attention

LEMMA IdlePromptGood ==
    ASSUME NEW s \in Row, TurnOK(s), RungOK(s), NEW agent \in AgentId
    PROVE  Good(idle_prompt(s, agent))
<1> DEFINE t == [s EXCEPT !.idle_held = FALSE, !.attn_agent = agent]
<1>1. t \in Row /\ TurnOK(t)
  BY DEF Row, TurnOK, AgentId
<1>2. Good(set_state(t, "look"))
  BY <1>1, SetStateGood DEF State
<1> QED
  BY <1>2, HeardGood, WantAttentionGood DEF idle_prompt

\* The row a handler starts from: created, or found and relabelled, then
\* stamped and tied to a process.
LEMMA NewSessionGood ==
    ASSUME NEW label \in Label \cup {NoLabel}
    PROVE  Good(NewSession(label))
BY Ages DEF Good, NewSession, Row, State, TurnOK, StampsOK, RungOK

\* Arrived() may confirm a count without renewing last_event: the stamps are
\* the one part of Good that only the handler restores.
LEMMA ArrivedGood ==
    ASSUME NEW s, Good(s), NEW starting \in BOOLEAN, NEW agent \in AgentId,
           NEW proc \in Proc \cup {NoProc}
    PROVE  /\ Arrived(s, starting, agent, proc) \in Row
           /\ TurnOK(Arrived(s, starting, agent, proc))
           /\ RungOK(Arrived(s, starting, agent, proc))
BY Ages DEF Good, Arrived, Row, TurnOK, RungOK

LEMMA SessionStartGood ==
    ASSUME NEW s \in Row, TurnOK(s)
    PROVE  Good(OnSessionStart(s))
BY SetStateGood DEF OnSessionStart, State

LEMMA UserPromptSubmitGood ==
    ASSUME NEW s \in Row
    PROVE  Good(OnUserPromptSubmit(s))
<1> DEFINE t == [s EXCEPT !.bg_tasks = 0, !.bg_other = 0,
                          !.turn_over = FALSE, !.idle_held = FALSE]
<1>1. t \in Row /\ TurnOK(t)
  BY DEF Row, TurnOK
<1> QED
  BY <1>1, SetStateGood DEF OnUserPromptSubmit, State

LEMMA NotificationGood ==
    ASSUME NEW s \in Row, TurnOK(s), RungOK(s), NEW agent \in AgentId,
           NEW notice \in Notice
    PROVE  Good(OnNotification(s, agent, notice))
<1> DEFINE t == [s EXCEPT !.idle_held = TRUE, !.idle_held_agent = agent]
<1>1. t \in Row /\ TurnOK(t) /\ RungOK(t)
  BY DEF Row, TurnOK, RungOK, AgentId
<1>2. Good(Heard(t)) /\ Good(Heard(s))
  BY <1>1, HeardGood
<1>3. Good(idle_prompt(s, agent)) /\ Good(want_attention(s, agent))
  BY IdlePromptGood, WantAttentionGood
<1>4. s.bg_tasks > 0 \/ s.bg_tasks = 0
  BY DEF Row
<1> QED
  BY <1>2, <1>3, <1>4 DEF OnNotification

\* A Stop sets the turn and the count together, so the two agree.
LEMMA StopGood ==
    ASSUME NEW s \in Row, NEW list, IsFiniteSet(list)
    PROVE  Good(OnStop(s, list))
<1> DEFINE tasks == running_background_tasks(list, Main)
           other == untracked_background_tasks(list, Main)
           over == tasks > 0
           t == [s EXCEPT !.bg_tasks = tasks, !.bg_other = other,
                          !.bg_seen = 0, !.turn_over = over]
<1>1. tasks \in Nat /\ other \in Nat
  BY Counts
<1>2. over \in BOOLEAN /\ (over => tasks > 0)
  OBVIOUS
<1>3. OnStop(s, list) = set_state(t, IF over THEN "work" ELSE "idle")
  BY Zenon DEF OnStop
<1> HIDE DEF tasks, other, over
<1>4. t \in Row /\ TurnOK(t)
  BY <1>1, <1>2, Ages DEF Row, TurnOK
<1> HIDE DEF t
<1> QED
  BY <1>3, <1>4, SetStateGood DEF State

\* The recount of a SubagentStop touches the counts and their stamp only.
LEMMA RecountedRow ==
    ASSUME NEW s \in Row, NEW agent \in AgentId,
           NEW listed \in BOOLEAN, NEW list, IsFiniteSet(list)
    PROVE  /\ Recounted(s, agent, listed, list) \in Row
           /\ RungOK(s) => RungOK(Recounted(s, agent, listed, list))
<1> DEFINE t == Recounted(s, agent, listed, list)
<1>1. CASE listed
  <2> DEFINE tasks == running_background_tasks(list, agent)
             other == untracked_background_tasks(list, agent)
  <2>1. tasks \in Nat /\ other \in Nat
    BY Counts
  <2>2. t = [s EXCEPT !.bg_tasks = tasks, !.bg_other = other, !.bg_seen = 0]
    BY <1>1 DEF Recounted
  <2> HIDE DEF tasks, other, t
  <2> QED
    BY <2>1, <2>2, Ages DEF Row, RungOK, t
<1>2. CASE ~listed
  <2> DEFINE less == IF s.bg_tasks > 0 THEN s.bg_tasks - 1 ELSE 0
  <2>1. less \in Nat
    BY DEF Row
  <2>2. t = [s EXCEPT !.bg_tasks = less, !.bg_seen = 0]
    BY <1>2 DEF Recounted
  <2> HIDE DEF less, t
  <2> QED
    BY <2>1, <2>2, Ages DEF Row, RungOK, t
<1> QED
  BY <1>1, <1>2

\* A SubagentStop may take the count of a finished turn to zero, and then it
\* closes the turn in the same step.
LEMMA SubagentStopGood ==
    ASSUME NEW s \in Row, RungOK(s), NEW agent \in AgentId,
           NEW listed \in BOOLEAN, NEW list, IsFiniteSet(list)
    PROVE  Good(OnSubagentStop(s, agent, listed, list))
<1> DEFINE t == Recounted(s, agent, listed, list)
           closed == [t EXCEPT !.turn_over = FALSE]
<1>1. t \in Row /\ RungOK(t)
  BY RecountedRow
<1> HIDE DEF t
<1>2. CASE t.turn_over /\ t.bg_tasks = 0
  <2>1. closed \in Row /\ TurnOK(closed)
    BY <1>1 DEF Row, TurnOK
  <2>2. Good(set_state(closed, "idle"))
    BY <2>1, SetStateGood DEF State
  <2> QED
    BY <1>2, <2>2 DEF OnSubagentStop, t
<1>3. CASE ~(t.turn_over /\ t.bg_tasks = 0)
  <2>1. TurnOK(t)
    BY <1>1, <1>3 DEF TurnOK, Row
  <2>2. Good(Heard(t))
    BY <1>1, <2>1, HeardGood
  <2> QED
    BY <1>3, <2>2 DEF OnSubagentStop, t
<1> QED
  BY <1>2, <1>3

LEMMA EndingsGood ==
    ASSUME NEW s \in Row, TurnOK(s)
    PROVE  Good(OnStopFailure(s)) /\ Good(OnSessionEnd(s))
BY SetStateGood DEF OnStopFailure, OnSessionEnd, State

----------------------------------------------------------------------------
\* Time and tick()

\* Ages grow together, so their order survives, and a rung reached by age is
\* not left by growing older.
LEMMA AgedGood ==
    ASSUME NEW s, Good(s)
    PROVE  Good(Aged(s))
<1>1. Aged(s) \in Row
  BY Ages DEF Good, Aged, Row
<1>2. /\ s.state_since \in Age /\ s.last_event \in Age /\ s.bg_seen \in Age
      /\ s.state_since <= Older(s.state_since)
      /\ Aged(s).state = s.state
      /\ Aged(s).state_since = Older(s.state_since)
      /\ Aged(s).last_event = Older(s.last_event)
      /\ Aged(s).bg_seen = Older(s.bg_seen)
      /\ Aged(s).turn_over = s.turn_over
      /\ Aged(s).bg_tasks = s.bg_tasks
  BY Ages DEF Good, Aged, Row
<1>3. TurnOK(Aged(s))
  BY <1>2 DEF Good, TurnOK
<1>4. StampsOK(Aged(s))
  BY <1>2, Ages DEF Good, StampsOK
<1>5. RungOK(Aged(s))
  BY <1>2, Ages, Thresholds DEF Good, RungOK, Age
<1> QED
  BY <1>1, <1>3, <1>4, <1>5 DEF Good

\* After the first stage no expired count is believed.
LEMMA RetiredGood ==
    ASSUME NEW s, Good(s)
    PROVE  /\ Good(Retired(s))
           /\ Retired(s).bg_tasks > 0 => Retired(s).bg_seen <= bg_quiet_s
           /\ Retired(s).last_event <= s.last_event
           /\ s.state # "end" => Retired(s).state # "end"
<1> DEFINE t == [s EXCEPT !.bg_tasks = 0, !.turn_over = FALSE]
<1>1. /\ Good(t) /\ t.bg_tasks = 0 /\ t.last_event = s.last_event
      /\ t.state = s.state
  BY DEF Good, Row, TurnOK, StampsOK, RungOK
<1>2. /\ Good(set_state(t, "idle"))
      /\ set_state(t, "idle").bg_tasks = 0
      /\ set_state(t, "idle").last_event = 0
      /\ set_state(t, "idle").state = "idle"
  <2> HIDE DEF t
  <2>1. t \in Row /\ TurnOK(t) /\ t.bg_tasks = 0
    BY <1>1 DEF Good
  <2>2. "idle" \in State \ {"held", "wait"}
    BY DEF State
  <2>3. Good(set_state(t, "idle"))
    BY <2>1, <2>2, SetStateGood
  <2> QED
    BY <2>1, <2>2, <2>3, SetStateFields
<1>3. s.bg_tasks \in Nat /\ s.bg_seen \in Age /\ s.last_event \in Age
  BY DEF Good, Row
<1> HIDE DEF t
<1>4. CASE s.bg_tasks > 0 /\ s.bg_seen > bg_quiet_s
  <2>1. Retired(s) = IF s.turn_over /\ s.state = "work"
                     THEN set_state(t, "idle") ELSE t
    BY <1>4 DEF Retired, t
  <2> QED
    BY <1>1, <1>2, <1>3, <2>1, Ages DEF Age
<1>5. CASE ~(s.bg_tasks > 0 /\ s.bg_seen > bg_quiet_s)
  BY <1>3, <1>5, Thresholds DEF Retired, Age
<1> QED
  BY <1>4, <1>5

\* What joining the ladder does to the fields the later stages look at.
LEMMA WantAttentionFields ==
    ASSUME NEW s \in Row, NEW agent \in AgentId
    PROVE  LET w == want_attention(s, agent) IN
           /\ w.last_event = 0
           /\ w.bg_tasks = s.bg_tasks
           /\ w.bg_seen = s.bg_seen
           /\ w.idle_held => s.idle_held
           /\ IF s.state \in ATTENTION_STATES
              THEN w.state = s.state /\ w.state_since = s.state_since
              ELSE w.state = "need" /\ w.state_since = 0
<1> DEFINE t == [s EXCEPT !.idle_held = FALSE, !.attn_agent = agent]
<1>1. /\ t \in Row
      /\ t.state = s.state /\ t.bg_tasks = s.bg_tasks /\ t.bg_seen = s.bg_seen
      /\ t.idle_held = FALSE
  BY DEF Row, AgentId
<1>2. CASE s.state \in ATTENTION_STATES
  BY <1>2 DEF want_attention, Heard, Row
<1>3. CASE s.state \notin ATTENTION_STATES
  <2>1. want_attention(s, agent) = set_state(t, "need")
    BY <1>3 DEF want_attention
  <2>2. s.state # "need" /\ "need" \in State
    BY <1>3 DEF ATTENTION_STATES, State
  <2> HIDE DEF t
  <2> QED
    BY <1>1, <1>3, <2>1, <2>2, SetStateFields
<1> QED
  BY <1>2, <1>3

\* An idle_prompt leaves the row on the ladder or soft, its age kept if it was
\* there and 0 if it was not.
LEMMA IdlePromptFields ==
    ASSUME NEW s \in Row, NEW agent \in AgentId
    PROVE  LET w == idle_prompt(s, agent) IN
           /\ w.last_event = 0
           /\ w.bg_tasks = s.bg_tasks
           /\ w.bg_seen = s.bg_seen
           /\ w.idle_held => s.idle_held
           /\ IF s.state \in ATTENTION_STATES \cup {"look"}
              THEN w.state = s.state /\ w.state_since = s.state_since
              ELSE w.state \in {"need", "look"} /\ w.state_since = 0
<1> DEFINE t == [s EXCEPT !.idle_held = FALSE, !.attn_agent = agent]
<1>1. /\ t \in Row
      /\ t.state = s.state /\ t.bg_tasks = s.bg_tasks /\ t.bg_seen = s.bg_seen
      /\ t.idle_held = FALSE
  BY DEF Row, AgentId
<1>2. CASE s.state \in ATTENTION_STATES \cup {"look"}
  BY <1>2 DEF idle_prompt, Heard, Row
<1>3. CASE s.state \notin ATTENTION_STATES \cup {"look"} /\ s.bg_other = 0
  BY <1>3, WantAttentionFields DEF idle_prompt
<1>4. CASE s.state \notin ATTENTION_STATES \cup {"look"} /\ s.bg_other # 0
  <2>1. idle_prompt(s, agent) = set_state(t, "look")
    BY <1>4 DEF idle_prompt
  <2>2. s.state # "look" /\ "look" \in State
    BY <1>4 DEF State
  <2> HIDE DEF t
  <2> QED
    BY <1>1, <1>4, <2>1, <2>2, SetStateFields
<1> QED
  BY <1>2, <1>3, <1>4

\* After the second stage no held idle_prompt waits for nothing, and a count
\* that was believed before is believed still.
LEMMA ReleasedGood ==
    ASSUME NEW s, Good(s), s.state # "end",
           s.bg_tasks > 0 => s.bg_seen <= bg_quiet_s
    PROVE  LET r == Released(s) IN
           /\ Good(r)
           /\ r.state # "end"
           /\ r.bg_tasks > 0 => r.bg_seen <= bg_quiet_s
           /\ r.idle_held => r.bg_tasks > 0
           /\ r.last_event \in {0, s.last_event}
<1> DEFINE t == [s EXCEPT !.idle_held = FALSE, !.idle_held_agent = Main]
           agent == s.idle_held_agent
<1>1. /\ t \in Row /\ TurnOK(t) /\ RungOK(t)
      /\ t.state = s.state /\ t.bg_tasks = s.bg_tasks /\ t.bg_seen = s.bg_seen
      /\ t.idle_held = FALSE
  BY DEF Good, Row, TurnOK, RungOK
<1>2. agent \in AgentId /\ s.bg_tasks \in Nat
  BY DEF Good, Row, AgentId
<1> HIDE DEF t, agent
<1>3. CASE s.idle_held /\ s.bg_tasks = 0
  <2>1. Released(s) = idle_prompt(t, agent)
    BY <1>3 DEF Released, t, agent
  <2>2. Good(idle_prompt(t, agent))
    BY <1>1, <1>2, IdlePromptGood
  <2>3. idle_prompt(t, agent).state # "end"
    BY <1>1, <1>2, IdlePromptFields DEF ATTENTION_STATES
  <2> QED
    BY <1>1, <1>2, <1>3, <2>1, <2>2, <2>3, IdlePromptFields
<1>4. CASE ~(s.idle_held /\ s.bg_tasks = 0)
  BY <1>2, <1>4 DEF Released
<1> QED
  BY <1>3, <1>4

\* The ladder's own stage keeps the age and lands on the rung of that age.
LEMMA DescendedGood ==
    ASSUME NEW s, Good(s), s.state \in {"need", "held"}
    PROVE  LET d == Descended(s) IN
           /\ Good(d)
           /\ d.state \in ATTENTION_STATES
           /\ d.state = "need" => d.state_since <= need_pulse_s
           /\ d.state = "held" => d.state_since <= need_red_s
           /\ d.last_event = s.last_event /\ d.bg_tasks = s.bg_tasks
           /\ d.bg_seen = s.bg_seen /\ d.idle_held = s.idle_held
<1>1. s.state_since \in Age /\ s \in Row
  BY DEF Good, Row
<1>2. CASE s.state_since > need_red_s
  BY <1>1, <1>2 DEF Descended, Good, Row, State, TurnOK, StampsOK, RungOK,
                     ATTENTION_STATES
<1>3. CASE s.state_since > need_pulse_s /\ s.state_since <= need_red_s
  <2>1. ~(s.state_since > need_red_s)
    BY <1>1, <1>3, Thresholds DEF Age
  <2> QED
    BY <1>1, <1>3, <2>1 DEF Descended, Good, Row, State, TurnOK, StampsOK, RungOK,
                            ATTENTION_STATES
<1>4. CASE s.state_since <= need_pulse_s
  <2>1. ~(s.state_since > need_red_s) /\ ~(s.state_since > need_pulse_s)
    BY <1>1, <1>4, Thresholds, LadderAssumption DEF Age
  <2>2. Descended(s) = s
    BY <2>1 DEF Descended
  <2>3. s.state_since <= need_red_s
    BY <1>1, <1>4, Thresholds, LadderAssumption DEF Age
  <2> QED
    BY <1>4, <2>2, <2>3 DEF ATTENTION_STATES
<1> QED
  BY <1>1, <1>2, <1>3, <1>4, Thresholds DEF Age

\* What the third stage needs of the first two.
Believed(s) == /\ s.state # "end"
               /\ s.last_event <= ghost_after_s
               /\ s.bg_tasks > 0 => s.bg_seen <= bg_quiet_s
               /\ s.idle_held => s.bg_tasks > 0

\* After the third stage no timer of the row's state has run out.
LEMMA TimedOutGood ==
    ASSUME NEW s, Good(s), Believed(s)
    PROVE  Good(TimedOut(s)) /\ SettledOK(TimedOut(s))
<1>1. /\ s \in Row /\ TurnOK(s) /\ RungOK(s)
      /\ s.state_since \in Age /\ s.last_event \in Age /\ s.state \in State
      /\ s.attn_agent \in AgentId
  BY DEF Good, Row, AgentId
<1>2. CASE s.state = "work" /\ s.last_event > stale_after_s
  <2> DEFINE new == IF s.turn_over THEN "idle" ELSE "stale"
  <2>1. TimedOut(s) = set_state(s, new)
    BY <1>2 DEF TimedOut
  <2>2. new \in State \ {"held", "wait"} /\ new \in {"idle", "stale"}
    BY DEF State
  <2> HIDE DEF new
  <2>3. /\ set_state(s, new).state = new
        /\ set_state(s, new).state_since = 0
        /\ set_state(s, new).last_event = 0
        /\ set_state(s, new).bg_tasks = s.bg_tasks
        /\ set_state(s, new).bg_seen = s.bg_seen
        /\ set_state(s, new).idle_held = s.idle_held
    BY <1>1, <1>2, <2>2, SetStateFields
  <2> QED
    BY <1>1, <2>1, <2>2, <2>3, SetStateGood, Thresholds DEF SettledOK, Believed
<1>3. CASE s.state = "idle" /\ s.state_since > idle_prompt_s
  <2>1. TimedOut(s) = idle_prompt(s, Main)
    BY <1>3 DEF TimedOut
  <2>2. Main \in AgentId
    BY DEF AgentId
  <2>3. /\ idle_prompt(s, Main).state \in {"need", "look"}
        /\ idle_prompt(s, Main).state_since = 0
        /\ idle_prompt(s, Main).last_event = 0
        /\ idle_prompt(s, Main).bg_tasks = s.bg_tasks
        /\ idle_prompt(s, Main).bg_seen = s.bg_seen
        /\ idle_prompt(s, Main).idle_held => s.idle_held
    BY <1>1, <1>3, <2>2, IdlePromptFields DEF ATTENTION_STATES
  <2> QED
    BY <1>1, <2>1, <2>2, <2>3, IdlePromptGood, Thresholds DEF SettledOK, Believed
<1>4. CASE s.state = "start" /\ s.last_event > idle_stale_s
  <2>1. TimedOut(s) = set_state(s, "stale")
    BY <1>4 DEF TimedOut
  <2>2. "stale" \in State \ {"held", "wait"}
    BY DEF State
  <2>3. /\ set_state(s, "stale").state = "stale"
        /\ set_state(s, "stale").last_event = 0
        /\ set_state(s, "stale").bg_tasks = s.bg_tasks
        /\ set_state(s, "stale").bg_seen = s.bg_seen
        /\ set_state(s, "stale").idle_held = s.idle_held
    BY <1>1, <2>2, SetStateFields
  <2> QED
    BY <1>1, <2>1, <2>2, <2>3, SetStateGood, Thresholds DEF SettledOK, Believed
<1>5. CASE s.state = "look" /\ s.state_since > look_s
  <2> DEFINE w == want_attention(s, s.attn_agent)
  <2>1. TimedOut(s) = w
    BY <1>5 DEF TimedOut
  <2>2. /\ w.state = "need" /\ w.state_since = 0 /\ w.last_event = 0
        /\ w.bg_tasks = s.bg_tasks /\ w.bg_seen = s.bg_seen
        /\ w.idle_held => s.idle_held
    BY <1>1, <1>5, WantAttentionFields DEF ATTENTION_STATES
  <2>3. Good(w)
    BY <1>1, WantAttentionGood
  <2> HIDE DEF w
  <2> QED
    BY <2>1, <2>2, <2>3, Thresholds DEF SettledOK, Believed
<1>6. CASE s.state \in {"need", "held"}
  <2>1. TimedOut(s) = Descended(s)
    BY <1>6 DEF TimedOut
  <2> QED
    BY <1>6, <2>1, DescendedGood DEF SettledOK, Believed, ATTENTION_STATES
<1>7. CASE ~ \/ s.state = "work" /\ s.last_event > stale_after_s
             \/ s.state = "idle" /\ s.state_since > idle_prompt_s
             \/ s.state = "start" /\ s.last_event > idle_stale_s
             \/ s.state = "look" /\ s.state_since > look_s
             \/ s.state \in {"need", "held"}
  <2>1. TimedOut(s) = s
    BY <1>7 DEF TimedOut
  <2> QED
    BY <1>1, <1>7, <2>1, Thresholds DEF SettledOK, Believed, Age
<1> QED
  BY <1>2, <1>3, <1>4, <1>5, <1>6, <1>7

\* One pass of tick() over a row that stays leaves it Good and settled.
LEMMA SettledGood ==
    ASSUME NEW s, Good(s), ~Dropped(s)
    PROVE  Good(Settled(s)) /\ SettledOK(Settled(s))
<1>1. s.state_since \in Age /\ s.last_event \in Age
  BY DEF Good, Row
<1>2. CASE s.state = "end"
  <2>1. Settled(s) = s /\ s.state_since <= ended_grace_s
    BY <1>1, <1>2, Thresholds DEF Settled, Dropped, Age
  <2> QED
    BY <1>2, <2>1 DEF SettledOK
<1>3. CASE s.state # "end"
  <2> DEFINE r == Retired(s)
  <2>1. /\ Good(r) /\ r.state # "end" /\ r.last_event <= s.last_event
        /\ r.bg_tasks > 0 => r.bg_seen <= bg_quiet_s
    BY <1>3, RetiredGood
  <2>2. s.last_event <= ghost_after_s
    BY <1>1, <1>3, Thresholds DEF Dropped, Age
  <2>3. r.last_event \in Age
    BY <2>1 DEF Good, Row
  <2> HIDE DEF r
  <2>4. Good(Released(r)) /\ Believed(Released(r))
    BY <1>1, <2>1, <2>2, <2>3, ReleasedGood, Thresholds DEF Believed, Age
  <2>5. Settled(s) = TimedOut(Released(r))
    BY <1>3 DEF Settled, r
  <2> QED
    BY <2>4, <2>5, TimedOutGood
<1> QED
  BY <1>2, <1>3

----------------------------------------------------------------------------
\* A row that asks for a human, or holds a notice that will, goes on doing so
\* through everything that is not the answer.

Calling(s) == s.state \in ATTENTION_STATES \cup {"look"} \/ s.idle_held

LEMMA HeardCalls ==
    ASSUME NEW s \in Row, Calling(s)
    PROVE  Calling(Heard(s))
BY DEF Calling, Heard, Row

LEMMA AgedCalls ==
    ASSUME NEW s \in Row, Calling(s)
    PROVE  Calling(Aged(s))
BY DEF Calling, Aged, Row

\* A notice that is held is held in every state.
LEMMA HeldCalls ==
    ASSUME NEW s \in Row, s.idle_held, NEW new \in State
    PROVE  Calling(set_state(s, new))
BY DEF Calling, set_state, Row

LEMMA AskCalls ==
    ASSUME NEW s \in Row, NEW agent \in AgentId
    PROVE  Calling(want_attention(s, agent)) /\ Calling(idle_prompt(s, agent))
BY WantAttentionFields, IdlePromptFields DEF Calling, ATTENTION_STATES

LEMMA RetiredCalls ==
    ASSUME NEW s, Good(s), Calling(s)
    PROVE  Calling(Retired(s))
<1> DEFINE t == [s EXCEPT !.bg_tasks = 0, !.turn_over = FALSE]
<1>1. t \in Row /\ t.state = s.state /\ t.idle_held = s.idle_held
  BY DEF Good, Row
<1>2. Calling(t)
  BY <1>1 DEF Calling
<1>3. s.state = "work" => s.idle_held
  BY DEF Calling, ATTENTION_STATES
<1>4. Retired(s) \in {s, t} \/ (s.state = "work" /\ Retired(s) = set_state(t, "idle"))
  BY DEF Retired
<1> HIDE DEF t
<1>5. s.state = "work" => Calling(set_state(t, "idle"))
  BY <1>1, <1>3, HeldCalls DEF State
<1> QED
  BY <1>2, <1>4, <1>5

LEMMA ReleasedCalls ==
    ASSUME NEW s, Good(s), Calling(s)
    PROVE  Calling(Released(s))
<1> DEFINE t == [s EXCEPT !.idle_held = FALSE, !.idle_held_agent = Main]
<1>1. t \in Row /\ s.idle_held_agent \in AgentId
  BY DEF Good, Row, AgentId
<1>2. Released(s) = s \/ Released(s) = idle_prompt(t, s.idle_held_agent)
  BY DEF Released
<1> HIDE DEF t
<1> QED
  BY <1>1, <1>2, AskCalls

LEMMA TimedOutCalls ==
    ASSUME NEW s, Good(s), Calling(s)
    PROVE  Calling(TimedOut(s))
<1>1. s \in Row /\ s.attn_agent \in AgentId /\ Main \in AgentId /\ s.state \in State
  BY DEF Good, Row, AgentId
<1>2. CASE s.state \in {"work", "start"}
  <2>1. s.idle_held
    BY <1>2 DEF Calling, ATTENTION_STATES
  <2>2. TimedOut(s) = s \/ \E new \in State : TimedOut(s) = set_state(s, new)
    BY <1>2 DEF TimedOut, State
  <2> QED
    BY <1>1, <2>1, <2>2, HeldCalls
<1>3. CASE s.state = "idle"
  <2>1. TimedOut(s) = s \/ TimedOut(s) = idle_prompt(s, Main)
    BY <1>3 DEF TimedOut
  <2> QED
    BY <1>1, <2>1, AskCalls
<1>4. CASE s.state = "look"
  <2>1. TimedOut(s) = s \/ TimedOut(s) = want_attention(s, s.attn_agent)
    BY <1>4 DEF TimedOut
  <2> QED
    BY <1>1, <2>1, AskCalls
<1>5. CASE s.state \in {"need", "held"}
  <2>1. TimedOut(s) = Descended(s)
    BY <1>5 DEF TimedOut
  <2>2. Descended(s).state \in ATTENTION_STATES
    BY <1>5, DescendedGood
  <2> QED
    BY <2>1, <2>2 DEF Calling
<1>6. CASE s.state \notin {"work", "start", "idle", "look", "need", "held"}
  BY <1>6 DEF TimedOut
<1> QED
  BY <1>2, <1>3, <1>4, <1>5, <1>6

\* tick() silences nobody.
LEMMA SettledCalls ==
    ASSUME NEW s, Good(s), Calling(s), ~Dropped(s)
    PROVE  Calling(Settled(s))
<1>1. CASE s.state = "end"
  BY <1>1 DEF Settled
<1>2. CASE s.state # "end"
  <2> DEFINE r == Retired(s)
             l == Released(r)
  <2>1. Good(r) /\ r.state # "end" /\ (r.bg_tasks > 0 => r.bg_seen <= bg_quiet_s) /\ Calling(r)
    BY <1>2, RetiredGood, RetiredCalls
  <2> HIDE DEF r
  <2>2. Good(l) /\ Calling(l)
    BY <2>1, ReleasedGood, ReleasedCalls
  <2>3. Settled(s) = TimedOut(l)
    BY <1>2 DEF Settled, r
  <2> HIDE DEF l
  <2> QED
    BY <2>2, <2>3, TimedOutCalls
<1> QED
  BY <1>1, <1>2

----------------------------------------------------------------------------
\* The table

IInv == /\ DOMAIN sessions \subseteq Sid
        /\ sessions = [sid \in DOMAIN sessions |-> sessions[sid]]
        /\ \A sid \in DOMAIN sessions : Good(sessions[sid])
        /\ published \in BOOLEAN
        /\ PublishedIsSettled

LEMMA HeaderFields ==
    ASSUME NEW h \in Header
    PROVE  /\ h.sid \in Sid
           /\ h.cwd \in Label \cup {NoLabel}
           /\ h.agent \in AgentId
           /\ h.proc \in Proc \cup {NoProc}
BY PayloadAssumption DEF Header, AgentId

LEMMA GetOrCreateGood ==
    ASSUME IInv, NEW sid \in Sid, NEW cwd \in Label \cup {NoLabel}
    PROVE  Good(GetOrCreate(sid, cwd))
<1>1. CASE sid \notin DOMAIN sessions
  BY <1>1, NewSessionGood DEF GetOrCreate
<1>2. CASE sid \in DOMAIN sessions
  <2> DEFINE s == sessions[sid]
  <2>1. Good(s)
    BY <1>2 DEF IInv
  <2> HIDE DEF s
  <2>2. Good([s EXCEPT !.label = cwd])
    BY <2>1 DEF Good, Row, TurnOK, StampsOK, RungOK
  <2> QED
    BY <1>2, <2>1, <2>2 DEF GetOrCreate, s
<1> QED
  BY <1>1, <1>2

\* The row a handler starts from satisfies all of Good but its stamps.
LEMMA BeforeGood ==
    ASSUME IInv, NEW h \in Header, NEW starting \in BOOLEAN
    PROVE  /\ Before(h, starting) \in Row
           /\ TurnOK(Before(h, starting))
           /\ RungOK(Before(h, starting))
<1> DEFINE s == GetOrCreate(h.sid, h.cwd)
<1>1. Good(s)
  BY HeaderFields, GetOrCreateGood
<1> HIDE DEF s
<1> QED
  BY <1>1, HeaderFields, ArrivedGood DEF Before, s

\* Putting a Good row into the table, unpublished, keeps the invariant.
LEMMA PutKeeps ==
    ASSUME IInv, NEW sid \in Sid, NEW row, Good(row),
           sessions' = Put(sid, row), published' = FALSE
    PROVE  IInv'
BY DEF IInv, Put, PublishedIsSettled

LEMMA ApplyKeeps ==
    ASSUME IInv, NEW h \in Header, NEW row, Good(row), Apply(h, row)
    PROVE  IInv'
BY PutKeeps, HeaderFields DEF Apply

----------------------------------------------------------------------------
\* Every action keeps the invariant

LEMMA InitEstablishes == Init => IInv
BY DEF Init, IInv, PublishedIsSettled

LEMMA HookKeeps ==
    ASSUME IInv, Hook
    PROVE  IInv'
<1> FromMain \subseteq Header /\ FromSubagent \subseteq Header
  BY DEF FromMain, FromSubagent
<1>1. CASE \E h \in FromMain : SessionStart(h)
  BY <1>1, BeforeGood, SessionStartGood, ApplyKeeps DEF SessionStart
<1>2. CASE \E h \in FromMain : UserPromptSubmit(h)
  BY <1>2, BeforeGood, UserPromptSubmitGood, ApplyKeeps DEF UserPromptSubmit
<1>3. CASE \E h \in Header : ToolEvent(h)
  BY <1>3, BeforeGood, ActivityGood, HeaderFields, ApplyKeeps DEF ToolEvent, OnTool
<1>4. CASE \E h \in Header : PermissionRequest(h)
  BY <1>4, BeforeGood, WantAttentionGood, HeaderFields, ApplyKeeps
     DEF PermissionRequest, OnPermissionRequest
<1>5. CASE \E h \in Header, notice \in Notice : Notification(h, notice)
  BY <1>5, BeforeGood, NotificationGood, HeaderFields, ApplyKeeps DEF Notification
<1>6. CASE \E h \in FromMain, list \in Lists : Stop(h, list)
  BY <1>6, BeforeGood, StopGood, PayloadAssumption, ApplyKeeps DEF Stop
<1>7. CASE \E h \in FromSubagent, list \in Lists : SubagentStop(h, TRUE, list)
  BY <1>7, BeforeGood, SubagentStopGood, PayloadAssumption, HeaderFields, ApplyKeeps
     DEF SubagentStop
<1>8. CASE \E h \in FromSubagent : SubagentStop(h, FALSE, {})
  BY <1>8, BeforeGood, SubagentStopGood, FS_EmptySet, HeaderFields, ApplyKeeps
     DEF SubagentStop
<1>9. CASE \E h \in FromMain : StopFailure(h)
  BY <1>9, BeforeGood, EndingsGood, ApplyKeeps DEF StopFailure
<1>10. CASE \E h \in FromMain : SessionEnd(h)
  BY <1>10, BeforeGood, EndingsGood, ApplyKeeps DEF SessionEnd
<1>11. CASE \E h \in Header : OtherEvent(h)
  BY <1>11, BeforeGood, HeardGood, ApplyKeeps DEF OtherEvent
<1> QED
  BY <1>1, <1>2, <1>3, <1>4, <1>5, <1>6, <1>7, <1>8, <1>9, <1>10, <1>11 DEF Hook

\* Ending a row that is there, at the request of the process check or a human.
LEMMA EndingKeeps ==
    ASSUME IInv, NEW sid \in Live,
           sessions' = Put(sid, set_state(sessions[sid], "end")), published' = FALSE
    PROVE  IInv'
<1>1. sid \in Sid /\ Good(sessions[sid])
  BY DEF IInv, Live
<1>2. Good(set_state(sessions[sid], "end"))
  BY <1>1, SetStateGood DEF State, Good
<1> QED
  BY <1>1, <1>2, PutKeeps

LEMMA TickKeeps ==
    ASSUME IInv, Tick
    PROVE  IInv'
<1>1. \A sid \in DOMAIN sessions' :
         /\ sid \in DOMAIN sessions
         /\ ~Dropped(sessions[sid])
         /\ sessions'[sid] = Settled(sessions[sid])
  BY DEF Tick
<1>2. \A sid \in DOMAIN sessions' :
         Good(sessions'[sid]) /\ SettledOK(sessions'[sid])
  BY <1>1, SettledGood DEF IInv
<1>3. sessions' = [sid \in DOMAIN sessions' |-> sessions'[sid]]
  BY DEF Tick
<1> QED
  BY <1>1, <1>2, <1>3 DEF IInv, PublishedIsSettled, Tick

LEMMA AdvanceKeeps ==
    ASSUME IInv, Advance
    PROVE  IInv'
BY AgedGood DEF IInv, Advance, PublishedIsSettled

\* The invariant is inductive.
LEMMA NextKeeps == IInv /\ [Next]_vars => IInv'
<1> SUFFICES ASSUME IInv, [Next]_vars
             PROVE  IInv'
  OBVIOUS
<1>1. CASE Hook
  BY <1>1, HookKeeps
<1>2. CASE \E sid \in Sid, cwd \in Cwd : Status(sid, cwd)
  BY <1>2, GetOrCreateGood, PutKeeps, PayloadAssumption DEF Status
<1>3. CASE \E sid \in Sid : ProcessGone(sid)
  BY <1>3, EndingKeeps DEF ProcessGone
<1>4. CASE \E key \in Key : Forget(key)
  BY <1>4, EndingKeeps DEF Forget
<1>5. CASE Tick
  BY <1>5, TickKeeps
<1>6. CASE Advance
  BY <1>6, AdvanceKeeps
<1>7. CASE UNCHANGED vars
  BY <1>7 DEF IInv, vars, PublishedIsSettled
<1> QED
  BY <1>1, <1>2, <1>3, <1>4, <1>5, <1>6, <1>7 DEF Next

LEMMA Invariance == Spec => []IInv
BY InitEstablishes, NextKeeps, PTL DEF Spec

----------------------------------------------------------------------------
\* The theorems

\* The session table is always well typed: ids map to rows, counts never go
\* below zero, ages stay within the horizon (SessionStore, state.py).
THEOREM TypeCorrect == Spec => []TypeOK
<1>1. IInv => TypeOK
  BY DEF IInv, TypeOK, Good
<1> QED
  BY <1>1, Invariance, PTL

\* No row waits for subagents after none is left, whatever the order of hooks,
\* recounts, ticks and gaps between them (OnStop, Recounted, Retired).
THEOREM TurnsAreClosed == Spec => []TurnOverHasWork
<1>1. IInv => TurnOverHasWork
  BY DEF IInv, Good, TurnOverHasWork
<1> QED
  BY <1>1, Invariance, PTL

\* Whatever is recorded of a row renews last_event, through every order of hooks that
\* confirm a count without a change of state (set_state, apply_event).
THEOREM LastEventIsNewest == Spec => []StampsAgree
<1>1. IInv => StampsAgree
  BY DEF IInv, Good, StampsAgree
<1> QED
  BY <1>1, Invariance, PTL

\* A lower rung of the ladder is reached by age only (the elif chain of tick).
THEOREM RungsByAge == Spec => []RungNotEarly
<1>1. IInv => RungNotEarly
  BY DEF IInv, Good, RungNotEarly
<1> QED
  BY <1>1, Invariance, PTL

\* Every snapshot is taken of settled rows: one pass of tick() leaves no timer
\* of any state expired, however long the daemon or the machine was asleep.
THEOREM TickSettles == Spec => []PublishedIsSettled
<1>1. IInv => PublishedIsSettled
  BY DEF IInv
<1> QED
  BY <1>1, Invariance, PTL

\* A row that is on the ladder is found where it is, not created.
LEMMA BeforeOnLadder ==
    ASSUME IInv, NEW sid \in Live, sessions[sid].state \in ATTENTION_STATES,
           NEW h \in Header, h.sid = sid
    PROVE  LET s == sessions[sid]  b == Before(h, FALSE) IN
           /\ b \in Row
           /\ b.state = s.state
           /\ b.state_since = s.state_since
           /\ b.attn_agent = s.attn_agent
<1> DEFINE s == sessions[sid]
           g == GetOrCreate(h.sid, h.cwd)
<1>1. sid \in DOMAIN sessions /\ s \in Row
  BY DEF Live, IInv, Good
<1> HIDE DEF s
<1>2. g \in {s, [s EXCEPT !.label = h.cwd]}
  BY <1>1 DEF GetOrCreate, s
<1> HIDE DEF g
<1>3. /\ g.state = s.state /\ g.state_since = s.state_since
      /\ g.attn_agent = s.attn_agent /\ g \in Row
  BY <1>1, <1>2, HeaderFields DEF Row
<1>4. LET b == Arrived(g, FALSE, h.agent, h.proc) IN
        b.state = g.state /\ b.state_since = g.state_since
        /\ b.attn_agent = g.attn_agent
  BY <1>3 DEF Arrived, Row
<1> QED
  BY <1>3, <1>4, BeforeGood DEF Before, g, s

\* Only the agent that raised a prompt ends the wait with a tool event, and no
\* other agent's tools, requests or notices touch the rung, its age or whose it
\* is: for every set of agents and every interleaving.
THEOREM WaitLeftAlone == Spec => OthersLeaveTheWait
<1> DEFINE Leaves(sid) ==
        LET s == sessions[sid] IN
        s.state \in ATTENTION_STATES =>
            \A h \in {g \in Header : g.sid = sid /\ g.agent # s.attn_agent} :
                \/ ToolEvent(h) \/ PermissionRequest(h) \/ OtherEvent(h)
                \/ \E notice \in Notice : Notification(h, notice)
                =>  /\ sessions'[sid].state = s.state
                    /\ sessions'[sid].state_since = s.state_since
                    /\ sessions'[sid].attn_agent = s.attn_agent
<1>1. ASSUME IInv, NEW sid \in Live
      PROVE  Leaves(sid)
  <2> SUFFICES ASSUME sessions[sid].state \in ATTENTION_STATES,
                      NEW h \in Header, h.sid = sid,
                      h.agent # sessions[sid].attn_agent,
                      \/ ToolEvent(h) \/ PermissionRequest(h) \/ OtherEvent(h)
                      \/ \E notice \in Notice : Notification(h, notice)
               PROVE  /\ sessions'[sid].state = sessions[sid].state
                      /\ sessions'[sid].state_since = sessions[sid].state_since
                      /\ sessions'[sid].attn_agent = sessions[sid].attn_agent
    OBVIOUS
  <2> DEFINE s == sessions[sid]
             b == Before(h, FALSE)
             Same(r) == /\ r.state = s.state
                        /\ r.state_since = s.state_since
                        /\ r.attn_agent = s.attn_agent
  <2>1. b \in Row /\ Same(b)
    BY <1>1, BeforeOnLadder
  <2>2. b.state \in ATTENTION_STATES /\ h.agent # b.attn_agent
    BY <2>1
  <2>3. \A row : Apply(h, row) /\ Same(row) => Same(sessions'[sid])
    BY DEF Apply, Put
  <2> HIDE DEF b
  <2>4. Same(Heard(b))
    BY <2>1 DEF Heard, Row
  <2>5. Same(activity(b, h.agent))
    BY <2>1, <2>2 DEF activity, Heard, Row
  <2>6. Same(want_attention(b, h.agent)) /\ Same(idle_prompt(b, h.agent))
    BY <2>2, <2>4 DEF want_attention, idle_prompt
  <2>7. \A notice \in Notice : Same(OnNotification(b, h.agent, notice))
    <3>1. Same(Heard([b EXCEPT !.idle_held = TRUE, !.idle_held_agent = h.agent]))
      BY <2>1 DEF Heard, Row
    <3>2. b.bg_tasks > 0 \/ b.bg_tasks = 0
      BY <2>1 DEF Row
    <3> QED
      BY <2>4, <2>6, <3>1, <3>2 DEF OnNotification
  <2> HIDE DEF Same
  <2>8. Same(sessions'[sid])
    BY <2>3, <2>4, <2>5, <2>6, <2>7
       DEF ToolEvent, OnTool, PermissionRequest, OnPermissionRequest, OtherEvent,
           Notification, b
  <2> QED
    BY <2>8 DEF Same
<1>2. IInv => \A sid \in Live : Leaves(sid)
  BY <1>1
<1>3. IInv /\ [Next]_vars => [\A sid \in Live : Leaves(sid)]_vars
  BY <1>2
<1> QED
  BY <1>3, Invariance, PTL DEF Spec, OthersLeaveTheWait
=============================================================================
