--------------------------- MODULE WaitWatchProofs ---------------------------
(***************************************************************************)
(* That an ask is never lost by accident, for any number of sessions and   *)
(* agents and any thresholds.                                              *)
(*                                                                         *)
(* The steps of the watched table are steps of the table, so its           *)
(* invariant (SessionStoreProofs) holds here too.  On top of it a session  *)
(* in asked has a row that is Calling; one lemma for each handler shows    *)
(* that a row which goes on being asked goes on Calling, and that tick()   *)
(* silences nobody is a lemma about rows (SettledCalls).                   *)
(***************************************************************************)
EXTENDS WaitWatch, SessionStoreProofs

AskedCall == \A sid \in asked : sid \in DOMAIN sessions /\ Calling(sessions[sid])

WInv == IInv /\ AskedCall

\* The row a handler starts from asks if the one that is there does.
LEMMA BeforeCalls ==
    ASSUME IInv, NEW h \in Header, h.sid \in DOMAIN sessions, NEW starting \in BOOLEAN
    PROVE  LET b == Before(h, starting) IN
           /\ b.state = sessions[h.sid].state /\ b.idle_held = sessions[h.sid].idle_held
           /\ Calling(sessions[h.sid]) => Calling(b)
<1> DEFINE s == sessions[h.sid]
           g == GetOrCreate(h.sid, h.cwd)
<1>1. s \in Row
  BY DEF IInv, Good
<1> HIDE DEF s
<1>2. g \in {s, [s EXCEPT !.label = h.cwd]}
  BY DEF GetOrCreate, s
<1> HIDE DEF g
<1>3. g \in Row /\ g.state = s.state /\ g.idle_held = s.idle_held
  BY <1>1, <1>2, HeaderFields DEF Row
<1>4. LET b == Arrived(g, starting, h.agent, h.proc) IN
        b.state = g.state /\ b.idle_held = g.idle_held
  BY <1>3 DEF Arrived, Row
<1> QED
  BY <1>3, <1>4 DEF Before, Calling, g, s

\* A row put into the table leaves the others as they are.
LEMMA PutCalls ==
    ASSUME AskedCall, NEW sid, NEW row, sessions' = Put(sid, row),
           asked' \subseteq asked \cup {sid}, sid \in asked' => Calling(row)
    PROVE  AskedCall'
BY DEF AskedCall, Put

LEMMA WatchKeeps ==
    ASSUME NEW sid, NEW a \in BOOLEAN, NEW p \in BOOLEAN, Watch(sid, a, p)
    PROVE  asked' \subseteq asked \cup {sid} /\ (sid \in asked' <=> a)
BY DEF Watch

LEMMA AskCalled ==
    ASSUME WInv, NEW h \in Header, Ask(h)
    PROVE  AskedCall'
<1> DEFINE b == Before(h, FALSE)
<1>1. b \in Row /\ h.agent \in AgentId
  BY BeforeGood, HeaderFields DEF WInv
<1> HIDE DEF b
<1>2. PICK row \in {want_attention(b, h.agent)}
                   \cup {OnNotification(b, h.agent, notice) : notice \in ATTENTION_NOTIFICATIONS} :
        Apply(h, row)
  BY DEF Ask, PermissionRequest, OnPermissionRequest, Notification, b
<1>3. Calling(want_attention(b, h.agent)) /\ Calling(idle_prompt(b, h.agent))
  BY <1>1, AskCalls
<1>4. Calling(Heard([b EXCEPT !.idle_held = TRUE, !.idle_held_agent = h.agent]))
  BY <1>1 DEF Calling, Heard, Row
<1>5. \A notice \in ATTENTION_NOTIFICATIONS : Calling(OnNotification(b, h.agent, notice))
  <2>1. b.bg_tasks > 0 \/ b.bg_tasks = 0
    BY <1>1 DEF Row
  <2> QED
    BY <1>3, <1>4, <2>1 DEF OnNotification
<1>6. Calling(row)
  BY <1>2, <1>3, <1>5
<1>7. sessions' = Put(h.sid, row) /\ asked' \subseteq asked \cup {h.sid}
  BY <1>2 DEF Apply, Ask, Watch
<1> QED
  BY <1>6, <1>7, PutCalls DEF WInv

LEMMA NewTurnCalled ==
    ASSUME WInv, NEW h \in Header,
           NewTurn(h) \/ (\E list \in Lists : EndOfTurn(h, list))
    PROVE  AskedCall'
<1>1. asked' = asked \ {h.sid} /\ \E row : sessions' = Put(h.sid, row)
  BY DEF NewTurn, EndOfTurn, Watch, SessionStart, UserPromptSubmit, StopFailure, SessionEnd,
         Stop, Apply
<1> QED
  BY <1>1, PutCalls DEF WInv

LEMMA ToolHeardCalled ==
    ASSUME WInv, NEW h \in Header, ToolHeard(h)
    PROVE  AskedCall'
<1> DEFINE b == Before(h, FALSE)
           t == IF h.agent = Main
                THEN [b EXCEPT !.turn_over = FALSE, !.idle_held = FALSE]
                ELSE b
<1>1. b \in Row /\ h.agent \in AgentId
  BY BeforeGood, HeaderFields DEF WInv
<1>2. sessions' = Put(h.sid, activity(b, h.agent))
  BY DEF ToolHeard, ToolEvent, OnTool, Apply
<1>3. /\ asked' \subseteq asked \cup {h.sid}
      /\ h.sid \in asked' =>
            /\ h.sid \in asked /\ b.state # "look"
            /\ b.state \in ATTENTION_STATES \cup {"look"} => h.agent # b.attn_agent
            /\ b.state \notin ATTENTION_STATES => h.agent # Main
  BY DEF ToolHeard, Watch
<1> SUFFICES ASSUME h.sid \in asked' PROVE Calling(activity(b, h.agent))
  BY <1>2, <1>3, PutCalls DEF WInv
<1>4. Calling(b)
  BY <1>3, BeforeCalls DEF WInv, AskedCall
<1> HIDE DEF b
<1>5. CASE b.state \in ATTENTION_STATES
  <2>1. t \in Row /\ t.state = b.state /\ t.attn_agent = b.attn_agent
    BY <1>1 DEF Row
  <2>2. activity(b, h.agent) = Heard(t)
    BY <1>3, <1>5, <2>1 DEF activity
  <2>3. Calling(t)
    BY <1>5, <2>1 DEF Calling
  <2> HIDE DEF t
  <2> QED
    BY <2>1, <2>2, <2>3, HeardCalls
<1>6. CASE b.state \notin ATTENTION_STATES
  <2>1. h.agent # Main /\ b.idle_held
    BY <1>3, <1>4, <1>6 DEF Calling
  <2>2. activity(b, h.agent) = set_state(b, "work")
    BY <1>6, <2>1 DEF activity
  <2> QED
    BY <1>1, <2>1, <2>2, HeldCalls DEF State
<1> QED
  BY <1>5, <1>6

LEMMA SubagentDoneCalled ==
    ASSUME WInv, NEW h \in Header, NEW listed \in BOOLEAN, NEW list, IsFiniteSet(list),
           SubagentDone(h, listed, list)
    PROVE  AskedCall'
<1> DEFINE b == Before(h, FALSE)
           t == Recounted(b, h.agent, listed, list)
<1>1. b \in Row /\ h.agent \in AgentId
  BY BeforeGood, HeaderFields DEF WInv
<1>2. sessions' = Put(h.sid, OnSubagentStop(b, h.agent, listed, list))
  BY DEF SubagentDone, SubagentStop, Apply
<1>3. /\ asked' \subseteq asked \cup {h.sid}
      /\ h.sid \in asked' => h.sid \in asked /\ ~(t.turn_over /\ t.bg_tasks = 0)
  BY DEF SubagentDone, Watch
<1> SUFFICES ASSUME h.sid \in asked' PROVE Calling(OnSubagentStop(b, h.agent, listed, list))
  BY <1>2, <1>3, PutCalls DEF WInv
<1>4. Calling(b)
  BY <1>3, BeforeCalls DEF WInv, AskedCall
<1> HIDE DEF b
<1>5. t \in Row
  BY <1>1, RecountedRow
<1>6. t.state = b.state /\ t.idle_held = b.idle_held
  BY <1>1 DEF Recounted, Row
<1>7. OnSubagentStop(b, h.agent, listed, list) = Heard(t)
  BY <1>3 DEF OnSubagentStop
<1> HIDE DEF t
<1> QED
  BY <1>4, <1>5, <1>6, <1>7, HeardCalls DEF Calling

LEMMA NothingAskedCalled ==
    ASSUME WInv, NEW h \in Header, NothingAsked(h)
    PROVE  AskedCall'
<1> DEFINE b == Before(h, FALSE)
<1>1. b \in Row
  BY BeforeGood DEF WInv
<1>2. sessions' = Put(h.sid, Heard(b)) /\ asked' = asked
  BY DEF NothingAsked, OtherEvent, Notification, OnNotification, ATTENTION_NOTIFICATIONS, Apply,
         history
<1>3. h.sid \in asked => Calling(b)
  BY BeforeCalls DEF WInv, AskedCall
<1> HIDE DEF b
<1> QED
  BY <1>1, <1>2, <1>3, HeardCalls, PutCalls DEF WInv

LEMMA StatusSeenCalled ==
    ASSUME WInv, NEW sid \in Sid, NEW cwd \in Cwd, StatusSeen(sid, cwd)
    PROVE  AskedCall'
<1>1. sessions' = Put(sid, GetOrCreate(sid, cwd)) /\ asked' = asked
  BY DEF StatusSeen, Status, history
<1>2. sid \in asked => Calling(GetOrCreate(sid, cwd))
  <2> SUFFICES ASSUME sid \in asked PROVE Calling(GetOrCreate(sid, cwd))
    OBVIOUS
  <2> DEFINE s == sessions[sid]
  <2>1. sid \in DOMAIN sessions /\ Calling(s) /\ s \in Row
    BY DEF WInv, AskedCall, IInv, Good
  <2>2. GetOrCreate(sid, cwd) \in {s, [s EXCEPT !.label = cwd]}
    BY <2>1 DEF GetOrCreate
  <2> HIDE DEF s
  <2> QED
    BY <2>1, <2>2 DEF Calling, Row
<1> QED
  BY <1>1, <1>2, PutCalls DEF WInv

LEMMA EndedCalled ==
    ASSUME WInv, EndedFromOutside
    PROVE  AskedCall'
<1>1. PICK sid \in Live : sessions' = Put(sid, set_state(sessions[sid], "end"))
  BY DEF EndedFromOutside, ProcessGone, Forget
<1>2. sessions'[sid].state = "end"
  <2>1. sessions[sid] \in Row
    BY DEF WInv, IInv, Good, Live
  <2> QED
    BY <1>1, <2>1, SetStateFields DEF Put, State
<1>3. asked' \subseteq asked \ {sid}
  BY <1>2 DEF EndedFromOutside
<1> QED
  BY <1>1, <1>3, PutCalls DEF WInv

LEMMA TickedCalled ==
    ASSUME WInv, Ticked
    PROVE  AskedCall'
<1>1. \A sid \in asked' : /\ sid \in asked /\ sid \in DOMAIN sessions'
                          /\ ~Dropped(sessions[sid])
                          /\ sessions'[sid] = Settled(sessions[sid])
  BY DEF Ticked, Tick
<1> QED
  BY <1>1, SettledCalls DEF WInv, AskedCall, IInv

LEMMA TimePassesCalled ==
    ASSUME WInv, TimePasses
    PROVE  AskedCall'
BY AgedCalls DEF WInv, AskedCall, IInv, Good, TimePasses, Advance, history

----------------------------------------------------------------------------
\* Every step of the watched table is a step of the table.
LEMMA WatchedIsTable == WatchNext => Next
<1> /\ FromMain \subseteq Header /\ FromSubagent \subseteq Header
    /\ ATTENTION_NOTIFICATIONS \subseteq Notice /\ "auth_success" \in Notice
  BY DEF FromMain, FromSubagent, Notice
<1>1. ASSUME NEW h \in Header, Ask(h) \/ ToolHeard(h) \/ NothingAsked(h)
      PROVE  Hook
  BY <1>1 DEF Ask, ToolHeard, NothingAsked, Hook
<1>2. ASSUME NEW h \in FromMain, NewTurn(h) \/ (\E list \in Lists : EndOfTurn(h, list))
      PROVE  Hook
  BY <1>2 DEF NewTurn, EndOfTurn, Hook
<1>3. ASSUME NEW h \in FromSubagent,
             SubagentDone(h, FALSE, {}) \/ (\E list \in Lists : SubagentDone(h, TRUE, list))
      PROVE  Hook
  BY <1>3 DEF SubagentDone, Hook
<1> QED
  BY <1>1, <1>2, <1>3 DEF WatchNext, Next, StatusSeen, EndedFromOutside, Ticked, TimePasses

LEMMA WatchInvariant == WInv /\ [WatchNext]_<<vars, history>> => WInv'
<1> SUFFICES ASSUME WInv, [WatchNext]_<<vars, history>> PROVE WInv'
  OBVIOUS
<1>1. IInv'
  BY WatchedIsTable, NextKeeps DEF WInv
<1>2. ASSUME UNCHANGED <<vars, history>> PROVE AskedCall'
  BY <1>2 DEF WInv, AskedCall, vars, history
<1>3. ASSUME NEW h \in Header, Ask(h) \/ ToolHeard(h) \/ NothingAsked(h)
      PROVE  AskedCall'
  BY <1>3, AskCalled, ToolHeardCalled, NothingAskedCalled
<1>4. ASSUME NEW h \in FromMain, NewTurn(h) \/ (\E list \in Lists : EndOfTurn(h, list))
      PROVE  AskedCall'
  BY <1>4, NewTurnCalled DEF FromMain
<1>5. ASSUME NEW h \in FromSubagent,
             SubagentDone(h, FALSE, {}) \/ (\E list \in Lists : SubagentDone(h, TRUE, list))
      PROVE  AskedCall'
  BY <1>5, SubagentDoneCalled, FS_EmptySet, PayloadAssumption DEF FromSubagent
<1>6. ASSUME NEW sid \in Sid, NEW cwd \in Cwd, StatusSeen(sid, cwd) PROVE AskedCall'
  BY <1>6, StatusSeenCalled
<1>7. ASSUME WatchNext PROVE AskedCall'
  BY <1>7, <1>3, <1>4, <1>5, <1>6, EndedCalled, TickedCalled, TimePassesCalled DEF WatchNext
<1> QED
  BY <1>1, <1>2, <1>7 DEF WInv

\* An ask is shown or held until what the code takes for the end of the wait, through
\* every interleaving of other agents' events, repeats, recounts and late ticks.
THEOREM AsksAreShown == WatchSpec => []AskIsShown
<1>1. WatchInit => WInv
  BY InitEstablishes DEF WatchInit, WInv, AskedCall
<1>2. WInv => AskIsShown
  BY DEF WInv, AskedCall, AskIsShown, Shown, Calling
<1> QED
  BY <1>1, <1>2, WatchInvariant, PTL DEF WatchSpec
=============================================================================
