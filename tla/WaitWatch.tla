------------------------------ MODULE WaitWatch ------------------------------
(***************************************************************************)
(* The session table, watched from outside: who has asked for a human and  *)
(* has not been answered.  The two variables are history: they change with *)
(* the actions of SessionStore and no action depends on them.              *)
(*                                                                         *)
(*   asked     an ask (PermissionRequest, or a notification of              *)
(*             ATTENTION_NOTIFICATIONS) has arrived, and nothing the code   *)
(*             takes for the end of the wait has happened since            *)
(*   promised  the same, by what docs/architecture.md says ends a wait: the *)
(*             main thread's turn, or a tool event or the end of the agent *)
(*             that asked                                                  *)
(***************************************************************************)
EXTENDS SessionStore

VARIABLES asked, promised

history == <<asked, promised>>

Watch(sid, a, p) ==
    /\ asked' = IF a THEN asked \cup {sid} ELSE asked \ {sid}
    /\ promised' = IF p THEN promised \cup {sid} ELSE promised \ {sid}

WatchInit == /\ Init
             /\ asked = {}
             /\ promised = {}

Ask(h) == /\ \/ PermissionRequest(h)
             \/ \E notice \in ATTENTION_NOTIFICATIONS : Notification(h, notice)
          /\ Watch(h.sid, TRUE, TRUE)

\* The main thread's turn begins, fails or ends, or its session does.
NewTurn(h) == /\ \/ SessionStart(h) \/ UserPromptSubmit(h)
                 \/ StopFailure(h) \/ SessionEnd(h)
              /\ Watch(h.sid, FALSE, FALSE)

EndOfTurn(h, list) == /\ Stop(h, list)
                      /\ Watch(h.sid, FALSE, FALSE)

\* A tool event answers an ask on display if the agent that made it sent it,
\* one held or soft if the main thread did.  A soft row is cleared by anybody's.
ToolHeard(h) ==
    LET s == Before(h, FALSE)
        shows == s.state \in ATTENTION_STATES \cup {"look"}
        answers == \/ shows /\ h.agent = s.attn_agent
                   \/ s.state \notin ATTENTION_STATES /\ h.agent = Main
    IN  /\ ToolEvent(h)
        /\ Watch(h.sid, h.sid \in asked /\ ~answers /\ s.state # "look",
                        h.sid \in promised /\ ~answers)

\* The last subagent of a turn that is over hands the session back.  An agent
\* that stops asks for nothing any more.
SubagentDone(h, listed, list) ==
    LET s == Recounted(Before(h, FALSE), h.agent, listed, list)
    IN  /\ SubagentStop(h, listed, list)
        /\ Watch(h.sid, h.sid \in asked /\ ~(s.turn_over /\ s.bg_tasks = 0),
                        h.sid \in promised /\ h.agent # s.attn_agent)

NothingAsked(h) == /\ OtherEvent(h) \/ Notification(h, "auth_success")
                   /\ UNCHANGED history

StatusSeen(sid, cwd) == Status(sid, cwd) /\ UNCHANGED history

EndedFromOutside ==
    /\ \/ \E sid \in Sid : ProcessGone(sid)
       \/ \E key \in Key : Forget(key)
    /\ LET ended == {sid \in Live : sessions'[sid].state = "end"}
       IN  asked' = asked \ ended /\ promised' = promised \ ended

Ticked == /\ Tick
          /\ asked' = asked \cap DOMAIN sessions'
          /\ promised' = promised \cap DOMAIN sessions'

TimePasses == Advance /\ UNCHANGED history

WatchNext ==
    \/ \E h \in Header : Ask(h) \/ ToolHeard(h) \/ NothingAsked(h)
    \/ \E h \in FromMain : NewTurn(h)
    \/ \E h \in FromMain, list \in Lists : EndOfTurn(h, list)
    \/ \E h \in FromSubagent, list \in Lists : SubagentDone(h, TRUE, list)
    \/ \E h \in FromSubagent : SubagentDone(h, FALSE, {})
    \/ \E sid \in Sid, cwd \in Cwd : StatusSeen(sid, cwd)
    \/ EndedFromOutside
    \/ Ticked
    \/ TimePasses

WatchSpec == WatchInit /\ [][WatchNext]_<<vars, history>> /\ Fairness

----------------------------------------------------------------------------
\* A row that tells a human to come, or holds a notice that will.
Shown(sid) == \/ sessions[sid].state \in ATTENTION_STATES \cup {"look"}
              \/ sessions[sid].idle_held

\* An ask is never lost by accident: through every interleaving of other
\* agents' events, repeats, recounts and late ticks, the row shows it or holds
\* it until something the code means to end the wait has happened
\* (_want_attention, _idle_prompt, the hold in apply_event and its release).
AskIsShown == \A sid \in asked : Shown(sid)

\* "Only the agent that raised a prompt can end the wait."
\* (docs/architecture.md, The attention ladder)
OnlyTheRaiserEndsTheWait ==
    [][\A sid \in promised \cap promised' :
        sessions[sid].state \in ATTENTION_STATES
            => sessions'[sid].state \in ATTENTION_STATES]_<<vars, history>>

\* "a wrong guess must not be able to hide a session for good"
\* (state.py, _idle_prompt): a row somebody asked for, with nothing held back,
\* does not end up stale, where no timer brings it to a human's notice again.
AskNeverGoesStale ==
    published => \A sid \in promised :
                    sessions[sid].state = "stale" => sessions[sid].idle_held
=============================================================================
