----------------------------- MODULE TableRows ------------------------------
(***************************************************************************)
(* The steps of the whole session table, seen as steps of the reduced one  *)
(* that the threads of the daemon are modelled with.                       *)
(***************************************************************************)
EXTENDS SessionStore

\* What SessionTable keeps of a session.
Reduced(sid) ==
    IF sid \in DOMAIN sessions
    THEN [state |-> IF sessions[sid].state = "end" THEN "end" ELSE "live",
          proc  |-> sessions[sid].pid]
    ELSE [state |-> "absent", proc |-> NoProc]

Table == INSTANCE SessionTable WITH rows <- [sid \in Sid |-> Reduced(sid)]

\* Every hook but SessionStart.
OtherHook(h) ==
    \/ /\ h \in FromMain
       /\ \/ UserPromptSubmit(h) \/ StopFailure(h) \/ SessionEnd(h)
          \/ \E list \in Lists : Stop(h, list)
    \/ /\ h \in FromSubagent
       /\ \/ SubagentStop(h, FALSE, {})
          \/ \E list \in Lists : SubagentStop(h, TRUE, list)
    \/ ToolEvent(h) \/ PermissionRequest(h) \/ OtherEvent(h)
    \/ \E notice \in Notice : Notification(h, notice)

\* Ended, and nothing else: a row that was there and had not ended.
EndsOnly(sid) == sid \in Table!LiveRows /\ Table!Clears({sid}, {})

TableStep ==
    /\ \A h \in FromMain : SessionStart(h) => Table!Takes(h.sid, "SessionStart", h.proc)
    /\ \A h \in Header : OtherHook(h) => Table!Takes(h.sid, "Other", h.proc)
    /\ \A sid \in Sid, cwd \in Cwd : Status(sid, cwd) => Table!Takes(sid, "status", NoProc)
    /\ \A sid \in Sid : ProcessGone(sid) => EndsOnly(sid)
    /\ \A key \in Key : Forget(key) => \E sid \in Hits(key) : Hits(key) = {sid} /\ EndsOnly(sid)
    /\ Tick => Table!Clears({}, DOMAIN sessions \ DOMAIN sessions')
    /\ Advance => Table!Clears({}, {})

\* What the daemon's threads and its liveness poll rely on: whatever its name, a
\* hook records its process if it is SessionStart or none was known, and nothing
\* else does; a statusline payload neither ends nor revives a row; tick() only
\* drops rows, it ends none (apply_event, apply_status, process_gone, tick).
TableSteps ==
    /\ [sid \in Sid |-> Reduced(sid)] = Table!AllAbsent
    /\ [][TableStep]_vars
=============================================================================
