---------------------------- MODULE SessionTable ----------------------------
(***************************************************************************)
(* The session table as the threads of the daemon need to know it: of each *)
(* session, whether there is a row for it, whether that has ended, and the *)
(* process on record (state.py: apply_event, apply_status, process_gone,   *)
(* forget and tick, reduced to this).                                      *)
(*                                                                         *)
(* Daemon is built on these steps; TableRows shows that the steps of the   *)
(* whole table, SessionStore, are of this kind.                            *)
(***************************************************************************)

CONSTANTS
    Sid,        \* session ids
    Proc,       \* processes, each a PID with its creation time
    NoProc      \* no process

VARIABLE rows

Row == [state : {"absent", "live", "end"}, proc : Proc \cup {NoProc}]

Absent == [state |-> "absent", proc |-> NoProc]

AllAbsent == [sid \in Sid |-> Absent]

LiveRows == {sid \in Sid : rows[sid].state = "live"}

\* Mutant: the process of a session is recorded once.
OnRecordFirst(row, kind, proc) ==
    IF proc # NoProc /\ row.proc = NoProc THEN proc ELSE row.proc

\* Mutant: only SessionStart records it.
OnRecordAtStart(row, kind, proc) ==
    IF proc # NoProc /\ kind = "SessionStart" THEN proc ELSE row.proc

\* The process on record once a hook has been applied that came from proc, if
\* that was found: the session may have been resumed in it, or it was not known.
OnRecord(row, kind, proc) ==
    IF proc # NoProc /\ (kind = "SessionStart" \/ row.proc = NoProc) THEN proc ELSE row.proc

\* What a hook may leave the row in: SessionEnd ends it, others revive one that
\* has ended or leave it so.  "Other" is every hook but SessionStart, "status" a
\* statusline payload.
StatesAfter(row, kind) ==
    CASE kind = "SessionStart" -> {"live"}
      [] kind = "Other"        -> {"live", "end"}
      [] kind = "status"       -> {IF row.state = "absent" THEN "live" ELSE row.state}

\* A hook or a payload is applied.
Takes(sid, kind, proc) ==
    \E state \in StatesAfter(rows[sid], kind) :
        rows' = [rows EXCEPT ![sid] = [state |-> state, proc |-> OnRecord(@, kind, proc)]]

\* Rows are ended, by /forget or because their process has gone, and dropped.
Clears(ended, dropped) ==
    rows' = [sid \in Sid |-> IF sid \in dropped THEN Absent
                             ELSE IF sid \in ended THEN [rows[sid] EXCEPT !.state = "end"]
                             ELSE rows[sid]]
=============================================================================
