--------------------------- MODULE MCSessionStore ---------------------------
(***************************************************************************)
(* Values for the constants of SessionStore that a configuration file      *)
(* cannot write down: background_tasks lists and keys of /forget.          *)
(***************************************************************************)
EXTENDS SessionLadder

CONSTANTS a1, s1, p

Sub(agent) == [id |-> agent, type |-> "subagent", status |-> "running"]

\* A subagent that is none of Agent, a workflow nothing retires, and two entries
\* that count for nothing.
Other    == [id |-> Main, type |-> "subagent", status |-> "pending"]
Workflow == [id |-> Main, type |-> "workflow", status |-> "absent"]
Monitor  == [id |-> Main, type |-> "monitor", status |-> "running"]
Done     == [id |-> Main, type |-> "subagent", status |-> "done"]

\* Nothing outstanding; a subagent that may stop; two, one of which does not;
\* and untracked work only.
PayloadLists == {{Monitor, Done}, {Sub(a1)}, {Sub(a1), Other}, {Workflow}}

OneKeyIds == [k \in Key |-> {s1}]
OneKeyLabels == [k \in Key |-> {p}]
=============================================================================
