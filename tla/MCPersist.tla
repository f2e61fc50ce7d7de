----------------------------- MODULE MCPersist ------------------------------
(***************************************************************************)
(* Values for the constants of Persist: one session, and background_tasks  *)
(* lists with nothing or with one subagent.                                *)
(***************************************************************************)
EXTENDS Persist

CONSTANTS s1, p

Sub == [id |-> Main, type |-> "subagent", status |-> "running"]

OneSubagent == {{}, {Sub}}

NoKeys == [k \in Key |-> {}]
=============================================================================
