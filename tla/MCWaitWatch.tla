----------------------------- MODULE MCWaitWatch -----------------------------
(***************************************************************************)
(* The watched session table, with the constants of MCSessionStore.        *)
(***************************************************************************)
EXTENDS MCSessionStore, WaitWatch
=============================================================================
