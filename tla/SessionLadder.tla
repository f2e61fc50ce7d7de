---------------------------- MODULE SessionLadder ----------------------------
(***************************************************************************)
(* The session table implements the attention ladder: the state and the    *)
(* age of any one of its rows, seen as a rung and a wait.                  *)
(***************************************************************************)
EXTENDS SessionStore

CONSTANT seen      \* the session looked at

ASSUME SeenAssumption == seen \in Sid

LadderRung == IF In(seen, ATTENTION_STATES) THEN sessions[seen].state ELSE "off"

LadderWaited == IF In(seen, ATTENTION_STATES) THEN sessions[seen].state_since ELSE 0

Ladder == INSTANCE AttentionLadder WITH
    Pulse <- need_pulse_s, Red <- need_red_s, Horizon <- Horizon,
    rung <- LadderRung, waited <- LadderWaited

\* A wait starts at the top, keeps its age whoever is heard meanwhile, and never
\* climbs a rung: everything the table does to the row is a step of the ladder
\* or no step at all (state.py, _want_attention() and the end of tick()).
LadderSteps == Ladder!Init /\ [][Ladder!Next]_Ladder!vars

\* The row goes on descending, and one tick catches up with any delay.
LadderDescends == Ladder!Fairness
=============================================================================
