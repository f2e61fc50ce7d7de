--------------------------- MODULE AttentionLadder ---------------------------
(***************************************************************************)
(* What the display promises of a session that waits on a human: it pulses *)
(* red ("need"), then is steadily red ("held"), then amber ("wait").  The   *)
(* rungs are absolute positions, measured from the moment the wait began;   *)
(* nothing but leaving the ladder restarts them, and nothing climbs.        *)
(***************************************************************************)
EXTENDS Naturals

CONSTANTS Pulse,     \* how long it pulses; Pulse < Red < Horizon
          Red,       \* how long it stays red at all
          Horizon    \* ages beyond it are not told apart

VARIABLES rung,      \* "off" while nobody is awaited
          waited     \* for how long somebody has been

vars == <<rung, waited>>

Rung == {"off", "need", "held", "wait"}

RungAt(age) == IF age > Red THEN "wait" ELSE IF age > Pulse THEN "held" ELSE "need"

Init == rung = "off" /\ waited = 0

\* A wait begins at the top.
Raise == /\ rung = "off"
         /\ rung' = "need"
         /\ waited' = 0

\* The display catches up with the age of the wait, skipping rungs if it must.
Descend == /\ rung # "off"
           /\ rung' = RungAt(waited)
           /\ UNCHANGED waited

Clear == /\ rung # "off"
         /\ rung' = "off"
         /\ waited' = 0

Clock == /\ rung # "off"
         /\ waited < Horizon
         /\ waited' = waited + 1
         /\ UNCHANGED rung

Next == Raise \/ Descend \/ Clear \/ Clock

Fairness == WF_vars(Descend) /\ WF_vars(Clock)

Spec == Init /\ [][Next]_vars /\ Fairness
=============================================================================
