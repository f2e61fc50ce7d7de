------------------------------ MODULE MCScreen ------------------------------
(***************************************************************************)
(* Values for the constants of Screen: two states that are alarms and the  *)
(* one that they soften to; one session with statusline data, and others,  *)
(* which are alike.                                                        *)
(***************************************************************************)
EXTENDS Screen

ThreeStates == {"need", "held", "wait"}

CONSTANTS s1, known

OneKnown == [sid \in Sid |-> IF sid = s1 THEN known ELSE NoDetail]

Others == Permutations(Sid \ {s1})
=============================================================================
