------------------------------ MODULE MCDaemon ------------------------------
(***************************************************************************)
(* Instances of Daemon for TLC: one session, a key that names it and one   *)
(* that names nothing.                                                     *)
(***************************************************************************)
EXTENDS Daemon

CONSTANTS s1, ours, other

TwoKeys == [key \in Key |-> IF key = ours THEN {s1} ELSE {}]

=============================================================================
