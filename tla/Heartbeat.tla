----------------------------- MODULE Heartbeat ------------------------------
(***************************************************************************)
(* The bytes of a heartbeat on the cable.  A byte is a place in a line and *)
(* the heartbeat it belongs to; the newline is the same in all of them.    *)
(* The host sees places, not whose they are: a line pieced together of     *)
(* parts of two heartbeats parses if the places fit.                       *)
(***************************************************************************)
EXTENDS Naturals, Sequences

CONSTANTS
    Beat,           \* what a heartbeat may say
    Length,         \* its bytes, the newline apart
    NL              \* the newline

ASSUME HeartbeatAssumption ==
    /\ Length \in [Beat -> Nat \ {0}]
    /\ NL \notin Beat \X Nat

\* What loop() queues every HEARTBEAT_MS.
Line(b) == [k \in 1 .. Length[b] + 1 |-> IF k <= Length[b] THEN <<b, k>> ELSE NL]

\* A line without its newline that reads as a heartbeat from end to end.
Parses(text) ==
    /\ text # <<>>
    /\ \A i \in DOMAIN text : text[i][2] = i
    /\ text[Len(text)][2] = Length[text[Len(text)][1]]

\* It is one heartbeat, and not made of two: each byte is of the one before it.
Genuine(text) == \A i \in 2 .. Len(text) : text[i][1] = text[i - 1][1]
=============================================================================
