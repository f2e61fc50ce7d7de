------------------------------- MODULE MCWire -------------------------------
(***************************************************************************)
(* Values for the constants of Wire: heartbeats of two bytes and a newline.*)
(***************************************************************************)
EXTENDS Wire

TwoBytes == [b \in Beat |-> 2]
=============================================================================
