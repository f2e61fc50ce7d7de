------------------------------- MODULE TxRing -------------------------------
(***************************************************************************)
(* The transmit buffer of the firmware (beacon.ino, txLine and txPump): a  *)
(* line is queued whole or not at all, handed to USB in pieces, and thrown *)
(* away when no host holds the port.                                       *)
(*                                                                         *)
(* txBuf is the buffer up to txTail.                                       *)
(***************************************************************************)
EXTENDS Heartbeat

CONSTANT TX_BUF     \* bytes in the buffer

ASSUME RingAssumption == TX_BUF \in Nat

VARIABLES txBuf, txHead

ring == <<txBuf, txHead>>

txTail == Len(txBuf)

RingInit == txBuf = <<>> /\ txHead = 0

Empty == txHead = txTail

Discarded == txBuf' = <<>> /\ txHead' = 0

Queued == SubSeq(txBuf, txHead + 1, txTail)

\* Whether n bytes and a newline fit behind the first tail bytes.
Fits(n, tail) == TX_BUF - tail >= n + 1

\* An empty buffer starts again at its beginning, and one that is too short at
\* its end is moved there.
Spaced(n) ==
    IF Empty THEN [buf |-> <<>>, head |-> 0]
    ELSE IF ~Fits(n, txTail) /\ txHead > 0 THEN [buf |-> Queued, head |-> 0]
    ELSE [buf |-> txBuf, head |-> txHead]

\* Mutant: the newline is not counted.
AcceptedNoNewline(n, tail) == TX_BUF - tail >= n

Accepted(n, tail) == Fits(n, tail)

\* Mutant: as much of a line is queued as there is room for.
TxLineCut(b) ==
    LET s == Spaced(Length[b])
        n == IF Fits(Length[b], Len(s.buf)) THEN Length[b] + 1 ELSE TX_BUF - Len(s.buf)
    IN  txHead' = s.head /\ txBuf' = s.buf \o SubSeq(Line(b), 1, n)

\* txLine(), with a host attached: a line that does not fit is dropped.
TxLine(b) ==
    LET s == Spaced(Length[b]) IN
    /\ txHead' = s.head
    /\ txBuf' = IF Accepted(Length[b], Len(s.buf)) THEN s.buf \o Line(b) ELSE s.buf

\* txPump(), with a host attached and room for n bytes or more: n are taken.
TxSend(n) == txHead' = txHead + n /\ UNCHANGED txBuf
=============================================================================
