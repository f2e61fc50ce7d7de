----------------------------- MODULE WireProofs -----------------------------
(***************************************************************************)
(* Proofs about Wire.                                                      *)
(*                                                                         *)
(* Typed bounds what is kept at both ends.  LinesWhole says what the       *)
(* board's queue is made of: whole lines behind the one being sent, and a  *)
(* whole one last, which is what a line may be queued behind.  Sound       *)
(* follows the bytes further: on the way no byte but the first of a line   *)
(* comes without the one before it, and while the daemon holds a port that *)
(* is not broken this is so of the line it has begun and what is on its    *)
(* way taken together.  That is what a failed write or a replug would      *)
(* break, and why what was read of a line is dropped when a port opens.    *)
(***************************************************************************)
EXTENDS Wire, SequenceTheorems, TLAPS

Byte == (Beat \X Nat) \cup {NL}

----------------------------------------------------------------------------
\* Sequences

\* A sequence cut in two and put together again.
LEMMA CutTogether ==
    ASSUME NEW S, NEW s \in Seq(S), NEW n \in 0 .. Len(s)
    PROVE  /\ SubSeq(s, 1, n) \in Seq(S) /\ SubSeq(s, n + 1, Len(s)) \in Seq(S)
           /\ Len(SubSeq(s, 1, n)) = n /\ Len(SubSeq(s, n + 1, Len(s))) = Len(s) - n
           /\ SubSeq(s, 1, n) \o SubSeq(s, n + 1, Len(s)) = s
<1>1. Len(s) \in Nat /\ 1 \in 1 .. Len(s) + 1 /\ n \in 1 - 1 .. Len(s) /\ Len(s) \in n .. Len(s)
  BY LenProperties
<1>2. SubSeq(s, 1, n) \o SubSeq(s, n + 1, Len(s)) = SubSeq(s, 1, Len(s))
  BY <1>1, ConcatAdjacentSubSeq
<1>3. SubSeq(s, 1, Len(s)) = s
  BY SubSeqFull
<1>4. /\ SubSeq(s, 1, n) \in Seq(S) /\ SubSeq(s, n + 1, Len(s)) \in Seq(S)
      /\ Len(SubSeq(s, 1, n)) = n /\ Len(SubSeq(s, n + 1, Len(s))) = Len(s) - n
  BY <1>1
<1> QED
  BY <1>2, <1>3, <1>4

\* The end of a concatenation that begins in its first part.
LEMMA EndOfConcat ==
    ASSUME NEW S, NEW s \in Seq(S), NEW t \in Seq(S), NEW k \in 1 .. Len(s) + 1
    PROVE  SubSeq(s \o t, k, Len(s \o t)) = SubSeq(s, k, Len(s)) \o t
<1> DEFINE l == SubSeq(s \o t, k, Len(s \o t))
           r == SubSeq(s, k, Len(s)) \o t
<1>1. Len(s) \in Nat /\ Len(t) \in Nat /\ Len(s \o t) = Len(s) + Len(t) /\ s \o t \in Seq(S)
      /\ k \in Nat \ {0}
  BY LenProperties, ConcatProperties
<1>2. l \in Seq(S) /\ Len(l) = Len(s) + Len(t) - k + 1
  BY <1>1
<1>3. r \in Seq(S) /\ Len(r) = Len(s) + Len(t) - k + 1
  BY <1>1
<1>4. \A i \in 1 .. Len(l) : l[i] = r[i]
  BY <1>1, <1>2
<1> HIDE DEF l, r
<1> QED
  BY <1>2, <1>3, <1>4, SeqEqual DEF l, r

\* No byte but the first of a line comes without the one before it.
Cont(s) ==
    \A i \in DOMAIN s : i > 1 /\ s[i] # NL /\ s[i][2] # 1 =>
        s[i - 1] # NL /\ s[i - 1] = <<s[i][1], s[i][2] - 1>>

LEMMA ContOfEmpty == Cont(<<>>)
BY DEF Cont

LEMMA ContOfPart ==
    ASSUME NEW S, NEW s \in Seq(S), Cont(s), NEW m \in 1 .. Len(s) + 1, NEW n \in 0 .. Len(s)
    PROVE  Cont(SubSeq(s, m, n))
<1> DEFINE p == SubSeq(s, m, n)
<1>1. Len(s) \in Nat /\ DOMAIN s = 1 .. Len(s)
  BY LenProperties
<1>2. /\ p \in Seq(S) /\ Len(p) = IF m <= n THEN n - m + 1 ELSE 0
      /\ \A i \in 1 .. Len(p) : p[i] = s[m + i - 1]
  BY <1>1
<1>3. DOMAIN p = 1 .. Len(p) /\ Len(p) \in Nat
  BY <1>2, LenProperties
<1> HIDE DEF p
<1> SUFFICES ASSUME NEW i \in DOMAIN p, i > 1, p[i] # NL, p[i][2] # 1
             PROVE  p[i - 1] # NL /\ p[i - 1] = <<p[i][1], p[i][2] - 1>>
  BY DEF Cont, p
<1>4. /\ i \in 1 .. Len(p) /\ i - 1 \in 1 .. Len(p)
      /\ m + i - 1 \in DOMAIN s /\ m + i - 1 > 1
      /\ m + (i - 1) - 1 = (m + i - 1) - 1
  BY <1>1, <1>2, <1>3
<1>5. p[i] = s[m + i - 1] /\ p[i - 1] = s[(m + i - 1) - 1]
  BY <1>2, <1>4
<1> QED
  BY <1>4, <1>5 DEF Cont

\* What begins with the first byte of a line may follow anything.
LEMMA ContOfConcat ==
    ASSUME NEW S, NEW s \in Seq(S), NEW t \in Seq(S), Cont(s), Cont(t),
           t = <<>> \/ t[1] = NL \/ t[1][2] = 1
    PROVE  Cont(s \o t)
<1> DEFINE c == s \o t
<1>1. /\ Len(s) \in Nat /\ Len(t) \in Nat /\ DOMAIN s = 1 .. Len(s) /\ DOMAIN t = 1 .. Len(t)
      /\ DOMAIN c = 1 .. (Len(s) + Len(t))
      /\ \A i \in 1 .. Len(s) : c[i] = s[i]
      /\ \A i \in 1 .. Len(t) : c[Len(s) + i] = t[i]
  BY LenProperties, ConcatProperties
<1> HIDE DEF c
<1> SUFFICES ASSUME NEW i \in DOMAIN c, i > 1, c[i] # NL, c[i][2] # 1
             PROVE  c[i - 1] # NL /\ c[i - 1] = <<c[i][1], c[i][2] - 1>>
  BY DEF Cont, c
<1>2. CASE i <= Len(s)
  <2>1. i \in DOMAIN s /\ c[i] = s[i] /\ c[i - 1] = s[i - 1]
    BY <1>1, <1>2
  <2> QED
    BY <2>1 DEF Cont
<1>3. CASE i > Len(s)
  <2> DEFINE j == i - Len(s)
  <2>1. j \in DOMAIN t /\ c[i] = t[j] /\ (j > 1 => c[i - 1] = t[j - 1])
    <3>1. j \in 1 .. Len(t) /\ i = Len(s) + j
      BY <1>1, <1>3
    <3>2. c[i] = t[j]
      BY <1>1, <3>1
    <3>3. j > 1 => j - 1 \in 1 .. Len(t) /\ i - 1 = Len(s) + (j - 1)
      BY <1>1, <3>1
    <3> QED
      BY <1>1, <3>1, <3>2, <3>3
  <2>2. j # 1
    BY <1>1, <2>1
  <2> QED
    BY <1>1, <2>1, <2>2 DEF Cont
<1> QED
  BY <1>1, <1>2, <1>3

LEMMA LineTyped ==
    ASSUME NEW b \in Beat
    PROVE  /\ Line(b) \in Seq(Byte) /\ Len(Line(b)) = Length[b] + 1 /\ Length[b] \in Nat \ {0}
           /\ Line(b)[Length[b] + 1] = NL
           /\ \A k \in 1 .. Length[b] : Line(b)[k] = <<b, k>> /\ <<b, k>> # NL
<1>1. Length[b] \in Nat \ {0} /\ NL \notin Beat \X Nat
  BY HeartbeatAssumption
<1>2. \A k \in 1 .. Length[b] + 1 : Line(b)[k] \in Byte
  BY <1>1 DEF Line, Byte
<1>3. Line(b) \in [1 .. Length[b] + 1 -> Byte]
  BY <1>1, <1>2 DEF Line
<1>4. Line(b) \in Seq(Byte) /\ Len(Line(b)) = Length[b] + 1
  BY <1>1, <1>3
<1> QED
  BY <1>1, <1>4 DEF Line

LEMMA LineCont ==
    ASSUME NEW b \in Beat
    PROVE  Cont(Line(b)) /\ Line(b)[1][2] = 1
<1>1. DOMAIN Line(b) = 1 .. Length[b] + 1 /\ Length[b] \in Nat \ {0}
  BY LineTyped DEF Line
<1>2. ASSUME NEW i \in DOMAIN Line(b), i > 1, Line(b)[i] # NL
      PROVE  Line(b)[i - 1] # NL /\ Line(b)[i - 1] = <<Line(b)[i][1], Line(b)[i][2] - 1>>
  <2>1. i \in 1 .. Length[b] /\ i - 1 \in 1 .. Length[b]
    BY <1>1, <1>2, LineTyped
  <2>2. Line(b)[i] = <<b, i>> /\ Line(b)[i - 1] = <<b, i - 1>> /\ Line(b)[i - 1] # NL
    BY <2>1, LineTyped
  <2> QED
    BY <2>2
<1>3. Line(b)[1] = <<b, 1>>
  BY <1>1, LineTyped
<1> QED
  BY <1>2, <1>3 DEF Cont

----------------------------------------------------------------------------
\* Types, and what each step does to the bytes on their way

Typed ==
    /\ TypeOK
    /\ txBuf \in Seq(Byte) /\ pipe \in Seq(Byte) /\ rx \in Seq(Byte)
    /\ txHead \in Nat /\ next_try \in Nat

LEMMA Sizes ==
    ASSUME Typed
    PROVE  /\ txTail \in Nat /\ txHead \in 0 .. txTail
           /\ Queued \in Seq(Byte) /\ Len(Queued) = txTail - txHead
           /\ Len(pipe) \in Nat /\ Len(rx) \in Nat
           /\ TX_BUF \in Nat /\ PIPE \in Nat \ {0} /\ RX_MAX \in Nat \ {0}
<1>1. txTail \in Nat /\ txHead \in 0 .. txTail
  BY LenProperties DEF Typed, TypeOK, txTail
<1>2. Queued \in Seq(Byte) /\ Len(Queued) = txTail - txHead
  BY <1>1, CutTogether DEF Queued, Typed, txTail
<1> QED
  BY <1>1, <1>2, LenProperties, RingAssumption, PipeAssumption, LinkAssumption DEF Typed

LEMMA Joined ==
    ASSUME NEW buf \in Seq(Byte), NEW b \in Beat
    PROVE  /\ Len(buf) \in Nat /\ Length[b] \in Nat
           /\ buf \o Line(b) \in Seq(Byte) /\ Len(buf \o Line(b)) = Len(buf) + Length[b] + 1
<1> DEFINE l == Line(b)
<1>1. l \in Seq(Byte) /\ Len(l) = Length[b] + 1 /\ Length[b] \in Nat
  BY LineTyped
<1> HIDE DEF l
<1>2. buf \o l \in Seq(Byte) /\ Len(buf \o l) = Len(buf) + Len(l) /\ Len(buf) \in Nat
  BY <1>1
<1> QED
  BY <1>1, <1>2 DEF l

\* A line joins the end of the queue whole, or not at all.
LEMMA TxLineQueues ==
    ASSUME Typed, NEW b \in Beat, TxLine(b)
    PROVE  /\ txBuf' \in Seq(Byte) /\ txHead' \in Nat /\ txHead' <= txTail' /\ txTail' <= TX_BUF
           /\ Queued' \in {Queued, Queued \o Line(b)}
<1> DEFINE s == Spaced(Length[b])
           buf == s.buf
           head == s.head
<1>1. /\ buf \in Seq(Byte) /\ head \in 0 .. Len(buf) /\ Len(buf) <= TX_BUF
      /\ SubSeq(buf, head + 1, Len(buf)) = Queued
  <2>1. CASE Empty
    <3>1. s = [buf |-> <<>>, head |-> 0]
      BY <2>1 DEF Spaced
    <3>2. Queued = <<>>
      BY <2>1, Sizes, EmptySeq DEF Empty
    <3> QED
      BY <3>1, <3>2, Sizes
  <2>2. CASE ~Empty /\ ~Fits(Length[b], txTail) /\ txHead > 0
    <3>1. s = [buf |-> Queued, head |-> 0]
      BY <2>2 DEF Spaced
    <3>2. Len(Queued) <= TX_BUF
      BY Sizes DEF Typed, TypeOK
    <3> QED
      BY <3>1, <3>2, Sizes, SubSeqFull
  <2>3. CASE ~Empty /\ ~(~Fits(Length[b], txTail) /\ txHead > 0)
    <3>1. s = [buf |-> txBuf, head |-> txHead]
      BY <2>3 DEF Spaced
    <3> QED
      BY <3>1, Sizes DEF Queued, txTail, Typed, TypeOK
  <2> QED
    BY <2>1, <2>2, <2>3
<1>2. /\ txHead' = head
      /\ txBuf' = buf \/ (txBuf' = buf \o Line(b) /\ Accepted(Length[b], Len(buf)))
  BY DEF TxLine
<1> HIDE DEF s, buf, head
<1>3. Len(buf) \in Nat /\ head \in Nat /\ head <= Len(buf) /\ TX_BUF \in Nat
  BY <1>1, LenProperties, RingAssumption
<1>4. Queued' = SubSeq(txBuf', head + 1, Len(txBuf')) /\ txTail' = Len(txBuf')
  BY <1>2 DEF Queued, txTail
<1>5. CASE txBuf' = buf
  BY <1>1, <1>2, <1>3, <1>4, <1>5
<1>6. CASE txBuf' = buf \o Line(b) /\ Accepted(Length[b], Len(buf))
  <2>1. /\ Length[b] \in Nat /\ txBuf' \in Seq(Byte) /\ Len(txBuf') = Len(buf) + Length[b] + 1
    BY <1>1, <1>6, Joined
  <2>2. Len(txBuf') <= TX_BUF /\ head <= Len(txBuf')
    BY <1>3, <1>6, <2>1 DEF Accepted, Fits
  <2>3. SubSeq(txBuf', head + 1, Len(txBuf')) = SubSeq(buf, head + 1, Len(buf)) \o Line(b)
    <3>1. head + 1 \in 1 .. Len(buf) + 1 /\ Line(b) \in Seq(Byte)
      BY <1>3, LineTyped
    <3> QED
      BY <1>1, <1>6, <3>1, EndOfConcat
  <2> QED
    BY <1>1, <1>2, <1>3, <1>4, <2>1, <2>2, <2>3
<1> QED
  BY <1>2, <1>5, <1>6

LEMMA InitTyped == Init => Typed
<1> SUFFICES ASSUME Init PROVE Typed
  OBVIOUS
<1>1. <<>> \in Seq(Byte) /\ Len(<<>>) = 0
  OBVIOUS
<1>2. /\ TX_BUF \in Nat /\ PIPE \in Nat /\ RX_MAX \in Nat
      /\ REFUSED_RETRY_S \in Nat /\ HB_TIMEOUT_S \in Nat
  BY RingAssumption, PipeAssumption, LinkAssumption
<1>3. /\ txBuf = <<>> /\ txHead = 0 /\ pipe = <<>> /\ rx = <<>> /\ next_try = 0
      /\ opened_at = HB_TIMEOUT_S /\ last_hb_at = HB_TIMEOUT_S
      /\ connected = FALSE /\ suspended = FALSE /\ broken = FALSE
  BY DEF Init, RingInit, LinkInit
<1>4. {connected, suspended, broken} \subseteq BOOLEAN
  BY <1>3
<1>5. {opened_at, last_hb_at} \subseteq 0 .. HB_TIMEOUT_S /\ next_try <= REFUSED_RETRY_S
  BY <1>2, <1>3
<1>6. txTail <= TX_BUF /\ txHead <= txTail /\ Len(pipe) <= PIPE /\ Len(rx) <= RX_MAX
  BY <1>1, <1>2, <1>3 DEF txTail
<1> QED
  BY <1>1, <1>3, <1>4, <1>5, <1>6 DEF Typed, TypeOK

\* What the two ends do to the bytes, by the groups of steps that differ in it.

\* Bytes on their way to a port that is held, and bytes of the part that is not.
OnTheWay == pipe \o Queued

\* The daemon reads on from where it was.
Reads == connected /\ ~broken

\* What is true of the bytes whoever holds the port, and of the line the daemon
\* has begun while it holds it.
Sound ==
    /\ Cont(OnTheWay)
    /\ Reads => Cont(rx \o OnTheWay)

\* The parts of Typed that a step does not touch need not be looked at again.
LEMMA TypedBy ==
    ASSUME Typed,
           txBuf' \in Seq(Byte), txHead' \in Nat, txHead' <= txTail', txTail' <= TX_BUF,
           pipe' \in Seq(Byte), Len(pipe') <= PIPE, rx' \in Seq(Byte), Len(rx') <= RX_MAX,
           next_try' \in 0 .. REFUSED_RETRY_S,
           {opened_at', last_hb_at'} \subseteq 0 .. HB_TIMEOUT_S,
           {connected', suspended', broken'} \subseteq BOOLEAN
    PROVE  Typed'
<1>1. next_try' \in Nat /\ next_try' <= REFUSED_RETRY_S
  BY LinkAssumption
<1> QED
  BY <1>1 DEF Typed, TypeOK

LEMMA BeatsTyped ==
    ASSUME Typed, NEW b \in Beat, Beats(b)
    PROVE  Typed'
<1>1. UNCHANGED <<link, cable>> /\ (TxLine(b) \/ UNCHANGED ring)
  BY DEF Beats
<1>2. /\ txBuf' \in Seq(Byte) /\ txHead' \in Nat /\ txHead' <= txTail' /\ txTail' <= TX_BUF
  BY <1>1, TxLineQueues DEF ring, Typed, TypeOK, txTail
<1> QED
  BY <1>1, <1>2 DEF Typed, TypeOK, link, cable

\* What Typed says, for steps that change the link.
LEMMA LinkTyped ==
    ASSUME Typed
    PROVE  /\ next_try \in 0 .. REFUSED_RETRY_S
           /\ {opened_at, last_hb_at} \subseteq 0 .. HB_TIMEOUT_S
           /\ {connected, suspended, broken} \subseteq BOOLEAN
           /\ RECONNECT_S \in 0 .. REFUSED_RETRY_S /\ REFUSED_RETRY_S \in Nat
           /\ HB_TIMEOUT_S \in Nat \ {0}
<1>1. RECONNECT_S \in 0 .. REFUSED_RETRY_S /\ REFUSED_RETRY_S \in Nat /\ HB_TIMEOUT_S \in Nat \ {0}
  BY LinkAssumption
<1> QED
  BY <1>1 DEF Typed, TypeOK

LEMMA EndBytes ==
    ASSUME NEW S, NEW s \in Seq(S), NEW h \in 0 .. Len(s)
    PROVE  /\ SubSeq(s, h + 1, Len(s)) \in Seq(S)
           /\ Len(SubSeq(s, h + 1, Len(s))) = Len(s) - h
           /\ \A i \in 1 .. Len(s) - h : SubSeq(s, h + 1, Len(s))[i] = s[h + i]
<1>1. Len(s) \in Nat
  BY LenProperties
<1> QED
  BY <1>1

LEMMA EndOfEnd ==
    ASSUME NEW S, NEW s \in Seq(S), NEW h \in 0 .. Len(s), NEW n \in 0 .. Len(s) - h
    PROVE  SubSeq(SubSeq(s, h + 1, Len(s)), n + 1, Len(s) - h) = SubSeq(s, h + n + 1, Len(s))
<1>1. Len(s) \in Nat /\ h + n \in 0 .. Len(s)
  BY LenProperties
<1>2. PICK e : e = SubSeq(s, h + 1, Len(s))
  OBVIOUS
<1>3. e \in Seq(S) /\ Len(e) = Len(s) - h /\ \A i \in 1 .. Len(s) - h : e[i] = s[h + i]
  BY <1>2, EndBytes
<1>4. PICK l : l = SubSeq(e, n + 1, Len(s) - h)
  OBVIOUS
<1>5. n \in 0 .. Len(e) /\ Len(s) - h - n = Len(s) - (h + n)
  BY <1>1, <1>3
<1>6. l \in Seq(S) /\ Len(l) = Len(s) - (h + n) /\ \A i \in 1 .. Len(s) - (h + n) : l[i] = e[n + i]
  <2>1. l = SubSeq(e, n + 1, Len(e))
    BY <1>3, <1>4
  <2>2. /\ l \in Seq(S) /\ Len(l) = Len(e) - n
        /\ \A i \in 1 .. Len(e) - n : l[i] = e[n + i]
    BY <1>3, <1>5, <2>1, EndBytes
  <2> QED
    BY <1>3, <1>5, <2>2
<1>7. PICK r : r = SubSeq(s, h + n + 1, Len(s))
  OBVIOUS
<1>8. /\ r \in Seq(S) /\ Len(r) = Len(s) - (h + n)
      /\ \A i \in 1 .. Len(s) - (h + n) : r[i] = s[h + n + i]
  BY <1>1, <1>7, EndBytes
<1>9. \A i \in 1 .. Len(s) - (h + n) : l[i] = r[i]
  <2> TAKE i \in 1 .. Len(s) - (h + n)
  <2>1. n + i \in 1 .. Len(s) - h /\ h + (n + i) = h + n + i
    BY <1>1
  <2>2. l[i] = e[n + i] /\ e[n + i] = s[h + (n + i)] /\ r[i] = s[h + n + i]
    BY <1>3, <1>6, <1>8, <2>1
  <2> QED
    BY <2>1, <2>2
<1>10. l = r
  BY <1>6, <1>8, <1>9, SeqEqual
<1> QED
  BY <1>2, <1>4, <1>7, <1>10

LEMMA Associative ==
    ASSUME NEW S, NEW s \in Seq(S), NEW t \in Seq(S), NEW u \in Seq(S)
    PROVE  (s \o t) \o u = s \o (t \o u)
<1>1. PICK st, tu : st = s \o t /\ tu = t \o u
  OBVIOUS
<1>2. Len(s) \in Nat /\ Len(t) \in Nat /\ Len(u) \in Nat
  BY LenProperties
<1>3. /\ st \in Seq(S) /\ Len(st) = Len(s) + Len(t)
      /\ \A i \in 1 .. Len(s) + Len(t) : st[i] = IF i <= Len(s) THEN s[i] ELSE t[i - Len(s)]
  BY <1>1, ConcatProperties
<1>4. /\ tu \in Seq(S) /\ Len(tu) = Len(t) + Len(u)
      /\ \A i \in 1 .. Len(t) + Len(u) : tu[i] = IF i <= Len(t) THEN t[i] ELSE u[i - Len(t)]
  BY <1>1, ConcatProperties
<1>5. PICK l, r : l = st \o u /\ r = s \o tu
  OBVIOUS
<1>6. /\ l \in Seq(S) /\ Len(l) = Len(st) + Len(u)
      /\ \A i \in 1 .. Len(st) + Len(u) : l[i] = IF i <= Len(st) THEN st[i] ELSE u[i - Len(st)]
  <2>1. st \in Seq(S) /\ u \in Seq(S)
    BY <1>3
  <2> QED
    BY <1>5, <2>1, ConcatProperties
<1>7. /\ r \in Seq(S) /\ Len(r) = Len(s) + Len(tu)
      /\ \A i \in 1 .. Len(s) + Len(tu) : r[i] = IF i <= Len(s) THEN s[i] ELSE tu[i - Len(s)]
  <2>1. s \in Seq(S) /\ tu \in Seq(S)
    BY <1>4
  <2> QED
    BY <1>5, <2>1, ConcatProperties
<1>8. Len(l) = Len(s) + Len(t) + Len(u) /\ Len(l) = Len(r)
  BY <1>2, <1>3, <1>4, <1>6, <1>7
<1>9. \A i \in 1 .. Len(l) : l[i] = r[i]
  <2> SUFFICES ASSUME NEW i \in 1 .. Len(s) + Len(t) + Len(u) PROVE l[i] = r[i]
    BY <1>8
  <2>1. CASE i <= Len(s)
    <3>1. l[i] = st[i] /\ r[i] = s[i] /\ st[i] = s[i]
      BY <1>2, <1>3, <1>4, <1>6, <1>7, <2>1
    <3> QED
      BY <3>1
  <2>2. CASE i > Len(s) /\ i <= Len(s) + Len(t)
    <3>1. l[i] = st[i] /\ st[i] = t[i - Len(s)]
      BY <1>2, <1>3, <1>6, <2>2
    <3>2. r[i] = tu[i - Len(s)] /\ tu[i - Len(s)] = t[i - Len(s)]
      <4>1. /\ i \in 1 .. Len(s) + Len(tu) /\ ~(i <= Len(s))
            /\ i - Len(s) \in 1 .. Len(t) + Len(u) /\ i - Len(s) <= Len(t)
        BY <1>2, <1>4, <2>2
      <4>2. r[i] = tu[i - Len(s)]
        BY <1>7, <4>1
      <4>3. tu[i - Len(s)] = t[i - Len(s)]
        BY <1>4, <4>1
      <4> QED
        BY <4>2, <4>3
    <3> QED
      BY <3>1, <3>2
  <2>3. CASE i > Len(s) + Len(t)
    <3>1. l[i] = u[i - (Len(s) + Len(t))]
      BY <1>2, <1>3, <1>6, <2>3
    <3>2. r[i] = tu[i - Len(s)]
      BY <1>2, <1>4, <1>7, <2>3
    <3>3. tu[i - Len(s)] = u[(i - Len(s)) - Len(t)]
      <4>1. i - Len(s) \in 1 .. Len(t) + Len(u) /\ ~(i - Len(s) <= Len(t))
        BY <1>2, <2>3
      <4> QED
        BY <1>4, <4>1
    <3>4. (i - Len(s)) - Len(t) = i - (Len(s) + Len(t))
      BY <1>2
    <3> QED
      BY <3>1, <3>2, <3>3, <3>4
  <2> QED
    BY <1>2, <2>1, <2>2, <2>3
<1>10. l = r
  BY <1>6, <1>7, <1>8, <1>9, SeqEqual
<1> QED
  BY <1>1, <1>5, <1>10

\* The same with a name for concatenation, which spares the provers its axioms
\* when they look for the sequences that the lemma is about.
Cat(s, t) == s \o t

LEMMA CatAssociates ==
    ASSUME NEW s \in Seq(Byte), NEW t \in Seq(Byte), NEW u \in Seq(Byte)
    PROVE  Cat(Cat(s, t), u) = Cat(s, Cat(t, u))
<1>1. (s \o t) \o u = s \o (t \o u)
  BY Associative
<1> QED
  BY <1>1 DEF Cat

LEMMA PumpsBytes ==
    ASSUME Typed, NEW n \in 1 .. PIPE, Pumps(n)
    PROVE  /\ n \in 0 .. Len(Queued) /\ txBuf' = txBuf /\ txHead' = txHead + n
           /\ Queued' = SubSeq(Queued, n + 1, Len(Queued))
           /\ pipe' = pipe \o SubSeq(Queued, 1, n) /\ pipe' \in Seq(Byte)
           /\ Len(pipe') = Len(pipe) + n /\ Len(pipe') <= PIPE
           /\ OnTheWay' = OnTheWay
<1>1. /\ n \in 0 .. Len(Queued) /\ txBuf' = txBuf /\ txHead' = txHead + n
      /\ pipe' = pipe \o SubSeq(Queued, 1, n) /\ n <= PIPE - Len(pipe)
  BY Sizes DEF Pumps, TxSend, Room
<1>2. Queued' = SubSeq(Queued, n + 1, Len(Queued))
  <2>1. Queued' = SubSeq(txBuf, txHead + n + 1, Len(txBuf))
    BY <1>1 DEF Queued, txTail
  <2>2. /\ txBuf \in Seq(Byte) /\ txHead \in 0 .. Len(txBuf) /\ n \in 0 .. Len(txBuf) - txHead
        /\ Len(Queued) = Len(txBuf) - txHead
    BY <1>1, Sizes DEF Typed, txTail
  <2> QED
    BY <2>1, <2>2, EndOfEnd DEF Queued, txTail
<1>3. pipe \in Seq(Byte) /\ Len(pipe) \in Nat /\ Queued \in Seq(Byte)
  BY Sizes DEF Typed
<1>4. /\ pipe' \in Seq(Byte) /\ Len(pipe') = Len(pipe) + n
      /\ pipe' \o SubSeq(Queued, n + 1, Len(Queued)) = pipe \o Queued
  <2>1. PICK f, r : f = SubSeq(Queued, 1, n) /\ r = SubSeq(Queued, n + 1, Len(Queued))
    OBVIOUS
  <2>2. f \in Seq(Byte) /\ r \in Seq(Byte) /\ Len(f) = n /\ f \o r = Queued
    BY <1>1, <1>3, <2>1, CutTogether
  <2>3. pipe' = pipe \o f
    BY <1>1, <2>1
  <2>4. pipe' \in Seq(Byte) /\ Len(pipe') = Len(pipe) + n
    <3>1. f \in Seq(Byte) /\ Len(f) = n
      BY <2>2
    <3> QED
      BY <1>3, <2>3, <3>1, ConcatProperties
  <2>5. Cat(Cat(pipe, f), r) = Cat(pipe, Cat(f, r))
    <3>1. f \in Seq(Byte) /\ r \in Seq(Byte)
      BY <2>2
    <3> QED
      BY <1>3, <3>1, CatAssociates
  <2>6. (pipe \o f) \o r = pipe \o (f \o r)
    BY <2>5 DEF Cat
  <2>7. pipe' \o r = pipe \o Queued
    BY <2>2, <2>3, <2>6
  <2> QED
    BY <2>1, <2>4, <2>7
<1>5. Len(pipe) + n <= PIPE
  BY <1>1, <1>3, PipeAssumption
<1> QED
  BY <1>1, <1>2, <1>4, <1>5 DEF OnTheWay

LEMMA PumpsTyped ==
    ASSUME Typed, NEW n \in 1 .. PIPE, Pumps(n)
    PROVE  Typed'
<1>1. txHead + n \in Nat /\ txHead + n <= txTail
  <2>1. n \in 0 .. Len(Queued)
    BY PumpsBytes
  <2>2. txTail \in Nat /\ txHead \in 0 .. txTail /\ Len(Queued) = txTail - txHead
    BY Sizes
  <2> QED
    BY <2>1, <2>2
<1>2. UNCHANGED <<link, suspended, broken>>
  BY DEF Pumps
<1>3. txTail' = txTail
  BY PumpsBytes DEF txTail
<1>4. txBuf' \in Seq(Byte) /\ txHead' \in Nat /\ txHead' <= txTail' /\ txTail' <= TX_BUF
  BY <1>1, <1>3, PumpsBytes DEF Typed, TypeOK
<1> QED
  BY <1>2, <1>4, PumpsBytes, LinkTyped, TypedBy DEF link, Typed, TypeOK

LEMMA DiscardedBytes ==
    ASSUME Discarded
    PROVE  /\ txBuf' \in Seq(Byte) /\ txHead' \in Nat /\ txHead' <= txTail'
           /\ txTail' = 0 /\ Queued' = <<>>
BY DEF Discarded, txTail, Queued

LEMMA PumpsNobodyTyped == ASSUME Typed, PumpsNobody PROVE Typed'
<1>1. Discarded /\ UNCHANGED <<link, cable>>
  BY DEF PumpsNobody
<1>2. txTail' <= TX_BUF
  BY <1>1, DiscardedBytes, RingAssumption
<1> QED
  BY <1>1, <1>2, DiscardedBytes DEF Typed, TypeOK, link, cable

\* The end of a pipe that a close has emptied, or a part of it.
LEMMA DrainedBytes ==
    ASSUME Typed, NEW closes \in BOOLEAN, Drained(closes)
    PROVE  /\ \E m \in 0 .. Len(pipe) : pipe' = SubSeq(pipe, m + 1, Len(pipe))
           /\ pipe' \in Seq(Byte) /\ Len(pipe') <= PIPE
           /\ ~closes => pipe' = pipe
<1>1. pipe \in Seq(Byte) /\ Len(pipe) \in Nat /\ Len(pipe) <= PIPE /\ PIPE \in Nat
  BY Sizes DEF Typed, TypeOK
<1>2. \E m \in 0 .. Len(pipe) : pipe' = SubSeq(pipe, m + 1, Len(pipe))
  <2>1. pipe = SubSeq(pipe, 0 + 1, Len(pipe)) /\ 0 \in 0 .. Len(pipe)
    BY <1>1, SubSeqFull
  <2> QED
    BY <2>1 DEF Drained
<1>3. PICK m \in 0 .. Len(pipe) : pipe' = SubSeq(pipe, m + 1, Len(pipe))
  BY <1>2
<1>4. pipe' \in Seq(Byte) /\ Len(pipe') = Len(pipe) - m
  BY <1>1, <1>3, CutTogether
<1>5. Len(pipe') <= PIPE
  BY <1>1, <1>4
<1>6. ~closes => pipe' = pipe
  BY DEF Drained
<1> QED
  BY <1>2, <1>4, <1>5, <1>6

LEMMA LatestIsEnd ==
    ASSUME NEW rest \in Seq(Byte)
    PROVE  \E j \in 0 .. Len(rest) : /\ Latest(rest) = SubSeq(rest, j + 1, Len(rest))
                                    /\ Len(rest) - j <= RX_MAX
<1>1. Len(rest) \in Nat /\ RX_MAX \in Nat
  BY LenProperties, LinkAssumption
<1>2. CASE Len(rest) > RX_MAX
  <2>1. Len(rest) - RX_MAX \in 0 .. Len(rest) /\ Len(rest) - (Len(rest) - RX_MAX) <= RX_MAX
    BY <1>1, <1>2
  <2>2. Latest(rest) = SubSeq(rest, (Len(rest) - RX_MAX) + 1, Len(rest))
    BY <1>2 DEF Latest
  <2> QED
    BY <2>1, <2>2
<1>3. CASE ~(Len(rest) > RX_MAX)
  <2>1. Latest(rest) = SubSeq(rest, 0 + 1, Len(rest)) /\ Len(rest) - 0 <= RX_MAX
    BY <1>1, <1>3, SubSeqFull DEF Latest
  <2> QED
    BY <1>1, <2>1
<1> QED
  BY <1>2, <1>3

\* poll() keeps an end of what it has read.
LEMMA PollsBytes ==
    ASSUME Typed, NEW n \in 1 .. PIPE, Polls(n), NEW data, data = rx \o SubSeq(pipe, 1, n)
    PROVE  /\ n \in 0 .. Len(pipe) /\ pipe' = SubSeq(pipe, n + 1, Len(pipe))
           /\ pipe' \in Seq(Byte) /\ Len(pipe') = Len(pipe) - n
           /\ SubSeq(pipe, 1, n) \in Seq(Byte) /\ data \in Seq(Byte)
           /\ SubSeq(pipe, 1, n) \o pipe' = pipe
           /\ rx' \in Seq(Byte) /\ Len(rx') <= RX_MAX
           /\ \E k \in 0 .. Len(data) : rx' = SubSeq(data, k + 1, Len(data))
<1>1. n \in 0 .. Len(pipe) /\ pipe' = SubSeq(pipe, n + 1, Len(pipe)) /\ Read(SubSeq(pipe, 1, n))
  BY Sizes DEF Polls
<1>2. /\ pipe' \in Seq(Byte) /\ Len(pipe') = Len(pipe) - n
      /\ SubSeq(pipe, 1, n) \in Seq(Byte) /\ SubSeq(pipe, 1, n) \o pipe' = pipe
  BY <1>1, CutTogether DEF Typed
<1>3. data \in Seq(Byte) /\ Len(data) \in Nat /\ DOMAIN data = 1 .. Len(data)
  BY <1>2, ConcatProperties, LenProperties DEF Typed
<1>4. PICK last \in {0} \cup Newlines(data) : rx' = Latest(SubSeq(data, last + 1, Len(data)))
  BY <1>1 DEF Read
<1>5. last \in 0 .. Len(data)
  BY <1>3 DEF Newlines
<1> DEFINE rest == SubSeq(data, last + 1, Len(data))
<1>6. rest \in Seq(Byte) /\ Len(rest) = Len(data) - last
  BY <1>3, <1>5, CutTogether
<1>7. PICK j \in 0 .. Len(rest) : /\ rx' = SubSeq(rest, j + 1, Len(rest))
                                 /\ Len(rest) - j <= RX_MAX
  BY <1>4, <1>6, LatestIsEnd
<1>8. rx' \in Seq(Byte) /\ Len(rx') <= RX_MAX
  <2>1. rx' \in Seq(Byte) /\ Len(rx') = Len(rest) - j
    BY <1>6, <1>7, CutTogether
  <2> QED
    BY <2>1, <1>7
<1>9. rx' = SubSeq(data, last + j + 1, Len(data)) /\ last + j \in 0 .. Len(data)
  <2>1. j \in 0 .. Len(data) - last
    BY <1>6
  <2>2. SubSeq(rest, j + 1, Len(data) - last) = SubSeq(data, last + j + 1, Len(data))
    BY <1>3, <1>5, <2>1, EndOfEnd
  <2>3. rx' = SubSeq(rest, j + 1, Len(data) - last)
    BY <1>6, <1>7
  <2>4. last + j \in 0 .. Len(data)
    BY <1>3, <1>5, <2>1
  <2> QED
    BY <2>2, <2>3, <2>4
<1> QED
  BY <1>1, <1>2, <1>3, <1>8, <1>9

LEMMA PollsTyped ==
    ASSUME Typed, NEW n \in 1 .. PIPE, Polls(n)
    PROVE  Typed'
<1>1. /\ UNCHANGED <<ring, suspended, broken, connected, next_try, opened_at>>
      /\ last_hb_at' \in {0, last_hb_at}
  BY DEF Polls, Read
<1>2. pipe' \in Seq(Byte) /\ Len(pipe') <= PIPE /\ rx' \in Seq(Byte) /\ Len(rx') <= RX_MAX
  <2>1. Len(pipe) - n <= PIPE
    <3>1. Len(pipe) \in Nat /\ PIPE \in Nat
      BY Sizes
    <3>2. Len(pipe) <= PIPE
      BY DEF Typed, TypeOK
    <3> QED
      BY <3>1, <3>2
  <2> QED
    BY <2>1, PollsBytes
<1>3. 0 \in 0 .. HB_TIMEOUT_S
  BY LinkTyped
<1>4. txBuf' \in Seq(Byte) /\ txHead' \in Nat /\ txHead' <= txTail' /\ txTail' <= TX_BUF
  BY <1>1 DEF Typed, TypeOK, ring, txTail
<1>5. /\ next_try' \in 0 .. REFUSED_RETRY_S
      /\ {opened_at', last_hb_at'} \subseteq 0 .. HB_TIMEOUT_S
      /\ {connected', suspended', broken'} \subseteq BOOLEAN
  BY <1>1, <1>3, LinkTyped DEF Typed, TypeOK
<1> QED
  BY <1>2, <1>4, <1>5, TypedBy

LEMMA PollsBrokenTyped == ASSUME Typed, PollsBroken PROVE Typed'
<1>1. /\ UNCHANGED <<ring, suspended, pipe, next_try, rx, opened_at, last_hb_at>>
      /\ connected' = FALSE /\ broken' = FALSE
  BY DEF PollsBroken, ReadFails, Closes
<1>2. txBuf' \in Seq(Byte) /\ txHead' \in Nat /\ txHead' <= txTail' /\ txTail' <= TX_BUF
  BY <1>1 DEF Typed, TypeOK, ring, txTail
<1>3. {connected', suspended', broken'} \subseteq BOOLEAN
  BY <1>1, LinkTyped
<1> QED
  BY <1>1, <1>2, <1>3, LinkTyped, TypedBy DEF Typed, TypeOK

LEMMA SendsTyped ==
    ASSUME Typed, NEW taken \in BOOLEAN, Sends(taken)
    PROVE  Typed'
<1>1. /\ UNCHANGED <<ring, suspended, next_try, rx, opened_at, last_hb_at>>
      /\ connected' \in {connected, FALSE} /\ broken' = FALSE /\ Drained(~taken)
  BY DEF Sends, Writes, Closes
<1>2. txBuf' \in Seq(Byte) /\ txHead' \in Nat /\ txHead' <= txTail' /\ txTail' <= TX_BUF
  BY <1>1 DEF Typed, TypeOK, ring, txTail
<1>3. {connected', suspended', broken'} \subseteq BOOLEAN
  BY <1>1, LinkTyped
<1>4. pipe' \in Seq(Byte) /\ Len(pipe') <= PIPE
  BY <1>1, DrainedBytes
<1> QED
  BY <1>1, <1>2, <1>3, <1>4, LinkTyped, TypedBy DEF Typed, TypeOK

LEMMA SendsUnopenedTyped == ASSUME Typed, SendsUnopened PROVE Typed'
<1>1. /\ UNCHANGED <<ring, cable, connected, rx, opened_at, last_hb_at>>
      /\ next_try' = RECONNECT_S
  BY DEF SendsUnopened, OpenFails
<1>2. txBuf' \in Seq(Byte) /\ txHead' \in Nat /\ txHead' <= txTail' /\ txTail' <= TX_BUF
  BY <1>1 DEF Typed, TypeOK, ring, txTail
<1> QED
  BY <1>1, <1>2, LinkTyped, TypedBy DEF Typed, TypeOK, cable

\* A port that opens has nothing of a line, and is held only if it took both.
LEMMA SendsOpeningLinks ==
    ASSUME SendsOpening
    PROVE  /\ \E closes \in BOOLEAN : Drained(closes)
           /\ rx' = <<>> /\ opened_at' = 0 /\ next_try' \in {RECONNECT_S, REFUSED_RETRY_S}
           /\ connected' \in BOOLEAN /\ broken' = FALSE
           /\ UNCHANGED <<ring, board, suspended, last_hb_at, last_hb>>
<1>1. PICK hello, taken \in BOOLEAN : Opens(hello, taken)
  BY DEF SendsOpening
<1>2. /\ Drained(~connected') /\ broken' = FALSE
      /\ UNCHANGED <<ring, board, suspended>>
  BY DEF SendsOpening
<1>3. /\ connected' \in BOOLEAN /\ rx' = <<>> /\ opened_at' = 0
      /\ next_try' \in {RECONNECT_S, REFUSED_RETRY_S} /\ UNCHANGED <<last_hb_at, last_hb>>
  BY <1>1 DEF Opens, Backoff, rxOnOpen
<1>4. \E closes \in BOOLEAN : Drained(closes)
  BY <1>2, <1>3 DEF Drained
<1> QED
  BY <1>2, <1>3, <1>4

LEMMA SendsOpeningTyped == ASSUME Typed, SendsOpening PROVE Typed'
<1>1. txBuf' \in Seq(Byte) /\ txHead' \in Nat /\ txHead' <= txTail' /\ txTail' <= TX_BUF
  BY SendsOpeningLinks DEF Typed, TypeOK, ring, txTail
<1>2. {connected', suspended', broken'} \subseteq BOOLEAN
  BY SendsOpeningLinks, LinkTyped
<1>3. pipe' \in Seq(Byte) /\ Len(pipe') <= PIPE
  BY SendsOpeningLinks, DrainedBytes
<1>4. rx' \in Seq(Byte) /\ Len(rx') <= RX_MAX
  <2>1. <<>> \in Seq(Byte) /\ Len(<<>>) = 0 /\ RX_MAX \in Nat
    BY LinkAssumption
  <2> QED
    BY <2>1, SendsOpeningLinks
<1>5. next_try' \in 0 .. REFUSED_RETRY_S
  BY SendsOpeningLinks, LinkTyped
<1>6. {opened_at', last_hb_at'} \subseteq 0 .. HB_TIMEOUT_S
  BY SendsOpeningLinks, LinkTyped
<1> QED
  BY <1>1, <1>2, <1>3, <1>4, <1>5, <1>6, TypedBy

LEMMA BoardBecomesTyped ==
    ASSUME Typed, NEW b, BoardBecomes(b)
    PROVE  Typed'
<1>1. UNCHANGED <<link, suspended>>
  BY DEF BoardBecomes
<1>2. \/ Discarded /\ pipe' = <<>> /\ broken' = connected
      \/ UNCHANGED <<ring, pipe, broken>>
  BY DEF BoardBecomes
<1>3. CASE UNCHANGED <<ring, pipe, broken>>
  BY <1>1, <1>3 DEF Typed, TypeOK, ring, link, txTail
<1>4. CASE Discarded /\ pipe' = <<>> /\ broken' = connected
  <2>1. txTail' <= TX_BUF
    BY <1>4, DiscardedBytes, RingAssumption
  <2>2. pipe' \in Seq(Byte) /\ Len(pipe') <= PIPE
    <3>1. <<>> \in Seq(Byte) /\ Len(<<>>) = 0 /\ PIPE \in Nat
      BY PipeAssumption
    <3> QED
      BY <3>1, <1>4
  <2>3. {connected', suspended', broken'} \subseteq BOOLEAN
    BY <1>1, <1>4, LinkTyped DEF link
  <2> QED
    BY <1>1, <1>4, <2>1, <2>2, <2>3, DiscardedBytes, LinkTyped, TypedBy DEF link, Typed, TypeOK
<1> QED
  BY <1>2, <1>3, <1>4

LEMMA SuspendsTyped == ASSUME Typed, Suspends PROVE Typed'
<1>1. UNCHANGED <<ring, link, pipe, broken>> /\ suspended' \in BOOLEAN
  BY DEF Suspends
<1> QED
  BY <1>1 DEF Typed, TypeOK, ring, link, txTail

LEMMA TimePassesTyped == ASSUME Typed, TimePasses PROVE Typed'
<1>1. /\ UNCHANGED <<ring, cable, connected, rx>>
      /\ next_try' = IF next_try > 0 THEN next_try - 1 ELSE 0
      /\ opened_at' = Later(opened_at) /\ last_hb_at' = Later(last_hb_at)
  BY DEF TimePasses, LinkAges
<1>2. opened_at \in 0 .. HB_TIMEOUT_S /\ last_hb_at \in 0 .. HB_TIMEOUT_S
  BY LinkTyped
<1>3. \A age \in 0 .. HB_TIMEOUT_S : Later(age) \in 0 .. HB_TIMEOUT_S
  BY LinkTyped DEF Later
<1>4. {opened_at', last_hb_at'} \subseteq 0 .. HB_TIMEOUT_S
  BY <1>1, <1>2, <1>3
<1>5. next_try' \in 0 .. REFUSED_RETRY_S
  BY <1>1, LinkTyped
<1>6. txBuf' \in Seq(Byte) /\ txHead' \in Nat /\ txHead' <= txTail' /\ txTail' <= TX_BUF
  BY <1>1 DEF Typed, TypeOK, ring, txTail
<1> QED
  BY <1>1, <1>4, <1>5, <1>6, LinkTyped, TypedBy DEF Typed, TypeOK, cable

LEMMA NextTyped == Typed /\ [Next]_vars => Typed'
<1> SUFFICES ASSUME Typed, [Next]_vars PROVE Typed'
  OBVIOUS
<1>1. CASE UNCHANGED vars
  BY <1>1 DEF vars, ring, link, cable, Typed, TypeOK, txTail
<1>2. ASSUME NEW b \in Beat, Beats(b) PROVE Typed'
  BY <1>2, BeatsTyped
<1>3. ASSUME NEW n \in 1 .. PIPE, Pumps(n) \/ Polls(n) PROVE Typed'
  BY <1>3, PumpsTyped, PollsTyped
<1>4. ASSUME NEW taken \in BOOLEAN, Sends(taken) PROVE Typed'
  BY <1>4, SendsTyped
<1>5. ASSUME NEW b, BoardBecomes(b) PROVE Typed'
  BY <1>5, BoardBecomesTyped
<1> QED
  BY <1>1, <1>2, <1>3, <1>4, <1>5, PumpsNobodyTyped, PollsBrokenTyped, SendsUnopenedTyped,
     SendsOpeningTyped, SuspendsTyped, TimePassesTyped DEF Next

\* What is kept of lines at both ends stays within its bounds (TX_BUF_BYTES, RX_MAX).
THEOREM WireTypeCorrect == Spec => []TypeOK
<1>1. Typed => TypeOK
  BY DEF Typed
<1> QED
  BY <1>1, InitTyped, NextTyped, PTL DEF Spec

----------------------------------------------------------------------------
\* Whole lines

\* WholeOrNotAtAll, of any bytes.
Lined(s) ==
    \A i \in DOMAIN s :
        \/ i = 1
        \/ s[i] # NL /\ s[i][2] = 1 /\ s[i - 1] = NL
        \/ s[i] # NL /\ s[i - 1] = <<s[i][1], s[i][2] - 1>>
        \/ s[i] = NL /\ s[i - 1][2] = Length[s[i - 1][1]]

\* What is queued ends with the line that was queued last.
LastWhole(s) == s # <<>> => s[Len(s)] = NL

LinesWhole == Lined(Queued) /\ LastWhole(Queued)

LEMMA LinedEnd ==
    ASSUME NEW S, NEW s \in Seq(S), Lined(s), LastWhole(s), NEW n \in 0 .. Len(s)
    PROVE  Lined(SubSeq(s, n + 1, Len(s))) /\ LastWhole(SubSeq(s, n + 1, Len(s)))
<1>1. PICK e : e = SubSeq(s, n + 1, Len(s))
  OBVIOUS
<1>2. /\ Len(s) \in Nat /\ DOMAIN s = 1 .. Len(s)
      /\ e \in Seq(S) /\ Len(e) = Len(s) - n /\ \A i \in 1 .. Len(s) - n : e[i] = s[n + i]
  BY <1>1, EndBytes, LenProperties
<1>3. DOMAIN e = 1 .. Len(s) - n
  BY <1>2, LenProperties
<1>4. ASSUME NEW i \in 1 .. Len(s) - n, i # 1
      PROVE  /\ n + i \in DOMAIN s /\ n + i # 1
             /\ e[i] = s[n + i] /\ e[i - 1] = s[(n + i) - 1]
  <2>1. i - 1 \in 1 .. Len(s) - n /\ n + (i - 1) = (n + i) - 1
    BY <1>2, <1>4
  <2> QED
    BY <1>2, <1>4, <2>1
<1>5. Lined(e)
  <2> SUFFICES ASSUME NEW i \in 1 .. Len(s) - n, i # 1
               PROVE  \/ e[i] # NL /\ e[i][2] = 1 /\ e[i - 1] = NL
                      \/ e[i] # NL /\ e[i - 1] = <<e[i][1], e[i][2] - 1>>
                      \/ e[i] = NL /\ e[i - 1][2] = Length[e[i - 1][1]]
    BY <1>3 DEF Lined
  <2>1. PICK k \in DOMAIN s : k # 1 /\ e[i] = s[k] /\ e[i - 1] = s[k - 1]
    BY <1>4
  <2> QED
    BY <2>1 DEF Lined
<1>6. LastWhole(e)
  <2> SUFFICES ASSUME e # <<>> PROVE e[Len(e)] = NL
    BY DEF LastWhole
  <2>1. Len(e) \in 1 .. Len(s) - n /\ n + Len(e) = Len(s)
    BY <1>2, EmptySeq
  <2>2. s # <<>>
    BY <1>2, <2>1, EmptySeq
  <2> QED
    BY <1>2, <2>1, <2>2 DEF LastWhole
<1> QED
  BY <1>1, <1>5, <1>6

LEMMA LinedJoin ==
    ASSUME NEW s \in Seq(Byte), Lined(s), LastWhole(s), NEW b \in Beat
    PROVE  Lined(s \o Line(b)) /\ LastWhole(s \o Line(b))
<1>1. PICK t, c : t = Line(b) /\ c = s \o t
  OBVIOUS
<1>2. /\ t \in Seq(Byte) /\ Len(t) = Length[b] + 1 /\ Length[b] \in Nat \ {0}
      /\ t[Length[b] + 1] = NL /\ \A k \in 1 .. Length[b] : t[k] = <<b, k>> /\ <<b, k>> # NL
  BY <1>1, LineTyped
<1>3. Len(s) \in Nat /\ DOMAIN s = 1 .. Len(s)
  BY LenProperties
<1>4. /\ c \in Seq(Byte) /\ Len(c) = Len(s) + Len(t)
      /\ \A i \in 1 .. Len(s) + Len(t) : c[i] = IF i <= Len(s) THEN s[i] ELSE t[i - Len(s)]
  <2>1. s \in Seq(Byte) /\ t \in Seq(Byte)
    BY <1>2
  <2> QED
    BY <1>1, <2>1, ConcatProperties
<1>5. DOMAIN c = 1 .. Len(s) + Len(t)
  BY <1>4, LenProperties
<1>6. ASSUME NEW i \in 1 .. Len(s) + Len(t), i # 1
      PROVE  \/ c[i] # NL /\ c[i][2] = 1 /\ c[i - 1] = NL
             \/ c[i] # NL /\ c[i - 1] = <<c[i][1], c[i][2] - 1>>
             \/ c[i] = NL /\ c[i - 1][2] = Length[c[i - 1][1]]
  <2>1. CASE i <= Len(s)
    <3>1. i \in DOMAIN s /\ c[i] = s[i] /\ c[i - 1] = s[i - 1]
      <4>1. i \in DOMAIN s /\ i - 1 \in 1 .. Len(s) + Len(t) /\ i - 1 <= Len(s)
        BY <1>2, <1>3, <1>6, <2>1
      <4> QED
        BY <1>4, <2>1, <4>1
    <3> QED
      BY <1>6, <3>1 DEF Lined
  <2>2. CASE i = Len(s) + 1
    <3>1. c[i] = t[1] /\ c[i - 1] = s[Len(s)] /\ Len(s) > 0
      <4>1. /\ ~(i <= Len(s)) /\ i - Len(s) = 1 /\ i - 1 = Len(s) /\ i - 1 <= Len(s)
            /\ i - 1 \in 1 .. Len(s) + Len(t) /\ Len(s) > 0
        BY <1>2, <1>3, <1>6, <2>2
      <4> QED
        BY <1>4, <4>1
    <3>2. s[Len(s)] = NL
      BY <3>1, EmptySeq DEF LastWhole
    <3>3. t[1] = <<b, 1>> /\ t[1] # NL
      <4>1. 1 \in 1 .. Length[b]
        BY <1>2
      <4> QED
        BY <1>2, <4>1
    <3> QED
      BY <3>1, <3>2, <3>3
  <2>3. CASE i > Len(s) + 1
    <3>1. PICK k \in 2 .. Len(t) : i = Len(s) + k
      <4>1. i - Len(s) \in 2 .. Len(t) /\ i = Len(s) + (i - Len(s))
        BY <1>2, <1>3, <2>3
      <4> QED
        BY <4>1
    <3>2. c[i] = t[k] /\ c[i - 1] = t[k - 1]
      <4>1. /\ ~(i <= Len(s)) /\ i - Len(s) = k
            /\ i - 1 \in 1 .. Len(s) + Len(t) /\ ~(i - 1 <= Len(s)) /\ (i - 1) - Len(s) = k - 1
        BY <1>2, <1>3, <2>3, <3>1
      <4>2. c[i] = t[k]
        BY <1>4, <4>1
      <4>3. c[i - 1] = t[k - 1]
        BY <1>4, <4>1
      <4> QED
        BY <4>2, <4>3
    <3>3. k - 1 \in 1 .. Length[b] /\ t[k - 1] = <<b, k - 1>>
      <4>1. k - 1 \in 1 .. Length[b]
        BY <1>2, <3>1
      <4> QED
        BY <1>2, <4>1
    <3>4. CASE k \in 1 .. Length[b]
      <4>1. t[k] = <<b, k>> /\ t[k] # NL
        BY <1>2, <3>4
      <4> QED
        BY <3>2, <3>3, <4>1
    <3>5. CASE k = Length[b] + 1
      <4>1. k - 1 = Length[b] /\ t[k] = NL
        BY <1>2, <3>5
      <4> QED
        BY <3>2, <3>3, <4>1
    <3>6. k \in 1 .. Length[b] \/ k = Length[b] + 1
      BY <1>2, <3>1
    <3> QED
      BY <3>4, <3>5, <3>6
  <2> QED
    BY <1>3, <2>1, <2>2, <2>3
<1>7. Lined(c)
  BY <1>5, <1>6 DEF Lined
<1>8. LastWhole(c)
  <2>1. c[Len(s) + Len(t)] = t[Len(t)]
    <3>1. /\ Len(s) + Len(t) \in 1 .. Len(s) + Len(t) /\ ~(Len(s) + Len(t) <= Len(s))
          /\ (Len(s) + Len(t)) - Len(s) = Len(t)
      BY <1>2, <1>3
    <3> QED
      BY <1>4, <3>1
  <2> QED
    BY <1>2, <1>4, <2>1 DEF LastWhole
<1> QED
  BY <1>1, <1>7, <1>8

\* All that a step does to what is queued.
LEMMA QueueSteps ==
    ASSUME Typed, [Next]_vars
    PROVE  \/ Queued' = Queued \/ Queued' = <<>>
           \/ \E b \in Beat : Queued' = Queued \o Line(b)
           \/ \E n \in 0 .. Len(Queued) : Queued' = SubSeq(Queued, n + 1, Len(Queued))
<1>1. CASE UNCHANGED ring
  BY <1>1 DEF ring, Queued, txTail
<1>2. ASSUME NEW b \in Beat, TxLine(b)
      PROVE  Queued' = Queued \/ Queued' = Queued \o Line(b)
  BY <1>2, TxLineQueues
<1>3. ASSUME NEW n \in 1 .. PIPE, Pumps(n)
      PROVE  \E m \in 0 .. Len(Queued) : Queued' = SubSeq(Queued, m + 1, Len(Queued))
  BY <1>3, PumpsBytes
<1>4. CASE Discarded
  BY <1>4, DiscardedBytes
<1>5. UNCHANGED ring \/ Discarded \/ (\E b \in Beat : TxLine(b)) \/ (\E n \in 1 .. PIPE : Pumps(n))
  BY DEF Next, vars, Beats, Polls, PumpsNobody, PollsBroken, Sends, SendsUnopened, SendsOpening,
         BoardBecomes, Suspends, TimePasses
<1> QED
  BY <1>1, <1>2, <1>3, <1>4, <1>5

LEMMA LinedEmpty == Lined(<<>>) /\ LastWhole(<<>>)
BY DEF Lined, LastWhole

LEMMA NextLined == Typed /\ LinesWhole /\ [Next]_vars => LinesWhole'
<1> SUFFICES ASSUME Typed, LinesWhole, [Next]_vars PROVE Lined(Queued') /\ LastWhole(Queued')
  BY DEF LinesWhole
<1>1. Queued \in Seq(Byte) /\ Lined(Queued) /\ LastWhole(Queued)
  BY Sizes DEF LinesWhole
<1>2. ASSUME NEW b \in Beat, Queued' = Queued \o Line(b)
      PROVE  Lined(Queued') /\ LastWhole(Queued')
  BY <1>1, <1>2, LinedJoin
<1>3. ASSUME NEW n \in 0 .. Len(Queued), Queued' = SubSeq(Queued, n + 1, Len(Queued))
      PROVE  Lined(Queued') /\ LastWhole(Queued')
  BY <1>1, <1>3, LinedEnd
<1> QED
  BY <1>1, <1>2, <1>3, QueueSteps, LinedEmpty

\* The board's queue holds, behind the line being sent, whole lines only, whatever is
\* dropped, moved and sent in pieces (txLine, txPump).
THEOREM LinesAreWhole == Spec => []WholeOrNotAtAll
<1>1. Init => LinesWhole
  <2>1. Init => Queued = <<>>
    BY DEF Init, RingInit, Queued, txTail
  <2> QED
    BY <2>1, LinedEmpty DEF LinesWhole
<1>2. LinesWhole => WholeOrNotAtAll
  BY DEF LinesWhole, Lined, WholeOrNotAtAll
<1> QED
  BY <1>1, <1>2, InitTyped, NextTyped, NextLined, PTL DEF Spec

----------------------------------------------------------------------------
\* Heartbeats

LEMMA ContOfFirst ==
    ASSUME NEW S, NEW s \in Seq(S), NEW t \in Seq(S), Cont(s \o t)
    PROVE  Cont(s)
<1>1. PICK c : c = s \o t
  OBVIOUS
<1>2. /\ Len(s) \in Nat /\ Len(t) \in Nat /\ DOMAIN s = 1 .. Len(s)
      /\ c \in Seq(S) /\ Len(c) = Len(s) + Len(t)
      /\ \A i \in 1 .. Len(s) + Len(t) : c[i] = IF i <= Len(s) THEN s[i] ELSE t[i - Len(s)]
  BY <1>1, ConcatProperties, LenProperties
<1>3. DOMAIN c = 1 .. Len(s) + Len(t)
  BY <1>2, LenProperties
<1> SUFFICES ASSUME NEW i \in DOMAIN s, i > 1, s[i] # NL, s[i][2] # 1
             PROVE  s[i - 1] # NL /\ s[i - 1] = <<s[i][1], s[i][2] - 1>>
  BY DEF Cont
<1>4. /\ i \in DOMAIN c /\ i <= Len(s)
      /\ i - 1 \in 1 .. Len(s) + Len(t) /\ i - 1 <= Len(s)
  BY <1>2, <1>3
<1>5. c[i] = s[i] /\ c[i - 1] = s[i - 1]
  BY <1>2, <1>3, <1>4
<1> QED
  BY <1>1, <1>4, <1>5 DEF Cont

LEMMA WayTyped ==
    ASSUME Typed
    PROVE  OnTheWay \in Seq(Byte) /\ rx \o OnTheWay \in Seq(Byte) /\ rx \in Seq(Byte)
<1>1. rx \in Seq(Byte) /\ pipe \in Seq(Byte) /\ Queued \in Seq(Byte)
  BY Sizes DEF Typed
<1>2. OnTheWay \in Seq(Byte)
  BY <1>1, ConcatProperties DEF OnTheWay
<1> QED
  BY <1>1, <1>2, ConcatProperties

LEMMA SoundSame ==
    ASSUME Sound, OnTheWay' = OnTheWay, Reads' => Reads /\ rx' = rx
    PROVE  Sound'
BY DEF Sound

\* The beginning of what is on its way is lost with the line that was begun.
LEMMA SoundCut ==
    ASSUME Typed, Typed', Sound, NEW m \in 0 .. Len(pipe), pipe' = SubSeq(pipe, m + 1, Len(pipe)),
           Queued' = Queued, Reads' => rx' = <<>>
    PROVE  Sound'
<1>1. /\ pipe \in Seq(Byte) /\ Queued \in Seq(Byte) /\ Len(pipe) \in Nat
      /\ m + 1 \in 1 .. Len(pipe) + 1
  BY Sizes DEF Typed
<1>2. OnTheWay' = SubSeq(OnTheWay, m + 1, Len(OnTheWay))
  BY <1>1, EndOfConcat DEF OnTheWay
<1>3. m + 1 \in 1 .. Len(OnTheWay) + 1 /\ Len(OnTheWay) \in 0 .. Len(OnTheWay)
  <2>1. Len(OnTheWay) = Len(pipe) + Len(Queued) /\ Len(Queued) \in Nat
    BY <1>1, ConcatProperties, LenProperties DEF OnTheWay
  <2> QED
    BY <1>1, <2>1
<1>4. Cont(OnTheWay')
  BY <1>2, <1>3, WayTyped, ContOfPart DEF Sound
<1>5. Reads' => rx' \o OnTheWay' = OnTheWay'
  <2>1. OnTheWay' \in Seq(Byte)
    BY <1>1, <1>2, <1>3, WayTyped
  <2> QED
    BY <2>1, ConcatEmptySeq
<1> QED
  BY <1>4, <1>5 DEF Sound

\* Nothing of what was queued goes on its way.
LEMMA SoundDropped ==
    ASSUME Typed, Sound, Queued' = <<>>, pipe' = pipe, Reads' => Reads /\ rx' = rx
    PROVE  Sound'
<1>1. rx \in Seq(Byte) /\ pipe \in Seq(Byte) /\ Queued \in Seq(Byte)
  BY Sizes DEF Typed
<1>2. OnTheWay' = pipe
  BY <1>1, ConcatEmptySeq DEF OnTheWay
<1>3. Cont(pipe)
  BY <1>1, ContOfFirst DEF Sound, OnTheWay
<1>4. Reads => Cont(rx \o pipe)
  <2>1. rx \o pipe \in Seq(Byte)
    BY <1>1, ConcatProperties
  <2>2. Cat(Cat(rx, pipe), Queued) = Cat(rx, Cat(pipe, Queued))
    BY <1>1, CatAssociates
  <2>3. (rx \o pipe) \o Queued = rx \o (pipe \o Queued)
    BY <2>2 DEF Cat
  <2> QED
    BY <1>1, <2>1, <2>3, ContOfFirst DEF Sound, OnTheWay
<1> QED
  BY <1>2, <1>3, <1>4 DEF Sound

LEMMA BeatsSound ==
    ASSUME Typed, Sound, NEW b \in Beat, Beats(b)
    PROVE  Sound'
<1>1. rx' = rx /\ pipe' = pipe /\ Reads' = Reads
  BY DEF Beats, link, cable, Reads
<1>2. Queued' = Queued \/ Queued' = Queued \o Line(b)
  BY TxLineQueues DEF Beats, ring, Queued, txTail
<1>3. CASE Queued' = Queued
  BY <1>1, <1>3, SoundSame DEF OnTheWay
<1>4. CASE Queued' = Queued \o Line(b)
  <2>1. /\ pipe \in Seq(Byte) /\ Queued \in Seq(Byte) /\ Line(b) \in Seq(Byte)
        /\ rx \in Seq(Byte) /\ OnTheWay \in Seq(Byte) /\ rx \o OnTheWay \in Seq(Byte)
        /\ Cont(Line(b)) /\ Line(b)[1][2] = 1
    BY Sizes, WayTyped, LineTyped, LineCont DEF Typed
  <2>2. OnTheWay' = OnTheWay \o Line(b)
    <3>1. PICK p \in Seq(Byte), q \in Seq(Byte), l \in Seq(Byte) :
            p = pipe /\ q = Queued /\ l = Line(b)
      BY <2>1
    <3>2. Cat(Cat(p, q), l) = Cat(p, Cat(q, l))
      BY CatAssociates
    <3>3. (p \o q) \o l = p \o (q \o l)
      BY <3>2 DEF Cat
    <3> QED
      BY <1>1, <1>4, <3>1, <3>3 DEF OnTheWay
  <2>3. rx \o OnTheWay' = (rx \o OnTheWay) \o Line(b)
    <3>1. PICK p \in Seq(Byte), q \in Seq(Byte), l \in Seq(Byte) :
            p = rx /\ q = OnTheWay /\ l = Line(b)
      BY <2>1
    <3>2. Cat(Cat(p, q), l) = Cat(p, Cat(q, l))
      BY CatAssociates
    <3>3. (p \o q) \o l = p \o (q \o l)
      BY <3>2 DEF Cat
    <3> QED
      BY <2>2, <3>1, <3>3
  <2>4. Cont(OnTheWay')
    BY <2>1, <2>2, ContOfConcat DEF Sound
  <2>5. Reads => Cont(rx \o OnTheWay')
    BY <2>1, <2>3, ContOfConcat DEF Sound
  <2> QED
    BY <1>1, <2>4, <2>5 DEF Sound
<1> QED
  BY <1>2, <1>3, <1>4

\* What has been read continues what was read before.
LEMMA ReadContinues ==
    ASSUME Typed, Sound, NEW n \in 1 .. PIPE, Polls(n), NEW data, data = rx \o SubSeq(pipe, 1, n)
    PROVE  /\ Reads /\ Cont(data)
           /\ data \o OnTheWay' = rx \o OnTheWay /\ Cont(OnTheWay')
           /\ data \in Seq(Byte) /\ OnTheWay' \in Seq(Byte)
<1>1. PICK f, r : f = SubSeq(pipe, 1, n) /\ r = SubSeq(pipe, n + 1, Len(pipe))
  OBVIOUS
<1>2. /\ n \in 0 .. Len(pipe) /\ pipe' = r /\ r \in Seq(Byte) /\ f \in Seq(Byte)
      /\ f \o r = pipe /\ data = rx \o f /\ data \in Seq(Byte)
  BY <1>1, PollsBytes
<1>3. rx \in Seq(Byte) /\ Queued \in Seq(Byte) /\ pipe \in Seq(Byte) /\ Len(pipe) \in Nat
  BY Sizes DEF Typed
<1>4. Queued' = Queued
  BY DEF Polls, ring, Queued, txTail
<1>5. PICK w : w = r \o Queued
  OBVIOUS
<1>6. OnTheWay' = w /\ w \in Seq(Byte)
  BY <1>2, <1>3, <1>4, <1>5, ConcatProperties DEF OnTheWay
<1>7. f \o w = OnTheWay
  <2>1. PICK q \in Seq(Byte) : q = Queued
    BY <1>3
  <2>2. (f \o r) \o q = f \o (r \o q)
    <3>1. f \in Seq(Byte) /\ r \in Seq(Byte)
      BY <1>2
    <3>2. Cat(Cat(f, r), q) = Cat(f, Cat(r, q))
      BY <2>1, <3>1, CatAssociates
    <3> QED
      BY <3>2 DEF Cat
  <2> QED
    BY <1>2, <1>5, <2>1, <2>2 DEF OnTheWay
<1>8. data \o w = rx \o OnTheWay
  <2>1. PICK p \in Seq(Byte) : p = rx
    BY <1>3
  <2>2. (p \o f) \o w = p \o (f \o w)
    <3>1. f \in Seq(Byte) /\ w \in Seq(Byte)
      BY <1>2, <1>6
    <3>2. Cat(Cat(p, f), w) = Cat(p, Cat(f, w))
      BY <2>1, <3>1, CatAssociates
    <3> QED
      BY <3>2 DEF Cat
  <2> QED
    BY <1>2, <1>7, <2>1, <2>2
<1>9. Reads
  BY DEF Polls, Read, Reads
<1>10. Cont(data)
  BY <1>2, <1>6, <1>8, <1>9, ContOfFirst DEF Sound
<1>11. Cont(w)
  <2>1. w = SubSeq(OnTheWay, n + 1, Len(OnTheWay))
    <3>1. n + 1 \in 1 .. Len(pipe) + 1
      BY <1>2, <1>3
    <3> QED
      BY <1>1, <1>3, <1>5, <3>1, EndOfConcat DEF OnTheWay
  <2>2. Len(OnTheWay) \in Nat /\ Len(OnTheWay) = Len(pipe) + Len(Queued) /\ Len(Queued) \in Nat
    BY <1>3, ConcatProperties, LenProperties DEF OnTheWay
  <2>3. n + 1 \in 1 .. Len(OnTheWay) + 1 /\ Len(OnTheWay) \in 0 .. Len(OnTheWay)
    BY <1>2, <1>3, <2>2
  <2> QED
    BY <2>1, <2>3, WayTyped, ContOfPart DEF Sound
<1> QED
  BY <1>2, <1>6, <1>8, <1>9, <1>10, <1>11

LEMMA PollsSound ==
    ASSUME Typed, Sound, NEW n \in 1 .. PIPE, Polls(n)
    PROVE  Sound'
<1>1. PICK data : data = rx \o SubSeq(pipe, 1, n)
  OBVIOUS
<1>2. PICK w : w = OnTheWay'
  OBVIOUS
<1>3. /\ Reads /\ Cont(data) /\ data \o w = rx \o OnTheWay
      /\ Cont(w) /\ data \in Seq(Byte) /\ w \in Seq(Byte)
  BY <1>1, <1>2, ReadContinues
<1>4. PICK k \in 0 .. Len(data) : rx' = SubSeq(data, k + 1, Len(data))
  BY <1>1, PollsBytes
<1>5. Len(data) \in Nat /\ Len(w) \in Nat /\ k + 1 \in 1 .. Len(data) + 1
  BY <1>3, LenProperties
<1>6. rx' \o w = SubSeq(data \o w, k + 1, Len(data \o w))
  BY <1>3, <1>4, <1>5, EndOfConcat
<1>7. /\ data \o w \in Seq(Byte) /\ Len(data \o w) = Len(data) + Len(w)
      /\ k + 1 \in 1 .. Len(data \o w) + 1 /\ Len(data \o w) \in 0 .. Len(data \o w)
  <2>1. data \o w \in Seq(Byte) /\ Len(data \o w) = Len(data) + Len(w)
    BY <1>3, ConcatProperties
  <2> QED
    BY <1>5, <2>1
<1>8. Cont(data \o w)
  BY <1>3 DEF Sound
<1>9. Cont(rx' \o w)
  BY <1>6, <1>7, <1>8, ContOfPart
<1> QED
  BY <1>2, <1>3, <1>9 DEF Sound

\* A line that parses goes through the places of a heartbeat one by one, so no byte
\* of it is of another heartbeat than the one before.
LEMMA ParsedGenuine ==
    ASSUME NEW data \in Seq(Byte), Cont(data), NEW w \in Lines(data),
           Parses(SubSeq(data, w[1], w[2]))
    PROVE  Genuine(SubSeq(data, w[1], w[2]))
<1>1. PICK x, y, text : x = w[1] /\ y = w[2] /\ text = SubSeq(data, x, y)
  OBVIOUS
<1>2. Len(data) \in Nat /\ DOMAIN data = 1 .. Len(data)
  BY LenProperties
<1>3. x \in 1 .. Len(data) /\ y \in 0 .. Len(data) /\ \A i \in x .. y : data[i] # NL
  BY <1>1 DEF Lines
<1>4. /\ text \in Seq(Byte) /\ Len(text) = IF x <= y THEN y - x + 1 ELSE 0
      /\ \A i \in 1 .. y - x + 1 : text[i] = data[x + i - 1]
  BY <1>1, <1>2, <1>3
<1>5. Len(text) \in Nat /\ DOMAIN text = 1 .. Len(text)
  BY <1>4, LenProperties
<1> SUFFICES ASSUME NEW i \in 2 .. Len(text) PROVE text[i][1] = text[i - 1][1]
  BY <1>1 DEF Genuine
<1>6. /\ i \in 1 .. y - x + 1 /\ i - 1 \in 1 .. y - x + 1 /\ i \in DOMAIN text /\ i # 1
      /\ x + i - 1 \in x .. y /\ x + i - 1 \in DOMAIN data /\ x + i - 1 > 1
      /\ x + (i - 1) - 1 = (x + i - 1) - 1
  BY <1>2, <1>3, <1>4, <1>5
<1>7. text[i] = data[x + i - 1] /\ text[i - 1] = data[(x + i - 1) - 1]
  BY <1>4, <1>6
<1>8. text[i][2] = i
  BY <1>1, <1>6 DEF Parses
<1>9. data[(x + i - 1) - 1] = <<data[x + i - 1][1], data[x + i - 1][2] - 1>>
  BY <1>3, <1>6, <1>7, <1>8 DEF Cont
<1> QED
  BY <1>7, <1>9

LEMMA PollsGenuine ==
    ASSUME Typed, Sound, Genuine(last_hb), NEW n \in 1 .. PIPE, Polls(n)
    PROVE  Genuine(last_hb')
<1>1. PICK data : data = rx \o SubSeq(pipe, 1, n)
  OBVIOUS
<1>2. data \in Seq(Byte) /\ Cont(data)
  BY <1>1, ReadContinues
<1>3. \/ last_hb' = last_hb
      \/ \E w \in Lines(data) : /\ last_hb' = SubSeq(data, w[1], w[2])
                               /\ Parses(SubSeq(data, w[1], w[2]))
  BY <1>1 DEF Polls, Read
<1> QED
  BY <1>2, <1>3, ParsedGenuine

LEMMA NextSound ==
    Typed /\ Typed' /\ Sound /\ HeartbeatsGenuine /\ [Next]_vars => Sound' /\ HeartbeatsGenuine'
<1> SUFFICES ASSUME Typed, Typed', Sound, Genuine(last_hb), [Next]_vars
             PROVE  Sound' /\ Genuine(last_hb')
  BY DEF HeartbeatsGenuine
<1>1. ASSUME UNCHANGED <<ring, pipe, last_hb>>, Reads' => Reads /\ rx' = rx
      PROVE  Sound' /\ Genuine(last_hb')
  <2>1. OnTheWay' = OnTheWay
    BY <1>1 DEF OnTheWay, ring, Queued, txTail
  <2> QED
    BY <1>1, <2>1, SoundSame
<1>2. CASE UNCHANGED vars
  BY <1>1, <1>2 DEF vars, ring, link, cable, Reads
<1>3. ASSUME NEW b \in Beat, Beats(b) PROVE Sound' /\ Genuine(last_hb')
  BY <1>3, BeatsSound DEF Beats, link
<1>4. ASSUME NEW n \in 1 .. PIPE, Pumps(n) PROVE Sound' /\ Genuine(last_hb')
  <2>1. OnTheWay' = OnTheWay /\ (Reads' => Reads /\ rx' = rx) /\ last_hb' = last_hb
    BY <1>4, PumpsBytes DEF Pumps, link, Reads
  <2> QED
    BY <2>1, SoundSame
<1>5. ASSUME NEW n \in 1 .. PIPE, Polls(n) PROVE Sound' /\ Genuine(last_hb')
  BY <1>5, PollsSound, PollsGenuine
<1>6. CASE PumpsNobody
  <2>1. /\ Queued' = <<>> /\ pipe' = pipe /\ (Reads' => Reads /\ rx' = rx) /\ last_hb' = last_hb
    BY <1>6, DiscardedBytes DEF PumpsNobody, link, cable, Reads
  <2> QED
    BY <2>1, SoundDropped
<1>7. CASE PollsBroken
  <2>1. UNCHANGED <<ring, pipe, last_hb>> /\ ~Reads'
    BY <1>7 DEF PollsBroken, ReadFails, Closes, Reads
  <2> QED
    BY <1>1, <2>1
<1>8. ASSUME NEW taken \in BOOLEAN, Sends(taken) PROVE Sound' /\ Genuine(last_hb')
  <2>1. Queued' = Queued /\ last_hb' = last_hb /\ rx' = rx
    BY <1>8 DEF Sends, Writes, ring, Queued, txTail
  <2>2. CASE taken
    <3>1. /\ UNCHANGED <<ring, connected, rx, last_hb>> /\ ~broken
      BY <1>8, <2>2 DEF Sends, Writes
    <3>2. pipe' = pipe
      BY <1>8, <2>2 DEF Sends, Drained
    <3> QED
      BY <1>1, <3>1, <3>2 DEF Reads
  <2>3. CASE ~taken
    <3>1. ~Reads'
      BY <1>8, <2>3 DEF Sends, Writes, Closes, Reads
    <3>2. PICK m \in 0 .. Len(pipe) : pipe' = SubSeq(pipe, m + 1, Len(pipe))
      BY <1>8, DrainedBytes DEF Sends
    <3> QED
      BY <2>1, <3>1, <3>2, SoundCut
  <2> QED
    BY <2>2, <2>3
<1>9. CASE SendsUnopened
  BY <1>1, <1>9 DEF SendsUnopened, OpenFails, cable, Reads
<1>10. CASE SendsOpening
  <2>1. Queued' = Queued /\ last_hb' = last_hb /\ rx' = <<>>
    BY <1>10, SendsOpeningLinks DEF ring, Queued, txTail
  <2>2. PICK m \in 0 .. Len(pipe) : pipe' = SubSeq(pipe, m + 1, Len(pipe))
    BY <1>10, SendsOpeningLinks, DrainedBytes
  <2> QED
    BY <2>1, <2>2, SoundCut
<1>11. ASSUME NEW b, BoardBecomes(b) PROVE Sound' /\ Genuine(last_hb')
  <2>1. UNCHANGED <<link, suspended>>
    BY <1>11 DEF BoardBecomes
  <2>2. CASE UNCHANGED <<ring, pipe, broken>>
    BY <1>1, <2>1, <2>2 DEF link, Reads
  <2>3. CASE Discarded /\ pipe' = <<>> /\ broken' = connected
    <3>1. ~Reads' /\ last_hb' = last_hb
      BY <2>1, <2>3 DEF link, Reads
    <3>2. OnTheWay' = <<>>
      <4>1. Queued' = <<>> /\ <<>> \in Seq(Byte)
        BY <2>3, DiscardedBytes, EmptySeq
      <4> QED
        BY <2>3, <4>1, ConcatEmptySeq DEF OnTheWay
    <3> QED
      BY <3>1, <3>2, ContOfEmpty DEF Sound
  <2> QED
    BY <1>11, <2>2, <2>3 DEF BoardBecomes
<1>12. CASE Suspends
  BY <1>1, <1>12 DEF Suspends, link, Reads
<1>13. CASE TimePasses
  BY <1>1, <1>13 DEF TimePasses, LinkAges, cable, Reads
<1> QED
  BY <1>2, <1>3, <1>4, <1>5, <1>6, <1>7, <1>8, <1>9, <1>10, <1>11, <1>12, <1>13 DEF Next

LEMMA InitSound == Init => Sound /\ HeartbeatsGenuine
<1> SUFFICES ASSUME Init PROVE Sound /\ Genuine(last_hb)
  BY DEF HeartbeatsGenuine
<1>1. txBuf = <<>> /\ txHead = 0 /\ pipe = <<>> /\ connected = FALSE /\ last_hb = <<>>
  BY DEF Init, RingInit, LinkInit
<1>2. Queued = <<>>
  BY <1>1 DEF Queued, txTail
<1>3. OnTheWay = <<>>
  <2>1. <<>> \in Seq(Byte)
    BY EmptySeq
  <2> QED
    BY <1>1, <1>2, <2>1, ConcatEmptySeq DEF OnTheWay
<1>4. Genuine(<<>>)
  BY DEF Genuine
<1> QED
  BY <1>1, <1>3, <1>4, ContOfEmpty DEF Sound, Reads

\* What the daemon takes for a heartbeat is made of the bytes of one heartbeat, for
\* every length of line and buffer (poll, ensure_open, txLine, txPump).
THEOREM HeartbeatsAreGenuine == Spec => []HeartbeatsGenuine
BY InitTyped, NextTyped, InitSound, NextSound, PTL DEF Spec

=============================================================================
