---------------------------- MODULE ScreenProofs ----------------------------
(***************************************************************************)
(* The display shows the snapshot, for any sessions, data and number of    *)
(* rows, and an alarm that gets no row is outranked by all that do.        *)
(*                                                                         *)
(* That a partial repaint equals a full one cannot be seen from the panel  *)
(* alone: the inductive invariant says that a strip the firmware believes  *)
(* in is drawn as believed, whole-screen messages included, and what       *)
(* it believes while the rows are on the glass.                            *)
(***************************************************************************)
EXTENDS Screen, FiniteSetTheorems, TLAPS

----------------------------------------------------------------------------
\* What snapshot() sends

LEMMA MaxRows == MAX_ROWS \in Nat /\ 0 < MAX_ROWS
BY SnapshotAssumption

\* An order of the sessions leaves none of them out.
LEMMA OrderIsComplete ==
    ASSUME NEW table \in Tables, NEW order \in Sorted(table)
    PROVE  /\ order \in Seq(DOMAIN table)
           /\ \A sid \in DOMAIN table : \E i \in 1 .. Len(order) : order[i] = sid
<1> DEFINE S == DOMAIN table
           n == Cardinality(S)
<1>1. IsFiniteSet(S)
  <2>1. S \subseteq Sid
    BY DEF Tables
  <2> QED
    BY <2>1, SnapshotAssumption, FS_Subset
<1>2. n \in Nat
  BY <1>1, FS_CardinalityType
<1>3. order \in [1 .. n -> S] /\ \A i, j \in 1 .. n : i # j => order[i] # order[j]
  BY DEF Sorted, SetToSeqs
<1> HIDE DEF S, n
<1>4. order \in Seq(S) /\ Len(order) = n
  BY <1>2, <1>3
<1>5. ASSUME NEW sid \in S, \A i \in 1 .. n : order[i] # sid
      PROVE  FALSE
  <2>1. order \in [1 .. n -> S \ {sid}]
    BY <1>3, <1>5
  <2>2. IsFiniteSet(S \ {sid}) /\ Cardinality(S \ {sid}) = n - 1
    BY <1>1, <1>5, FS_RemoveElement DEF n
  <2>3. IsFiniteSet(1 .. n) /\ Cardinality(1 .. n) = n
    BY <1>2, FS_Interval
  <2>4. Cardinality(S \ {sid}) < Cardinality(1 .. n)
    BY <1>2, <2>2, <2>3
  <2>5. \E i, j \in 1 .. n : i # j /\ order[i] = order[j]
    BY <2>1, <2>2, <2>3, <2>4, FS_PigeonHole
  <2> QED
    BY <1>3, <2>5
<1> QED
  BY <1>4, <1>5 DEF S

\* A row as the firmware takes it.
SentRow == [label : Sid, state : Shown, age : 0 .. 1, detail : Detail \cup {NoDetail}]

\* The rows sent are the first of the order, as many as there is room for.
LEMMA RowsSent ==
    ASSUME NEW table \in Tables, NEW order \in Sorted(table)
    PROVE  LET s == Sent(table, order).s IN
           /\ s \in Seq(SentRow)
           /\ Len(s) <= MAX_ROWS /\ Len(s) <= Len(order)
           /\ Len(s) < MAX_ROWS => Len(s) = Len(order)
           /\ DOMAIN Cut(order) = 1 .. Len(s)
           /\ \A i \in 1 .. Len(s) :
                /\ Cut(order)[i] = order[i]
                /\ s[i].state = table[order[i]].state
                /\ s[i].age = table[order[i]].age
<1> DEFINE m == IF Len(order) < MAX_ROWS THEN Len(order) ELSE MAX_ROWS
           rows == Cut(order)
           s == [i \in DOMAIN rows |-> AsRow(rows[i], table[rows[i]])]
<1>1. order \in Seq(DOMAIN table)
  BY OrderIsComplete
<1>2. m \in Nat /\ m <= MAX_ROWS /\ m <= Len(order) /\ (m < MAX_ROWS => m = Len(order))
  BY <1>1, MaxRows
<1>3. rows = SubSeq(order, 1, m)
  BY DEF Cut
<1> HIDE DEF m, rows
<1>4. /\ Len(rows) = m /\ DOMAIN rows = 1 .. m
      /\ \A i \in 1 .. m : rows[i] = order[i]
  BY <1>1, <1>2, <1>3
<1>5. s \in Seq(SentRow) /\ Len(s) = m
  <2>1. \A i \in 1 .. m : order[i] \in DOMAIN table
    BY <1>1, <1>2
  <2>2. \A sid \in DOMAIN table : sid \in Sid /\ table[sid] \in Session
    BY DEF Tables
  <2>3. \A i \in 1 .. m : AsRow(rows[i], table[rows[i]]) \in SentRow
    BY <1>4, <2>1, <2>2, SnapshotAssumption DEF AsRow, SentRow, Session
  <2> QED
    BY <1>2, <1>4, <2>3
<1>6. \A i \in 1 .. m : /\ s[i].state = table[order[i]].state
                        /\ s[i].age = table[order[i]].age
  BY <1>4 DEF AsRow
<1>7. Sent(table, order).s = s
  BY DEF Sent, rows
<1> HIDE DEF s
<1> QED
  BY <1>2, <1>4, <1>5, <1>6, <1>7 DEF rows

\* A session without a row: the display is full, and every row on it is at least
\* as urgent (state.py, snapshot), for every table, every order that sorted() may
\* leave equals in, and every number of rows.
THEOREM LeftOutIsLeastUrgent ==
    ASSUME NEW table \in Tables, NEW order \in Sorted(table),
           NEW sid \in DOMAIN table \ ToSet(Cut(order))
    PROVE  LET s == Sent(table, order).s IN
           /\ Len(s) = MAX_ROWS
           /\ \A i \in 1 .. MAX_ROWS : Urgent(s[i], table[sid])
<1> DEFINE s == Sent(table, order).s
<1>1. /\ Len(s) \in Nat
      /\ Len(s) <= MAX_ROWS /\ Len(s) <= Len(order)
      /\ Len(s) < MAX_ROWS => Len(s) = Len(order)
      /\ DOMAIN Cut(order) = 1 .. Len(s)
      /\ \A i \in 1 .. Len(s) :
           /\ Cut(order)[i] = order[i]
           /\ s[i].state = table[order[i]].state
           /\ s[i].age = table[order[i]].age
  BY RowsSent
<1> HIDE DEF s
<1>2. /\ order \in Seq(DOMAIN table)
      /\ \A k \in DOMAIN table : \E i \in 1 .. Len(order) : order[i] = k
  BY OrderIsComplete
<1>3. PICK j \in 1 .. Len(order) : order[j] = sid
  BY <1>2
<1>4. \A i \in 1 .. Len(s) : Cut(order)[i] # sid
  BY <1>1 DEF ToSet
<1>5. ~(j \in 1 .. Len(s))
  BY <1>1, <1>3, <1>4
<1>6. Len(order) \in Nat /\ DOMAIN order = 1 .. Len(order)
  BY <1>2
<1>7. Len(s) = MAX_ROWS /\ Len(s) < j
  BY <1>1, <1>5, <1>6, MaxRows
<1>8. ASSUME NEW i \in 1 .. MAX_ROWS
      PROVE  Urgent(s[i], table[sid])
  <2>1. i \in 1 .. Len(s) /\ i \in 1 .. Len(order) /\ i < j
    BY <1>1, <1>6, <1>7, MaxRows
  <2>2. Urgent(table[order[i]], table[order[j]])
    BY <1>6, <2>1 DEF Sorted
  <2> QED
    BY <1>1, <1>3, <2>1, <2>2 DEF Urgent
<1> QED
  BY <1>7, <1>8 DEF s

\* The rows of a snapshot fill the display and are alarms no less urgent than
\* any alarm that has been left out.
Outranked(s, c) ==
    \A i \in Rows : i <= Len(s) /\ isFilled(s[i].state) /\ Urgent(s[i], c)

LEMMA AboveAlarms ==
    ASSUME NEW s, NEW c, s.state \in Shown, Alarm(c), Urgent(s, c)
    PROVE  isFilled(s.state)
<1>1. PRIORITY[s.state] \in Nat
  BY SnapshotAssumption DEF PRIORITY
<1> QED
  BY <1>1, SnapshotAssumption DEF Alarm, Urgent, isFilled, PRIORITY

LEMMA SnapshotsFit ==
    ASSUME NEW sent \in Snapshots
    PROVE  /\ sent.s \in Seq(SentRow) /\ Len(sent.s) <= MAX_ROWS
           /\ \A c \in sent.cut : Outranked(sent.s, c)
<1>1. PICK table \in Tables : \E o \in Sorted(table) : sent = Sent(table, o)
  BY DEF Snapshots
<1>2. PICK order \in Sorted(table) : sent = Sent(table, order)
  BY <1>1
<1> DEFINE s == sent.s
<1>3. s \in Seq(SentRow) /\ Len(s) <= MAX_ROWS
  BY <1>2, RowsSent
<1>4. sent.cut = CutAlarms(table, Cut(order))
  BY <1>2 DEF Sent
<1>5. ASSUME NEW c \in sent.cut
      PROVE  Outranked(s, c)
  <2>1. PICK sid \in DOMAIN table \ ToSet(Cut(order)) : c = table[sid] /\ Alarm(table[sid])
    BY <1>4 DEF CutAlarms
  <2>2. Len(s) = MAX_ROWS /\ \A i \in 1 .. MAX_ROWS : Urgent(s[i], c)
    BY <1>2, <2>1, LeftOutIsLeastUrgent
  <2> HIDE DEF s
  <2>3. ASSUME NEW i \in Rows
        PROVE  i <= Len(s) /\ isFilled(s[i].state) /\ Urgent(s[i], c)
    <3>1. i <= Len(s) /\ i \in 1 .. Len(s) /\ Urgent(s[i], c)
      BY <2>2, MaxRows DEF Rows
    <3>2. s[i].state \in Shown
      <4>1. s[i] \in SentRow
        BY <1>3, <3>1
      <4> QED
        BY <4>1 DEF SentRow
    <3> QED
      BY <2>1, <3>1, <3>2, AboveAlarms
  <2> QED
    BY <2>3 DEF Outranked
<1> QED
  BY <1>3, <1>5

----------------------------------------------------------------------------
\* The invariant

\* A row drawn whole, and what is below the last row after a full repaint.
Fresh(v) == [bg |-> v.bg, mark |-> Marker(v), dot |-> v.dot, label |-> v.label,
             labelFg |-> v.labelFg, age |-> v.age, ageFg |-> v.ageFg, over |-> ""]

Below(i, count) == IF count = 0 /\ i # 1 THEN [Filled(Black) EXCEPT !.over = "empty"]
                                         ELSE Filled(Black)

\* What the firmware believes once it has drawn a snapshot.
Beliefs(sn, blink, page) ==
    [header |-> HeaderView(sn),
     rows   |-> [i \in Rows |-> IF i <= Len(sn.s) THEN View(sn, i, blink) ELSE RowUnused],
     footer |-> FooterView(sn, page),
     empty  |-> Len(sn.s) = 0]

\* Strips that are believed to be drawn are.
RowsTrue(px, sh) == \A i \in Rows : sh.rows[i].used => px.rows[i] = Fresh(sh.rows[i])

BarsTrue(px, sh) ==
    /\ sh.header.valid => px.header = sh.header
    /\ sh.footer.valid => px.footer = FooterPixels(sh.footer)

Shapes ==
    /\ panel = [header |-> panel.header, rows |-> panel.rows, footer |-> panel.footer]
    /\ panel.rows = [i \in Rows |-> panel.rows[i]]
    /\ shown = [header |-> shown.header, rows |-> shown.rows,
                footer |-> shown.footer, empty |-> shown.empty]
    /\ shown.rows = [i \in Rows |-> shown.rows[i]]

\* While the rows are on the glass, beliefs are those of the snapshot; below them
\* the panel is as if it had just been filled, unless a version error is left there.
RowsOnGlass ==
    screen = "rows" =>
        /\ snap.valid /\ ~showingNoHost
        /\ shown = Beliefs(snap, blinkOn, footerPage)
        /\ ~versionLeft => \A i \in Rows :
                i > Len(snap.s) => panel.rows[i] = Below(i, Len(snap.s))

Messages ==
    /\ screen = "nohost" => showingNoHost
    /\ screen = "version" => versionLeft

IInv == /\ TypeOK
        /\ snap.s \in Seq(SentRow)
        /\ Shapes
        /\ RowsTrue(panel, shown) /\ BarsTrue(panel, shown)
        /\ RowsOnGlass /\ Messages
        /\ \A c \in cut : Outranked(snap.s, c)

----------------------------------------------------------------------------
\* Drawing

\* Field by field is as good as whole, on a row that is drawn as believed.
LEMMA RepaintedIsFresh ==
    ASSUME NEW px, NEW old, NEW v, old.used => px = Fresh(old)
    PROVE  Repainted(px, old, v) = Fresh(v)
<1> DEFINE fresh == ~old.used \/ old.bg # v.bg
           on == IF fresh THEN Filled(v.bg) ELSE px
           marks == fresh \/ old.featured # v.featured \/ old.labelFg # v.labelFg
           labels == fresh \/ old.labelFg # v.labelFg \/ old.label # v.label
           ages == fresh \/ old.ageFg # v.ageFg \/ old.age # v.age
           mark == IF marks THEN Marker(v) ELSE on.mark
           dot == IF fresh \/ old.dot # v.dot THEN v.dot ELSE on.dot
           label == IF labels THEN v.label ELSE on.label
           labelFg == IF labels THEN v.labelFg ELSE on.labelFg
           age == IF ages THEN v.age ELSE on.age
           ageFg == IF ages THEN v.ageFg ELSE on.ageFg
           new == Repainted(px, old, v)
<1>1. new = [on EXCEPT !.mark = mark, !.dot = dot, !.label = label,
                       !.labelFg = labelFg, !.age = age, !.ageFg = ageFg]
  BY Zenon DEF Repainted
<1>2. /\ on = [bg |-> v.bg, mark |-> on.mark, dot |-> on.dot, label |-> on.label,
               labelFg |-> on.labelFg, age |-> on.age, ageFg |-> on.ageFg, over |-> ""]
      /\ ~fresh => /\ on.mark = Marker(old) /\ on.dot = old.dot
                   /\ on.label = old.label /\ on.labelFg = old.labelFg
                   /\ on.age = old.age /\ on.ageFg = old.ageFg
                   /\ old.bg = v.bg
  <2>1. CASE fresh
    <3>1. on = Filled(v.bg)
      BY <2>1
    <3> QED
      BY <2>1, <3>1 DEF Filled
  <2>2. CASE ~fresh
    <3>1. on = Fresh(old) /\ old.bg = v.bg
      BY <2>2
    <3> HIDE DEF on, fresh
    <3> QED
      BY <2>2, <3>1 DEF Fresh
  <2> QED
    BY <2>1, <2>2
<1> HIDE DEF fresh, on
<1>3. mark = Marker(v)
  BY <1>2 DEF Marker
<1>4. dot = v.dot /\ label = v.label /\ labelFg = v.labelFg /\ age = v.age /\ ageFg = v.ageFg
  BY <1>2
<1> HIDE DEF mark, dot, label, labelFg, age, ageFg, new
<1>5. PICK m, d, l, lf, a, af :
        on = [bg |-> v.bg, mark |-> m, dot |-> d, label |-> l, labelFg |-> lf,
              age |-> a, ageFg |-> af, over |-> ""]
  BY <1>2
<1>6. DOMAIN new = {"bg", "mark", "dot", "label", "labelFg", "age", "ageFg", "over"}
  BY <1>1, <1>5
<1>7. /\ new.bg = v.bg /\ new.mark = mark /\ new.dot = dot /\ new.label = label
      /\ new.labelFg = labelFg /\ new.age = age /\ new.ageFg = ageFg /\ new.over = ""
  BY <1>1, <1>5
<1>8. new = [field \in DOMAIN new |-> new[field]]
  BY <1>1
<1> QED
  BY <1>3, <1>4, <1>6, <1>7, <1>8 DEF Fresh, new

\* A snapshot drawn on a panel that is as believed: its rows,
LEMMA DrawnRows ==
    ASSUME NEW px, NEW sh, NEW sn, sn.s \in Seq(SentRow),
           RowsTrue(px, sh), NEW i \in Rows
    PROVE  Drawn(px, sh, sn).panel.rows[i] =
             IF i <= Len(sn.s) THEN Fresh(View(sn, i, blinkOn))
             ELSE IF sh.empty # (sn.s = <<>>) THEN Below(i, Len(sn.s))
             ELSE Cleared(px.rows[i], sh.rows[i])
<1> DEFINE count == Len(sn.s)
           notice == NoticeChanges(sh, sn)
           under == [k \in Rows |-> IF ~notice THEN px.rows[k]
                                    ELSE IF count > 0 \/ k = 1 THEN Filled(Black)
                                    ELSE [Filled(Black) EXCEPT !.over = "empty"]]
           old == IF notice THEN Nothing.rows ELSE sh.rows
           foot == FooterView(sn, footerPage)
           rows == [k \in Rows |-> IF k <= count
                                   THEN Repainted(under[k], old[k], View(sn, k, blinkOn))
                                   ELSE Cleared(under[k], old[k])]
<1>1. Drawn(px, sh, sn).panel.rows = rows
  <2>1. Drawn(px, sh, sn) =
            [panel |-> [header |-> HeaderDrawn(px.header, sh.header, HeaderView(sn)),
                        rows   |-> rows,
                        footer |-> FooterDrawn(px.footer, sh.footer, foot)],
             shown |-> Beliefs(sn, blinkOn, footerPage)]
    BY Zenon DEF Drawn, Beliefs
  <2> HIDE DEF rows
  <2> QED
    BY <2>1
<1>2. notice => ~old[i].used
  BY DEF Nothing, RowUnused
<1>3. old[i].used => under[i] = Fresh(old[i])
  BY <1>2 DEF RowsTrue
<1>4. notice => under[i] = Below(i, count)
  BY DEF Below
<1>5. ~notice => under[i] = px.rows[i] /\ old[i] = sh.rows[i]
  OBVIOUS
<1>6. notice <=> sh.empty # (sn.s = <<>>)
  BY DEF NoticeChanges
<1> HIDE DEF notice, under, old
<1>7. i <= count => rows[i] = Fresh(View(sn, i, blinkOn))
  BY <1>3, RepaintedIsFresh
<1>8. ~(i <= count) => rows[i] = Cleared(under[i], old[i])
  OBVIOUS
<1>9. notice => Cleared(under[i], old[i]) = under[i]
  BY <1>2 DEF Cleared
<1> HIDE DEF rows
<1> QED
  BY <1>1, <1>4, <1>5, <1>6, <1>7, <1>8, <1>9

\* its shape,
LEMMA DrawnShape ==
    ASSUME NEW px, NEW sh, NEW sn
    PROVE  LET d == Drawn(px, sh, sn) IN
           /\ d.panel = [header |-> d.panel.header, rows |-> d.panel.rows,
                         footer |-> d.panel.footer]
           /\ d.panel.rows = [i \in Rows |-> d.panel.rows[i]]
<1> DEFINE d == Drawn(px, sh, sn)
           rows == d.panel.rows
           header == HeaderDrawn(px.header, sh.header, HeaderView(sn))
           footer == FooterDrawn(px.footer, sh.footer, FooterView(sn, footerPage))
<1>1. d.panel = [header |-> header, rows |-> rows, footer |-> footer]
  BY DEF Drawn
<1>2. rows = [i \in Rows |-> rows[i]]
  BY DEF Drawn
<1> HIDE DEF d, header, footer
<1> QED
  BY <1>1, <1>2 DEF d

\* its header and its footer, and what is then believed.
LEMMA DrawnRest ==
    ASSUME NEW px, NEW sh, NEW sn, BarsTrue(px, sh)
    PROVE  /\ Drawn(px, sh, sn).shown = Beliefs(sn, blinkOn, footerPage)
           /\ Drawn(px, sh, sn).panel.header = HeaderView(sn)
           /\ Drawn(px, sh, sn).panel.footer = FooterPixels(FooterView(sn, footerPage))
<1> DEFINE foot == FooterView(sn, footerPage)
           d == Drawn(px, sh, sn)
<1>1. d.shown = Beliefs(sn, blinkOn, footerPage)
  BY DEF Drawn, Beliefs
<1>2. d.panel.header = HeaderView(sn)
  <2>1. d.panel.header = HeaderDrawn(px.header, sh.header, HeaderView(sn))
    BY DEF Drawn
  <2>2. HeaderDrawn(px.header, sh.header, HeaderView(sn)) = HeaderView(sn)
    BY DEF BarsTrue, HeaderDrawn, HeaderView
  <2> QED
    BY <2>1, <2>2
<1>3. d.panel.footer = FooterDrawn(px.footer, sh.footer, foot)
  BY DEF Drawn
<1>4. FooterDrawn(px.footer, sh.footer, foot) = FooterPixels(foot)
  BY DEF BarsTrue, FooterDrawn
<1> QED
  BY <1>1, <1>2, <1>3, <1>4

----------------------------------------------------------------------------
\* Every action keeps the invariant

\* A row that does not pulse looks the same in both phases.
LEMMA StillView ==
    ASSUME NEW sn, NEW i, ~isPulsing(sn.s[i].state), NEW a, NEW b
    PROVE  View(sn, i, a) = View(sn, i, b)
BY DEF View

\* After a whole-screen message nothing is believed to be on the panel.
LEMMA MessageIsTrue ==
    ASSUME NEW text
    PROVE  RowsTrue(Message(text), Nothing) /\ BarsTrue(Message(text), Nothing)
BY DEF RowsTrue, BarsTrue, Nothing, RowUnused, NoStrip

LEMMA MessageShapes ==
    ASSUME NEW text, panel' = Message(text), shown' = Nothing
    PROVE  /\ Shapes'
           /\ RowsTrue(panel, shown)' /\ BarsTrue(panel, shown)'
           /\ \A i \in Rows : ~shown'.rows[i].used
<1>1. Shapes'
  BY DEF Shapes, Message, Nothing, Written
<1>2. RowsTrue(panel, shown)' /\ BarsTrue(panel, shown)'
  BY MessageIsTrue DEF RowsTrue, BarsTrue
<1>3. \A i \in Rows : ~shown'.rows[i].used
  BY DEF Nothing, RowUnused
<1> QED
  BY <1>1, <1>2, <1>3

LEMMA InitEstablishes == Init => IInv
<1> SUFFICES ASSUME Init
             PROVE  IInv
  OBVIOUS
<1>1. snap.s = <<>> /\ panel = Message("nohost") /\ shown = Nothing
  BY DEF Init, NoSnap
<1>2. Shapes
  BY <1>1 DEF Shapes, Message, Nothing, Written
<1>3. RowsTrue(panel, shown) /\ BarsTrue(panel, shown)
  BY <1>1, MessageIsTrue
<1>4. TypeOK
  <2>1. \A i \in Rows : ~shown.rows[i].used
    BY <1>1 DEF Nothing, RowUnused
  <2>2. Len(snap.s) <= MAX_ROWS
    BY <1>1, MaxRows
  <2>3. {blinkOn, showingNoHost, versionLeft} \subseteq BOOLEAN
    BY DEF Init
  <2>4. footerPage \in 0 .. 1 /\ screen \in {"nohost", "rows", "version"}
    BY DEF Init
  <2> QED
    BY <2>1, <2>2, <2>3, <2>4 DEF TypeOK
<1>5. snap.s \in Seq(SentRow)
  BY <1>1
<1>6. RowsOnGlass /\ Messages /\ \A c \in cut : Outranked(snap.s, c)
  BY DEF Init, RowsOnGlass, Messages
<1> QED
  BY <1>2, <1>3, <1>4, <1>5, <1>6 DEF IInv

\* The rows below the last one, after a snapshot.
LEMMA BelowAfterSnap ==
    ASSUME IInv, NEW sn, sn.s \in Seq(SentRow), Render(sn), ~versionLeft',
           NEW i \in Rows, ~(i <= Len(sn.s))
    PROVE  panel'.rows[i] = Below(i, Len(sn.s))
<1> DEFINE empty == Len(sn.s) = 0
<1>1. empty <=> sn.s = <<>>
  OBVIOUS
<1>2. CASE showingNoHost
  <2> DEFINE px == Message("")
             sh == Nothing
  <2>1. panel' = Drawn(px, sh, sn).panel /\ RowsTrue(px, sh)
    BY <1>2, MessageIsTrue DEF Render
  <2>2. sh.empty # (sn.s = <<>>) <=> empty
    BY <1>1 DEF Nothing
  <2>3. Cleared(px.rows[i], sh.rows[i]) = Filled(Black)
    BY DEF Cleared, Message, Nothing, RowUnused, Written, Filled
  <2> HIDE DEF px, sh
  <2>4. panel'.rows[i] = IF sh.empty # (sn.s = <<>>) THEN Below(i, Len(sn.s))
                         ELSE Cleared(px.rows[i], sh.rows[i])
    BY <2>1, DrawnRows
  <2> QED
    BY <2>2, <2>3, <2>4 DEF Below
<1>3. CASE ~showingNoHost
  <2>1. panel' = Drawn(panel, shown, sn).panel
    BY <1>3 DEF Render
  <2>2. RowsTrue(panel, shown) /\ BarsTrue(panel, shown)
    BY DEF IInv
  <2>3. panel'.rows[i] = IF NoticeChanges(shown, sn) THEN Below(i, Len(sn.s))
                         ELSE Cleared(panel.rows[i], shown.rows[i])
    BY <2>1, <2>2, DrawnRows DEF NoticeChanges
  <2>4. CASE ~NoticeChanges(shown, sn)
    <3>1. ~versionLeft /\ screen = "rows"
      BY <1>3, <2>4 DEF Render, IInv, Messages, TypeOK
    <3>2. /\ shown = Beliefs(snap, blinkOn, footerPage)
          /\ i > Len(snap.s) => panel.rows[i] = Below(i, Len(snap.s))
      BY <3>1 DEF IInv, RowsOnGlass
    <3>3. snap.s \in Seq(SentRow) /\ Len(snap.s) \in Nat /\ i \in Nat
      BY MaxRows DEF IInv, Rows
    <3>4. empty <=> Len(snap.s) = 0
      BY <1>1, <2>4, <3>2 DEF NoticeChanges, Beliefs
    <3>5. shown.rows[i].used <=> i <= Len(snap.s)
      BY <3>2 DEF Beliefs, View, RowUnused
    <3>6. CASE i <= Len(snap.s)
      <4>1. panel'.rows[i] = Filled(Black)
        BY <2>3, <2>4, <3>5, <3>6 DEF Cleared
      <4>2. ~empty
        BY <3>3, <3>4, <3>6, MaxRows DEF Rows
      <4> QED
        BY <4>1, <4>2 DEF Below
    <3>7. CASE ~(i <= Len(snap.s))
      <4>1. panel'.rows[i] = panel.rows[i]
        BY <2>3, <2>4, <3>5, <3>7 DEF Cleared
      <4>2. i > Len(snap.s)
        BY <3>3, <3>7
      <4>3. panel'.rows[i] = Below(i, Len(snap.s))
        BY <3>2, <4>1, <4>2
      <4>4. Below(i, Len(snap.s)) = Below(i, Len(sn.s))
        BY <3>4 DEF Below
      <4> QED
        BY <4>3, <4>4
    <3> QED
      BY <3>6, <3>7
  <2> QED
    BY <2>3, <2>4
<1> QED
  BY <1>2, <1>3

LEMMA SnapKeeps ==
    ASSUME IInv, Snap
    PROVE  IInv'
<1>1. PICK sent \in Snapshots, rates \in {NoRates} \cup Rates :
        LET sn == [n |-> sent.n, s |-> sent.s, rates |-> rates, valid |-> TRUE] IN
        /\ snap' = sn /\ Render(sn)
        /\ cut' = sent.cut
        /\ UNCHANGED <<blinkOn, footerPage>>
  BY DEF Snap
<1> DEFINE sn == [n |-> sent.n, s |-> sent.s, rates |-> rates, valid |-> TRUE]
           px == IF showingNoHost THEN Message("") ELSE panel
           sh == IF showingNoHost THEN Nothing ELSE shown
           d == Drawn(px, sh, sn)
<1>2. /\ snap' = sn /\ Render(sn) /\ cut' = sent.cut
      /\ blinkOn' = blinkOn /\ footerPage' = footerPage
  BY <1>1
<1>3. /\ sn.s \in Seq(SentRow) /\ Len(sn.s) <= MAX_ROWS /\ sn.valid
      /\ \A c \in sent.cut : Outranked(sn.s, c)
  BY SnapshotsFit
<1> HIDE DEF sn
<1>4. /\ panel' = d.panel /\ shown' = d.shown
      /\ showingNoHost' = FALSE /\ screen' = "rows"
      /\ versionLeft' = (versionLeft /\ ~showingNoHost /\ ~NoticeChanges(shown, sn))
  BY <1>2 DEF Render
<1>5. RowsTrue(px, sh) /\ BarsTrue(px, sh)
  BY MessageIsTrue DEF IInv
<1> HIDE DEF px, sh
<1>6. /\ shown' = Beliefs(sn, blinkOn, footerPage)
      /\ panel'.header = HeaderView(sn)
      /\ panel'.footer = FooterPixels(FooterView(sn, footerPage))
      /\ panel' = [header |-> panel'.header, rows |-> panel'.rows, footer |-> panel'.footer]
      /\ panel'.rows = [i \in Rows |-> panel'.rows[i]]
  BY <1>4, <1>5, DrawnRest, DrawnShape
<1>7. \A i \in Rows : i <= Len(sn.s) => panel'.rows[i] = Fresh(View(sn, i, blinkOn))
  BY <1>3, <1>4, <1>5, DrawnRows
<1>8. \A i \in Rows : shown'.rows[i] = IF i <= Len(sn.s) THEN View(sn, i, blinkOn)
                                       ELSE RowUnused
  BY <1>6 DEF Beliefs
<1>9. shown'.header = HeaderView(sn) /\ shown'.footer = FooterView(sn, footerPage)
  BY <1>6 DEF Beliefs
<1>10. Shapes'
  BY <1>6 DEF Shapes, Beliefs
<1>11. RowsTrue(panel', shown') /\ BarsTrue(panel', shown')
  BY <1>6, <1>7, <1>8, <1>9 DEF RowsTrue, BarsTrue, RowUnused
<1>12. TypeOK'
  <2>1. \A i \in Rows : shown'.rows[i].used => i <= Len(sn.s)
    BY <1>8 DEF RowUnused
  <2>2. versionLeft' \in BOOLEAN
    BY <1>4
  <2> QED
    BY <1>2, <1>3, <1>4, <2>1, <2>2 DEF IInv, TypeOK
<1>13. ASSUME ~versionLeft', NEW i \in Rows, i > Len(sn.s)
       PROVE  panel'.rows[i] = Below(i, Len(sn.s))
  <2>1. ~(i <= Len(sn.s))
    BY <1>3, <1>13, MaxRows DEF Rows
  <2> QED
    BY <1>2, <1>3, <1>13, <2>1, BelowAfterSnap
<1>14. RowsOnGlass'
  BY <1>2, <1>3, <1>4, <1>6, <1>13 DEF RowsOnGlass
<1>15. Messages'
  BY <1>4 DEF Messages
<1> QED
  BY <1>2, <1>3, <1>10, <1>11, <1>12, <1>14, <1>15 DEF IInv, RowsTrue, BarsTrue

LEMMA VersionErrorKeeps ==
    ASSUME IInv, VersionError
    PROVE  IInv'
<1>1. /\ Shapes' /\ RowsTrue(panel, shown)' /\ BarsTrue(panel, shown)'
      /\ \A i \in Rows : ~shown'.rows[i].used
  BY MessageShapes DEF VersionError
<1>2. /\ screen' = "version" /\ versionLeft' = TRUE
      /\ UNCHANGED <<snap, blinkOn, footerPage, showingNoHost, cut>>
  BY DEF VersionError
<1>3. TypeOK'
  BY <1>1, <1>2 DEF IInv, TypeOK
<1> QED
  BY <1>1, <1>2, <1>3 DEF IInv, RowsOnGlass, Messages

LEMMA NoHostKeeps ==
    ASSUME IInv, NoHost
    PROVE  IInv'
<1>1. /\ Shapes' /\ RowsTrue(panel, shown)' /\ BarsTrue(panel, shown)'
      /\ \A i \in Rows : ~shown'.rows[i].used
  BY MessageShapes DEF NoHost
<1>2. /\ screen' = "nohost" /\ versionLeft' = FALSE /\ showingNoHost' = TRUE
      /\ UNCHANGED <<snap, blinkOn, footerPage, cut>>
  BY DEF NoHost
<1>3. TypeOK'
  BY <1>1, <1>2 DEF IInv, TypeOK
<1> QED
  BY <1>1, <1>2, <1>3 DEF IInv, RowsOnGlass, Messages

LEMMA BlinkKeeps ==
    ASSUME IInv, Blink
    PROVE  IInv'
<1> DEFINE pulsing == {i \in 1 .. Len(snap.s) : Drawable /\ isPulsing(snap.s[i].state)}
           v(i) == View(snap, i, ~blinkOn)
           pxRows == [i \in Rows |-> IF i \in pulsing
                                     THEN Repainted(panel.rows[i], shown.rows[i], v(i))
                                     ELSE panel.rows[i]]
           shRows == [i \in Rows |-> IF i \in pulsing THEN v(i) ELSE shown.rows[i]]
<1>1. /\ panel' = [panel EXCEPT !.rows = pxRows]
      /\ shown' = [shown EXCEPT !.rows = shRows]
      /\ blinkOn' = ~blinkOn
      /\ UNCHANGED <<snap, footerPage, showingNoHost, screen, versionLeft, cut>>
  BY DEF Blink, history
<1>2. /\ panel' = [header |-> panel.header, rows |-> pxRows, footer |-> panel.footer]
      /\ shown' = [header |-> shown.header, rows |-> shRows,
                   footer |-> shown.footer, empty |-> shown.empty]
  BY <1>1 DEF IInv, Shapes
<1>3. ASSUME NEW i \in Rows
      PROVE  shRows[i].used => pxRows[i] = Fresh(shRows[i])
  <2>1. shown.rows[i].used => panel.rows[i] = Fresh(shown.rows[i])
    BY DEF IInv, RowsTrue
  <2>2. Repainted(panel.rows[i], shown.rows[i], v(i)) = Fresh(v(i))
    BY <2>1, RepaintedIsFresh
  <2> QED
    BY <2>1, <2>2
<1>4. ASSUME NEW i \in Rows
      PROVE  shRows[i].used => i <= Len(snap.s)
  <2>1. i \in pulsing => i <= Len(snap.s)
    BY DEF IInv
  <2>2. shown.rows[i].used => i <= Len(snap.s)
    BY DEF IInv, TypeOK
  <2> QED
    BY <2>1, <2>2
<1>5. ASSUME screen = "rows"
      PROVE  shown' = Beliefs(snap, ~blinkOn, footerPage)
  <2>1. Drawable /\ shown = Beliefs(snap, blinkOn, footerPage)
    BY <1>5 DEF IInv, RowsOnGlass, Drawable
  <2>2. ASSUME NEW i \in Rows
        PROVE  shRows[i] = IF i <= Len(snap.s) THEN View(snap, i, ~blinkOn) ELSE RowUnused
    <3>1. shown.rows[i] = IF i <= Len(snap.s) THEN View(snap, i, blinkOn) ELSE RowUnused
      BY <2>1 DEF Beliefs
    <3>2. i \in pulsing <=> i <= Len(snap.s) /\ isPulsing(snap.s[i].state)
      BY <2>1, MaxRows DEF Rows, IInv
    <3> QED
      BY <3>1, <3>2, StillView
  <2>3. /\ shown.header = HeaderView(snap) /\ shown.footer = FooterView(snap, footerPage)
        /\ shown.empty = (Len(snap.s) = 0)
    BY <2>1 DEF Beliefs
  <2> HIDE DEF shRows
  <2>4. shRows = [i \in Rows |-> IF i <= Len(snap.s) THEN View(snap, i, ~blinkOn)
                                                     ELSE RowUnused]
    BY <2>2 DEF shRows
  <2> QED
    BY <1>2, <2>3, <2>4 DEF Beliefs
<1>6. ASSUME screen = "rows", NEW i \in Rows, i > Len(snap.s)
      PROVE  pxRows[i] = panel.rows[i]
  <2>1. i \notin pulsing
    BY <1>6, MaxRows DEF IInv, Rows
  <2> QED
    BY <2>1
<1>7. pxRows = [i \in Rows |-> pxRows[i]] /\ shRows = [i \in Rows |-> shRows[i]]
  OBVIOUS
<1> HIDE DEF pxRows, shRows
<1>8. Shapes'
  BY <1>2, <1>7 DEF Shapes
<1>9. RowsTrue(panel', shown') /\ BarsTrue(panel', shown')
  BY <1>2, <1>3 DEF RowsTrue, BarsTrue, IInv
<1>10. TypeOK'
  BY <1>1, <1>2, <1>4 DEF IInv, TypeOK
<1>11. RowsOnGlass'
  BY <1>1, <1>2, <1>5, <1>6 DEF IInv, RowsOnGlass
<1>12. Messages' /\ (snap.s \in Seq(SentRow))' /\ (\A c \in cut : Outranked(snap.s, c))'
  BY <1>1 DEF IInv, Messages
<1> QED
  BY <1>8, <1>9, <1>10, <1>11, <1>12 DEF IInv, RowsTrue, BarsTrue

LEMMA FooterFlipsKeeps ==
    ASSUME IInv, FooterFlips
    PROVE  IInv'
<1> DEFINE v == FooterView(snap, 1 - footerPage)
<1>1. /\ footerPage' = 1 - footerPage
      /\ UNCHANGED <<snap, blinkOn, showingNoHost, screen, versionLeft, cut>>
  BY DEF FooterFlips, history
<1>2. CASE Drawable
  <2>1. /\ panel' = [panel EXCEPT !.footer = FooterDrawn(@, shown.footer, v)]
        /\ shown' = [shown EXCEPT !.footer = v]
    BY <1>2 DEF FooterFlips
  <2>2. FooterDrawn(panel.footer, shown.footer, v) = FooterPixels(v)
    BY DEF IInv, BarsTrue, FooterDrawn
  <2> HIDE DEF v
  <2>3. /\ panel' = [header |-> panel.header, rows |-> panel.rows, footer |-> FooterPixels(v)]
        /\ shown' = [header |-> shown.header, rows |-> shown.rows,
                     footer |-> v, empty |-> shown.empty]
    BY <2>1, <2>2 DEF IInv, Shapes
  <2>4. Shapes'
    BY <2>3 DEF IInv, Shapes
  <2>5. RowsTrue(panel', shown') /\ BarsTrue(panel', shown')
    BY <2>3 DEF IInv, RowsTrue, BarsTrue
  <2>6. TypeOK'
    BY <1>1, <2>3 DEF IInv, TypeOK
  <2>7. RowsOnGlass'
    BY <1>1, <2>3 DEF IInv, RowsOnGlass, Beliefs, v
  <2>8. Messages' /\ (snap.s \in Seq(SentRow))' /\ (\A c \in cut : Outranked(snap.s, c))'
    BY <1>1 DEF IInv, Messages
  <2> QED
    BY <2>4, <2>5, <2>6, <2>7, <2>8 DEF IInv, RowsTrue, BarsTrue
<1>3. CASE ~Drawable
  <2>1. UNCHANGED <<panel, shown>>
    BY <1>3 DEF FooterFlips
  <2>2. screen # "rows"
    BY <1>3 DEF IInv, RowsOnGlass, Drawable
  <2>3. TypeOK'
    BY <1>1, <2>1 DEF IInv, TypeOK
  <2> QED
    BY <1>1, <2>1, <2>2, <2>3 DEF IInv, Shapes, RowsTrue, BarsTrue, RowsOnGlass, Messages
<1> QED
  BY <1>2, <1>3

\* The invariant is inductive.
LEMMA NextKeeps == IInv /\ [Next]_vars => IInv'
<1> SUFFICES ASSUME IInv, [Next]_vars
             PROVE  IInv'
  OBVIOUS
<1>1. CASE UNCHANGED vars
  BY <1>1 DEF vars, history, IInv, TypeOK, Shapes, RowsTrue, BarsTrue, RowsOnGlass, Messages
<1> QED
  BY <1>1, SnapKeeps, VersionErrorKeeps, NoHostKeeps, BlinkKeeps, FooterFlipsKeeps DEF Next

LEMMA Invariance == Spec => []IInv
BY InitEstablishes, NextKeeps, PTL DEF Spec

----------------------------------------------------------------------------
\* The theorems

\* Beliefs, flags and page are well typed, and no row is believed to be there
\* that the snapshot does not have (beacon.ino, shownRows).
THEOREM ScreenTypeCorrect == Spec => []TypeOK
<1>1. IInv => TypeOK
  BY DEF IInv
<1> QED
  BY <1>1, Invariance, PTL

\* A full repaint of the last snapshot, in terms of the invariant.
LEMMA AfreshIs ==
    ASSUME snap.s \in Seq(SentRow)
    PROVE  /\ Afresh.header = HeaderView(snap)
           /\ Afresh.footer = FooterPixels(FooterView(snap, footerPage))
           /\ \A i \in Rows : Afresh.rows[i] =
                IF i <= Len(snap.s) THEN Fresh(View(snap, i, blinkOn))
                                    ELSE Below(i, Len(snap.s))
<1> DEFINE px == Message("")
           sh == Nothing
<1>1. RowsTrue(px, sh) /\ BarsTrue(px, sh)
  BY MessageIsTrue
<1>2. Afresh = Drawn(px, sh, snap).panel
  BY DEF Afresh
<1> HIDE DEF px, sh
<1>3. /\ Afresh.header = HeaderView(snap)
      /\ Afresh.footer = FooterPixels(FooterView(snap, footerPage))
  BY <1>1, <1>2, DrawnRest
<1>4. ASSUME NEW i \in Rows, i <= Len(snap.s)
      PROVE  Afresh.rows[i] = Fresh(View(snap, i, blinkOn))
  BY <1>1, <1>2, <1>4, DrawnRows
<1>5. ASSUME NEW i \in Rows, ~(i <= Len(snap.s))
      PROVE  Afresh.rows[i] = Below(i, Len(snap.s))
  <2>1. Afresh.rows[i] = IF sh.empty # (snap.s = <<>>) THEN Below(i, Len(snap.s))
                         ELSE Cleared(px.rows[i], sh.rows[i])
    BY <1>1, <1>2, <1>5, DrawnRows
  <2>2. sh.empty # (snap.s = <<>>) \/ Len(snap.s) # 0
    <3>1. snap.s = <<>> <=> Len(snap.s) = 0
      OBVIOUS
    <3> QED
      BY <3>1 DEF sh, Nothing
  <2>3. Cleared(px.rows[i], sh.rows[i]) = Filled(Black)
    BY DEF px, sh, Cleared, Message, Nothing, RowUnused, Written, Filled
  <2> QED
    BY <2>1, <2>2, <2>3 DEF Below
<1> QED
  BY <1>3, <1>4, <1>5

\* What is on the glass is the last snapshot, as a full repaint would show it,
\* whatever sequence of partial repaints has led there.
THEOREM PanelShowsTheSnapshot == Spec => []PanelIsTrue
<1>1. IInv => PanelIsTrue
  <2> SUFFICES ASSUME IInv, screen = "rows"
               PROVE  /\ panel.header = Afresh.header /\ panel.footer = Afresh.footer
                      /\ \A i \in Rows : i <= Len(snap.s) \/ ~versionLeft =>
                            panel.rows[i] = Afresh.rows[i]
    BY DEF PanelIsTrue
  <2>1. /\ shown = Beliefs(snap, blinkOn, footerPage)
        /\ ~versionLeft => \A i \in Rows :
                i > Len(snap.s) => panel.rows[i] = Below(i, Len(snap.s))
    BY DEF IInv, RowsOnGlass
  <2>2. snap.s \in Seq(SentRow) /\ RowsTrue(panel, shown) /\ BarsTrue(panel, shown)
    BY DEF IInv
  <2>3. /\ panel.header = HeaderView(snap)
        /\ panel.footer = FooterPixels(FooterView(snap, footerPage))
    BY <2>1, <2>2 DEF BarsTrue, Beliefs, HeaderView, FooterView
  <2>4. ASSUME NEW i \in Rows, i <= Len(snap.s)
        PROVE  panel.rows[i] = Fresh(View(snap, i, blinkOn))
    <3>1. shown.rows[i] = View(snap, i, blinkOn) /\ shown.rows[i].used
      BY <2>1, <2>4 DEF Beliefs, View
    <3> QED
      BY <2>2, <3>1 DEF RowsTrue
  <2>5. \A i \in Rows : i <= Len(snap.s) \/ i > Len(snap.s)
    BY <2>2, MaxRows DEF Rows
  <2> HIDE DEF Afresh
  <2> QED
    BY <2>1, <2>2, <2>3, <2>4, <2>5, AfreshIs
<1> QED
  BY <1>1, Invariance, PTL

\* While an alarm has no row, every row is red, in its field or its letters, and
\* none of them is less urgent: for any number of sessions and rows.
THEOREM AlarmsOutranked == Spec => []AlarmOnPanel
<1>1. IInv => AlarmOnPanel
  <2> SUFFICES ASSUME IInv, screen = "rows", NEW c \in cut, NEW i \in Rows
               PROVE  /\ "red" \in {panel.rows[i].bg, panel.rows[i].labelFg}
                      /\ Urgent(snap.s[i], c)
    BY DEF AlarmOnPanel
  <2>1. i <= Len(snap.s) /\ isFilled(snap.s[i].state) /\ Urgent(snap.s[i], c)
    BY DEF IInv, Outranked
  <2>2. shown = Beliefs(snap, blinkOn, footerPage)
    BY DEF IInv, RowsOnGlass
  <2>3. shown.rows[i] = View(snap, i, blinkOn) /\ shown.rows[i].used
    BY <2>1, <2>2 DEF Beliefs, View
  <2>4. panel.rows[i] = Fresh(View(snap, i, blinkOn))
    BY <2>3 DEF IInv, RowsTrue
  <2>5. "red" \in {View(snap, i, blinkOn).bg, View(snap, i, blinkOn).labelFg}
    BY <2>1 DEF View
  <2>6. \A v : Fresh(v).bg = v.bg /\ Fresh(v).labelFg = v.labelFg
    BY DEF Fresh
  <2> QED
    BY <2>1, <2>4, <2>5, <2>6
<1> QED
  BY <1>1, Invariance, PTL
=============================================================================
