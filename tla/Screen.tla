------------------------------- MODULE Screen -------------------------------
(***************************************************************************)
(* The display (beacon.ino): what is on the panel, and what the firmware   *)
(* believes is on it, shownRows, shownHeader, shownFooter and shownEmpty,  *)
(* by which it repaints only what has changed.                             *)
(*                                                                         *)
(* The panel is a strip for the header, one for each row and one for the   *)
(* footer.  A strip is what has been drawn in it field by field since it   *)
(* was last filled, and what a whole-screen message has left written there.*)
(* An age is drawn as it is; usage and cost are one value, rates.          *)
(***************************************************************************)
EXTENDS Snapshot

CONSTANTS Rates, NoRates    \* account usage, or none known

VARIABLES
    snap,           \* the last snapshot
    panel,          \* what is on the glass
    shown,          \* what is believed to be
    blinkOn, footerPage, showingNoHost,
    \* History
    screen,         \* what was drawn last: "nohost", "rows" or "version"
    versionLeft,    \* a version error has been drawn and not been filled over
    cut             \* alarms of the last table that it has no row for

history == <<screen, versionLeft, cut>>
vars == <<snap, panel, shown, blinkOn, footerPage, showingNoHost, history>>

Rows == 1 .. MAX_ROWS

Black == "black"

\* A strip filled with a colour.
Filled(bg) == [bg |-> bg, mark |-> bg, dot |-> bg, label |-> "", labelFg |-> bg,
               age |-> "", ageFg |-> bg, over |-> ""]

\* A strip of the header or the footer: its fields, or nothing.
NoStrip == [valid |-> FALSE]

RowUnused == [used |-> FALSE]

\* Whole-screen messages are written across the rows, but for the first.
Written(text) == [i \in Rows |-> [Filled(Black) EXCEPT !.over = IF i = 1 THEN "" ELSE text]]

Nothing == [header |-> NoStrip, rows |-> [i \in Rows |-> RowUnused],
            footer |-> NoStrip, empty |-> FALSE]

\* fillScreen(), a text, invalidateAll()
Message(text) == [header |-> NoStrip, rows |-> Written(text), footer |-> NoStrip]

NoSnap == [n |-> 0, s |-> <<>>, rates |-> NoRates, valid |-> FALSE]

Init ==
    /\ snap = NoSnap
    /\ panel = Message("nohost") /\ shown = Nothing
    /\ blinkOn = TRUE /\ footerPage = 0
    /\ showingNoHost = TRUE
    /\ screen = "nohost" /\ versionLeft = FALSE /\ cut = {}

----------------------------------------------------------------------------
\* drawRow()

stateColor(state) ==
    CASE state \in {"need", "held"}  -> "red"
      [] state \in {"wait", "stale"} -> "amber"
      [] OTHER                       -> state

isFilled(state) == state \in {"need", "held"}

isPulsing(state) == state = "need"

\* What a row should look like, by its state and the phase of the blink.
View(sn, i, blink) ==
    LET r == sn.s[i]
        on == isPulsing(r.state) => blink
        bg == IF isFilled(r.state) /\ on THEN "red" ELSE Black
        loud == IF on THEN Black ELSE "red"
    IN  [used     |-> TRUE,
         featured |-> i = 1,
         label    |-> r.label,
         age      |-> r.age,
         bg       |-> bg,
         labelFg  |-> IF isFilled(r.state) THEN loud
                      ELSE IF r.state = "end" THEN "muted" ELSE "text",
         ageFg    |-> IF isFilled(r.state) THEN loud
                      ELSE IF r.state \in {"wait", "stale", "look", "err"}
                           THEN stateColor(r.state) ELSE "muted",
         dot      |-> IF isFilled(r.state) THEN loud ELSE stateColor(r.state)]

Marker(v) == IF ~v.featured THEN v.bg ELSE IF v.bg = "red" THEN "text" ELSE v.labelFg

\* Mutant: the colours of a row follow from its background.
RepaintedText(px, old, v) ==
    LET fresh == ~old.used \/ old.bg # v.bg
        on == IF fresh THEN Filled(v.bg) ELSE px
        marks == fresh \/ old.featured # v.featured \/ old.labelFg # v.labelFg
        labels == fresh \/ old.label # v.label
        ages == fresh \/ old.ageFg # v.ageFg \/ old.age # v.age
    IN  [on EXCEPT !.mark    = IF marks THEN Marker(v) ELSE @,
                   !.dot     = IF fresh \/ old.dot # v.dot THEN v.dot ELSE @,
                   !.label   = IF labels THEN v.label ELSE @,
                   !.labelFg = IF labels THEN v.labelFg ELSE @,
                   !.age     = IF ages THEN v.age ELSE @,
                   !.ageFg   = IF ages THEN v.ageFg ELSE @]

\* The pixels of a row that was believed to be old once it has been drawn as v:
\* filled only when its background changes, and then field by field.
Repainted(px, old, v) ==
    LET fresh == ~old.used \/ old.bg # v.bg
        on == IF fresh THEN Filled(v.bg) ELSE px
        marks == fresh \/ old.featured # v.featured \/ old.labelFg # v.labelFg
        labels == fresh \/ old.labelFg # v.labelFg \/ old.label # v.label
        ages == fresh \/ old.ageFg # v.ageFg \/ old.age # v.age
    IN  [on EXCEPT !.mark    = IF marks THEN Marker(v) ELSE @,
                   !.dot     = IF fresh \/ old.dot # v.dot THEN v.dot ELSE @,
                   !.label   = IF labels THEN v.label ELSE @,
                   !.labelFg = IF labels THEN v.labelFg ELSE @,
                   !.age     = IF ages THEN v.age ELSE @,
                   !.ageFg   = IF ages THEN v.ageFg ELSE @]

----------------------------------------------------------------------------
\* drawHeader() and drawFooter()

\* How many there are in all, and what they have cost.
HeaderView(sn) == [valid |-> TRUE, n |-> sn.n, cost |-> sn.rates]

\* The header is filled when it is not believed to be there; of its two fields
\* those are drawn that have changed.
HeaderDrawn(px, old, v) ==
    [valid |-> ~old.valid \/ px.valid,
     n     |-> IF ~old.valid \/ old.n # v.n THEN v.n ELSE px.n,
     cost  |-> IF ~old.valid \/ old.cost # v.cost THEN v.cost ELSE px.cost]

\* The page is the one of the two that has something to say, or the one whose
\* turn it is, or neither.
FooterView(sn, page) ==
    LET detail == IF sn.s = <<>> THEN NoDetail ELSE sn.s[1].detail
        hint == detail = NoDetail /\ sn.rates = NoRates
    IN  [valid  |-> TRUE,
         hint   |-> hint,
         page   |-> IF hint \/ sn.rates = NoRates THEN 0
                    ELSE IF detail # NoDetail THEN page ELSE 1,
         detail |-> detail,
         rates  |-> sn.rates]

\* What of it is visible on its page.
FooterPixels(v) ==
    [valid |-> TRUE,
     says  |-> IF v.hint THEN NoDetail ELSE IF v.page = 1 THEN v.rates ELSE v.detail]

\* The footer is drawn anew when anything it depends on has changed.
FooterDrawn(px, old, v) ==
    IF old.valid /\ old = v THEN px ELSE FooterPixels(v)

----------------------------------------------------------------------------
\* render()

\* Whether updateEmptyNotice() fills the rows: the table has become empty, or
\* is no longer.
NoticeChanges(sh, sn) == sh.empty # (sn.s = <<>>)

\* clearRow(): only a row that is believed to be there is filled.
Cleared(px, old) == IF old.used THEN Filled(Black) ELSE px

\* The panel and the beliefs after a snapshot has been drawn over px and sh.
Drawn(px, sh, sn) ==
    LET count == Len(sn.s)
        notice == NoticeChanges(sh, sn)
        under == [i \in Rows |-> IF ~notice THEN px.rows[i]
                                 ELSE IF count > 0 \/ i = 1 THEN Filled(Black)
                                 ELSE [Filled(Black) EXCEPT !.over = "empty"]]
        old == IF notice THEN Nothing.rows ELSE sh.rows
        head == HeaderView(sn)
        foot == FooterView(sn, footerPage)
    IN  [panel |-> [header |-> HeaderDrawn(px.header, sh.header, head),
                    rows   |-> [i \in Rows |->
                                    IF i <= count
                                    THEN Repainted(under[i], old[i], View(sn, i, blinkOn))
                                    ELSE Cleared(under[i], old[i])],
                    footer |-> FooterDrawn(px.footer, sh.footer, foot)],
         shown |-> [header |-> head,
                    rows   |-> [i \in Rows |-> IF i <= count THEN View(sn, i, blinkOn)
                                                             ELSE RowUnused],
                    footer |-> foot,
                    empty  |-> count = 0]]

\* render(): the no-host screen is filled over and forgotten first.
Render(sn) ==
    LET d == IF showingNoHost THEN Drawn(Message(""), Nothing, sn)
                              ELSE Drawn(panel, shown, sn)
    IN  /\ panel' = d.panel /\ shown' = d.shown
        /\ showingNoHost' = FALSE
        /\ screen' = "rows"
        /\ versionLeft' = (versionLeft /\ ~showingNoHost /\ ~NoticeChanges(shown, sn))

\* A snapshot of whatever table the daemon has arrives.
Snap ==
    \E sent \in Snapshots, rates \in {NoRates} \cup Rates :
        LET sn == [n |-> sent.n, s |-> sent.s, rates |-> rates, valid |-> TRUE] IN
        /\ snap' = sn /\ Render(sn)
        /\ cut' = sent.cut
        /\ UNCHANGED <<blinkOn, footerPage>>

\* One of another protocol version: drawVersionError().
VersionError ==
    /\ panel' = Message("version") /\ shown' = Nothing
    /\ screen' = "version" /\ versionLeft' = TRUE
    /\ UNCHANGED <<snap, blinkOn, footerPage, showingNoHost, cut>>

----------------------------------------------------------------------------
\* The timers of loop()

NoHost ==
    /\ ~showingNoHost /\ showingNoHost' = TRUE
    /\ panel' = Message("nohost") /\ shown' = Nothing
    /\ screen' = "nohost" /\ versionLeft' = FALSE
    /\ UNCHANGED <<snap, blinkOn, footerPage, cut>>

Drawable == snap.valid /\ ~showingNoHost

\* Rows that pulse are drawn in the other phase, whatever is on the panel.
Blink ==
    LET pulsing == {i \in 1 .. Len(snap.s) : Drawable /\ isPulsing(snap.s[i].state)}
        v(i) == View(snap, i, ~blinkOn)
    IN  /\ blinkOn' = ~blinkOn
        /\ panel' = [panel EXCEPT !.rows = [i \in Rows |->
                        IF i \in pulsing THEN Repainted(@[i], shown.rows[i], v(i)) ELSE @[i]]]
        /\ shown' = [shown EXCEPT !.rows = [i \in Rows |->
                        IF i \in pulsing THEN v(i) ELSE @[i]]]
        /\ UNCHANGED <<snap, footerPage, showingNoHost, history>>

FooterFlips ==
    LET v == FooterView(snap, 1 - footerPage) IN
    /\ footerPage' = 1 - footerPage
    /\ IF Drawable
       THEN /\ panel' = [panel EXCEPT !.footer = FooterDrawn(@, shown.footer, v)]
            /\ shown' = [shown EXCEPT !.footer = v]
       ELSE UNCHANGED <<panel, shown>>
    /\ UNCHANGED <<snap, blinkOn, showingNoHost, history>>

Next == Snap \/ VersionError \/ NoHost \/ Blink \/ FooterFlips

Spec == Init /\ [][Next]_vars

----------------------------------------------------------------------------
\* The firmware has no more rows than it draws, and believes in no row that the
\* snapshot does not have.
TypeOK ==
    /\ Len(snap.s) <= MAX_ROWS
    /\ {blinkOn, showingNoHost, versionLeft} \subseteq BOOLEAN /\ footerPage \in 0 .. 1
    /\ screen \in {"nohost", "rows", "version"}
    /\ \A i \in Rows : shown.rows[i].used => i <= Len(snap.s)

\* The snapshot drawn on an empty panel.
Afresh == Drawn(Message(""), Nothing, snap).panel

\* Repainting only what has changed shows what a full repaint would, after any
\* sequence of snapshots, blinks, pages and whole-screen messages, but for what a
\* version error may have left below the last row (drawRow, clearRow,
\* updateEmptyNotice, invalidateAll, drawFooter).
PanelIsTrue ==
    screen = "rows" =>
        /\ panel.header = Afresh.header /\ panel.footer = Afresh.footer
        /\ \A i \in Rows :
            i <= Len(snap.s) \/ ~versionLeft => panel.rows[i] = Afresh.rows[i]

\* "The device replaces its entire view with each snapshot." (docs/protocol.md)
WholeViewReplaced ==
    [][screen' = "rows" /\ snap' # snap => panel'.rows = Afresh'.rows]_vars

\* An alarm the display has no room for is outranked by what is on the glass: every
\* row is in red, one way or the other, and none has come up later than it in the
\* same state (snapshot, drawRow).
AlarmOnPanel ==
    screen = "rows" => \A c \in cut, i \in Rows :
        /\ "red" \in {panel.rows[i].bg, panel.rows[i].labelFg}
        /\ Urgent(snap.s[i], c)
=============================================================================
