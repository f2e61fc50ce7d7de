------------------------------ MODULE Snapshot ------------------------------
(***************************************************************************)
(* What the daemon chooses to send of its table (state.py, snapshot): the  *)
(* rows in order of urgency, as many as the display has, and which of them *)
(* the footer is about.                                                    *)
(***************************************************************************)
EXTENDS Naturals, Sequences, FiniteSets, SequencesExt

CONSTANTS
    Sid,            \* session ids, and the labels of their rows
    Shown,          \* states that occur
    Detail,         \* contexts and models a footer may tell of
    NoDetail,       \* what is known of a session without statusline data
    DetailOf,       \* per session, one of them
    MAX_ROWS        \* rows sent, and rows of the display

PRIORITY ==
    [need |-> 0, held |-> 1, err |-> 2, look |-> 3, work |-> 4, wait |-> 5,
     stale |-> 6, start |-> 7, idle |-> 8, end |-> 9]

ASSUME SnapshotAssumption ==
    /\ IsFiniteSet(Sid)
    /\ Shown \subseteq DOMAIN PRIORITY
    /\ MAX_ROWS \in Nat \ {0}
    /\ DetailOf \in [Sid -> Detail \cup {NoDetail}]

\* age: how long the session has been in its state.
Session == [state : Shown, age : 0 .. 1]

Tables == UNION {[sids -> Session] : sids \in SUBSET Sid}

\* Mutant: the longest in its state first, whatever state that is.
UrgentByAge(s, t) == s.age >= t.age

\* The sort key (PRIORITY, state_since); a greater age is an earlier stamp.
Urgent(s, t) ==
    \/ PRIORITY[s.state] < PRIORITY[t.state]
    \/ s.state = t.state /\ s.age >= t.age

\* The orders in which sorted() may leave the sessions: equals stay as they were.
Sorted(table) ==
    {order \in SetToSeqs(DOMAIN table) :
        \A i, j \in DOMAIN order : i < j => Urgent(table[order[i]], table[order[j]])}

\* Mutant: as many rows as there are sessions.
CutNot(order) == order

\* Neither the daemon nor the firmware takes more rows than the display has.
Cut(order) == SubSeq(order, 1, IF Len(order) < MAX_ROWS THEN Len(order) ELSE MAX_ROWS)

\* A row as it is sent.
AsRow(sid, s) == [label |-> sid, state |-> s.state, age |-> s.age, detail |-> DetailOf[sid]]

\* Alarms that do not get a row.
Alarm(s) == s.state \in {"need", "held"}

CutAlarms(table, rows) ==
    {table[sid] : sid \in {k \in DOMAIN table \ ToSet(rows) : Alarm(table[k])}}

\* The first row is the one the footer is about.
Sent(table, order) ==
    LET rows == Cut(order)
    IN  [n   |-> Len(order),
         s   |-> [i \in DOMAIN rows |-> AsRow(rows[i], table[rows[i]])],
         cut |-> CutAlarms(table, rows)]

\* Whatever the table is, what may be sent of it.
Snapshots == UNION {{Sent(table, order) : order \in Sorted(table)} : table \in Tables}
=============================================================================
