------------------------------- MODULE Daemon -------------------------------
(***************************************************************************)
(* The daemon as threads: the handler threads of the hook server           *)
(* (hook_server.py), one for each open connection, the bounded queue they  *)
(* fill, and the main loop (main.py) that drains it, answers /forget,      *)
(* polls the processes of the sessions and ticks.                          *)
(*                                                                         *)
(* The table is reduced to what these parts read and write of it, and      *)
(* moves by the steps of SessionTable; SessionStore has the whole of it.   *)
(* The sessions live outside: each runs in a process, may be killed with   *)
(* it and resumed in another, and fires hooks, some of them at the same    *)
(* time.                                                                   *)
(***************************************************************************)
EXTENDS ProcWatch, Sequences, FiniteSets

CONSTANTS
    Sid,            \* session ids
    Thread,         \* handler threads: requests served at one time
    Key,            \* what /forget may be asked for
    Names,          \* per key, the sessions it is the id or the label of
    NoBox,          \* a reply queue nobody waits at any more
    QMax            \* capacity of the queue, 10000 in the code

ASSUME ServerAssumption ==
    /\ Names \in [Key -> SUBSET Sid]
    /\ QMax \in Nat \ {0}
    /\ NoBox \notin Thread
    /\ Sid # {}

VARIABLES
    home,           \* the process each session was last started in
    stage,          \* how far its first hook from there, SessionStart, has come
    req,            \* per handler thread, the request it serves
    queue,          \* what waits for the main loop
    tried,          \* sessions whose process has been looked up
    rows,           \* the session table
    \* History
    told,           \* sessions whose SessionStart from home has been applied
    excused         \* sessions with a lookup missed, a hook missed or dropped, the
                    \* row dropped, or a reply not waited for

sessionVars == <<home, stage>>
history == <<told, excused>>

vars == <<os, sessionVars, req, queue, tried, rows, history>>

\* "Other" is every hook but SessionStart.
Hook == {"SessionStart", "Other"}

\* What stands in the queue and, but for its progress, in a handler thread.
Item == [kind  : Hook \cup {"status", "forget"},
         who   : Sid \cup Key,
         found : BOOLEAN,               \* the lookup has found the process
         box   : Thread \cup {NoBox}]  \* who waits for the answer

Request == [pc : {"idle", "lookup", "put", "wait"}, item : Item]

Nobody == CHOOSE sid \in Sid : TRUE

Blank == [kind |-> "status", who |-> Nobody, found |-> FALSE, box |-> NoBox]

Idle == [pc |-> "idle", item |-> Blank]

\* The rows of the table and their steps.
INSTANCE SessionTable WITH Proc <- Process

Earlier(proc) == {p \in Process : p.created < proc.created}

\* What the state file may have of a session that runs in proc: nothing, or a row
\* saved before its process was known, or with that, or with an earlier one.
Restored(proc) ==
    {Absent} \cup [state : {"live"}, proc : {NoProc, proc} \cup Earlier(proc)]

\* The daemon starts before its sessions, or after one.  Of that it has missed
\* hooks if it has been resumed since its row was saved.
Init ==
    /\ \/ /\ OsInit
          /\ home = [sid \in Sid |-> NoProc] /\ stage = [sid \in Sid |-> "due"]
          /\ rows = AllAbsent
          /\ told = {} /\ excused = {}
       \/ \E sid \in Sid, proc \in Process :
          /\ image = [p \in Pid |-> IF p = proc.pid
                THEN [state |-> "runs", created |-> proc.created, guarded |-> FALSE] ELSE Free]
          /\ started = proc.created
          /\ home = [s \in Sid |-> IF s = sid THEN proc ELSE NoProc]
          /\ stage = [s \in Sid |-> IF s = sid THEN "over" ELSE "due"]
          /\ \E row \in Restored(proc) :
              /\ rows = [s \in Sid |-> IF s = sid THEN row ELSE Absent]
              /\ IF row.proc \in Earlier(proc) THEN told = {} /\ excused = {sid}
                                               ELSE told = {sid} /\ excused = {}
    /\ req = [t \in Thread |-> Idle] /\ queue = <<>> /\ tried = {}

----------------------------------------------------------------------------
\* The system and the sessions

\* A hook of the session is in a handler thread or in the queue.
InFlight(sid) ==
    \/ \E t \in Thread : req[t].pc # "idle" /\ req[t].item.who = sid
    \/ \E i \in DOMAIN queue : queue[i].who = sid

\* A session is started, or resumed after its process has gone. That takes
\* longer than what is left of serving the hooks it had fired: those on their
\* way are all from home.
SessionRuns(sid, pid) ==
    /\ ~Running(home[sid]) /\ ~InFlight(sid)
    /\ Launch(pid, FALSE)
    /\ home' = [home EXCEPT ![sid] = [pid |-> pid, created |-> started + 1]]
    /\ stage' = [stage EXCEPT ![sid] = "due"]
    /\ told' = told \ {sid}
    /\ UNCHANGED <<req, queue, tried, rows, excused>>

\* PIDs go to and come back from processes that have nothing to do with it.
Stranger(pid, guarded) ==
    Launch(pid, guarded) /\ UNCHANGED <<sessionVars, req, queue, tried, rows, history>>

Gone(pid) ==
    /\ Exits(pid) \/ LastHandleCloses(pid)
    /\ UNCHANGED <<sessionVars, req, queue, tried, rows, history>>

\* The client gives up on its SessionStart (curl --max-time 1); the handler
\* goes on.
GivesUp(sid) ==
    /\ stage[sid] = "fired"
    /\ stage' = [stage EXCEPT ![sid] = "over"]
    /\ excused' = excused \cup {sid}
    /\ UNCHANGED <<os, home, req, queue, tried, rows, told>>

----------------------------------------------------------------------------
\* Handler threads: do_POST()

\* Threads are alike: the first that is idle takes the request.
Accept(t, pc, item) ==
    /\ req[t].pc = "idle"
    /\ t = CHOOSE u \in Thread : req[u].pc = "idle"
    /\ req' = [req EXCEPT ![t] = [pc |-> pc, item |-> item]]

\* A session is looked up once, and again at every SessionStart.
Due(sid, name) == sid \notin tried \/ name = "SessionStart"

\* A hook fires. SessionStart is the first a process sends, and the only one
\* until it is over; after that, those of subagents overlap. Reading its body and looking
\* into tried are one step: of what other threads change, only tried is read.
Fire(t, sid, name) ==
    /\ Running(home[sid])
    /\ stage[sid] = "over" \/ (stage[sid] = "due" /\ name = "SessionStart")
    /\ Accept(t, IF Due(sid, name) THEN "lookup" ELSE "put",
              [Blank EXCEPT !.kind = name, !.who = sid])
    /\ tried' = tried \cup {sid}
    /\ stage' = [stage EXCEPT ![sid] = IF @ = "due" THEN "fired" ELSE @]
    /\ UNCHANGED <<os, home, queue, rows, history>>

\* peer_session_process(): it can find the process only while that runs, and
\* may fail then too.
Lookup(t) ==
    /\ req[t].pc = "lookup"
    /\ \E found \in BOOLEAN :
        /\ found => Running(home[req[t].item.who])
        /\ req' = [req EXCEPT ![t].pc = "put", ![t].item.found = found]
        /\ excused' = IF found THEN excused ELSE excused \cup {req[t].item.who}
    /\ UNCHANGED <<os, sessionVars, queue, tried, rows, told>>

\* Mutant: what comes in is taken first.
EnqueuedFirst(item) == <<item>> \o queue

Enqueued(item) == Append(queue, item)

\* Mutant: one more than fits.
FullLate == Len(queue) > QMax

Full == Len(queue) >= QMax

\* The client has its reply, and goes on.
Replied(i) ==
    stage' = IF i.kind = "SessionStart" THEN [stage EXCEPT ![i.who] = "over"] ELSE stage

\* Mutant: a full queue is waited for.
PutWaiting(t) ==
    LET i == req[t].item IN
    /\ req[t].pc = "put" /\ ~Full
    /\ req' = [req EXCEPT ![t] = Idle]
    /\ queue' = Enqueued(i)
    /\ Replied(i)
    /\ UNCHANGED <<os, home, tried, rows, history>>

\* put_nowait() and the reply: an item that finds the queue full is dropped, not
\* waited for.
Put(t) ==
    LET i == req[t].item IN
    /\ req[t].pc = "put"
    /\ req' = [req EXCEPT ![t] = Idle]
    /\ IF Full THEN excused' = excused \cup {i.who} /\ UNCHANGED queue
               ELSE queue' = Enqueued(i) /\ UNCHANGED excused
    /\ Replied(i)
    /\ UNCHANGED <<os, home, tried, rows, told>>

\* A statusline payload: nothing is looked up, and it is put at once.
Status(sid) ==
    LET i == [Blank EXCEPT !.who = sid] IN
    /\ Running(home[sid])
    /\ IF Full THEN UNCHANGED queue ELSE queue' = Enqueued(i)
    /\ UNCHANGED <<os, sessionVars, req, tried, rows, history>>

----------------------------------------------------------------------------
\* Handler threads: /forget

\* Somebody asks for a session to be forgotten; a full queue is 503 at once.
AskForget(t, key) ==
    LET i == [Blank EXCEPT !.kind = "forget", !.who = key, !.box = t] IN
    /\ ~Full
    /\ Accept(t, "wait", i)
    /\ queue' = Enqueued(i)
    /\ UNCHANGED <<os, sessionVars, tried, rows, history>>

\* Mutant: the requests of a thread share one reply queue.
LeftBehindShared(t) == queue

\* Every request makes a reply queue of its own: one that is answered late is
\* answered to nobody.
LeftBehind(t) ==
    [i \in DOMAIN queue |-> IF queue[i].box = t THEN [queue[i] EXCEPT !.box = NoBox] ELSE queue[i]]

\* FORGET_WAIT_S is over: 503, and the request is still in the queue.
TimesOut(t) ==
    /\ req[t].pc = "wait"
    /\ req' = [req EXCEPT ![t] = Idle]
    /\ queue' = LeftBehind(t)
    /\ UNCHANGED <<os, sessionVars, tried, rows, history>>

Handler(t) == Lookup(t) \/ Put(t) \/ TimesOut(t)

----------------------------------------------------------------------------
\* The main loop: run()

\* The process a hook is known to come from.
Carried(i) == IF i.found THEN home[i.who] ELSE NoProc

TakeHook ==
    LET i == Head(queue) IN
    /\ queue # <<>> /\ i.kind # "forget"
    /\ queue' = Tail(queue)
    /\ Takes(i.who, i.kind, Carried(i))
    /\ told' = IF i.kind = "SessionStart" THEN told \cup {i.who} ELSE told
    /\ UNCHANGED <<os, sessionVars, req, tried, excused>>

Hits(key) == Names[key] \cap LiveRows

\* forget(): a key that names no live session, or several, ends none. The hits
\* go to the reply queue; whoever waits there answers 200, 404 or 409.
TakeForget ==
    LET i == Head(queue)
        hits == Hits(i.who)
        ended == IF Cardinality(hits) = 1 THEN hits ELSE {}
    IN  /\ queue # <<>> /\ i.kind = "forget"
        /\ queue' = Tail(queue)
        /\ Clears(ended, {})
        /\ tried' = tried \ ended
        /\ req' = [t \in Thread |->
                       IF t = i.box /\ req[t].pc = "wait" THEN Idle ELSE req[t]]
        /\ UNCHANGED <<os, sessionVars, history>>

Watched == {sid \in LiveRows : rows[sid].proc # NoProc}

\* The queue is empty. The liveness poll, if it is due, asks the system about
\* the watched sessions (any call may fail and answer None); then tick() lets
\* ended rows go after their grace, and silent ones as ghosts.
Pass(asked, dropped) ==
    LET dead == {sid \in asked : alive(rows[sid].proc) = "False"} IN
    /\ queue = <<>>
    /\ dropped \subseteq {sid \in Sid \ dead : rows[sid].state # "absent"}
    /\ Clears(dead, dropped)
    /\ excused' = excused \cup dropped
    /\ UNCHANGED <<os, sessionVars, req, queue, tried, told>>

\* A pass whose poll is due and gets all its answers.
Poll == Pass(Watched, {})

Next ==
    \/ \E sid \in Sid, pid \in Pid : SessionRuns(sid, pid)
    \/ \E pid \in Pid, guarded \in BOOLEAN : Stranger(pid, guarded)
    \/ \E pid \in Pid : Gone(pid)
    \/ \E t \in Thread, sid \in Sid, name \in Hook : Fire(t, sid, name)
    \/ \E sid \in Sid : Status(sid) \/ GivesUp(sid)
    \/ \E t \in Thread, key \in Key : AskForget(t, key)
    \/ \E t \in Thread : Handler(t)
    \/ TakeHook \/ TakeForget
    \/ \E asked \in SUBSET Watched, dropped \in SUBSET Sid : Pass(asked, dropped)

\* A handler thread goes on; of the main loop nothing is assumed here.
Fairness == \A t \in Thread : WF_vars(Handler(t))

Spec == Init /\ [][Next]_vars /\ Fairness

----------------------------------------------------------------------------
\* Every variable holds what the code could hold in its place.
TypeOK ==
    /\ image \in [Pid -> Image] /\ started \in 0 .. MaxStarts
    /\ home \in [Sid -> Process \cup {NoProc}]
    /\ stage \in [Sid -> {"due", "fired", "over"}]
    /\ req \in [Thread -> Request]
    /\ queue \in Seq(Item) /\ Len(queue) <= QMax
    /\ tried \subseteq Sid /\ rows \in [Sid -> Row]
    /\ told \subseteq Sid /\ excused \subseteq Sid

\* A hook fired once SessionStart has been answered is applied after it, whatever
\* threads served the two: the reply comes after the queue (do_POST), so a late
\* SessionStart cannot undo what the session has done since.
OrderKept ==
    [][\A sid \in Sid \ excused :
           TakeHook /\ Head(queue).who = sid /\ Head(queue).kind = "Other" => sid \in told]_vars

\* A /forget is told the outcome of its own request, also when an earlier one
\* was given up and is carried out late (_forget, run).
ForgetAnswersOwn ==
    [][\A t \in Thread :
           TakeForget /\ req[t].pc = "wait" /\ req'[t].pc = "idle" =>
               Head(queue).who = req[t].item.who]_vars

\* Every request is answered, even one that finds the queue full or the main
\* loop stuck: "a hook waiting on this would stall the Claude Code session that
\* fired it" (hook_server.py).
HookAnswered == \A t \in Thread : req[t].pc # "idle" ~> req[t].pc = "idle"

\* A process is looked up once and found: unless that is known to have been
\* missed, the row of a session looked up is watched, or a hook still on its way
\* will see to it, whatever order the hooks of the session were served in.
LookupNotLost ==
    \A sid \in tried \ excused :
        rows[sid].state = "live" /\ rows[sid].proc = NoProc =>
            \/ \E t \in Thread : req[t].item.who = sid /\
                   (req[t].pc = "lookup" \/ (req[t].pc = "put" /\ req[t].item.found))
            \/ \E i \in DOMAIN queue : queue[i].who = sid /\ queue[i].found

\* The poll that ends a session.
Ends(sid) == queue = <<>> /\ rows[sid].state = "live" /\ rows'[sid].state = "end"

\* The poll ends no session that runs and whose SessionStart has been handled,
\* if the lookups of its hooks succeeded (alive, apply_event).
LivingSpared ==
    [][\A sid \in told \ excused : Ends(sid) => ~Running(home[sid])]_vars

\* "A wrong "dead" hides a session that may be waiting on you, which is the one
\* mistake this must not make." (procwatch.py)
NoWrongDead ==
    [][\A sid \in told : Ends(sid) => ~Running(home[sid])]_vars

\* The process on record has gone, and its PID is not that of a process that
\* must not be asked about.
Unnoticed(sid) ==
    /\ sid \in Watched
    /\ ~Running(rows[sid].proc) /\ ~image[rows[sid].proc.pid].guarded

\* While the main loop drains its queue and polls again and again, a session
\* whose process is on record and has gone does not stay on display, even if the
\* PID is another process's by now (alive, run).
KilledIsNoticed ==
    []<>(queue = <<>>) /\ SF_vars(Poll) =>
        \A sid \in Sid : Unnoticed(sid) ~> ~Unnoticed(sid)
=============================================================================
