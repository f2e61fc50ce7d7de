---------------------------- MODULE DaemonProofs ----------------------------
(***************************************************************************)
(* The safety of the daemon's threads, for any number of sessions, handler *)
(* threads and PIDs, any capacity of the queue and any keys of /forget.    *)
(*                                                                         *)
(* The inductive invariant has a part for each promise, and all of them    *)
(* rest on the first:                                                      *)
(*   Typed     types, and what kinds of items may be where;                *)
(*   BoxesOK   who waits for an answer has its item in the queue, once;    *)
(*   RecordOK  what is found, is on record or is excused, fits together;   *)
(*   LookedUp  the one lookup is on record or still on its way;            *)
(*   OrderOK   a SessionStart is ahead of the hooks fired after it.        *)
(***************************************************************************)
EXTENDS Daemon, TLAPS

----------------------------------------------------------------------------
\* Types

\* What a handler thread holds, and what stands in the queue.
Held(t) == req[t].pc \in {"lookup", "put"}

ItemsOK ==
    /\ \A t \in Thread : Held(t) =>
           /\ req[t].item.kind \in Hook /\ req[t].item.who \in Sid
           /\ req[t].item.box = NoBox
    /\ \A i \in DOMAIN queue : queue[i].kind # "forget" =>
           queue[i].who \in Sid /\ queue[i].box = NoBox

\* Every request that waits for an answer is in the queue once.
BoxesOK ==
    /\ \A i \in DOMAIN queue : queue[i].box \in Thread =>
           req[queue[i].box].pc = "wait" /\ req[queue[i].box].item.who = queue[i].who
    /\ \A i, j \in DOMAIN queue :
           queue[i].box \in Thread /\ queue[i].box = queue[j].box => i = j

Typed == TypeOK /\ ItemsOK

LEMMA IdleTyped == Idle \in Request /\ Idle.pc = "idle" /\ Blank \in Item
<1>1. Nobody \in Sid
  BY ServerAssumption DEF Nobody
<1> QED
  BY <1>1 DEF Idle, Blank, Request, Item

\* Where a session runs when the daemon starts after it, and what the file has of it.
StartedAfter(sid, proc, row) ==
    /\ image = [p \in Pid |-> IF p = proc.pid
          THEN [state |-> "runs", created |-> proc.created, guarded |-> FALSE] ELSE Free]
    /\ started = proc.created
    /\ home = [s \in Sid |-> IF s = sid THEN proc ELSE NoProc]
    /\ stage = [s \in Sid |-> IF s = sid THEN "over" ELSE "due"]
    /\ rows = [s \in Sid |-> IF s = sid THEN row ELSE Absent]
    /\ IF row.proc \in Earlier(proc) THEN told = {} /\ excused = {sid}
                                     ELSE told = {sid} /\ excused = {}

LEMMA InitCases ==
    ASSUME Init
    PROVE  \/ /\ OsInit
              /\ home = [sid \in Sid |-> NoProc] /\ stage = [sid \in Sid |-> "due"]
              /\ rows = AllAbsent
              /\ told = {} /\ excused = {}
           \/ \E sid \in Sid, proc \in Process : \E row \in Restored(proc) :
                StartedAfter(sid, proc, row)
BY DEF Init, StartedAfter

LEMMA RestoredTyped ==
    ASSUME NEW proc \in Process, NEW row \in Restored(proc)
    PROVE  /\ row \in Row
           /\ row.proc \notin Earlier(proc) => row.proc \in {NoProc, proc}
<1>1. Earlier(proc) \subseteq Process
  BY DEF Earlier
<1>2. CASE row = Absent
  BY <1>2 DEF Absent, Row
<1>3. CASE row \in [state : {"live"}, proc : {NoProc, proc} \cup Earlier(proc)]
  BY <1>1, <1>3 DEF Row
<1> QED
  BY <1>2, <1>3 DEF Restored

LEMMA InitTyped == Init => Typed
<1> SUFFICES ASSUME Init PROVE Typed
  OBVIOUS
<1>1. req \in [Thread -> Request] /\ \A t \in Thread : req[t].pc = "idle"
  BY IdleTyped DEF Init
<1> DEFINE SystemTyped ==
             /\ image \in [Pid -> Image] /\ started \in 0 .. MaxStarts
             /\ home \in [Sid -> Process \cup {NoProc}]
             /\ stage \in [Sid -> {"due", "fired", "over"}]
             /\ rows \in [Sid -> Row]
             /\ told \subseteq Sid /\ excused \subseteq Sid
<1>2. SystemTyped
  <2>1. 0 \in 0 .. MaxStarts /\ 1 .. MaxStarts \subseteq 0 .. MaxStarts
    BY StartsAssumption
  <2>2. Free \in Image /\ Absent \in Row
    BY <2>1 DEF Free, Image, Absent, Row
  <2>3. CASE /\ OsInit
             /\ home = [sid \in Sid |-> NoProc] /\ stage = [sid \in Sid |-> "due"]
             /\ rows = AllAbsent
             /\ told = {} /\ excused = {}
    BY <2>1, <2>2, <2>3 DEF OsInit, AllAbsent
  <2>4. ASSUME NEW sid \in Sid, NEW proc \in Process, NEW row \in Restored(proc),
               StartedAfter(sid, proc, row)
        PROVE  SystemTyped
    <3>1. proc.created \in 0 .. MaxStarts
      BY <2>1 DEF Process
    <3>2. [state |-> "runs", created |-> proc.created, guarded |-> FALSE] \in Image
      BY <3>1 DEF Image
    <3>3. row \in Row
      BY RestoredTyped
    <3>4. image \in [Pid -> Image] /\ started \in 0 .. MaxStarts
      BY <2>2, <2>4, <3>1, <3>2 DEF StartedAfter
    <3>5. home \in [Sid -> Process \cup {NoProc}] /\ stage \in [Sid -> {"due", "fired", "over"}]
      BY <2>4 DEF StartedAfter
    <3>6. rows \in [Sid -> Row] /\ told \subseteq Sid /\ excused \subseteq Sid
      BY <2>2, <2>4, <3>3 DEF StartedAfter
    <3> QED
      BY <3>4, <3>5, <3>6
  <2> HIDE DEF SystemTyped
  <2> QED
    BY <2>3, <2>4, InitCases
<1>3. queue \in Seq(Item) /\ Len(queue) <= QMax /\ DOMAIN queue = {}
  BY ServerAssumption DEF Init
<1> QED
  BY <1>1, <1>2, <1>3 DEF Init, Typed, TypeOK, ItemsOK, Held

\* Adding to the queue, and taking from it.
LEMMA EnqueuedTyped ==
    ASSUME Typed, NEW item \in Item, ~Full, queue' = Enqueued(item)
    PROVE  /\ queue' \in Seq(Item) /\ Len(queue') <= QMax
           /\ DOMAIN queue' = DOMAIN queue \cup {Len(queue) + 1}
           /\ Len(queue) + 1 \notin DOMAIN queue
           /\ queue'[Len(queue) + 1] = item
           /\ \A i \in DOMAIN queue : queue'[i] = queue[i]
BY ServerAssumption DEF Typed, TypeOK, Full, Enqueued

LEMMA TakenTyped ==
    ASSUME Typed, queue # <<>>, queue' = Tail(queue)
    PROVE  /\ queue' \in Seq(Item) /\ Len(queue') <= QMax
           /\ 1 \in DOMAIN queue /\ Head(queue) = queue[1] /\ queue[1] \in Item
           /\ \A i \in DOMAIN queue' : i + 1 \in DOMAIN queue /\ queue'[i] = queue[i + 1]
           /\ \A i \in DOMAIN queue : i = 1 \/ (i - 1 \in DOMAIN queue' /\ queue'[i - 1] = queue[i])
BY ServerAssumption DEF Typed, TypeOK

\* What the processes of the system do to PIDs.
LEMMA OsTyped ==
    ASSUME TypeOK, NEW pid \in Pid, NEW guarded \in BOOLEAN,
           Launch(pid, guarded) \/ Exits(pid) \/ LastHandleCloses(pid)
    PROVE  image' \in [Pid -> Image] /\ started' \in 0 .. MaxStarts
<1>1. Free \in Image /\ started \in 0 .. MaxStarts /\ image[pid] \in Image
  BY StartsAssumption DEF TypeOK, Free, Image
<1>2. CASE Launch(pid, guarded)
  <2>1. started + 1 \in 0 .. MaxStarts
    BY <1>1, <1>2, StartsAssumption DEF Launch
  <2>2. [state |-> "runs", created |-> started + 1, guarded |-> guarded] \in Image
    BY <2>1 DEF Image
  <2> QED
    BY <1>2, <2>1, <2>2 DEF Launch, TypeOK
<1>3. CASE Exits(pid)
  <2>1. [image[pid] EXCEPT !.state = "exited"] \in Image
    BY <1>1 DEF Image
  <2> QED
    BY <1>1, <1>3, <2>1 DEF Exits, TypeOK
<1>4. CASE LastHandleCloses(pid)
  BY <1>1, <1>4 DEF LastHandleCloses, TypeOK
<1> QED
  BY <1>2, <1>3, <1>4

\* The thread that takes a request.
LEMMA AcceptTyped ==
    ASSUME Typed, NEW t \in Thread, NEW pc \in {"lookup", "put", "wait"},
           NEW item \in Item, Accept(t, pc, item)
    PROVE  /\ req' \in [Thread -> Request]
           /\ req[t].pc = "idle" /\ req'[t].pc = pc /\ req'[t].item = item
           /\ \A u \in Thread : u # t => req'[u] = req[u]
BY DEF Accept, Typed, TypeOK, Request

LEMMA SessionRunsTyped ==
    ASSUME Typed, NEW sid \in Sid, NEW pid \in Pid, SessionRuns(sid, pid)
    PROVE  Typed'
<1>1. [pid |-> pid, created |-> started + 1] \in Process
  BY StartsAssumption DEF Typed, TypeOK, SessionRuns, Launch, Process
<1>2. home' \in [Sid -> Process \cup {NoProc}]
  BY <1>1 DEF Typed, TypeOK, SessionRuns
<1> QED
  BY <1>2, OsTyped DEF Typed, TypeOK, ItemsOK, Held, SessionRuns

LEMMA OutsideTyped ==
    ASSUME Typed,
           \/ \E pid \in Pid, guarded \in BOOLEAN : Stranger(pid, guarded)
           \/ \E pid \in Pid : Gone(pid)
           \/ \E sid \in Sid : GivesUp(sid)
    PROVE  Typed'
<1>1. CASE \E sid \in Sid : GivesUp(sid)
  BY <1>1 DEF Typed, TypeOK, ItemsOK, Held, GivesUp, os
<1>2. CASE \E pid \in Pid, guarded \in BOOLEAN : Stranger(pid, guarded)
  BY <1>2, OsTyped DEF Typed, TypeOK, ItemsOK, Held, Stranger, sessionVars, history
<1>3. CASE \E pid \in Pid : Gone(pid)
  BY <1>3, OsTyped DEF Typed, TypeOK, ItemsOK, Held, Gone, sessionVars, history
<1> QED
  BY <1>1, <1>2, <1>3

LEMMA FireTyped ==
    ASSUME Typed, NEW t \in Thread, NEW sid \in Sid, NEW name \in Hook, Fire(t, sid, name)
    PROVE  Typed'
<1> DEFINE i == [Blank EXCEPT !.kind = name, !.who = sid]
           pc == IF Due(sid, name) THEN "lookup" ELSE "put"
<1>1. i \in Item /\ i.kind = name /\ i.who = sid /\ i.box = NoBox
  BY IdleTyped DEF Blank, Item
<1>2. pc \in {"lookup", "put"} /\ Accept(t, pc, i)
  BY DEF Fire
<1>3. stage' \in [Sid -> {"due", "fired", "over"}]
  BY DEF Fire, Typed, TypeOK
<1> HIDE DEF i, pc
<1>4. /\ req' \in [Thread -> Request] /\ req'[t].item = i
      /\ \A u \in Thread : u # t => req'[u] = req[u]
  BY <1>1, <1>2, AcceptTyped
<1>5. TypeOK'
  BY <1>3, <1>4 DEF Fire, Typed, TypeOK, os, history
<1>6. ItemsOK'
  BY <1>1, <1>4 DEF Fire, Typed, ItemsOK, Held
<1> QED
  BY <1>5, <1>6 DEF Typed

LEMMA LookupTyped ==
    ASSUME Typed, NEW t \in Thread, Lookup(t)
    PROVE  Typed'
<1> PICK found \in BOOLEAN :
        /\ req' = [req EXCEPT ![t].pc = "put", ![t].item.found = found]
        /\ excused' = IF found THEN excused ELSE excused \cup {req[t].item.who}
  BY DEF Lookup
<1>1. req[t] \in Request /\ req[t].item \in Item
  BY DEF Typed, TypeOK, Request
<1>2. /\ req' \in [Thread -> Request]
      /\ req'[t].item = [req[t].item EXCEPT !.found = found]
      /\ \A u \in Thread : u # t => req'[u] = req[u]
  BY <1>1 DEF Typed, TypeOK, Request, Item
<1>3. req'[t].item.kind = req[t].item.kind /\ req'[t].item.who = req[t].item.who
      /\ req'[t].item.box = req[t].item.box
  BY <1>1, <1>2 DEF Item
<1>4. Held(t)
  BY DEF Lookup, Held
<1>5. excused' \subseteq Sid
  BY <1>4 DEF Typed, TypeOK, ItemsOK
<1> QED
  BY <1>2, <1>3, <1>4, <1>5 DEF Lookup, Typed, TypeOK, ItemsOK, Held, os, sessionVars

\* What comes in at the end of the queue leaves all that is there in its place.
LEMMA PutTyped ==
    ASSUME Typed, NEW t \in Thread, Put(t)
    PROVE  Typed'
<1> DEFINE i == req[t].item
<1>1. i \in Item /\ i.kind \in Hook /\ i.who \in Sid /\ i.box = NoBox
  BY DEF Put, Typed, TypeOK, Request, ItemsOK, Held
<1>2. /\ req' \in [Thread -> Request] /\ req'[t].pc = "idle"
      /\ \A u \in Thread : u # t => req'[u] = req[u]
  BY IdleTyped DEF Put, Typed, TypeOK
<1>3. stage' \in [Sid -> {"due", "fired", "over"}]
  BY <1>1 DEF Put, Replied, Typed, TypeOK
<1> HIDE DEF i
<1>4. CASE Full
  BY <1>1, <1>2, <1>3, <1>4 DEF Put, Typed, TypeOK, ItemsOK, Held, os, i
<1>5. CASE ~Full
  <2>1. queue' = Enqueued(i) /\ excused' = excused
    BY <1>5 DEF Put, i
  <2> QED
    BY <1>1, <1>2, <1>3, <1>5, <2>1, EnqueuedTyped DEF Put, Typed, TypeOK, ItemsOK, Held, os
<1> QED
  BY <1>4, <1>5

LEMMA StatusTyped ==
    ASSUME Typed, NEW sid \in Sid, Status(sid)
    PROVE  Typed'
<1> DEFINE i == [Blank EXCEPT !.who = sid]
<1>1. i \in Item /\ i.who \in Sid /\ i.box = NoBox
  BY IdleTyped DEF Blank, Item
<1> HIDE DEF i
<1>2. CASE Full
  BY <1>2 DEF Status, Typed, TypeOK, ItemsOK, Held, os, sessionVars, history
<1>3. CASE ~Full
  <2>1. queue' = Enqueued(i)
    BY <1>3 DEF Status, i
  <2>2. /\ queue' \in Seq(Item) /\ Len(queue') <= QMax
        /\ \A k \in DOMAIN queue' : queue'[k] = i \/ (k \in DOMAIN queue /\ queue'[k] = queue[k])
    BY <1>1, <1>3, <2>1, EnqueuedTyped
  <2>3. UNCHANGED <<image, started, home, stage, req, tried, rows, told, excused>>
    BY DEF Status, os, sessionVars, history
  <2>4. TypeOK'
    BY <2>2, <2>3 DEF Typed, TypeOK
  <2>5. ItemsOK'
    BY <1>1, <2>2, <2>3 DEF Typed, ItemsOK, Held
  <2> QED
    BY <2>4, <2>5 DEF Typed
<1> QED
  BY <1>2, <1>3

LEMMA AskForgetTyped ==
    ASSUME Typed, NEW t \in Thread, NEW key \in Key, AskForget(t, key)
    PROVE  Typed'
<1> DEFINE i == [Blank EXCEPT !.kind = "forget", !.who = key, !.box = t]
<1>1. i \in Item /\ i.kind = "forget"
  BY IdleTyped DEF Blank, Item
<1>2. Accept(t, "wait", i) /\ ~Full /\ queue' = Enqueued(i)
  BY DEF AskForget
<1> HIDE DEF i
<1>3. /\ req' \in [Thread -> Request] /\ req'[t].pc = "wait"
      /\ \A u \in Thread : u # t => req'[u] = req[u]
  BY <1>1, <1>2, AcceptTyped
<1>4. TypeOK'
  BY <1>1, <1>2, <1>3, EnqueuedTyped DEF AskForget, Typed, TypeOK, os, sessionVars, history
<1>5. ItemsOK'
  BY <1>1, <1>2, <1>3, EnqueuedTyped DEF Typed, ItemsOK, Held
<1> QED
  BY <1>4, <1>5 DEF Typed

\* A request that is given up leaves its item behind, for nobody.
LEMMA LeftBehindFields ==
    ASSUME Typed, NEW t \in Thread, queue' = LeftBehind(t)
    PROVE  /\ queue' \in Seq(Item) /\ DOMAIN queue' = DOMAIN queue /\ Len(queue') = Len(queue)
           /\ \A i \in DOMAIN queue :
                 /\ queue'[i].kind = queue[i].kind /\ queue'[i].who = queue[i].who
                 /\ queue'[i].found = queue[i].found
                 /\ queue'[i].box = IF queue[i].box = t THEN NoBox ELSE queue[i].box
<1>1. queue \in Seq(Item) /\ DOMAIN queue = 1 .. Len(queue) /\ Len(queue) \in Nat
  BY DEF Typed, TypeOK
<1>2. \A i \in DOMAIN queue :
        /\ queue[i] \in Item /\ [queue[i] EXCEPT !.box = NoBox] \in Item
        /\ [queue[i] EXCEPT !.box = NoBox].kind = queue[i].kind
        /\ [queue[i] EXCEPT !.box = NoBox].who = queue[i].who
        /\ [queue[i] EXCEPT !.box = NoBox].found = queue[i].found
        /\ [queue[i] EXCEPT !.box = NoBox].box = NoBox
  <2> TAKE i \in DOMAIN queue
  <2>1. queue[i] \in Item
    BY <1>1
  <2> QED
    BY <2>1 DEF Item
<1>3. \A i \in 1 .. Len(queue) : LeftBehind(t)[i] \in Item
  BY <1>1, <1>2 DEF LeftBehind
<1>4. /\ DOMAIN LeftBehind(t) = 1 .. Len(queue)
      /\ LeftBehind(t) = [i \in 1 .. Len(queue) |-> LeftBehind(t)[i]]
  BY <1>1 DEF LeftBehind
<1>5. LeftBehind(t) \in [1 .. Len(queue) -> Item]
  BY <1>3, <1>4
<1>6. queue' \in Seq(Item) /\ Len(queue') = Len(queue)
  BY <1>1, <1>4, <1>5
<1> QED
  BY <1>1, <1>2, <1>4, <1>6 DEF LeftBehind

LEMMA TimesOutTyped ==
    ASSUME Typed, NEW t \in Thread, TimesOut(t)
    PROVE  Typed'
<1>1. /\ req' \in [Thread -> Request] /\ req'[t].pc = "idle"
      /\ \A u \in Thread : u # t => req'[u] = req[u]
  BY IdleTyped DEF TimesOut, Typed, TypeOK
<1>2. queue' = LeftBehind(t)
  BY DEF TimesOut
<1>3. TypeOK'
  BY <1>1, <1>2, LeftBehindFields DEF TimesOut, Typed, TypeOK, os, sessionVars, history
<1>4. ItemsOK'
  BY <1>1, <1>2, LeftBehindFields DEF Typed, ItemsOK, Held
<1> QED
  BY <1>3, <1>4 DEF Typed

\* The steps of the table keep its type; a hook changes one row and a clearing
\* the process of no row it does not drop.
LEMMA TakesFields ==
    ASSUME Typed, NEW sid \in Sid, NEW kind \in {"SessionStart", "Other", "status"},
           NEW proc \in Process \cup {NoProc}, Takes(sid, kind, proc)
    PROVE  /\ rows' \in [Sid -> Row]
           /\ rows'[sid].proc = OnRecord(rows[sid], kind, proc)
           /\ \A k \in Sid \ {sid} : rows'[k] = rows[k]
<1>1. rows \in [Sid -> Row] /\ rows[sid] \in Row
  BY DEF Typed, TypeOK
<1>2. PICK state \in StatesAfter(rows[sid], kind) :
        rows' = [rows EXCEPT ![sid] = [state |-> state, proc |-> OnRecord(@, kind, proc)]]
  BY DEF Takes
<1> DEFINE on == OnRecord(rows[sid], kind, proc)
<1>3. state \in {"absent", "live", "end"}
  BY <1>1 DEF StatesAfter, Row
<1>4. on \in Process \cup {NoProc}
  BY <1>1 DEF OnRecord, Row
<1>5. rows' = [rows EXCEPT ![sid] = [state |-> state, proc |-> on]]
  BY <1>2
<1> HIDE DEF on
<1>6. [state |-> state, proc |-> on] \in Row
  BY <1>3, <1>4 DEF Row
<1>7. rows' \in [Sid -> Row] /\ rows'[sid].proc = on
      /\ \A k \in Sid \ {sid} : rows'[k] = rows[k]
  BY <1>1, <1>5, <1>6
<1> QED
  BY <1>7 DEF on

LEMMA ClearsFields ==
    ASSUME Typed, NEW ended, NEW dropped, Clears(ended, dropped)
    PROVE  /\ rows' \in [Sid -> Row]
           /\ \A sid \in Sid : sid \in dropped \/ rows'[sid].proc = rows[sid].proc
           /\ \A sid \in Sid : rows'[sid].proc \in {rows[sid].proc, NoProc}
           /\ \A sid \in Sid : sid \in dropped => rows'[sid].state = "absent"
           /\ \A sid \in Sid : sid \in dropped \/ sid \in ended \/ rows'[sid] = rows[sid]
<1>1. Absent \in Row /\ Absent.proc = NoProc /\ Absent.state = "absent"
  BY DEF Absent, Row
<1>2. \A sid \in Sid : /\ rows[sid] \in Row /\ [rows[sid] EXCEPT !.state = "end"] \in Row
                       /\ [rows[sid] EXCEPT !.state = "end"].proc = rows[sid].proc
  BY DEF Typed, TypeOK, Row
<1>3. \A sid \in Sid : rows'[sid] = IF sid \in dropped THEN Absent
                             ELSE IF sid \in ended THEN [rows[sid] EXCEPT !.state = "end"]
                             ELSE rows[sid]
  BY DEF Clears
<1>4. rows' \in [Sid -> Row]
  BY <1>1, <1>2 DEF Clears
<1> QED
  BY <1>1, <1>2, <1>3, <1>4

LEMMA TakeHookTyped ==
    ASSUME Typed, TakeHook
    PROVE  Typed'
<1> DEFINE i == Head(queue)
<1>1. i \in Item /\ i.who \in Sid /\ i.kind \in {"SessionStart", "Other", "status"}
  BY TakenTyped DEF TakeHook, Typed, ItemsOK, Item, Hook
<1>2. Carried(i) \in Process \cup {NoProc}
  BY <1>1 DEF Carried, Typed, TypeOK
<1>3. rows' \in [Sid -> Row]
  BY <1>1, <1>2, TakesFields DEF TakeHook
<1>4. told' \subseteq Sid
  BY <1>1 DEF TakeHook, Typed, TypeOK
<1>5. TypeOK'
  BY <1>3, <1>4, TakenTyped DEF TakeHook, Typed, TypeOK, os, sessionVars
<1>6. ItemsOK'
  BY TakenTyped DEF TakeHook, Typed, ItemsOK, Held
<1> QED
  BY <1>5, <1>6 DEF Typed

LEMMA TakeHookFields ==
    ASSUME Typed, TakeHook
    PROVE  LET i == Head(queue) IN
           /\ rows'[i.who].proc = OnRecord(rows[i.who], i.kind, Carried(i))
           /\ \A sid \in Sid \ {i.who} : rows'[sid] = rows[sid]
<1> DEFINE i == Head(queue)
<1>1. i \in Item /\ i.who \in Sid /\ i.kind \in {"SessionStart", "Other", "status"}
  BY TakenTyped DEF TakeHook, Typed, ItemsOK, Item, Hook
<1>2. Carried(i) \in Process \cup {NoProc}
  BY <1>1 DEF Carried, Typed, TypeOK
<1>3. Takes(i.who, i.kind, Carried(i))
  BY DEF TakeHook
<1> HIDE DEF i
<1>4. /\ rows'[i.who].proc = OnRecord(rows[i.who], i.kind, Carried(i))
      /\ \A sid \in Sid \ {i.who} : rows'[sid] = rows[sid]
  BY <1>1, <1>2, <1>3, TakesFields
<1> QED
  BY <1>4 DEF i

LEMMA TakeForgetTyped ==
    ASSUME Typed, TakeForget
    PROVE  Typed'
<1>1. /\ req' \in [Thread -> Request]
      /\ \A t \in Thread : req'[t] = req[t] \/ req'[t].pc = "idle"
  BY IdleTyped DEF TakeForget, Typed, TypeOK
<1>2. PICK ended : Clears(ended, {}) /\ tried' = tried \ ended
  BY DEF TakeForget
<1>3. rows' \in [Sid -> Row]
  BY <1>2, ClearsFields
<1>4. TypeOK'
  BY <1>1, <1>2, <1>3, TakenTyped
     DEF TakeForget, Typed, TypeOK, os, sessionVars, history
<1>5. ItemsOK'
  BY <1>1, TakenTyped DEF TakeForget, Typed, ItemsOK, Held
<1> QED
  BY <1>4, <1>5 DEF Typed

LEMMA PassTyped ==
    ASSUME Typed, NEW asked \in SUBSET Watched, NEW dropped \in SUBSET Sid, Pass(asked, dropped)
    PROVE  Typed'
<1>1. rows' \in [Sid -> Row]
  BY ClearsFields DEF Pass
<1> QED
  BY <1>1 DEF Pass, Typed, TypeOK, ItemsOK, Held, os, sessionVars

LEMMA NextTyped == Typed /\ [Next]_vars => Typed'
<1> SUFFICES ASSUME Typed, [Next]_vars
             PROVE  Typed'
  OBVIOUS
<1>1. CASE \E sid \in Sid, pid \in Pid : SessionRuns(sid, pid)
  BY <1>1, SessionRunsTyped
<1>2. CASE \/ \E pid \in Pid, guarded \in BOOLEAN : Stranger(pid, guarded)
           \/ \E pid \in Pid : Gone(pid)
           \/ \E sid \in Sid : GivesUp(sid)
  BY <1>2, OutsideTyped
<1>3. CASE \E t \in Thread, sid \in Sid, name \in Hook : Fire(t, sid, name)
  BY <1>3, FireTyped
<1>4. CASE \E sid \in Sid : Status(sid)
  BY <1>4, StatusTyped
<1>5. CASE \E t \in Thread, key \in Key : AskForget(t, key)
  BY <1>5, AskForgetTyped
<1>6. CASE \E t \in Thread : Handler(t)
  BY <1>6, LookupTyped, PutTyped, TimesOutTyped DEF Handler
<1>7. CASE TakeHook \/ TakeForget
  BY <1>7, TakeHookTyped, TakeForgetTyped
<1>8. CASE \E asked \in SUBSET Watched, dropped \in SUBSET Sid : Pass(asked, dropped)
  BY <1>8, PassTyped
<1>9. CASE UNCHANGED vars
  BY <1>9 DEF vars, Typed, TypeOK, ItemsOK, Held, os, sessionVars, history
<1> QED
  BY <1>1, <1>2, <1>3, <1>4, <1>5, <1>6, <1>7, <1>8, <1>9 DEF Next

LEMMA AlwaysTyped == Spec => []Typed
BY InitTyped, NextTyped, PTL DEF Spec

\* Types are always right, for any number of sessions, threads and PIDs and any
\* capacity of the queue, which is never exceeded.
THEOREM DaemonTypeCorrect == Spec => []TypeOK
BY AlwaysTyped, PTL DEF Typed

----------------------------------------------------------------------------
\* /forget

LEMMA BoxesKept == Typed /\ BoxesOK /\ [Next]_vars => BoxesOK'
<1> SUFFICES ASSUME Typed, BoxesOK, [Next]_vars
             PROVE  BoxesOK'
  OBVIOUS
<1> USE DEF BoxesOK
<1>1. CASE \E sid \in Sid, pid \in Pid : SessionRuns(sid, pid)
  BY <1>1 DEF SessionRuns
<1>2. CASE \/ \E pid \in Pid, guarded \in BOOLEAN : Stranger(pid, guarded)
           \/ \E pid \in Pid : Gone(pid)
           \/ \E sid \in Sid : GivesUp(sid)
  BY <1>2 DEF Stranger, Gone, GivesUp
<1>3. ASSUME NEW t \in Thread, NEW sid \in Sid, NEW name \in Hook, Fire(t, sid, name)
      PROVE  BoxesOK'
  <2>1. /\ req[t].pc = "idle" /\ queue' = queue
        /\ \A u \in Thread : u # t => req'[u] = req[u]
    BY <1>3 DEF Fire, Accept, Typed, TypeOK
  <2>2. \A i \in DOMAIN queue : queue[i].box # t
    BY <2>1
  <2> QED
    BY <2>1, <2>2
<1>4. ASSUME NEW sid \in Sid, Status(sid)
      PROVE  BoxesOK'
  <2> DEFINE i == [Blank EXCEPT !.who = sid]
  <2>1. i \in Item /\ i.box = NoBox /\ NoBox \notin Thread
    BY IdleTyped, ServerAssumption DEF Blank, Item
  <2> HIDE DEF i
  <2>2. req' = req /\ (queue' = queue \/ (~Full /\ queue' = Enqueued(i)))
    BY <1>4 DEF Status, i
  <2> QED
    BY <2>1, <2>2, EnqueuedTyped
<1>5. ASSUME NEW t \in Thread, NEW key \in Key, AskForget(t, key)
      PROVE  BoxesOK'
  <2> DEFINE i == [Blank EXCEPT !.kind = "forget", !.who = key, !.box = t]
  <2>1. i \in Item /\ i.box = t /\ i.who = key
    BY IdleTyped DEF Blank, Item
  <2> HIDE DEF i
  <2>2. /\ req[t].pc = "idle" /\ req'[t].pc = "wait" /\ req'[t].item = i
        /\ \A u \in Thread : u # t => req'[u] = req[u]
        /\ ~Full /\ queue' = Enqueued(i)
    BY <1>5, <2>1, AcceptTyped DEF AskForget, i
  <2>3. \A j \in DOMAIN queue : queue[j].box # t
    BY <2>2
  <2> QED
    BY <2>1, <2>2, <2>3, EnqueuedTyped
<1>6. ASSUME NEW t \in Thread, Lookup(t)
      PROVE  BoxesOK'
  <2>1. /\ req[t].pc = "lookup" /\ queue' = queue
        /\ \A u \in Thread : u # t => req'[u] = req[u]
    BY <1>6 DEF Lookup, Typed, TypeOK
  <2> QED
    BY <2>1
<1>7. ASSUME NEW t \in Thread, Put(t)
      PROVE  BoxesOK'
  <2>1. /\ req[t].pc = "put"
        /\ \A u \in Thread : u # t => req'[u] = req[u]
        /\ queue' = queue \/ (~Full /\ queue' = Enqueued(req[t].item))
        /\ req[t].item \in Item /\ req[t].item.box = NoBox /\ NoBox \notin Thread
    BY <1>7, ServerAssumption DEF Put, Typed, TypeOK, Request, ItemsOK, Held
  <2>2. \A j \in DOMAIN queue : queue[j].box # t
    BY <2>1
  <2> QED
    BY <2>1, <2>2, EnqueuedTyped
<1>8. ASSUME NEW t \in Thread, TimesOut(t)
      PROVE  BoxesOK'
  <2>1. /\ queue' = LeftBehind(t) /\ NoBox \notin Thread
        /\ \A u \in Thread : u # t => req'[u] = req[u]
    BY <1>8, ServerAssumption DEF TimesOut, Typed, TypeOK
  <2> QED
    BY <2>1, LeftBehindFields
<1>9. CASE TakeHook
  BY <1>9, TakenTyped DEF TakeHook
<1>10. CASE TakeForget
  <2>1. \A t \in Thread : t # queue[1].box => req'[t] = req[t]
    BY <1>10, TakenTyped DEF TakeForget
  <2>2. queue # <<>> /\ queue' = Tail(queue)
    BY <1>10 DEF TakeForget
  <2> QED
    BY <2>1, <2>2, TakenTyped
<1>11. CASE \E asked \in SUBSET Watched, dropped \in SUBSET Sid : Pass(asked, dropped)
  BY <1>11 DEF Pass
<1>12. CASE UNCHANGED vars
  BY <1>12 DEF vars
<1> QED
  BY <1>1, <1>2, <1>3, <1>4, <1>5, <1>6, <1>7, <1>8, <1>9, <1>10, <1>11, <1>12 DEF Next, Handler

\* A /forget that is answered is answered with the outcome of its own request,
\* for any number of threads, however many requests were given up before and
\* whatever waits in the queue.
THEOREM ForgetToldItsOwn == Spec => ForgetAnswersOwn
<1>1. Init => BoxesOK
  BY DEF Init, BoxesOK
<1>2. Typed /\ BoxesOK =>
        \A t \in Thread :
           TakeForget /\ req[t].pc = "wait" /\ req'[t].pc = "idle" =>
               Head(queue).who = req[t].item.who
  <2> SUFFICES ASSUME Typed, BoxesOK, NEW t \in Thread,
                      TakeForget, req[t].pc = "wait", req'[t].pc = "idle"
               PROVE  Head(queue).who = req[t].item.who
    OBVIOUS
  <2>1. t = Head(queue).box
    BY DEF TakeForget
  <2> QED
    BY <2>1, TakenTyped DEF TakeForget, BoxesOK
<1> QED
  BY <1>1, <1>2, BoxesKept, AlwaysTyped, PTL DEF Spec, ForgetAnswersOwn

----------------------------------------------------------------------------
\* Processes on record

\* A SessionStart without its process has been excused, and a process found is
\* one that the session has been started in.
CarriedOK(item, at, pardoned) ==
    /\ item.kind = "SessionStart" /\ ~item.found => item.who \in pardoned
    /\ item.kind # "forget" /\ item.found => at[item.who] # NoProc

\* On record is the process a session runs in, or none.
RecordOK ==
    /\ \A t \in Thread : req[t].pc = "put" => CarriedOK(req[t].item, home, excused)
    /\ \A t \in Thread : req[t].pc = "lookup" => ~req[t].item.found
    /\ \A i \in DOMAIN queue : CarriedOK(queue[i], home, excused)
    /\ \A sid \in told \ excused : rows[sid].proc \in {NoProc, home[sid]}

\* What the records of the items in flight rest on does not get less.
LEMMA CarriedKept ==
    ASSUME NEW item, CarriedOK(item, home, excused), excused \subseteq excused',
           item.kind # "forget" => (home[item.who] # NoProc => home'[item.who] # NoProc)
    PROVE  CarriedOK(item, home', excused')
BY DEF CarriedOK

LEMMA RecordKept == Typed /\ RecordOK /\ [Next]_vars => RecordOK'
<1> SUFFICES ASSUME Typed, RecordOK, [Next]_vars
             PROVE  RecordOK'
  OBVIOUS
<1>1. ASSUME NEW sid \in Sid, NEW pid \in Pid, SessionRuns(sid, pid)
      PROVE  RecordOK'
  <2>1. [pid |-> pid, created |-> started + 1] # NoProc
    BY StartsAssumption, NoProcAssumption DEF Typed, TypeOK
  <2>2. /\ home'[sid] # NoProc
        /\ \A s \in Sid \ {sid} : home'[s] = home[s]
        /\ told' = told \ {sid} /\ UNCHANGED <<req, queue, rows, excused>>
    BY <1>1, <2>1 DEF SessionRuns, Typed, TypeOK
  <2>3. \A t \in Thread : req[t].pc = "put" => CarriedOK(req[t].item, home', excused')
    BY <2>2, CarriedKept DEF Typed, ItemsOK, Held, RecordOK
  <2>4. \A i \in DOMAIN queue : CarriedOK(queue[i], home', excused')
    BY <2>2, CarriedKept DEF Typed, ItemsOK, RecordOK
  <2>5. \A s \in told' \ excused : rows[s].proc \in {NoProc, home'[s]}
    BY <2>2 DEF RecordOK, Typed, TypeOK
  <2> QED
    BY <2>2, <2>3, <2>4, <2>5 DEF RecordOK, CarriedOK
<1>2. CASE \/ \E pid \in Pid, guarded \in BOOLEAN : Stranger(pid, guarded)
           \/ \E pid \in Pid : Gone(pid)
           \/ \E sid \in Sid : GivesUp(sid)
  BY <1>2 DEF Stranger, Gone, GivesUp, RecordOK, CarriedOK, sessionVars, history
<1>3. ASSUME NEW t \in Thread, NEW sid \in Sid, NEW name \in Hook, Fire(t, sid, name)
      PROVE  RecordOK'
  <2> DEFINE i == [Blank EXCEPT !.kind = name, !.who = sid]
             pc == IF Due(sid, name) THEN "lookup" ELSE "put"
  <2>1. /\ i \in Item /\ ~i.found /\ i.kind = name
        /\ pc \in {"lookup", "put"} /\ (pc = "put" => name # "SessionStart")
    BY IdleTyped DEF Blank, Item, Due
  <2>2. Accept(t, pc, i) /\ UNCHANGED <<home, queue, rows, told, excused>>
    BY <1>3 DEF Fire, history
  <2> HIDE DEF i, pc
  <2>3. /\ req'[t].pc = pc /\ req'[t].item = i
        /\ \A u \in Thread : u # t => req'[u] = req[u]
    BY <2>1, <2>2, AcceptTyped
  <2> QED
    BY <2>1, <2>2, <2>3 DEF RecordOK, CarriedOK
<1>4. ASSUME NEW sid \in Sid, Status(sid)
      PROVE  RecordOK'
  <2> DEFINE i == [Blank EXCEPT !.who = sid]
  <2>1. i \in Item /\ ~i.found /\ i.kind = "status"
    BY IdleTyped DEF Blank, Item
  <2>2. /\ UNCHANGED <<home, req, rows, told, excused>>
        /\ (queue' = queue \/ (~Full /\ queue' = Enqueued(i)))
    BY <1>4 DEF Status, sessionVars, history
  <2> HIDE DEF i
  <2> QED
    BY <2>1, <2>2, EnqueuedTyped DEF RecordOK, CarriedOK
<1>5. ASSUME NEW t \in Thread, NEW key \in Key, AskForget(t, key)
      PROVE  RecordOK'
  <2> DEFINE i == [Blank EXCEPT !.kind = "forget", !.who = key, !.box = t]
  <2>1. i \in Item /\ i.kind = "forget"
    BY IdleTyped DEF Blank, Item
  <2>2. /\ UNCHANGED <<home, rows, told, excused>>
        /\ ~Full /\ queue' = Enqueued(i) /\ Accept(t, "wait", i)
    BY <1>5 DEF AskForget, sessionVars, history
  <2> HIDE DEF i
  <2>3. /\ req'[t].pc = "wait" /\ \A u \in Thread : u # t => req'[u] = req[u]
    BY <2>1, <2>2, AcceptTyped
  <2> QED
    BY <2>1, <2>2, <2>3, EnqueuedTyped DEF RecordOK, CarriedOK
<1>6. ASSUME NEW t \in Thread, Lookup(t)
      PROVE  RecordOK'
  <2>0. PICK found \in BOOLEAN :
        /\ found => Running(home[req[t].item.who])
        /\ req' = [req EXCEPT ![t].pc = "put", ![t].item.found = found]
        /\ excused' = IF found THEN excused ELSE excused \cup {req[t].item.who}
    BY <1>6 DEF Lookup
  <2>1. /\ req'[t].item.found = found /\ req'[t].item.who = req[t].item.who
        /\ req'[t].pc = "put" /\ \A u \in Thread : u # t => req'[u] = req[u]
    BY <2>0 DEF Typed, TypeOK, Request, Item
  <2>2. UNCHANGED <<home, queue, rows, told>> /\ excused \subseteq excused'
    BY <1>6 DEF Lookup, sessionVars
  <2>3. CarriedOK(req'[t].item, home', excused')
    <3>1. found => home'[req'[t].item.who] # NoProc
      BY <2>0, <2>1, <2>2 DEF Running
    <3>2. ~found => req'[t].item.who \in excused'
      BY <2>0, <2>1
    <3> QED
      BY <2>1, <3>1, <3>2 DEF CarriedOK
  <2>4. /\ \A u \in Thread : req[u].pc = "put" => CarriedOK(req[u].item, home', excused')
        /\ \A i \in DOMAIN queue : CarriedOK(queue[i], home', excused')
    BY <2>2, CarriedKept DEF RecordOK
  <2>5. \A u \in Thread : req'[u].pc = "put" => CarriedOK(req'[u].item, home', excused')
    BY <2>1, <2>3, <2>4
  <2>6. \A u \in Thread : req'[u].pc = "lookup" => ~req'[u].item.found
    BY <2>1 DEF RecordOK
  <2>7. \A sid \in told' \ excused' : rows'[sid].proc \in {NoProc, home'[sid]}
    BY <2>2 DEF RecordOK
  <2> QED
    BY <2>2, <2>4, <2>5, <2>6, <2>7 DEF RecordOK
<1>7. ASSUME NEW t \in Thread, Put(t)
      PROVE  RecordOK'
  <2> DEFINE i == req[t].item
  <2>1. /\ i \in Item /\ CarriedOK(i, home, excused)
        /\ req'[t].pc = "idle" /\ \A u \in Thread : u # t => req'[u] = req[u]
    BY <1>7 DEF Put, Typed, TypeOK, Request, RecordOK, Idle
  <2>2. /\ UNCHANGED <<home, rows, told>> /\ excused \subseteq excused'
        /\ queue' = queue \/ (~Full /\ queue' = Enqueued(i))
    BY <1>7 DEF Put
  <2> HIDE DEF i
  <2>3. /\ CarriedOK(i, home', excused')
        /\ \A u \in Thread : req[u].pc = "put" => CarriedOK(req[u].item, home', excused')
    BY <2>1, <2>2, CarriedKept DEF RecordOK
  <2>4. \A j \in DOMAIN queue : CarriedOK(queue[j], home', excused')
    BY <2>2, CarriedKept DEF RecordOK
  <2> QED
    BY <2>1, <2>2, <2>3, <2>4, EnqueuedTyped DEF RecordOK, CarriedOK
<1>8. ASSUME NEW t \in Thread, TimesOut(t)
      PROVE  RecordOK'
  <2>1. /\ queue' = LeftBehind(t) /\ UNCHANGED <<home, rows, told, excused>>
        /\ req'[t].pc = "idle" /\ \A u \in Thread : u # t => req'[u] = req[u]
    BY <1>8 DEF TimesOut, Typed, TypeOK, Idle, sessionVars, history
  <2> QED
    BY <2>1, LeftBehindFields DEF RecordOK, CarriedOK
<1>9. CASE TakeHook
  <2> DEFINE i == Head(queue)
  <2>1. CarriedOK(i, home, excused) /\ i.who \in Sid /\ i.kind # "forget"
    BY <1>9, TakenTyped DEF TakeHook, RecordOK, Typed, ItemsOK
  <2>2. /\ UNCHANGED <<home, req, excused>>
        /\ told' = IF i.kind = "SessionStart" THEN told \cup {i.who} ELSE told
    BY <1>9 DEF TakeHook, sessionVars
  <2>3. /\ rows'[i.who].proc = OnRecord(rows[i.who], i.kind, Carried(i))
        /\ \A sid \in Sid \ {i.who} : rows'[sid] = rows[sid]
    BY <1>9, TakeHookFields
  <2>4. \A sid \in told' \ excused' : rows'[sid].proc \in {NoProc, home'[sid]}
    BY <2>1, <2>2, <2>3 DEF RecordOK, OnRecord, Carried, CarriedOK, Typed, TypeOK
  <2> HIDE DEF i
  <2> QED
    BY <1>9, <2>2, <2>4, TakenTyped DEF TakeHook, RecordOK, CarriedOK
<1>10. CASE TakeForget
  <2>1. /\ \A t \in Thread : req'[t] = req[t] \/ req'[t].pc = "idle"
        /\ queue # <<>> /\ queue' = Tail(queue) /\ UNCHANGED <<home, told, excused>>
    BY <1>10 DEF TakeForget, Idle, sessionVars, history
  <2>2. \A sid \in Sid : rows'[sid].proc = rows[sid].proc
    <3>1. PICK ended : Clears(ended, {})
      BY <1>10 DEF TakeForget
    <3> QED
      BY <3>1, ClearsFields
  <2>3. told \subseteq Sid
    BY DEF Typed, TypeOK
  <2> QED
    BY <2>1, <2>2, <2>3, TakenTyped DEF RecordOK, CarriedOK
<1>11. ASSUME NEW asked \in SUBSET Watched, NEW dropped \in SUBSET Sid, Pass(asked, dropped)
       PROVE  RecordOK'
  <2>1. \A sid \in Sid : rows'[sid].proc \in {rows[sid].proc, NoProc}
    BY <1>11, ClearsFields DEF Pass, Absent
  <2>2. UNCHANGED <<home, req, queue, told>> /\ excused \subseteq excused'
    BY <1>11 DEF Pass, sessionVars
  <2>3. /\ \A u \in Thread : req[u].pc = "put" => CarriedOK(req[u].item, home', excused')
        /\ \A i \in DOMAIN queue : CarriedOK(queue[i], home', excused')
    BY <2>2, CarriedKept DEF RecordOK
  <2>4. told \subseteq Sid
    BY DEF Typed, TypeOK
  <2> QED
    BY <2>1, <2>2, <2>3, <2>4 DEF RecordOK, CarriedOK
<1>12. CASE UNCHANGED vars
  BY <1>12 DEF vars, RecordOK, CarriedOK, sessionVars, history
<1> QED
  BY <1>1, <1>2, <1>3, <1>4, <1>5, <1>6, <1>7, <1>8, <1>9, <1>10, <1>11, <1>12 DEF Next, Handler

LEMMA InitRecord == Init => RecordOK
<1> SUFFICES ASSUME Init PROVE RecordOK
  OBVIOUS
<1>1. \A sid \in told \ excused : rows[sid].proc \in {NoProc, home[sid]}
  <2>1. CASE told = {}
    BY <2>1
  <2>2. ASSUME NEW s \in Sid, NEW proc \in Process, NEW row \in Restored(proc),
               StartedAfter(s, proc, row), told # {}
        PROVE  \A sid \in told \ excused : rows[sid].proc \in {NoProc, home[sid]}
    <3>1. told = {s} /\ row.proc \notin Earlier(proc)
      BY <2>2 DEF StartedAfter
    <3>2. rows[s] = row /\ home[s] = proc
      BY <2>2 DEF StartedAfter
    <3> QED
      BY <3>1, <3>2, RestoredTyped
  <2> QED
    BY <2>1, <2>2, InitCases
<1>2. queue = <<>> /\ \A t \in Thread : req[t].pc = "idle"
  BY DEF Init, Idle
<1> QED
  BY <1>1, <1>2 DEF RecordOK

\* "Gone" is never said of the process itself while it runs.
LEMMA DeadIsDead ==
    ASSUME TypeOK, NEW proc \in Process, alive(proc) = "False"
    PROVE  ~Running(proc)
<1>1. image[proc.pid] \in Image
  BY DEF TypeOK, Process
<1> QED
  BY <1>1 DEF alive, Running, Image

\* No session that runs is ended by the liveness poll if the lookups of its
\* hooks succeeded, for any number of sessions and PIDs, whatever is started and
\* whatever PIDs are handed out again.
THEOREM TheLivingAreSpared == Spec => LivingSpared
<1>1. Init => RecordOK
  BY InitRecord
<1>2. Typed /\ RecordOK /\ [Next]_vars =>
        \A sid \in told \ excused : Ends(sid) => ~Running(home[sid])
  <2> SUFFICES ASSUME Typed, RecordOK, [Next]_vars, NEW sid \in told \ excused, Ends(sid)
               PROVE  ~Running(home[sid])
    OBVIOUS
  <2>0. sid \in Sid
    BY DEF Typed, TypeOK
  <2>1. PICK asked \in SUBSET Watched, dropped \in SUBSET Sid : Pass(asked, dropped)
    BY DEF Next, Ends, SessionRuns, Stranger, Gone, GivesUp, Fire, Status, AskForget,
           Handler, Lookup, Put, TimesOut, TakeHook, TakeForget, vars
  <2>2. sid \in Watched /\ alive(rows[sid].proc) = "False"
    BY <2>0, <2>1, ClearsFields DEF Pass, Ends, Absent
  <2>3. rows[sid].proc = home[sid] /\ home[sid] \in Process
    BY <2>0, <2>2 DEF RecordOK, Watched, Typed, TypeOK
  <2> QED
    BY <2>2, <2>3, DeadIsDead DEF Typed
<1>3. Typed /\ RecordOK /\ [Next]_vars =>
        [\A sid \in told \ excused : Ends(sid) => ~Running(home[sid])]_vars
  BY <1>2
<1> QED
  BY <1>1, <1>3, RecordKept, AlwaysTyped, PTL DEF Spec, LivingSpared

----------------------------------------------------------------------------
\* The one lookup

\* The process of the session is being looked up, or has been found by a hook
\* still on its way.
SoughtByThread(sid) ==
    \E t \in Thread : req[t].item.who = sid /\
       (req[t].pc = "lookup" \/ (req[t].pc = "put" /\ req[t].item.found))

SoughtInQueue(sid) == \E i \in DOMAIN queue : queue[i].who = sid /\ queue[i].found

\* Whatever the state of the row: it may be revived.
LookedUp ==
    /\ \A i \in DOMAIN queue : queue[i].found => queue[i].kind # "forget"
    /\ \A sid \in tried \ excused :
           rows[sid].proc = NoProc => SoughtByThread(sid) \/ SoughtInQueue(sid)

LEMMA LookedUpKept == Typed /\ RecordOK /\ LookedUp /\ [Next]_vars => LookedUp'
<1> SUFFICES ASSUME Typed, RecordOK, LookedUp, [Next]_vars
             PROVE  LookedUp'
  OBVIOUS
<1>0. tried \subseteq Sid
  BY DEF Typed, TypeOK
<1>1. CASE \E sid \in Sid, pid \in Pid : SessionRuns(sid, pid)
  BY <1>1 DEF SessionRuns, LookedUp, SoughtByThread, SoughtInQueue
<1>2. CASE \/ \E pid \in Pid, guarded \in BOOLEAN : Stranger(pid, guarded)
           \/ \E pid \in Pid : Gone(pid)
           \/ \E sid \in Sid : GivesUp(sid)
  BY <1>2 DEF Stranger, Gone, GivesUp, LookedUp, history, SoughtByThread, SoughtInQueue
<1>3. ASSUME NEW t \in Thread, NEW sid \in Sid, NEW name \in Hook, Fire(t, sid, name)
      PROVE  LookedUp'
  <2> DEFINE i == [Blank EXCEPT !.kind = name, !.who = sid]
             pc == IF Due(sid, name) THEN "lookup" ELSE "put"
  <2>1. /\ i \in Item /\ i.who = sid
        /\ pc \in {"lookup", "put"} /\ (sid \notin tried => pc = "lookup")
    BY IdleTyped DEF Blank, Item, Due
  <2>2. Accept(t, pc, i) /\ UNCHANGED <<queue, rows, excused>> /\ tried' = tried \cup {sid}
    BY <1>3 DEF Fire, history
  <2> HIDE DEF i, pc
  <2>3. /\ req[t].pc = "idle" /\ req'[t].pc = pc /\ req'[t].item = i
        /\ \A u \in Thread : u # t => req'[u] = req[u]
    BY <2>1, <2>2, AcceptTyped
  <2>4. \A s \in tried : SoughtByThread(s) => SoughtByThread(s)'
    BY <2>3 DEF SoughtByThread
  <2>5. sid \notin tried => SoughtByThread(sid)'
    BY <2>1, <2>3 DEF SoughtByThread
  <2> QED
    BY <2>2, <2>4, <2>5 DEF LookedUp, SoughtInQueue
<1>4. ASSUME NEW sid \in Sid, Status(sid)
      PROVE  LookedUp'
  <2> DEFINE i == [Blank EXCEPT !.who = sid]
  <2>1. i \in Item /\ ~i.found
    BY IdleTyped DEF Blank, Item
  <2>2. /\ UNCHANGED <<tried, req, rows, excused>>
        /\ (queue' = queue \/ (~Full /\ queue' = Enqueued(i)))
    BY <1>4 DEF Status, history
  <2> HIDE DEF i
  <2> QED
    BY <2>1, <2>2, EnqueuedTyped DEF LookedUp, SoughtByThread, SoughtInQueue
<1>5. ASSUME NEW t \in Thread, NEW key \in Key, AskForget(t, key)
      PROVE  LookedUp'
  <2> DEFINE i == [Blank EXCEPT !.kind = "forget", !.who = key, !.box = t]
  <2>1. i \in Item /\ ~i.found
    BY IdleTyped DEF Blank, Item
  <2>2. UNCHANGED <<tried, rows, excused>> /\ ~Full /\ queue' = Enqueued(i) /\ Accept(t, "wait", i)
    BY <1>5 DEF AskForget, history
  <2> HIDE DEF i
  <2>3. req[t].pc = "idle" /\ \A u \in Thread : u # t => req'[u] = req[u]
    BY <2>1, <2>2, AcceptTyped
  <2> QED
    BY <2>1, <2>2, <2>3, EnqueuedTyped DEF LookedUp, SoughtByThread, SoughtInQueue
<1>6. ASSUME NEW t \in Thread, Lookup(t)
      PROVE  LookedUp'
  <2>0. PICK found \in BOOLEAN :
        /\ req' = [req EXCEPT ![t].pc = "put", ![t].item.found = found]
        /\ excused' = IF found THEN excused ELSE excused \cup {req[t].item.who}
    BY <1>6 DEF Lookup
  <2>1. /\ req'[t].item.found = found /\ req'[t].item.who = req[t].item.who
        /\ req'[t].pc = "put" /\ \A u \in Thread : u # t => req'[u] = req[u]
    BY <2>0 DEF Typed, TypeOK, Request, Item
  <2>2. UNCHANGED <<queue, rows, tried>>
    BY <1>6 DEF Lookup
  <2>3. req[t].pc = "lookup"
    BY <1>6 DEF Lookup
  <2>4. \A s \in tried \ excused' : SoughtByThread(s) => SoughtByThread(s)'
    <3> SUFFICES ASSUME NEW s \in tried \ excused', SoughtByThread(s)
                 PROVE  SoughtByThread(s)'
      OBVIOUS
    <3>1. PICK u \in Thread : req[u].item.who = s /\
              (req[u].pc = "lookup" \/ (req[u].pc = "put" /\ req[u].item.found))
      BY DEF SoughtByThread
    <3>2. CASE u # t
      BY <2>1, <3>1, <3>2 DEF SoughtByThread
    <3>3. CASE u = t
      <4>1. found
        BY <2>0, <3>1, <3>3
      <4> QED
        BY <2>1, <3>1, <3>3, <4>1 DEF SoughtByThread
    <3> QED
      BY <3>2, <3>3
  <2>5. excused \subseteq excused'
    BY <2>0
  <2> QED
    BY <2>2, <2>4, <2>5 DEF LookedUp, SoughtInQueue
<1>7. ASSUME NEW t \in Thread, Put(t)
      PROVE  LookedUp'
  <2> DEFINE i == req[t].item
  <2>1. /\ i \in Item /\ i.kind # "forget" /\ req[t].pc = "put"
        /\ \A u \in Thread : u # t => req'[u] = req[u]
    BY <1>7 DEF Put, Typed, TypeOK, Request, ItemsOK, Held, Hook
  <2>2. UNCHANGED <<tried, rows>>
    BY <1>7 DEF Put
  <2>3. CASE Full
    <3>1. queue' = queue /\ excused' = excused \cup {i.who}
      BY <1>7, <2>3 DEF Put
    <3> QED
      BY <2>1, <2>2, <3>1 DEF LookedUp, SoughtByThread, SoughtInQueue
  <2>4. CASE ~Full
    <3>1. queue' = Enqueued(i) /\ excused' = excused
      BY <1>7, <2>4 DEF Put
    <3> HIDE DEF i
    <3>0. /\ DOMAIN queue' = DOMAIN queue \cup {Len(queue) + 1}
          /\ queue'[Len(queue) + 1] = i
          /\ \A j \in DOMAIN queue : queue'[j] = queue[j]
      BY <2>1, <2>4, <3>1, EnqueuedTyped
    <3>2. \A s \in tried : SoughtInQueue(s) => SoughtInQueue(s)'
      BY <3>0 DEF SoughtInQueue
    <3>3. \A s \in tried : s = i.who /\ i.found => SoughtInQueue(s)'
      BY <3>0 DEF SoughtInQueue
    <3>4. \A s \in tried : SoughtByThread(s) => SoughtByThread(s)' \/ (s = i.who /\ i.found)
      BY <2>1 DEF i, SoughtByThread
    <3>5. \A j \in DOMAIN queue' : queue'[j].found => queue'[j].kind # "forget"
      BY <2>1, <3>0 DEF LookedUp
    <3> QED
      BY <2>2, <3>1, <3>2, <3>3, <3>4, <3>5 DEF LookedUp
  <2> QED
    BY <2>3, <2>4
<1>8. ASSUME NEW t \in Thread, TimesOut(t)
      PROVE  LookedUp'
  <2>1. /\ queue' = LeftBehind(t) /\ UNCHANGED <<tried, rows, excused>>
        /\ req[t].pc = "wait" /\ \A u \in Thread : u # t => req'[u] = req[u]
    BY <1>8 DEF TimesOut, Typed, TypeOK, history
  <2> QED
    BY <2>1, LeftBehindFields DEF LookedUp, SoughtByThread, SoughtInQueue
<1>9. CASE TakeHook
  <2> DEFINE i == Head(queue)
  <2>1. CarriedOK(i, home, excused) /\ i.who \in Sid /\ i.kind # "forget"
    BY <1>9, TakenTyped DEF TakeHook, RecordOK, Typed, ItemsOK
  <2>2. UNCHANGED <<req, tried, excused>> /\ queue # <<>> /\ queue' = Tail(queue)
    BY <1>9 DEF TakeHook
  <2>3. /\ rows'[i.who].proc = OnRecord(rows[i.who], i.kind, Carried(i))
        /\ \A sid \in Sid \ {i.who} : rows'[sid] = rows[sid]
    BY <1>9, TakeHookFields
  <2>4. \A sid \in Sid : rows'[sid].proc = NoProc =>
            rows[sid].proc = NoProc /\ ~(sid = i.who /\ i.found)
    BY <2>1, <2>3 DEF OnRecord, Carried, CarriedOK
  <2>5. \A sid \in Sid : SoughtInQueue(sid) => SoughtInQueue(sid)' \/ (sid = i.who /\ i.found)
    <3> SUFFICES ASSUME NEW sid \in Sid, NEW j \in DOMAIN queue,
                        queue[j].who = sid, queue[j].found, ~(sid = i.who /\ i.found)
                 PROVE  SoughtInQueue(sid)'
      BY DEF SoughtInQueue
    <3>1. j - 1 \in DOMAIN queue' /\ queue'[j - 1] = queue[j]
      BY <2>2, TakenTyped
    <3> QED
      BY <3>1 DEF SoughtInQueue
  <2>6. \A j \in DOMAIN queue' : queue'[j].found => queue'[j].kind # "forget"
    BY <2>2, TakenTyped DEF LookedUp
  <2> HIDE DEF i
  <2> QED
    BY <1>0, <2>2, <2>4, <2>5, <2>6 DEF LookedUp, SoughtByThread
<1>10. CASE TakeForget
  <2>1. /\ queue # <<>> /\ queue' = Tail(queue) /\ UNCHANGED excused /\ tried' \subseteq tried
        /\ \A t \in Thread : req[t].pc # "wait" => req'[t] = req[t]
        /\ Head(queue).kind = "forget"
    BY <1>10 DEF TakeForget, history, Typed, TypeOK
  <2>2. \A sid \in Sid : rows'[sid].proc = rows[sid].proc
    <3>1. PICK ended : Clears(ended, {})
      BY <1>10 DEF TakeForget
    <3> QED
      BY <3>1, ClearsFields
  <2>3. \A sid \in Sid : SoughtInQueue(sid) => SoughtInQueue(sid)'
    <3> SUFFICES ASSUME NEW sid \in Sid, NEW j \in DOMAIN queue,
                        queue[j].who = sid, queue[j].found
                 PROVE  SoughtInQueue(sid)'
      BY DEF SoughtInQueue
    <3>1. j - 1 \in DOMAIN queue' /\ queue'[j - 1] = queue[j]
      BY <2>1, TakenTyped DEF LookedUp
    <3> QED
      BY <3>1 DEF SoughtInQueue
  <2>4. \A sid \in Sid : SoughtByThread(sid) => SoughtByThread(sid)'
    BY <2>1 DEF SoughtByThread
  <2>5. \A j \in DOMAIN queue' : queue'[j].found => queue'[j].kind # "forget"
    BY <2>1, TakenTyped DEF LookedUp
  <2> QED
    BY <1>0, <2>1, <2>2, <2>3, <2>4, <2>5 DEF LookedUp
<1>11. ASSUME NEW asked \in SUBSET Watched, NEW dropped \in SUBSET Sid, Pass(asked, dropped)
       PROVE  LookedUp'
  <2>1. \A sid \in Sid : sid \in dropped \/ rows'[sid].proc = rows[sid].proc
    BY <1>11, ClearsFields DEF Pass
  <2>2. UNCHANGED <<req, queue, tried>> /\ excused' = excused \cup dropped
    BY <1>11 DEF Pass
  <2> QED
    BY <1>0, <2>1, <2>2 DEF LookedUp, SoughtByThread, SoughtInQueue
<1>12. CASE UNCHANGED vars
  BY <1>12 DEF vars, LookedUp, history, SoughtByThread, SoughtInQueue
<1> QED
  BY <1>1, <1>2, <1>3, <1>4, <1>5, <1>6, <1>7, <1>8, <1>9, <1>10, <1>11, <1>12 DEF Next, Handler

\* The one lookup of a session is not lost among its hooks, whatever order they
\* are served in and whatever /forget is asked meanwhile, for any number of
\* threads.
THEOREM LookupsAreNotLost == Spec => []LookupNotLost
<1>1. LookedUp => LookupNotLost
  BY DEF LookedUp, LookupNotLost, SoughtByThread, SoughtInQueue
<1>2. Init => LookedUp
  BY DEF Init, LookedUp
<1> QED
  BY <1>1, <1>2, InitRecord, RecordKept, LookedUpKept, AlwaysTyped, PTL DEF Spec

----------------------------------------------------------------------------
\* The order of hooks

\* A SessionStart of the session stands in the queue before place n.
StartBefore(q, sid, n) ==
    \E j \in DOMAIN q : j < n /\ q[j].who = sid /\ q[j].kind = "SessionStart"

\* It has been applied, or will be before what is queued from now on.
Announced(sid) == sid \in told \/ StartBefore(queue, sid, Len(queue) + 1)

\* A handler thread serves another hook of the session.
Serves(t, sid) == Held(t) /\ req[t].item.who = sid /\ req[t].item.kind = "Other"

OrderOf(sid) ==
    /\ stage[sid] = "over" => Announced(sid)
    /\ \A t \in Thread : Serves(t, sid) => Announced(sid)
    /\ \A i \in DOMAIN queue :
           queue[i].who = sid /\ queue[i].kind = "Other" =>
               sid \in told \/ StartBefore(queue, sid, i)

OrderOK == \A sid \in Sid \ excused : OrderOf(sid)

\* The queue stays as it is, but for who waits for an answer.
LEMMA OrderStays ==
    ASSUME Typed, NEW sid, OrderOf(sid), told \subseteq told',
           DOMAIN queue' = DOMAIN queue, Len(queue') = Len(queue),
           \A i \in DOMAIN queue : queue'[i].who = queue[i].who /\ queue'[i].kind = queue[i].kind,
           stage'[sid] = "over" => Announced(sid),
           \A t \in Thread : Serves(t, sid)' => Announced(sid)
    PROVE  OrderOf(sid)'
<1>1. \A n : StartBefore(queue, sid, n) => StartBefore(queue', sid, n)
  BY DEF StartBefore
<1>2. Announced(sid) => Announced(sid)'
  BY <1>1 DEF Announced
<1> QED
  BY <1>1, <1>2 DEF OrderOf

\* What joins the queue comes after what is there.
LEMMA OrderBehind ==
    ASSUME Typed, NEW sid, OrderOf(sid), told' = told,
           NEW item \in Item, ~Full, queue' = Enqueued(item),
           item.who = sid /\ item.kind = "Other" => Announced(sid),
           stage'[sid] = "over" =>
               Announced(sid) \/ (item.who = sid /\ item.kind = "SessionStart"),
           \A t \in Thread : Serves(t, sid)' => Announced(sid)
    PROVE  OrderOf(sid)'
<1> DEFINE n == Len(queue)
<1>1. /\ n \in Nat /\ DOMAIN queue = 1 .. n /\ DOMAIN queue' = 1 .. (n + 1) /\ Len(queue') = n + 1
      /\ queue'[n + 1] = item /\ \A i \in 1 .. n : queue'[i] = queue[i]
  BY DEF Typed, TypeOK, Enqueued
<1> HIDE DEF n
<1>2. \A m : StartBefore(queue, sid, m) => StartBefore(queue', sid, m)
  BY <1>1 DEF StartBefore
<1>3. StartBefore(queue, sid, n + 1) => StartBefore(queue', sid, n + 2)
  BY <1>1 DEF StartBefore
<1>4. Announced(sid) => Announced(sid)' /\ (sid \in told' \/ StartBefore(queue', sid, n + 1))
  BY <1>1, <1>2, <1>3 DEF Announced, n
<1>5. item.who = sid /\ item.kind = "SessionStart" => StartBefore(queue', sid, n + 2)
  BY <1>1 DEF StartBefore
<1>6. item.who = sid /\ item.kind = "SessionStart" => Announced(sid)'
  BY <1>1, <1>5 DEF Announced
<1> QED
  BY <1>1, <1>2, <1>4, <1>6 DEF OrderOf

\* What is taken from the queue is applied.
LEMMA OrderTaken ==
    ASSUME Typed, NEW sid, OrderOf(sid), queue # <<>>, queue' = Tail(queue),
           told' = IF Head(queue).kind = "SessionStart" THEN told \cup {Head(queue).who} ELSE told,
           stage' = stage, \A t \in Thread : Serves(t, sid)' => Serves(t, sid)
    PROVE  OrderOf(sid)'
<1> DEFINE n == Len(queue)
<1>1. /\ n \in Nat \ {0} /\ DOMAIN queue = 1 .. n /\ Head(queue) = queue[1]
      /\ DOMAIN queue' = 1 .. (n - 1) /\ Len(queue') = n - 1
      /\ \A i \in 1 .. (n - 1) : queue'[i] = queue[i + 1]
  BY DEF Typed, TypeOK
<1> HIDE DEF n
<1>2. ASSUME NEW m \in Nat, StartBefore(queue, sid, m + 1)
      PROVE  sid \in told' \/ StartBefore(queue', sid, m)
  <2> PICK j \in DOMAIN queue : j < m + 1 /\ queue[j].who = sid /\ queue[j].kind = "SessionStart"
    BY <1>2 DEF StartBefore
  <2>1. CASE j = 1
    BY <1>1, <2>1
  <2>2. CASE j # 1
    <3>1. j - 1 \in DOMAIN queue' /\ j - 1 < m /\ queue'[j - 1] = queue[j]
      BY <1>1, <2>2
    <3> QED
      BY <3>1 DEF StartBefore
  <2> QED
    BY <2>1, <2>2
<1>3. told \subseteq told'
  OBVIOUS
<1>4. Announced(sid) => Announced(sid)'
  <2>1. Len(queue') + 1 = n /\ Len(queue) = n
    BY <1>1 DEF n
  <2> QED
    BY <1>1, <1>2, <1>3, <2>1 DEF Announced
<1>5. ASSUME NEW i \in DOMAIN queue', queue'[i].who = sid, queue'[i].kind = "Other"
      PROVE  sid \in told' \/ StartBefore(queue', sid, i)
  <2>1. i \in Nat /\ i + 1 \in DOMAIN queue /\ queue[i + 1] = queue'[i]
    BY <1>1
  <2>2. sid \in told \/ StartBefore(queue, sid, i + 1)
    BY <1>5, <2>1 DEF OrderOf
  <2> QED
    BY <1>2, <1>3, <2>1, <2>2
<1> QED
  BY <1>4, <1>5 DEF OrderOf

LEMMA OrderKeeps == Typed /\ OrderOK /\ [Next]_vars => OrderOK'
<1> SUFFICES ASSUME Typed, OrderOK, [Next]_vars
             PROVE  OrderOK'
  OBVIOUS
<1>1. ASSUME NEW sid \in Sid, NEW pid \in Pid, SessionRuns(sid, pid)
      PROVE  OrderOK'
  <2>1. /\ UNCHANGED <<req, queue, excused>> /\ told' = told \ {sid} /\ ~InFlight(sid)
        /\ stage'[sid] = "due" /\ \A s \in Sid \ {sid} : stage'[s] = stage[s]
    BY <1>1 DEF SessionRuns, Typed, TypeOK
  <2>2. OrderOf(sid)'
    BY <2>1 DEF OrderOf, Serves, InFlight, Held
  <2>3. \A s \in Sid \ (excused \cup {sid}) : OrderOf(s)'
    BY <2>1 DEF OrderOK, OrderOf, Serves, Held, Announced
  <2> QED
    BY <2>1, <2>2, <2>3 DEF OrderOK
<1>2. CASE \/ \E pid \in Pid, guarded \in BOOLEAN : Stranger(pid, guarded)
           \/ \E pid \in Pid : Gone(pid)
           \/ \E asked \in SUBSET Watched, dropped \in SUBSET Sid : Pass(asked, dropped)
           \/ UNCHANGED vars
  <2>1. UNCHANGED <<req, queue, told, stage>> /\ excused \subseteq excused'
    BY <1>2 DEF Stranger, Gone, Pass, sessionVars, history, vars
  <2> QED
    BY <2>1 DEF OrderOK, OrderOf, Serves, Held, Announced
<1>3. ASSUME NEW sid \in Sid, GivesUp(sid)
      PROVE  OrderOK'
  <2>1. /\ UNCHANGED <<req, queue, told>> /\ excused' = excused \cup {sid}
        /\ \A s \in Sid \ {sid} : stage'[s] = stage[s]
    BY <1>3 DEF GivesUp, Typed, TypeOK
  <2> QED
    BY <2>1 DEF OrderOK, OrderOf, Serves, Held, Announced
<1>4. ASSUME NEW t \in Thread, NEW sid \in Sid, NEW name \in Hook, Fire(t, sid, name)
      PROVE  OrderOK'
  <2> DEFINE i == [Blank EXCEPT !.kind = name, !.who = sid]
             pc == IF Due(sid, name) THEN "lookup" ELSE "put"
  <2>1. i \in Item /\ i.who = sid /\ i.kind = name /\ pc \in {"lookup", "put"}
    BY IdleTyped DEF Blank, Item
  <2>2. Accept(t, pc, i) /\ UNCHANGED <<queue, told, excused>>
    BY <1>4 DEF Fire, history
  <2> HIDE DEF i, pc
  <2>3. /\ req'[t].item = i /\ \A u \in Thread : u # t => req'[u] = req[u]
    BY <2>1, <2>2, AcceptTyped
  <2>4. /\ \A s \in Sid : stage'[s] = "over" => stage[s] = "over"
        /\ name = "Other" => stage[sid] = "over"
    BY <1>4 DEF Fire, Typed, TypeOK, Hook
  <2>5. \A s \in Sid, u \in Thread : Serves(u, s)' => Serves(u, s) \/ (s = sid /\ name = "Other")
    BY <2>1, <2>3 DEF Serves, Held
  <2>6. \A s \in Sid \ excused : OrderOf(s)'
    BY <2>2, <2>4, <2>5, OrderStays DEF OrderOK, OrderOf
  <2> QED
    BY <2>2, <2>6 DEF OrderOK
<1>5. ASSUME NEW sid \in Sid, Status(sid)
      PROVE  OrderOK'
  <2> DEFINE i == [Blank EXCEPT !.who = sid]
  <2>1. i \in Item /\ i.kind = "status"
    BY IdleTyped DEF Blank, Item
  <2>2. UNCHANGED <<stage, req, told, excused>>
    BY <1>5 DEF Status, sessionVars, history
  <2>3. CASE Full
    BY <1>5, <2>2, <2>3 DEF Status, OrderOK, OrderOf, Serves, Held, Announced
  <2>4. CASE ~Full
    <3>1. queue' = Enqueued(i)
      BY <1>5, <2>4 DEF Status
    <3> HIDE DEF i
    <3>2. \A s \in Sid \ excused : OrderOf(s)'
      BY <2>1, <2>2, <2>4, <3>1, OrderBehind DEF OrderOK, OrderOf, Serves, Held
    <3> QED
      BY <2>2, <3>2 DEF OrderOK
  <2> QED
    BY <2>3, <2>4
<1>6. ASSUME NEW t \in Thread, NEW key \in Key, AskForget(t, key)
      PROVE  OrderOK'
  <2> DEFINE i == [Blank EXCEPT !.kind = "forget", !.who = key, !.box = t]
  <2>1. i \in Item /\ i.kind = "forget"
    BY IdleTyped DEF Blank, Item
  <2>2. /\ UNCHANGED <<stage, told, excused>> /\ ~Full /\ queue' = Enqueued(i)
        /\ Accept(t, "wait", i)
    BY <1>6 DEF AskForget, sessionVars, history
  <2> HIDE DEF i
  <2>3. req'[t].pc = "wait" /\ \A u \in Thread : u # t => req'[u] = req[u]
    BY <2>1, <2>2, AcceptTyped
  <2>4. \A s \in Sid, u \in Thread : Serves(u, s)' => Serves(u, s)
    BY <2>3 DEF Serves, Held
  <2>5. \A s \in Sid \ excused : OrderOf(s)'
    BY <2>1, <2>2, <2>4, OrderBehind DEF OrderOK, OrderOf
  <2> QED
    BY <2>2, <2>5 DEF OrderOK
<1>7. ASSUME NEW t \in Thread, Lookup(t)
      PROVE  OrderOK'
  <2> PICK found \in BOOLEAN :
        /\ req' = [req EXCEPT ![t].pc = "put", ![t].item.found = found]
        /\ excused' = IF found THEN excused ELSE excused \cup {req[t].item.who}
    BY <1>7 DEF Lookup
  <2>1. /\ req'[t].item.kind = req[t].item.kind /\ req'[t].item.who = req[t].item.who
        /\ req[t].pc = "lookup" /\ \A u \in Thread : u # t => req'[u] = req[u]
    BY <1>7 DEF Lookup, Typed, TypeOK, Request, Item
  <2>2. UNCHANGED <<stage, queue, told>> /\ excused \subseteq excused'
    BY <1>7 DEF Lookup, sessionVars
  <2>3. \A s \in Sid, u \in Thread : Serves(u, s)' => Serves(u, s)
    BY <2>1 DEF Serves, Held
  <2>4. \A s \in Sid \ excused' : OrderOf(s)'
    BY <2>2, <2>3, OrderStays DEF OrderOK, OrderOf
  <2> QED
    BY <2>4 DEF OrderOK
<1>8. ASSUME NEW t \in Thread, Put(t)
      PROVE  OrderOK'
  <2> DEFINE i == req[t].item
  <2>1. i \in Item /\ i.who \in Sid /\ Held(t)
    BY <1>8 DEF Put, Typed, TypeOK, Request, ItemsOK, Held
  <2>2. req'[t].pc = "idle" /\ \A u \in Thread : u # t => req'[u] = req[u]
    BY <1>8 DEF Put, Typed, TypeOK, Idle
  <2>3. told' = told /\ \A s \in Sid : stage'[s] = "over" =>
            stage[s] = "over" \/ (i.who = s /\ i.kind = "SessionStart")
    BY <1>8, <2>1 DEF Put, Replied, Typed, TypeOK
  <2>4. \A s \in Sid, u \in Thread : Serves(u, s)' => Serves(u, s)
    BY <2>2 DEF Serves, Held
  <2>5. \A s \in Sid \ excused : i.who = s /\ i.kind = "Other" => Announced(s)
    BY <2>1 DEF OrderOK, OrderOf, Serves
  <2> HIDE DEF i
  <2>6. CASE Full
    <3>1. queue' = queue /\ excused' = excused \cup {i.who}
      BY <1>8, <2>6 DEF Put, i
    <3>2. \A s \in Sid \ excused' : OrderOf(s)'
      BY <2>3, <2>4, <3>1, OrderStays DEF OrderOK, OrderOf
    <3> QED
      BY <3>2 DEF OrderOK
  <2>7. CASE ~Full
    <3>1. queue' = Enqueued(i) /\ excused' = excused
      BY <1>8, <2>7 DEF Put, i
    <3>2. ASSUME NEW s \in Sid \ excused
          PROVE  OrderOf(s)'
      <4>1. OrderOf(s) /\ \A u \in Thread : Serves(u, s)' => Announced(s)
        BY <2>4 DEF OrderOK, OrderOf
      <4>2. stage'[s] = "over" => Announced(s) \/ (i.who = s /\ i.kind = "SessionStart")
        BY <2>3, <4>1 DEF OrderOf
      <4> QED
        BY <2>1, <2>3, <2>5, <2>7, <3>1, <4>1, <4>2, OrderBehind
    <3> QED
      BY <3>1, <3>2 DEF OrderOK
  <2> QED
    BY <2>6, <2>7
<1>9. ASSUME NEW t \in Thread, TimesOut(t)
      PROVE  OrderOK'
  <2>1. /\ queue' = LeftBehind(t) /\ UNCHANGED <<stage, told, excused>>
        /\ req'[t].pc = "idle" /\ \A u \in Thread : u # t => req'[u] = req[u]
    BY <1>9 DEF TimesOut, Typed, TypeOK, Idle, sessionVars, history
  <2>2. \A s \in Sid, u \in Thread : Serves(u, s)' => Serves(u, s)
    BY <2>1 DEF Serves, Held
  <2>3. \A s \in Sid \ excused : OrderOf(s)'
    BY <2>1, <2>2, LeftBehindFields, OrderStays DEF OrderOK, OrderOf
  <2> QED
    BY <2>1, <2>3 DEF OrderOK
<1>10. CASE TakeHook
  <2>1. /\ UNCHANGED <<stage, req, excused>> /\ queue # <<>> /\ queue' = Tail(queue)
        /\ told' = IF Head(queue).kind = "SessionStart" THEN told \cup {Head(queue).who} ELSE told
    BY <1>10 DEF TakeHook, sessionVars
  <2>2. \A s \in Sid \ excused : OrderOf(s)'
    BY <2>1, OrderTaken DEF OrderOK, Serves, Held
  <2> QED
    BY <2>1, <2>2 DEF OrderOK
<1>11. CASE TakeForget
  <2>1. /\ UNCHANGED <<stage, told, excused>> /\ queue # <<>> /\ queue' = Tail(queue)
        /\ Head(queue).kind = "forget"
        /\ \A t \in Thread : req'[t] = req[t] \/ req'[t].pc = "idle"
    BY <1>11 DEF TakeForget, Idle, sessionVars, history
  <2>2. \A s \in Sid, u \in Thread : Serves(u, s)' => Serves(u, s)
    BY <2>1 DEF Serves, Held
  <2>3. \A s \in Sid \ excused : OrderOf(s)'
    BY <2>1, <2>2, OrderTaken DEF OrderOK
  <2> QED
    BY <2>1, <2>3 DEF OrderOK
<1> QED
  BY <1>1, <1>2, <1>3, <1>4, <1>5, <1>6, <1>7, <1>8, <1>9, <1>10, <1>11 DEF Next, Handler

\* A hook fired after the answer to SessionStart is applied after it, for any
\* number of threads and however long each of them is held up by its lookup.
THEOREM HooksKeepTheirOrder == Spec => OrderKept
<1>1. Init => OrderOK
  <2> SUFFICES ASSUME Init, NEW sid \in Sid \ excused
               PROVE  OrderOf(sid)
    BY DEF OrderOK
  <2>1. queue = <<>> /\ \A t \in Thread : req[t].pc = "idle"
    BY DEF Init, Idle
  <2>2. stage[sid] = "over" => sid \in told
    BY InitCases DEF StartedAfter
  <2> QED
    BY <2>1, <2>2 DEF OrderOf, Serves, Held, Announced
<1>2. Typed /\ OrderOK =>
        \A sid \in Sid \ excused :
           TakeHook /\ Head(queue).who = sid /\ Head(queue).kind = "Other" => sid \in told
  <2> SUFFICES ASSUME Typed, OrderOK, NEW sid \in Sid \ excused,
                      TakeHook, Head(queue).who = sid, Head(queue).kind = "Other"
               PROVE  sid \in told
    OBVIOUS
  <2>1. 1 \in DOMAIN queue /\ Head(queue) = queue[1] /\ DOMAIN queue \subseteq Nat \ {0}
    BY DEF TakeHook, Typed, TypeOK
  <2>2. ~StartBefore(queue, sid, 1)
    BY <2>1 DEF StartBefore
  <2> QED
    BY <2>1, <2>2 DEF OrderOK, OrderOf
<1> QED
  BY <1>1, <1>2, OrderKeeps, AlwaysTyped, PTL DEF Spec, OrderKept, Typed
=============================================================================
