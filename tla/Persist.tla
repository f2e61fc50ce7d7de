------------------------------ MODULE Persist -------------------------------
(***************************************************************************)
(* The session table across restarts of the daemon: the state file of      *)
(* persist.py, when main.py writes it, and what is read back.              *)
(*                                                                         *)
(* The daemon may crash, be stopped and be started again at any moment,    *)
(* and the machine may be rebooted, with an uptime that starts again or,   *)
(* by Fast Startup, carries on.  While it is down the table is empty       *)
(* and what hooks send is lost.  A daemon that is stopped gives up its     *)
(* port before it saves (main.py, finally), so that its successor may      *)
(* start in between; that window is too short for a hook, a unit of time   *)
(* or a reboot to fall into it.  A stamp in the file is its age, as in the *)
(* table: stamps are absolute and nothing is rebased.                      *)
(***************************************************************************)
EXTENDS SessionStore

CONSTANT SAVE_EVERY_S

ASSUME SaveAssumption == SAVE_EVERY_S \in Nat

VARIABLES
    up,             \* a daemon serves the port
    file,           \* the rows in the state file
    rebooted,       \* the uptime has started again since the file was saved
    sinceSave,      \* the age of last_save, SAVE_EVERY_S at most
    moved,          \* the key of the snapshot differs from last_key
    leaving,        \* the table of a daemon that has stopped and not yet saved
    \* History
    fileAsks,       \* the sessions that were asking when the file was saved
    owed,           \* sessions restored as asking and not touched since
    gone            \* sessions of before a boot that the uptime tells of, neither
                    \* heard since nor restored without knowing the boot time

disk == <<file, rebooted, fileAsks>>
pvars == <<vars, up, disk, sinceSave, moved, leaving, owed, gone>>

\* A row that tells a human to come, or holds a notice that will.
Asks(s) == s.state \in ATTENTION_STATES \cup {"look"} \/ s.idle_held

Asking(table) == {sid \in DOMAIN table : table[sid].state # "end" /\ Asks(table[sid])}

NoTable == [sid \in {} |-> NewSession(NoLabel)]

PersistInit ==
    /\ Init
    /\ up = TRUE /\ leaving = {}
    /\ file = NoTable /\ rebooted = FALSE /\ fileAsks = {}
    /\ sinceSave = SAVE_EVERY_S /\ moved = TRUE
    /\ owed = {} /\ gone = {}

----------------------------------------------------------------------------
\* save() and load()

\* Mutant: the held notice is not one of _FIELDS.
RememberedUnheld(s) ==
    [s EXCEPT !.bg_tasks = 0, !.bg_other = 0, !.bg_seen = Horizon, !.turn_over = FALSE,
              !.idle_held = FALSE]

\* What a row is after it has been written and read: _FIELDS, and the defaults of
\* what is not in it.
Remembered(s) ==
    [s EXCEPT !.bg_tasks = 0, !.bg_other = 0, !.bg_seen = Horizon, !.turn_over = FALSE]

\* Mutant: ended rows are written too.
WrittenEnded(table) == [sid \in DOMAIN table |-> Remembered(table[sid])]

\* Ended rows are not written.
Written(table) ==
    [sid \in {k \in DOMAIN table : table[k].state # "end"} |-> Remembered(table[sid])]

\* The file is replaced whole, or, if anything fails, left as it is.
Save(table) ==
    \/ file' = Written(table) /\ rebooted' = FALSE /\ fileAsks' = Asking(table)
    \/ UNCHANGED disk

\* Mutant: stamps are rebased when they are read.
LoadedRebased(known) ==
    [sid \in {k \in DOMAIN file : ~(known /\ rebooted) /\ file[k].last_event <= ghost_after_s} |->
        Heard(file[sid])]

\* Mutant: the boot check is missing.
LoadedAnyBoot(known) ==
    [sid \in {k \in DOMAIN file : file[k].last_event <= ghost_after_s} |-> file[sid]]

\* Nothing from before a boot, if the boot time is known, and nothing that has been
\* silent for too long.
Loaded(known) ==
    [sid \in {k \in DOMAIN file : ~(known /\ rebooted) /\ file[k].last_event <= ghost_after_s} |->
        file[sid]]

----------------------------------------------------------------------------
\* A daemon that runs

\* The snapshot without its timestamp.
SnapKey(table) ==
    [sid \in DOMAIN table |-> <<table[sid].state, table[sid].state_since, table[sid].label>>]

Untouched == {sid \in DOMAIN sessions \cap DOMAIN sessions' : sessions'[sid] = sessions[sid]}

\* The hooks that take a row to the states and flags whose saving matters; tick()
\* adds the rungs, IDLE and STALE.
Heeded(h) ==
    \/ UserPromptSubmit(h) \/ PermissionRequest(h) \/ SessionEnd(h)
    \/ Notification(h, "idle_prompt")
    \/ \E list \in Lists : Stop(h, list)

Serve ==
    /\ up /\ leaving = {}
    /\ \E h \in FromMain : Heeded(h)
    /\ moved' = (moved \/ SnapKey(sessions') # SnapKey(sessions))
    /\ owed' = owed \cap Untouched
    /\ gone' = gone \ DOMAIN sessions'
    /\ UNCHANGED <<up, disk, sinceSave, leaving>>

\* A pass: tick(), the push, and a save if the key has changed since the last
\* push and the last save is long enough ago.  The key counts as pushed either way.
Pass ==
    LET new == moved \/ SnapKey(sessions') # SnapKey(sessions) IN
    /\ up
    /\ Tick
    /\ IF new /\ sinceSave = SAVE_EVERY_S
       THEN Save(sessions') /\ sinceSave' = 0
       ELSE UNCHANGED <<disk, sinceSave>>
    /\ moved' = FALSE
    /\ owed' = owed \cap DOMAIN sessions'
    /\ UNCHANGED <<up, leaving, gone>>

AgedTable(table) == [sid \in DOMAIN table |-> Aged(table[sid])]

\* Mutant: the ages are left out of the key.
movedWithTimeNever == moved

\* The key holds the age of every row shown: it changes with time.
movedWithTime == moved \/ DOMAIN sessions # {}

TimePasses ==
    /\ leaving = {}
    /\ Advance
    /\ file' = AgedTable(file)
    /\ sinceSave' = IF sinceSave < SAVE_EVERY_S THEN sinceSave + 1 ELSE SAVE_EVERY_S
    /\ moved' = movedWithTime
    /\ UNCHANGED <<up, rebooted, leaving, fileAsks, owed, gone>>

----------------------------------------------------------------------------
\* Its end and its beginning

Down ==
    /\ up /\ up' = FALSE
    /\ sessions' = NoTable /\ published' = FALSE
    /\ sinceSave' = SAVE_EVERY_S /\ moved' = TRUE
    /\ owed' = {}

Crash == Down /\ UNCHANGED <<disk, leaving, gone>>

\* A signal: the loop ends and the port is closed, then the table is saved.
Stops == Down /\ leaving = {} /\ leaving' = {sessions} /\ UNCHANGED <<disk, gone>>

StopSaves ==
    /\ \E table \in leaving : Save(table)
    /\ leaving' = {}
    /\ UNCHANGED <<vars, up, sinceSave, moved, owed, gone>>

\* The port is free: bind, load, and the loop begins.  boot_time() is the uptime
\* taken from the clock, or, if anything fails, None.
Starts(known) ==
    /\ ~up /\ up' = TRUE
    /\ sessions' = Loaded(known) /\ published' = FALSE
    /\ owed' = fileAsks \cap DOMAIN Loaded(known)
    /\ gone' = IF known THEN gone ELSE gone \ DOMAIN Loaded(known)
    /\ UNCHANGED <<disk, sinceSave, moved, leaving>>

\* Every process dies with the machine, without a word.  Fast Startup is a boot
\* too, but does not reset the uptime.
Reboots(resets) ==
    /\ leaving = {}
    /\ up' = FALSE
    /\ sessions' = NoTable /\ published' = FALSE
    /\ sinceSave' = SAVE_EVERY_S /\ moved' = TRUE
    /\ rebooted' = (rebooted \/ resets)
    /\ owed' = {}
    /\ gone' = IF resets THEN gone \cup DOMAIN sessions \cup DOMAIN file ELSE gone
    /\ UNCHANGED <<file, fileAsks, leaving>>

PersistNext ==
    \/ Serve \/ Pass \/ TimePasses \/ Crash \/ Stops \/ StopSaves
    \/ \E known \in BOOLEAN : Starts(known)
    \/ \E resets \in BOOLEAN : Reboots(resets)

\* A daemon that runs ticks, one that stops gets to its end, a task that is down is
\* started again, time passes however often that happens, and the disk is not full
\* for ever.
PersistFairness ==
    /\ WF_pvars(Pass) /\ SF_pvars(TimePasses)
    /\ WF_pvars(\E known \in BOOLEAN : Starts(known)) /\ WF_pvars(StopSaves)
    /\ SF_pvars(Pass /\ file' = Written(sessions'))

PersistSpec == PersistInit /\ [][PersistNext]_pvars /\ PersistFairness

----------------------------------------------------------------------------
\* The table, the file and what is about to be written hold well-formed rows, and
\* the file none that has ended: it would come back for its period of grace (save).
PersistTypeOK ==
    /\ TypeOK
    /\ \A table \in {file} \cup leaving : /\ DOMAIN table \subseteq Sid
                                          /\ table \in [DOMAIN table -> Row]
    /\ \A sid \in DOMAIN file : file[sid].state # "end"
    /\ {up, rebooted, moved} \subseteq BOOLEAN /\ sinceSave \in 0 .. SAVE_EVERY_S
    /\ fileAsks \cup owed \cup gone \subseteq Sid

\* A restart by itself silences nobody: a session that was asking when the file
\* was saved asks after it is read, through any time and any ticks, until
\* something is heard of it (persist.py, _FIELDS; tick).
AskSurvives == \A sid \in owed : Asks(sessions[sid])

\* The boot check, as far as it can see: "No Claude Code process survives a reboot",
\* so a session of before a boot that the uptime tells of is not shown again,
\* however the file and the daemon's restarts interleave with the boot, until
\* something is heard of it or a daemon that did not know the boot time restores it
\* (load, boot_time).
SeenBootForgets == gone \cap DOMAIN sessions = {}

\* A ghost does not outlive its cutoff by restarts, nor by boots that the check of
\* load() misses: what nothing is heard of any more is in the end never shown again
\* ("the running cutoff in SessionStore.tick() is the backstop", boot_time; load).
GhostsGo ==
    []<><<Serve>>_pvars \/ \A sid \in Sid : <>[](sid \notin DOMAIN sessions)

\* An ask gets into the file while the daemon runs, although the throttle of
\* saves forgets the change that it skips: the ages in the key bring it back (run).
AskSaved ==
    \A sid \in Sid :
        (up /\ sid \in Asking(sessions)) ~>
            (~up \/ sid \in fileAsks \/ sid \notin Asking(sessions))
=============================================================================
