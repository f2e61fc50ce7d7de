# Session beacon: a verification project

The session beacon shows on a small desk display which Claude Code sessions are
working, which are done and which are waiting for a human. Hooks of Claude Code
post events to a daemon on the same machine; the daemon keeps one row per
session, and a board on a USB serial port draws the six most urgent rows.

This directory holds TLA+ models of that program, TLC configurations that check
them on small instances, and proofs that hold for every instance. Line numbers
refer to the files under `src/`; `PROJECT.json` maps every definition to the
lines it stands for.

## The system

| Component | State it keeps | Operations | Talks to |
|---|---|---|---|
| Session record (`state.py`, `Session`) | state, three stamps, counts of background work, who raised the wait, whether a turn is over, a held `idle_prompt`, pid | `set_state`, one handler per hook name, `_activity`, `_want_attention`, `_idle_prompt`, one row of `tick` | only the table |
| Session table (`state.py`, `SessionStore`) | dict of rows, rate limits, label cache | `apply_event`, `apply_status`, `process_gone`, `forget`, `tick`, `snapshot`, `background_report` | called by the main loop only |
| Main loop (`main.py`) | last pushed key, push, save and liveness clocks | drain the queue, poll the link, check processes, tick, snapshot, push, save | queue, table, serial link, state file |
| Hook server (`hook_server.py`) | bounded queue, set of sessions whose process was looked up, reply queues, device state and statistics for `/health` | `/event`, `/status`, `/forget`, `/health`, one thread per request | queue to the main loop |
| Process watch (`procwatch.py`) | none | `peer_session_process`, `alive` | operating system |
| Persistence (`persist.py`) | state file | `save`, `load`, `boot_time` | state file, table |
| Serial link (`serial_link.py`) | port, retry clocks, receive buffer, last heartbeat | `ensure_open`, `send`, `poll`, `close`, `DeviceHealth` | board |
| Firmware (`beacon.ino`) | line buffer, transmit ring, snapshot, what is shown, stall watchdog, words that survive a reboot | `loop`: read lines, blink, flip the footer, heartbeat, watchdog, pump | serial link, panel |
| Hook forwarder, capture, statusline, config | none between calls | I/O, redaction, wording | hook server |
| Scripts, smoke test, enclosure | none | installation, bench tools, mechanical data | - |

What makes the system hard:

- **Everything that reaches a row is reordered.** Hooks are separate processes
  racing to one socket, subagents carry the session id of their parent, and
  nothing in the code assumes an order. A row must be right under every
  interleaving.
- **Time is an actor.** Eight timers act on a row, some measured from the last
  event and some from the last change of state; ticks may come hours late
  (suspend), and a timer that is restarted by the wrong event never expires.
- **Silence is ambiguous.** A killed session, a parked one and one whose hooks
  were lost look alike.
- **Failure of either side.** The daemon is restarted, the board is rebooted by
  its own watchdog, the port disappears, the return path dies while the display
  still works.

What each component has to guarantee:

- *Session table*: an ask for a human is shown until it is answered; only the
  one who asked ends the wait; an alarm decays and does not pulse for ever; a
  finished turn and a softened prompt do not stay calm for ever; a dead row
  leaves; one tick catches up with any delay.
- *Main loop and hook server*: `/forget` answers what happened; a full queue
  drops and never blocks; a process judged gone is gone; a session that was
  resumed is not ended because its old process is.
- *Persistence*: a restart loses no ask, revives no ghost, and leaves no row in
  a state that no timer ends.
- *Serial link*: `ok` means recently heard; a refused write is retried but not
  in a tight loop; a torn line is never a heartbeat.
- *Firmware*: a line leaves whole or not at all; the board reboots itself out of
  a dead return path and never for want of a host; what is on the panel is what
  the last snapshot said.

## The modules

| Module | What it is | Code |
|---|---|---|
| `SessionRow` | operators from a row to a row, row predicates | `state.py` 16-150, 170-386, 441-517, 657-732 |
| `SessionStore` | the table as a state machine: `sessions`, `published` | `state.py` 151-454, 567-578; order of a pass: `main.py` 201-264 |
| `AttentionLadder` | abstract specification: what the display promises of one waiting session | - |
| `SessionLadder` | refinement mapping from a row of the table to the ladder | - |
| `WaitWatch` | the table with a history variable: who asked and was not answered | - |
| `ProcWatch` | processes of the operating system, PIDs handed out again, and `alive` | `procwatch.py` |
| `SessionTable` | abstract specification: the table reduced to what the daemon's threads read of it | `state.py` 170-201, 403-453 |
| `TableRows` | mapping of `SessionStore` to `SessionTable`, action by action | - |
| `Daemon` | handler threads, queue, `/forget`, liveness poll; extends `ProcWatch`, moves the table by the steps of `SessionTable` | `hook_server.py`, `main.py` 201-264, `state.py` 176-192, 414-437 |
| `Persist` | the table with its state file across restarts and reboots; extends `SessionStore` | `persist.py`, `main.py` 283-311 |
| `Heartbeat`, `TxRing` | the bytes of a heartbeat; the board's transmit buffer | `beacon.ino`, `txLine`, `txPump` |
| `SerialLink` | the daemon's end of the cable and `DeviceHealth` | `serial_link.py` |
| `Wire` | `TxRing` and `SerialLink` with the pipe between them | both, and the USB stack as they use it |
| `Snapshot` | which rows are sent, in which order | `state.py`, `snapshot` |
| `Screen` | what is on the panel against what the firmware believes is there; extends `Snapshot` | `beacon.ino`, drawing and `render` |
| `TxWatchdog` | the board's loop as far as time is concerned: silence of the host, heartbeats, what leaves, the stall watchdog, resets | `beacon.ino` 314-342, 395-484, 528-575, 929-942, 1055-1170 |
| `MC*` | constants for TLC | - |
| `SessionStoreProofs`, `SessionRefinementProofs`, `WaitWatchProofs`, `DaemonProofs`, `PersistProofs`, `WireProofs`, `TxWatchdogProofs`, `ScreenProofs` | lemmas and theorems | - |

The line ranges of every definition are in `PROJECT.json`; where a row above
names a file, its definitions are spread over it.

### State and time

A row of the model has the fields of `Session` that decide something. The
fields that are only shown (`last_tool`, `model`, `cost_usd`, `ctx_pct`,
`permission_mode`, `error_type`) are left out, and `cwd` is the label it
resolves to.

The code stamps a row with the wall clock and only ever compares `now - stamp`
with a threshold. The model therefore keeps the *age* of each stamp:
`s.last_event = now` is age 0, `Advance` adds one to every age, and `Horizon`,
larger than every threshold, stands for all larger ages. Time is unbounded, any
number of units may pass between two ticks, and the state space is finite. The
clock is assumed not to go backwards: a clock set back makes ages negative in
the code, which the model has no value for.

### Actions

`apply_event` is one action per kind of hook (`SessionStart`,
`UserPromptSubmit`, `ToolEvent`, `PermissionRequest`, `Notification`, `Stop`,
`SubagentStop`, `StopFailure`, `SessionEnd`, `OtherEvent`); each is the whole
handler, from the creation of the row (`GetOrCreate`) over what every hook does
first (`Arrived`: pid, `bg_seen`) to the branch of its name. `ToolEvent` stands
for the five names that only differ in which tool they remember
(`PreToolUse`, `PostToolUse`, `PostToolUseFailure`, `PostToolBatch`,
`PermissionDenied`). `Status`, `ProcessGone` and `Forget` are the other inputs,
`Tick` is one pass over all rows, and `Advance` is time.

Every action is atomic because all of them run on the daemon's main thread. A
`Tick` is followed by the snapshot of the same pass (`main.py` 263-264), so
`published` is true exactly when the rows are as the last tick left them: what
the display is told. Hooks applied in the same pass come before it.

`tick` for one row is `Settled`: drop or keep, then retire an expired count
(`Retired`), release a held `idle_prompt` (`Released`) and the `elif` chain of
timers (`TimedOut`, `Descended`), in the order of the code.

Any hook may come in any state of the row, from the main thread or, where the
program sends them so, from a subagent. Payload lists are any member of
`Lists`; an absent list is modelled apart from an empty one because the code
treats them differently.

### The board's clock

`TxWatchdog` keeps the stamps as the code does, as values of a counter that
wraps: `elapsed` is the signed comparison and `OrOne` is `now | 1`, because the
question there is what 32 bits do. The true ages (`sinceMsg`, `sinceByte`) are
history variables next to them, saturating at half the range and at
`TX_WEDGE_MS`.

One action is one pass of `loop()` (`Pass`, or `Cure` when it ends in the
watchdog's reboot). A pass reads one line or none, then takes the time, counts in
demo mode, puts up the "no host" screen, queues a heartbeat, runs `txWatchdog()`
and pumps. Several lines read in one pass are several passes that take no time.
A pass takes one unit of time or none: longer ones are what the loop watchdog
resets (`LoopHangs`). `hostAttached()` and the room in the USB pipe are read
afresh at each use and may say anything, so whether a line is queued, leaves,
stays or is thrown away is a choice of the model; that covers the bench commands
`wedge` and `stall`. `panel` is the screen last drawn as a whole; what blinking
rows and the footer draw over it is left to the `Screen` module. The resets are
those of the RP2040 build, where a cure and a hang look alike; a UF2 flash, which
also looks alike and which the code documents, is left out.

### Threads, queue and processes

`Daemon` is the one module in which the daemon is not a single thread. A handler
thread (`req`) goes through the steps of `do_POST`: read the body and look into
`tried`, look up the process, put into the queue and reply. Between two steps
anything else may run. `_forget` is a thread that waits for its answer or gives
up after `FORGET_WAIT_S`; the request it leaves in the queue is carried out
later (`LeftBehind`). The main thread takes one item at a time and, once the
queue is empty, polls the processes and ticks (`Pass`).

The table is reduced to what these parts read of it: whether a row is there, has
ended, and which process is on record (`SessionTable`). What a hook makes of a
row is therefore a choice (`StatesAfter`), and a tick may drop any row;
`SessionStore` has the whole, and `ReducedTableIsFaithful` proves that each of
its actions is a step `SessionTable` allows for it. `ProcWatch` keeps what the system has under each PID. A process is a PID
and a creation time; a PID in use, one held by an open handle after its process
has exited, and one that may not be asked about are told apart, and `alive`
answers as the code does.

Sessions live outside: each is started in a process, dies with it and may be
resumed in another, which may get the same PID. A session sends `SessionStart`
first and nothing else until it has its answer or has waited for
`curl --max-time`; later hooks overlap. The hooks of a session that is resumed
are all of its new process (`InFlight`): starting one takes longer than serving
what is left of the old one's.

The daemon may start after a session (`Init`). The file then has no row of it, or
one saved before its process was known, with that process, or with an earlier one
(`Restored`): in that case it was resumed while no daemon ran, its `SessionStart`
has been missed, and it begins as excused.

`told` and `excused` are history: whose `SessionStart` has been applied, and of
whom a lookup failed, a hook was missed, a hook or a row was dropped, or a reply
was not waited for.
The properties speak of sessions that are not excused, and the violation run
shows what one excuse costs.

### The state file

`Persist` is `SessionStore` with a daemon that is `up` or not and a file.
`Remembered` is what a row is after `_FIELDS` have been written and read;
`Save` replaces the file whole or, when anything fails, leaves it. A stamp in the
file ages as in the table, because stamps are absolute.

The boot check of `load` (`persist.py` 147-155) is as good as what it knows.
`rebooted` is its comparison of the time of the save with the boot time, so it is
set by a boot that starts the uptime again (`Reboots(TRUE)`) and not by Fast
Startup, which the code names as its known miss (`Reboots(FALSE)`).
`Starts(known)` is a start with or without a boot time (`boot_time` is `None` if
anything fails), and without one `Loaded` restores the rows whatever has
happened. `SeenBootForgets` is therefore about the boots the uptime tells of, and
excepts what a daemon restores that does not know its boot time; `GhostsGo`,
about the cutoff that the code names as the backstop, holds over all of it.

`Pass` is a tick with the
push and the throttled save behind it; the key of the snapshot is the rows with
their ages, so `movedWithTime` says that time alone changes it.

`Crash` loses the table. `Stops` closes the port and leaves the table to
`StopSaves`, as the `finally` block does; in between (`leaving`) a successor may
start and read the older file. That window is a few milliseconds: no hook, no
unit of time and no reboot falls into it. `Serve` takes the main thread's hooks
that set what has to survive (`Heeded`); the other operations of the table add
nothing to what is written or read, and the table under all of them is the
subject of the other runs.

`fileAsks`, `owed` and `gone` are history: who was asking in the file, who was
restored as asking and has not been touched since, and who is of before a boot
that the uptime tells of.

### The cable

On the `Wire` a byte is the heartbeat it belongs to and its place in it, or the
newline. The host sees only the places (`Parses`): a line pieced together of
two heartbeats parses if the places fit, and `HeartbeatsGenuine` says that this
does not happen. `TxRing` is `txBuf` up to `txTail`, with `txHead`, and the three
cases of `txLine`: start again at the beginning, move the rest there, drop the
line. `SerialLink` is `ensure_open` with its two back-offs, `send`, `poll` byte
by byte and `DeviceHealth`. `Wire` puts a pipe between them, which a suspend
closes, a close may empty in part, and a replug breaks: a port opened before the
replug is `broken` until a read or a write on it fails.

The board is `gone`, `runs` or is `mute`: it says nothing, because its sketch
hangs or its return path is dead. Any write to a board that is there may be taken
or refused, the hello and the message behind it included: how much room the other
end has, and how soon it reads, the host cannot see. So a port may be refused at
the hello, at the next message, later or never, and each time it is opened again
the grace of `DeviceHealth` runs anew. A heartbeat on the wire is two bytes here; what a line
says is left out but for being a heartbeat.

### The panel

`Screen` keeps `panel`, what has been drawn on each strip since it was last
filled, apart from `shown`, what the firmware believes (`shownRows`,
`shownHeader`, `shownFooter`, `shownEmpty`). Every drawing function repaints
only what differs between `shown` and the new view, so a wrong belief leaves
wrong pixels. `Afresh` is the last snapshot drawn on an empty panel with the same
functions; `PanelIsTrue` compares the two. Snapshots come from `Snapshot`: any
table, sorted by urgency and cut to the rows there are. The header (`HeaderDrawn`)
is filled when it is not believed to be there, and its two fields are drawn when
they have changed; usage and cost come from one choice of the model, `rates`.
`screen`, `versionLeft`
and `cut` are history: what was drawn last, whether a version error may still be
on the glass, and which alarms got no row.

## The runs

| Run | Question | Result |
|---|---|---|
| `store` | Does a row stay consistent, does one tick settle it, is an ask shown until its end, do others leave a wait alone, does the row implement the ladder, does every alarm fall quiet, every calm state end and every silent row leave? | holds |
| `watch_raiser` | Does only the agent that raised a prompt end the wait, as `docs/architecture.md` says? | violated |
| `watch_stale` | Is a softened prompt always announced in the end? | violated |
| `daemon` | Do hooks keep their order, is a reply that of its own request, is a process that was looked up not lost, are the living spared and the killed noticed, does every request end? | holds |
| `daemon_resumed` | Does the poll ever end a session that runs? | violated |
| `persist` | Does a restored ask still ask, does nothing survive a reboot that the uptime tells of, do ghosts go whatever the boot check misses, does an ask get into the file? | holds |
| `wire` | Are lines whole, are heartbeats genuine, is a stopped board reported, for good if its writes are all taken or all refused, and a working one heard again? | holds |
| `board` | Is a reboot of the board earned, a dead return path cured, an absent host taken off the panel, a boot's reason told right? | holds |
| `board_hostless` | Does a board that nobody speaks to never reboot itself? | violated |
| `board_version` | Does the panel of a board without a host say so? | violated |
| `display` | Does repainting only what has changed show what a full repaint would, and is an alarm that gets no row outranked by alarms that do? | holds |
| `display_version` | Does each snapshot replace the entire view, as `docs/protocol.md` says? | violated |

**Bounds.**

- *Table* (`store`, `watch_*`): one session, one subagent that acts, and payload
  lists with nothing, one or two subagents, or untracked work. One session is
  enough because no operation but `Forget` reads two rows, and its guard is the
  only thing that depends on the other (the theorems hold for any set of
  sessions). One acting subagent is enough because the code only compares the
  sender with the raiser, with "" and with the agent that stops: the second entry
  of the list stands for another one that is never heard of. `Horizon` is one
  more than the largest threshold. The thresholds of `store` keep the order of
  the defaults (`ended_grace_s`, `idle_prompt_s` < `need_pulse_s`, `bg_quiet_s` <
  `look_s`, `stale_after_s` < `need_red_s`, `idle_stale_s` < `ghost_after_s`)
  with values 1 to 5, so that every timer can run out before and after every
  other one that the defaults allow it to. The violation runs use values 1 to 3
  to keep the traces short. Stamps that are equal in the code to the millisecond
  and stamps one unit apart are told apart; nothing finer matters to a comparison
  with `>`. `Proc` is empty: no property of the run reads the pid, and with two
  processes it would not end within minutes. What the table does with the pid is
  proved instead (`ReducedTableIsFaithful`), and `Daemon` is about what is on
  record.
- *Daemon*: one session, one PID that is handed out twice (`MaxStarts` is 2), two
  handler threads, a queue of two. Two threads are what it takes to serve two
  hooks in the wrong order or to leave one `/forget` behind for another; two
  processes under one PID are what it takes to confuse them; a queue of two is
  full behind one unanswered request. Keys are one that names the session and
  one that names none; `409` (several hits) changes nothing and is in the
  theorems.
- *Persist*: one session without subagents, lists with nothing or one subagent,
  `ghost_after_s` 2, `SAVE_EVERY_S` 2, the other thresholds 0 or 1. The file
  holds at most one row per session and rows do not interact; a cutoff of 2 lets
  a restart come before, at and after it, and a throttle of 2 lets saves be
  skipped.
- *Wire*: two heartbeats of two bytes and a newline, a buffer for exactly two
  lines, a pipe of two bytes and a line buffer of two. A line is cut at every
  place, the buffer is full with one line and a half, and a stale beginning fits
  the end of another line. The timeouts are 1, 2 and 2: in the code `RECONNECT_S`
  is well below `HB_TIMEOUT_S` and `REFUSED_RETRY_S` no shorter than it (2, 15 and
  30 s).
- *Board*: a clock of ten values (`Half` is 5), with `HEARTBEAT_MS` <
  `NO_HOST_MS` < `TX_WEDGE_MS` < `Half` as in the code. That is the smallest clock
  on which a silence can be told from half the range and in which every stamp can
  be ahead of the time, equal to it, behind it and wrapped; the theorems hold for
  every width.
- *Display*: three sessions for two rows, in the states `need`, `held` and `wait`
  (filled and pulsing, filled and steady, not filled), two ages, one session with
  a model and context, account usage known or not. A row can change its label,
  state, age and place, appear and vanish, and an alarm can be cut. The two
  sessions without data are interchangeable (`SYMMETRY`; the run has no liveness
  property).

**Fairness.**

- *Table*: `WF(Tick)`, because the main loop ticks every 50 ms whatever the
  inputs are (`main.py` 201-300), and `WF(Advance)`, because time passes. Nothing
  is assumed of hooks, statusline payloads, `/forget` or the liveness poll:
  `SilentRowGoes` says what happens if the hooks stop, the other liveness
  properties hold whatever arrives.
- *Daemon*: `WF` of each handler thread, and nothing of the main loop:
  `HookAnswered` is what a session gets from a daemon whose main loop is stuck.
  `KilledIsNoticed` carries its own condition, that the queue runs empty again and
  again and the poll gets answers infinitely often.
- *Persist*: a daemon that is up passes, one that is down is started (the
  scheduled task), one that has stopped saves, time passes however often
  something else happens, and a save that keeps being tried succeeds in the end.
- *Wire*: the board beats and pumps, the daemon polls, the port can be opened
  again and again (nobody else holds it for ever), and time passes. Nothing is
  assumed of plugging, suspends or of the board's state, nor of whether a write
  is ever tried, taken or refused: `WorkingIsHeard` and the second half of
  `StoppedIsReported` say themselves which writes they are about.
- *Board*: `WF(Loop(1))`: `loop()` is called for ever and time passes with it.
  Nothing is assumed of the host, the flag or the pipe.
- *Display*: none; its properties are about what each step leaves on the panel.

**What the violations show.**

- `watch_raiser`: `Stop` with one subagent counted marks the turn as over; a
  permission prompt of another agent goes up; the `SubagentStop` that brings the
  count to zero sets IDLE whatever the state (`state.py` 296-300). The documented
  rule that only the raiser ends the wait holds for tool events, requests and
  notices (`OthersLeaveTheWait`, proved), not for this branch.
- `watch_stale`: NEEDS_LOOK is not one of `ATTENTION_STATES`, so a tool event of
  any subagent takes a softened prompt to WORKING and silence takes it to STALE,
  from where no timer brings it to the ladder.
- `daemon_resumed`: the row of a session has the process it ran in before (in the
  trace, restored from the file), the session runs in another, and the lookup of
  a `SessionStart` from there fails. `apply_event` then keeps the pid of the old
  process (`state.py` 188), the poll finds that one gone, and ends the row of a
  session that runs. `LivingSpared` holds of every session whose lookups succeeded, and is
  proved.
- `board_hostless`: 2^31 ms (24.8 days) after the last line, `elapsed()` takes the
  silence for a stamp in the future; the watchdog then believes in a host that
  speaks, no byte leaves, and the board reboots. It does so once in 24.8 days, so
  this is a gap in the argument of the comments, and no nuisance.
- `board_version`: a version error is drawn while `showingNoHost` is still true;
  when the host then goes, the "no host" screen is not drawn because the flag is
  up already, and the version error stays on the panel.
- `display_version`: a version error is written over the rows and
  `invalidateAll()` forgets them. The next snapshot fills the strips of its own
  rows; `clearRow()` does nothing for a row that is not believed to be there, and
  the text of the error stays below the last row.

**Noticed while modelling, and no run of their own.**

- The ghost cutoff is measured from `last_event`, which `tick` itself renews when
  it changes a state through `set_state` (`state.py` 115, 449). A silent row does
  leave (`SilentRowGoes`), later than `docs/architecture.md` 426 has it.
- On a stop the port is given up before the table is saved (`main.py` 302-311),
  and a successor waits for just that port (`main.py` 141-158). If it binds and
  loads in between, it restores the file of up to `SAVE_EVERY_S` before, does not
  show what began to ask since, and overwrites the last save with its own table:
  `Persist` has these steps (`Stops`, `Starts`, `StopSaves`), and nothing in the
  code rules them out. The comment there says that the save is made for a restart;
  making it before `server_close()` would close the window. What was queued at
  that moment is lost too.
- A session that was resumed while the daemon was down has a row with the process
  of before. If the liveness poll comes before its next `SessionStart`, that row
  is ended while the session runs, until a hook revives it. `Daemon` has it;
  `LivingSpared` and `NoWrongDead` speak of sessions whose `SessionStart` from
  their process has been handled.
- The drain of the queue has no bound (`main.py` 204): hooks that come as fast as
  they are applied keep the poll, the tick and the push from running.
  `KilledIsNoticed` assumes a queue that runs empty, and so says nothing of it.
- `turn_over` and the counts of background work are not saved: a row restored as
  working, with its turn over, leaves that state by silence and not by the last
  `SubagentStop`.
- The key that throttles saves holds the ages of the rows, so that with any row
  on display the file is rewritten every `SAVE_EVERY_S`, contrary to the comment
  at `main.py` 293-294. `AskSaved` holds because of it: a change that the throttle
  skips is written when an age next changes.
- Each open of the port renews the grace of `DeviceHealth` (`serial_link.py`
  99-103, 221). A stopped board that takes some writes and refuses others is
  opened again each time, and reported as working for `HB_TIMEOUT_S` after each
  open. `Wire` has it: `StoppedIsReported` says of such a board only that it is
  reported as not working again and again, and says "for good" of one whose writes
  are in the end all taken or all refused. `REFUSED_RETRY_S` decides how
  often this happens, and no property depends on its value.
- Blinking rows and the footer are drawn over a version error
  (`docs/protocol.md` 26 says the error is shown). `Screen` has it; its
  properties speak of the panel while rows were drawn last.

Every property of a passing run has a mutant in `PROJECT.json`: a definition of
the model changed the way a slip in the code would change it (a count without a
floor, a reset forgotten, a timer on the wrong stamp, a shared reply queue, a
newline not counted), which the run then refutes.

## The proofs

`tlapm` checks all proofs; nothing is assumed but the constants' assumptions:

- table: thresholds are naturals below `Horizon`, the pulse ends before the red
  does, names of different kinds differ, payload lists are finite sets of tasks;
- daemon: there is a session, the queue holds at least one item, at least one
  process may be started, and "no process" and "no box" are none;
- persist: the throttle is a natural;
- wire: a heartbeat has at least one byte and the newline is none of them, pipe
  and timeouts are positive, `RECONNECT_S <= REFUSED_RETRY_S`;
- board: the timeouts are below half the range of the clock, and `NO_HOST_MS` is
  at most `TX_WEDGE_MS`;
- display: finitely many sessions, at least one row, and of each session it is
  known what is known of it.

| Module | Theorem | Says |
|---|---|---|
| `SessionStoreProofs` | `TypeCorrect` | `[]TypeOK` |
| | `TurnsAreClosed` | `[]TurnOverHasWork`: a turn that is over still counts a subagent |
| | `LastEventIsNewest` | `[]StampsAgree`: no stamp is newer than `last_event` |
| | `RungsByAge` | `[]RungNotEarly`: no rung of the ladder comes before its time |
| | `TickSettles` | `[]PublishedIsSettled`: one tick catches up with any gap |
| | `WaitLeftAlone` | `OthersLeaveTheWait` |
| `SessionRefinementProofs` | `LadderRefined` | `Spec => LadderSteps`: every row implements the abstract ladder's safety part |
| | `ReducedTableIsFaithful` | `Spec => TableSteps`: each action of the table is one that `SessionTable` allows for it |
| `WaitWatchProofs` | `AsksAreShown` | `[]AskIsShown`: an ask is shown or held until what the code takes for its end |
| `DaemonProofs` | `DaemonTypeCorrect` | `[]TypeOK`; the queue stays within its capacity |
| | `ForgetToldItsOwn` | `ForgetAnswersOwn` |
| | `TheLivingAreSpared` | `LivingSpared` |
| | `LookupsAreNotLost` | `[]LookupNotLost` |
| | `HooksKeepTheirOrder` | `OrderKept` |
| `PersistProofs` | `PersistTypeCorrect` | `[]PersistTypeOK`; no ended row is in the file |
| | `RestartsSilenceNobody` | `[]AskSurvives` |
| | `NothingSurvivesASeenBoot` | `[]SeenBootForgets`: the boot check, as far as it can see |
| `WireProofs` | `WireTypeCorrect` | `[]TypeOK` |
| | `LinesAreWhole` | `[]WholeOrNotAtAll` |
| | `HeartbeatsAreGenuine` | `[]HeartbeatsGenuine` |
| `TxWatchdogProofs` | `TypeCorrect` | `[]TypeOK`: every stamp of the board is a value of `millis()` |
| | `CuresAreEarned` | `[]CureIsEarned` |
| | `ReasonsAreTold` | `[]ReasonTold` |
| `ScreenProofs` | `ScreenTypeCorrect` | `[]TypeOK` |
| | `LeftOutIsLeastUrgent` | a session without a row: the display is full of rows at least as urgent |
| | `PanelShowsTheSnapshot` | `[]PanelIsTrue`: incremental repainting shows what a full repaint would |
| | `AlarmsOutranked` | `[]AlarmOnPanel` |

**Table.** The inductive invariant `IInv` says that `sessions` is a function on
known ids, that every row is `Good` (well typed, with the row predicates
`TurnOK`, `StampsOK` and `RungOK`), and that while `published` every row is
`SettledOK`. The conjunction is needed because the theorems lean on one another:
that a tick settles a row is derived from what is good about the row at that
moment, not from the tick before, since any number of time steps may lie
between; and `LadderRefined` needs `RungOK`, because a timer chain that leaves a
row at "held" is a step of the ladder only if the row's age says "held".

The argument is layered as the code is. The first half of `SessionStoreProofs`
proves one lemma per operator (what it keeps of a good row), with the stages of
`Settled` one by one; the second lifts them to the table, one step per action;
`SessionRefinementProofs` shows for each operator which ladder move it is, then
for each action. `AsksAreShown` adds to `IInv` that the row of every session that
asked is `Calling`: on the ladder, at "look", or holding a notice back. Its heart
is the row lemma `SettledCalls`: no chain of timers silences a calling row.

`ReducedTableIsFaithful` is about what the ladder does not look at. Each handler
leaves the process and the ending of a row to `Before` and to what its name says,
so every hook is a `Takes` of its kind; the stages of `Settled` neither end nor
revive a row, so a tick is a `Clears` that only drops. It is what makes the
theorems about `Daemon` statements about the real rows: an action of the table
that did more to them than `SessionTable` allows would break this proof.

**Persist.** The same lemma carries a restored ask through any number of ticks.
`PInv` says that the table, the file and what a stopped daemon has still to save
are made of good rows, that who is `owed` an ask is calling in the table and who
asked in the file is calling there, and (`GoneOK`) that a session of before a
boot that the uptime tells of is in none of the three: in the file it may be, but
only until the file is next written, while `rebooted` keeps it from being read by
a daemon that knows the boot time. One that does not and reads it takes it out of
`gone`: that is the exception the theorem makes, with Fast Startup, and no more.

**Daemon.** Each theorem has an invariant of its own over the threads and the
queue. `BoxesOK`: every box in the queue is that of a thread that waits, for that
request, and occurs once. `RecordOK`: what is on record of a session that is not
excused is the process it runs in, and so will be after every item in flight.
`LookedUp`: a session in `tried` without a process on record has its lookup in a
thread or in the queue. `OrderOK`: once a session may send other hooks, its
`SessionStart` has been applied or stands in the queue before them.

**Wire.** `Cont` says that every byte but the first of a line comes behind the
one before it. It holds of the bytes on the way, pipe and buffer together, and,
while the daemon reads from the port it opened, of what it has begun to read
joined with them (`Sound`). Dropping from the front keeps it, which is all that
a discard, a drained pipe and `rest[-RX_MAX:]` do; reopening starts with an empty
`rx`; and a line that parses and is continuous is one heartbeat. Whole lines need
`LastWhole` too: the queue ends with a newline, so that the next line begins
behind one.

**Board.** `CureIsEarned` speaks of what has happened and the board only has
stamps, so its invariant ties the two: a running episode is younger than
`TX_WEDGE_MS` and no older than the silence on the way out, unless a byte has
just left (the next look of the watchdog will end it); and the stamp of the last
line is the true one, unless demo mode made it, which it did before the episode
began. The last case is where `NO_HOST_MS <= TX_WEDGE_MS` is needed: an episode
that demo mode left a fresh stamp for is ended by the silence before it is due.

**Display.** `PanelIsTrue` compares the panel with a repaint that starts from a
blank one, and the firmware never does such a repaint, so the invariant has to
say what the panel is at any time. A strip that is believed to be used is drawn
whole as it is believed (`RowsTrue`), and header and footer likewise (`BarsTrue`);
while rows are on
the glass the beliefs are those of the last snapshot, blink and page, and below
its last row the panel is blank, unless a version error was left there; while a
message is on the glass nothing is believed. The step that redraws only the
fields that changed then leaves what drawing all of them would
(`RepaintedIsFresh`), and a strip not drawn at all was drawn before.
`LeftOutIsLeastUrgent` is about the daemon's half. It rests on `OrderIsComplete`,
that a sort loses nobody: an injective sequence as long as a finite set meets
every element of it. With it, an alarm without a row implies that the rows are
all taken by alarms, and the panel's half makes them red.

**Only model-checked.** The liveness properties (`AlarmEnds`, `SoftStatesEnd`,
`SilentRowGoes`, `LadderDescends`, `HookAnswered`, `KilledIsNoticed`, `GhostsGo`,
`AskSaved`, `StoppedIsReported`, `WorkingIsHeard`, `DeadPathCured`,
`RowsTakenDown`): liveness under fairness is out of the proof system's reach.

## Plan

1. `SessionRow`, `SessionStore`, `AttentionLadder`, `SessionLadder`,
   `WaitWatch`, with their proofs. *Done.*
2. `ProcWatch`, `SessionTable` and `Daemon`, with proofs of their safety, and of
   the steps of `SessionStore` being those of `SessionTable` (`TableRows`).
   *Done.*
3. `Persist` over `SessionStore`, with proofs of its safety. *Done.*
4. `TxWatchdog` and `Screen` over `Snapshot`, with proofs. *Done.*
5. `TxRing` and `SerialLink`, composed in `Wire`, with proofs. *Done.*
6. Left: the push throttle with what the display shows at the end of it;
   `elide_label` and the percentages as operators against reference definitions;
   the account's rate limits and their expiry.

## Not modelled

Wording, redaction, logging, the HTTP and JSON formats, the Windows calls behind
`procwatch`, the SPI bus and the panel driver, installation scripts and the
enclosure keep no state that the properties speak of. Of the components that are
modelled, these parts are left out:

- table: the account's rate limits, the label cache (a label is what it resolves
  to), `background_report`; `elide_label`, `extract_ctx_pct` and
  `extract_rate_limits`, pure functions on characters and on the numbers of a
  payload;
- main loop: the push throttle (`Wire` lets a message be sent at any time), the
  statistics, the no-hooks warning, the deadline of the bind retry;
- hook server: the values `/health` reports, which are replaced and read whole;
  malformed requests, which change nothing;
- firmware: the line reader, the bench commands but for what they do to the
  flags, demo mode's scenes;
- hook forwarder, capture, statusline text and configuration: nothing is
  remembered between two calls.
