----------------------------- MODULE ProcWatch -----------------------------
(***************************************************************************)
(* The processes of the operating system, and what procwatch.py tells of   *)
(* them: whether the process a session was found in is still running.      *)
(*                                                                         *)
(* A PID is handed out again once its process is gone, so it is trusted    *)
(* only together with the creation time of its process.  Creation times    *)
(* are drawn from one clock, and no two processes share one.               *)
(***************************************************************************)
EXTENDS Naturals

CONSTANTS
    Pid,            \* process ids, which the system hands out again
    NoProc,         \* no process
    MaxStarts       \* bound: how many processes are ever started

ASSUME StartsAssumption == MaxStarts \in Nat \ {0}

ASSUME NoProcAssumption == NoProc \notin [pid : Pid, created : Nat]

VARIABLES
    image,          \* what the system has under each PID
    started         \* the clock of creation times

os == <<image, started>>

Process == [pid : Pid, created : 1 .. MaxStarts]

\* "exited": the process is over, but a handle somebody holds keeps its PID.
\* guarded: asking about the process is denied.
Image == [state : {"free", "runs", "exited"}, created : 0 .. MaxStarts, guarded : BOOLEAN]

Free == [state |-> "free", created |-> 0, guarded |-> FALSE]

OsInit == image = [pid \in Pid |-> Free] /\ started = 0

\* The process itself, not another one under its PID, is running.
Running(proc) ==
    /\ proc # NoProc
    /\ image[proc.pid].state = "runs"
    /\ image[proc.pid].created = proc.created

\* A process is started under a PID that is free.
Launch(pid, guarded) ==
    /\ image[pid].state = "free"
    /\ started < MaxStarts
    /\ started' = started + 1
    /\ image' = [image EXCEPT ![pid] =
                    [state |-> "runs", created |-> started + 1, guarded |-> guarded]]

\* It ends, with or without a handle left open on it.
Exits(pid) ==
    /\ image[pid].state = "runs"
    /\ \/ image' = [image EXCEPT ![pid] = Free]
       \/ image' = [image EXCEPT ![pid].state = "exited"]
    /\ UNCHANGED started

LastHandleCloses(pid) ==
    /\ image[pid].state = "exited"
    /\ image' = [image EXCEPT ![pid] = Free]
    /\ UNCHANGED started

----------------------------------------------------------------------------
\* alive()

\* Mutant: a PID in use is taken for the process that once had it.
aliveByPid(proc) ==
    LET i == image[proc.pid] IN
    CASE i.state = "free"                 -> "False"
      [] i.state # "free" /\ i.guarded    -> "None"
      [] i.state = "exited" /\ ~i.guarded -> "False"
      [] i.state = "runs" /\ ~i.guarded   -> "True"

\* What the system says when it is asked.  "Gone" is one of three definite
\* answers: no such PID, a process that has exited, or another process.
alive(proc) ==
    LET i == image[proc.pid] IN
    CASE i.state = "free"                 -> "False"
      [] i.state # "free" /\ i.guarded    -> "None"
      [] i.state = "exited" /\ ~i.guarded -> "False"
      [] i.state = "runs" /\ ~i.guarded   ->
            IF i.created = proc.created THEN "True" ELSE "False"
=============================================================================
