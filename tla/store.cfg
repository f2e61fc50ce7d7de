\* One session with one subagent: every interleaving of hooks, statusline
\* payloads, /forget, the process check, time and ticks.
SPECIFICATION WatchSpec
CONSTANTS
    Agent = {a1}
    a1 = a1
    Main = Main
    Label = {p}
    p = p
    NoLabel = NoLabel
    Proc = {}
    NoProc = NoProc
    Sid = {s1}
    s1 = s1
    seen = s1
    Cwd = {p}
    Key = {s1}
    KeyIds <- OneKeyIds
    KeyLabels <- OneKeyLabels
    Lists <- PayloadLists
    ended_grace_s = 1
    idle_prompt_s = 1
    need_pulse_s = 2
    bg_quiet_s = 2
    look_s = 3
    stale_after_s = 3
    need_red_s = 4
    idle_stale_s = 4
    ghost_after_s = 5
    Horizon = 6
INVARIANTS TypeOK TurnOverHasWork StampsAgree RungNotEarly PublishedIsSettled AskIsShown
PROPERTIES OthersLeaveTheWait LadderSteps AlarmEnds SoftStatesEnd SilentRowGoes LadderDescends
