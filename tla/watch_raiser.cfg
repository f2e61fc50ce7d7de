\* Does an event of another agent ever end a wait?
SPECIFICATION WatchSpec
CONSTANTS
    Agent = {a1}
    a1 = a1
    Main = Main
    Label = {p}
    p = p
    NoLabel = NoLabel
    Proc = {}
    NoProc = NoProc
    Sid = {s1}
    s1 = s1
    seen = s1
    Cwd = {p}
    Key = {s1}
    KeyIds <- OneKeyIds
    KeyLabels <- OneKeyLabels
    Lists <- PayloadLists
    ended_grace_s = 1
    idle_prompt_s = 1
    need_pulse_s = 1
    bg_quiet_s = 1
    look_s = 2
    stale_after_s = 2
    need_red_s = 2
    idle_stale_s = 2
    ghost_after_s = 3
    Horizon = 4
PROPERTY OnlyTheRaiserEndsTheWait
