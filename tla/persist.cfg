\* One session and its main thread, the thresholds as close together as they can be.
SPECIFICATION PersistSpec
CONSTANTS
    Agent = {}
    Main = Main
    Label = {p}
    p = p
    NoLabel = NoLabel
    Proc = {}
    NoProc = NoProc
    Sid = {s1}
    s1 = s1
    Cwd = {p}
    Key = {}
    KeyIds <- NoKeys
    KeyLabels <- NoKeys
    Lists <- OneSubagent
    ended_grace_s = 1
    idle_prompt_s = 0
    need_pulse_s = 0
    bg_quiet_s = 1
    look_s = 1
    stale_after_s = 1
    need_red_s = 1
    idle_stale_s = 1
    ghost_after_s = 2
    Horizon = 3
    SAVE_EVERY_S = 2
INVARIANTS PersistTypeOK AskSurvives SeenBootForgets
PROPERTIES GhostsGo AskSaved
