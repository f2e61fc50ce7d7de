\* One session, one PID that is handed out twice, two handler threads, a queue of two.
SPECIFICATION Spec
CONSTANTS
    Pid = {p1}
    NoProc = NoProc
    MaxStarts = 2
    Sid = {s1}
    s1 = s1
    Thread = {t1, t2}
    Key = {ours, other}
    ours = ours
    other = other
    Names <- TwoKeys
    NoBox = NoBox
    QMax = 2
INVARIANTS TypeOK LookupNotLost
PROPERTIES OrderKept ForgetAnswersOwn LivingSpared HookAnswered KilledIsNoticed
