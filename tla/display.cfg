\* Three sessions for a display of two rows.
SPECIFICATION Spec
CONSTANTS
    Sid = {s1, s2, s3}
    Shown <- ThreeStates
    Detail = {known}
    NoDetail = NoDetail
    DetailOf <- OneKnown
    s1 = s1
    known = known
    MAX_ROWS = 2
    Rates = {r}
    NoRates = NoRates
SYMMETRY Others
INVARIANTS TypeOK PanelIsTrue AlarmOnPanel
