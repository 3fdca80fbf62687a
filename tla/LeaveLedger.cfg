SPECIFICATION Spec
CONSTANTS
    Requests = {r1, r2}
    Sessions = {s1, s2}
    Spans <- MCSpans
    ShortenTo = {2}
    Roster <- MCRoster
    WorkingDays <- MCWorkingDays
    Entitlements = {1, 2}
    Deltas <- MCDeltas
    MaxEntitled = 2
INVARIANTS
    TypeOK
    UsedMatchesApproved
    NoLeakedHold
    StatusFollowsInstance
    LeaveDaysMarked
PROPERTIES
    MeterRespectsCap
    KeepsContract
    EveryCallAnswered
