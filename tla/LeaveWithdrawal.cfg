SPECIFICATION Spec
CONSTANTS
    Requests = {r1}
    Sessions = {s1}
    Spans <- MCSpans
    ShortenTo = {2}
    Roster <- MCRoster
    WorkingDays <- MCWorkingDays
    Entitlements = {1}
    Deltas <- MCDeltas
    MaxEntitled = 1
INVARIANT WithdrawalClosesChain
