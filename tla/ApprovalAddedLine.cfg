SPECIFICATION Spec
CONSTANTS
    ana = ana
    budi = budi
    sari = sari
    s1 = s1
    s2 = s2
    Users <- MCUsers
    SuperAdmins <- MCSuperAdmins
    Requester <- MCRequester
    Leavers = {}
    InitialLines <- MCInitialLines
    LineLists <- AddedLine
    Instances = {r1}
    Sessions = {s1}
    MaxVersion = 2
INVARIANT EveryConfiguredLineCleared
