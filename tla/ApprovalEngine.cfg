SPECIFICATION Spec
CONSTANTS
    ana = ana
    budi = budi
    sari = sari
    s1 = s1
    s2 = s2
    Users <- MCUsers
    SuperAdmins <- MCSuperAdmins
    Requester <- MCRequester
    Leavers <- MCLeavers
    InitialLines <- MCInitialLines
    LineLists <- MCLineLists
    Instances = {r1}
    Sessions = {s1, s2}
    MaxVersion = 2
INVARIANTS
    TypeOK
    HookMatchesStatus
    ChainInForce
PROPERTIES
    DecidedOnCurrentRow
    ImplementsContract
    EveryCallAnswered
