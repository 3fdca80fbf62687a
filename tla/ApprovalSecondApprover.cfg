SPECIFICATION Spec
CONSTANTS
    ana = ana
    budi = budi
    sari = sari
    s1 = s1
    s2 = s2
    Users <- SharedUsers
    SuperAdmins <- MCSuperAdmins
    Requester <- MCRequester
    Leavers = {}
    InitialLines <- SharedLine
    LineLists <- NoLineLists
    Instances = {r1}
    Sessions = {s1, s2}
    MaxVersion = 1
PROPERTY SecondApproverRefused
