SPECIFICATION Spec
CONSTANTS
    Corrections = {c1}
    Unscheduled = {u1}
    Runs = {r1, r2}
    Sessions = {s1, s2}
    MaxReopens = 2
    MaxPayments = 1
SYMMETRY Symmetry
INVARIANTS
    TypeOK
    CorrectionAccounted
    PostedOnce
PROPERTIES
    AppliedOnce
