SPECIFICATION Spec
CONSTANTS
    Corrections = {c1}
    Unscheduled = {u1}
    Runs = {r1}
    Sessions = {s1, s2}
    MaxReopens = 0
    MaxPayments = 2
SYMMETRY Symmetry
INVARIANTS
    PaidOnce
