--------------------------- MODULE MCPayrollMonth ---------------------------
(* PayrollMonth for TLC: a correction, attendance without a shift, two     *)
(* runs and two concurrent requests.  Sessions and runs are interchangeable *)
(* and no run checks liveness, so symmetry is sound.                       *)
EXTENDS PayrollMonth, TLC

Symmetry == Permutations(Sessions) \cup Permutations(Runs)
=============================================================================
