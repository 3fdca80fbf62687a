--------------------------- MODULE MCLeaveLedger ---------------------------
(* LeaveLedger for TLC: two requests, two concurrent sessions.              *)
EXTENDS LeaveLedger

\* Three days of which the first is rostered, and the last of them alone: the two
\* overlap and each is charged one day.
MCSpans == {<<1, 3>>, <<3, 3>>}
MCRoster == {1}
MCWorkingDays == 1..3
MCDeltas == {-1}
=============================================================================
