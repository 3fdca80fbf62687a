--------------------------- MODULE MCAttendanceDay ---------------------------
(* Small instances of AttendanceDay: a field agent with a console and two shifts *)
(* who clocks in once, a field agent with one shift who clocks in with phone and *)
(* console at once, and a back-office agent with a phone and no shift.           *)
EXTENDS AttendanceDay

Agent(last, roster, internal, phones, consoles, room) ==
  [last |-> last, roster |-> roster, internal |-> internal, phones |-> phones,
   consoles |-> consoles, room |-> room]

MCAgents == {Agent(2, {1, 2}, FALSE, {}, {"console"}, 1),
             Agent(1, {1}, FALSE, {"phone"}, {"console"}, 2),
             Agent(2, {}, TRUE, {"phone"}, {}, 1)}
WithPhone == {Agent(2, {1, 2}, FALSE, {"phone"}, {}, 2)}
=============================================================================
