SPECIFICATION Spec
CONSTANTS
  Devices = {"phone", "console"}
  Agents <- MCAgents
  Leaders = {leader}
  AbsenceLag = 0
  CloseLag = 2
  MaxAtOnce = 2
INVARIANTS TypeOK OneRecordPerShift OneDecisionPerQueueing
PROPERTIES ClockOutStays EveryShiftAccounted
CHECK_DEADLOCK FALSE
