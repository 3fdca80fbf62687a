SPECIFICATION Spec
CONSTANTS
  Devices = {"phone", "console"}
  Agents <- WithPhone
  Leaders = {leader}
  AbsenceLag = 0
  CloseLag = 2
  MaxAtOnce = 2
INVARIANT PhotoConsumed
CHECK_DEADLOCK FALSE
