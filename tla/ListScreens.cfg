SPECIFICATION Spec
CONSTANTS
  Screens <- AllScreens
  LastPage = 2
  MaxPast = 2
INVARIANTS TypeOK CursorOfFilter StackLeadsBack FilterShown EmptyIsHonest TicksOfFilter
PROPERTY NextTurnsThePage
CHECK_DEADLOCK FALSE
