SPECIFICATION Spec
CONSTANTS
  Offers <- AllOffers
  MaxOthers = 1
  MaxSent = 2
  MaxEffects = 2
INVARIANTS TypeOK OfferedToServed AskedIsEnough RefusedOnlyIfOvertaken  OneEffectPerIntention
PROPERTIES WrittenFromAllowed RefusalHeals
CHECK_DEADLOCK FALSE
