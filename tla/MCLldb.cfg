SPECIFICATION MCSpec
CONSTANTS
  Nobody = Nobody
  Threads = {t1, t2}
INVARIANTS EventsInOrder CircularWaitsAreKnown RequestsHoldButForSlips
PROPERTIES AnswersAreInStep
CHECK_DEADLOCK FALSE
