SPECIFICATION FairSpec
CONSTANTS
  MAX_PHILOS = 3
  MIN_PHILO = 2
  INITIAL_PHILOS = 2
  PHILOS_STATE = PHILOS_STATE
  MaxGuests = 3
  Keys = {"a", "r", "eof"}
INVARIANTS TypeOK TableGuarded NobodyStays
PROPERTIES NeverJams
CHECK_DEADLOCK FALSE
