SPECIFICATION FairSpec
CONSTANTS
  MAX_PHILOS = 5
  MIN_PHILO = 5
  INITIAL_PHILOS = 5
  PHILOS_STATE = PHILOS_STATE
  MaxGuests = 5
  Keys = {}
INVARIANTS ForksExclusive
PROPERTIES SomebodyEats
