SPECIFICATION MCSpec
CONSTANTS
  t1 = t1
  t2 = t2
  elsewhere = elsewhere
  Tabs <- MCTabs
  Busy = {t1}
  Calls <- MCCalls
  Elsewhere = elsewhere
  Registered = {"ann"}
  Guests = {"guest"}
  Required = TRUE
  MaxPairs = 3
  MaxResets = 1
  MaxHits = 1
  MaxActs = 2
  MaxEvents = 1
  MaxFaults = 1
INVARIANTS OnlyCurrentPassword StoredTokenUsable CounterArmed
PROPERTIES ActivitiesEnd
CHECK_DEADLOCK FALSE
