CONSTANTS
  Views = {v1, v2}
  Quotas <- SomeQuotas
  InitRows = 2
  MaxRows = 4
SPECIFICATION SpecCountersReturn
INVARIANTS TypeOK NoCheckLeftBehind
PROPERTIES PassesAreAccountedFor ImplementsQuota EveryRequestAnswered
