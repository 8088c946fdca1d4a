CONSTANTS
  Views = {v1, v2}
  Quotas <- SomeQuotas
  InitRows = 0
  MaxRows = 2
SPECIFICATION SafetySpec
PROPERTIES ErrorsFailClosed
