CONSTANTS
  None = None
  Deliveries = {d1}
  Workers = {w1, w2}
  OldKey = OldKey
  NewKey = NewKey
  Unset = Unset
  Garbled = Garbled
  Wrong = Wrong
  ForeignHeaders <- BadHeaders
  Tolerance = 0
  Skews <- Clocks
  MaxDrift = 1
  Hosts <- AllHosts
SPECIFICATION Spec
INVARIANTS TypeOK OnlyGenuineIsHandled
PROPERTIES ImplementsDeliveryLog EveryDeliverySettles
