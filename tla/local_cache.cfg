CONSTANTS
  None = None
  Segments <- SomeSegments
  Items <- SomeItems
  Readers = {r1, r2}
  TTL = 1
  MaxVersion = 2
SPECIFICATION Spec
INVARIANTS TypeOK StaleOnlyByRace
PROPERTIES EvictsTheEntity StalenessEnds
