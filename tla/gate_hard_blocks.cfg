CONSTANTS
  None = None
  monitoring = monitoring
  projects = projects
  seats = seats
  free = free
  pro = pro
  FeatureKeys = {monitoring}
  PlanKeys = {free}
  Resources = {projects}
  Workers = {w1, w2}
  Entities = {e1}
  Routes <- LimitRoutes
  Catalogs <- JustOne
  Countable = {projects}
  InitRows = 0
  MaxRows = 2
SPECIFICATION HistorySpec
INVARIANTS HardBlocks
