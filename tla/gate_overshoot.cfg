CONSTANTS
  None = None
  monitoring = monitoring
  projects = projects
  seats = seats
  free = free
  pro = pro
  FeatureKeys = {monitoring}
  PlanKeys = {free}
  Resources = {projects, seats}
  Workers = {w1, w2, w3}
  Entities = {e1}
  Routes <- CreateRoutes
  Catalogs <- JustOne
  Countable = {projects, seats}
  InitRows = 0
  MaxRows = 3
SPECIFICATION HistorySpec
SYMMETRY Symmetry
INVARIANTS OvershootBounded
PROPERTIES ImplementsQuota
