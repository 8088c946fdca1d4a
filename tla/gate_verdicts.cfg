CONSTANTS
  None = None
  monitoring = monitoring
  projects = projects
  seats = seats
  free = free
  pro = pro
  FeatureKeys = {monitoring}
  PlanKeys = {free, pro}
  Resources = {projects}
  Workers = {w1, w2}
  Entities = {e1}
  Routes <- AllRoutes
  Catalogs <- AllCatalogs
  Countable = {projects}
  InitRows = 0
  MaxRows = 2
SPECIFICATION HistorySpec
SYMMETRY Symmetry
INVARIANTS HistoryTypeOK SettledAdmission
PROPERTIES VerdictMatchesStanding
