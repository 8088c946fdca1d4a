CONSTANTS
  None = None
  monitoring = monitoring
  projects = projects
  seats = seats
  free = free
  pro = pro
  FeatureKeys = {monitoring}
  PlanKeys = {free}
  Resources = {projects}
  Workers = {w1}
  Entities = {e1}
  Routes <- LimitRoutes
  Catalogs <- OneAndTwo
  Countable = {projects}
  InitRows = 1
  MaxRows = 2
SPECIFICATION HistorySpec
PROPERTIES YesIsTrueOfSomeMoment
