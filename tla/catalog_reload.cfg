CONSTANTS
  None = None
  monitoring = monitoring
  projects = projects
  free = free
  pro = pro
  team = team
  FeatureKeys = {monitoring}
  PlanKeys = {free, pro, team}
  Resources = {projects}
  Reloaders = {t1, t2}
  Readers = {r1}
  Catalogs <- SomeCatalogs
  Overrides <- SomeOverrides
SPECIFICATION Spec
INVARIANTS TypeOK LoneReloadReplaces UndisturbedIsExact NeverMoreGenerous HintIsOfACatalog
SYMMETRY ReloaderSymmetry
