CONSTANTS
  None = None
  monitoring = monitoring
  projects = projects
  free = free
  pro = pro
  team = team
  FeatureKeys = {monitoring}
  PlanKeys = {free, pro, team}
  Resources = {projects}
  Reloaders = {t1}
  Readers = {r1}
  Catalogs <- SomeCatalogs
  Overrides <- NoOverrides
SPECIFICATION Spec
INVARIANTS ReloadIsAtomic
