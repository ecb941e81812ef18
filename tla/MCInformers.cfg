SPECIFICATION FairSpec
CONSTANTS
  Types <- OneType
  Namespaces <- TwoNamespaces
  Namespace = "dev"
  NamespaceAll = ""
  NoInformer = "none"
  MaxEdits = 2
  MaxFaults = 2
INVARIANTS
  TypeOK
  RunsOnFilledCache
  OwnNamespaceOnly
PROPERTIES
  CacheFollowsApi
  SyncEnds
