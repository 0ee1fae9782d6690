SPECIFICATION Spec
CONSTANTS
  c1 = c1
  c2 = c2
  r1 = r1
  None = None
  Backend = "sqlite"
  Repos = {r1}
  Clients = {c1, c2}
  RepoOf <- OneRepo
  Creator = c1
  GroupSeq <- TasksThenActions
  Keys = {"k1"}
  StoryOf <- SameStory
  Vals = {"v1", "v2"}
  Finished = {"v2"}
  Transient = {}
  Muts <- TaskAndStory
  MaxUpdates = 2
  MaxAttempts = 2
INVARIANTS BaseIsCurrent CacheMatchesTables
PROPERTIES ImplementsRegister UpdatesReturn
CHECK_DEADLOCK FALSE
