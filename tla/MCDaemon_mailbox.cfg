SPECIFICATION Spec
CONSTANTS
  p1 = p1
  p2 = p2
  h1 = h1
  t1 = t1
  t2 = t2
  srv = srv
  None = None
  Posts = {p1, p2}
  StoriesOf <- OneStoryEach
  Starts = {p1}
  Direct = {h1}
  Tasks = {t1}
  Server = srv
  MailCap = 1
  QueueCap = 1
  MaxAttempts = 2
  MayStop = TRUE
INVARIANTS ResultTruthful NoSyncStranded
PROPERTIES ShutdownCompletes
CHECK_DEADLOCK FALSE
