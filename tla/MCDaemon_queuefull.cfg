SPECIFICATION Spec
CONSTANTS
  p1 = p1
  p2 = p2
  h1 = h1
  t1 = t1
  t2 = t2
  srv = srv
  None = None
  Posts = {p1, p2}
  StoriesOf <- TwoAndOne
  Starts = {p1}
  Direct = {}
  Tasks = {}
  Server = srv
  MailCap = 1
  QueueCap = 1
  MaxAttempts = 2
  MayStop = FALSE
PROPERTIES StoriesAreQueued
CHECK_DEADLOCK FALSE
