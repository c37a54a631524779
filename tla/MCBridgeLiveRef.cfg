\* One session, one operation that uses it, one close request and the janitor.
SPECIFICATION ServiceSpec
CONSTANTS
  Ids = {a}
  Ops = {o1}
  Closers = {c1}
  Subscribers = {x1}
  Janitor = Janitor
  NoId = NoId
INVARIANT UsableWhilePinned
CHECK_DEADLOCK FALSE
