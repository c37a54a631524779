SPECIFICATION WorkerSpec
CONSTANTS
  Workers = {k1, k2}
  MailboxCap = 1
  PostBound <- MCPostBound
  k1 = k1
  k2 = k2
INVARIANT IsolateIsFree
CHECK_DEADLOCK FALSE
