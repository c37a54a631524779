\* One call of every kind.  Scripts may loop and native callbacks block for ever.
\* The theorems hold for any number of calls and connections.
SPECIFICATION PartsSpec
CONSTANTS
  Evals = {e1}
  Locked = {l1}
  Swaps = {s1}
  Drains = {w1}
  Disposes = {d1}
  NoCall = NoCall
  Workers = {k1, k2}
  MailboxCap = 1
  PostBound <- MCPostBound
  k1 = k1
  k2 = k2
  Clients = {"w1", "w2"}
  QueueSize = 1
  MaxFrames <- MCMaxFrames
INVARIANTS
  SafetyInv
  GuardedNoUseAfterClose
  DevToolsToldRight
PROPERTIES
  KeepsContract
  CallsReturn
  TerminateReturns
  StoppedWorkersEnd
CHECK_DEADLOCK FALSE
