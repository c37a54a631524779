\* LoadScript, EvalAwait and Dispose; every script and native callback ends.
CONSTANTS
  Evals = {e1}
  Locked = {l1}
  Swaps = {}
  Drains = {}
  Disposes = {d1}
  NoCall = NoCall
SPECIFICATION BenignSpec
PROPERTIES
  NeverDeadlocks
CHECK_DEADLOCK FALSE
