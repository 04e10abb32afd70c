SPECIFICATION Spec
CONSTANTS
  theKey = theKey  w1 = w1
  Request = {r1, r2}
  Key = {theKey}
  KeyOf <- MCKeyOf
  Worker = {w1}
  Home <- MCHome
  Threads = {0}
  Modes = {"env resilient"}
  MaxFailures = 2
  MaxChanges = 2
PROPERTY ResilientKeeps
CHECK_DEADLOCK FALSE
