SPECIFICATION Spec
CONSTANTS
  conns = conns  leaky = leaky  win = win
  Request = {r1, r2, r3}
  Limiter = {conns, leaky, win}
  Kind <- MCKind
  Limit <- MCLimit
  Chain <- OnePolicy
  Handlings <- EitherLogged
  Redis = TRUE
  MaxWindow = 1
  MaxFailures = 1
SYMMETRY Symmetry
INVARIANTS TypeOK Accounting ConnLimit WindowLimit
PROPERTY AdmissionSpec
CHECK_DEADLOCK FALSE
