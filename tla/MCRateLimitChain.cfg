SPECIFICATION Spec
CONSTANTS
  conns = conns  leaky = leaky  win = win
  Request = {r1, r2, r3}
  Limiter = {conns, leaky, win}
  Kind <- MCKind
  Limit <- MCLimit
  Chain <- TwoPolicies
  Handlings <- EitherLogged
  Redis = FALSE
  MaxWindow = 0
  MaxFailures = 0
SYMMETRY Symmetry
INVARIANT ConnLimit
CHECK_DEADLOCK FALSE
