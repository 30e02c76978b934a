SPECIFICATION Spec
CONSTANTS
  Clients = {c1, c2}
  Impatient = {c2}
  Silent = {}
  Backlog = 2
  AcceptErrors = FALSE
  Nobody = Nobody
CHECK_DEADLOCK FALSE
INVARIANT ExitsOnlyWhenTerminated
