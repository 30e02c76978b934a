SPECIFICATION FairSpec
CONSTANTS
  Clients = {c1, c2, c3, c4}
  Impatient = {c2}
  Silent = {c4}
  Backlog = 2
  AcceptErrors = TRUE
  Nobody = Nobody
CHECK_DEADLOCK FALSE
INVARIANTS TypeOK KnownWhenConnected
PROPERTIES ClientsConnect ShutdownCompletes
