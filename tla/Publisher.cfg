SPECIFICATION FairSpec
CONSTANTS
  Subscribers = {s1, s2}
  Users = {u1, u2}
  Capacity = 1
  MaxPublished = 2
  Nobody = Nobody
CHECK_DEADLOCK FALSE
INVARIANTS TypeOK NoGaps
PROPERTY ShutdownCompletes
