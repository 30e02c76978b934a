SPECIFICATION FairSpec
CONSTANTS
  Client = Client
  Connection = Connection
  req = req
  call = call
  note = note
  closer1 = closer1
  closer2 = closer2
  Requests = {req, call, note}
  Calls = {call}
  Closers = {closer1, closer2}
  EndOf <- MCEndOf
  MayDie = {Client}
  Capacity = 1
  NoThread = NoThread
INVARIANTS TypeOK WritersOwnOpenSocket CallsAnswered
PROPERTIES ImplementsChannel CallsReturn BothEndsClose
