SPECIFICATION FairSpec
CONSTANTS
  pub = pub
  sub = sub
  Users = {u1}
  Capacity = 1
  MaxPublished = 2
  Nobody = Nobody
  queue_size_ = 0
  Modulus = 4
  MaxOnce = 1
  Dummy = Dummy
  Default = Default
PROPERTIES PeersAreSubscribers PublishersAreAsExpected Delivered PublishReturns BothShutDown
CHECK_DEADLOCK FALSE
