SPECIFICATION FairSpec
CONSTANTS
  Publishers = {p1, p2}
  queue_size_ = 0
  Modulus = 4
  MaxSent = 2
  MaxOnce = 1
  Dummy = Dummy
  Default = Default
INVARIANTS TypeOK NoLostWakeup QueueBounded NewestInOrder DummyNotCalled
PROPERTY DestructorReturns
