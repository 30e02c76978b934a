SPECIFICATION Spec
CONSTANTS
  n1 = n1
  n2 = n2
  t1 = t1
  p1 = p1
  p2 = p2
  s1 = s1
  s2 = s2
  Nodes = {n1, n2}
  Topics = {t1}
  Publishers = {p1, p2}
  Subscribers = {s2}
  NodeOf <- MCNodeOf
  TopicOf <- MCTopicOf
  NoAddress = NoAddress
  Absent = Absent
  NoThread = NoThread
  NoJob = NoJob
INVARIANT AlwaysIntroduced
