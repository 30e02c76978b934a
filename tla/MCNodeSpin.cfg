SPECIFICATION FairSpec
CONSTANTS
  t1 = t1
  t2 = t2
  s1 = s1
  s2 = s2
  s3 = s3
  p1 = p1
  p2 = p2
  Topics = {t1, t2}
  Subscribers = {s1}
  Publishers = {p1}
  TopicOf <- MCTopicOf
  Nothing = Nothing
PROPERTY SpinReturns
