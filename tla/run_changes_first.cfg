SPECIFICATION FairSpec
CONSTANTS
  Change = {c1, c2}
  Stream = {s1, s2}
  Subscribed = Subscribed
  MaxDrops = 0
  MaxVisits = 1
PROPERTY FirstSubscriptionRefreshes
CHECK_DEADLOCK FALSE
