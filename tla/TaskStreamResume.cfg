SPECIFICATION StreamFairSpec
CONSTANTS
  Tasks = {t1}
  Children = {}
  Hooked = {}
  Clients = {c1}
  Nobody = Nobody
  MaxTurns = 1
  MaxStops = 1
  Subs = {s1}
  Capacity = 1
CHECK_DEADLOCK FALSE
PROPERTIES
  BlockingReplies
  StreamsEnd
  SettlesUnlessLost
