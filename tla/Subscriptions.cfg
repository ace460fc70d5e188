CONSTANTS
  Conns = {c1, c2}
  Topics = {t1, t2}
  Calls = {k1, k2}
  MaxSubs = 1
  NoConn = NoConn
  w1 = w1
  w2 = w2
  w3 = w3
  Null = Null
  Workers = {w1, w2, w3}
  Socks = {s}
  Home <- AtW2
  MaxEvents = 2
  MaxBatch = 2
  Listeners = {l1, l2}
  RateWatchers = {v1, v2}
  Rate = 2
  TopicRate = 1
  Ratio = 1
  WarnMax = 1
  Minute = 2
  MaxPublishes = 2
SPECIFICATION PartsSpec
SYMMETRY Symmetry
INVARIANTS
  BooksAgree
  Gated
  RelayIsAPipe
  SameAsPublishLoop
  PressureIsTold
PROPERTY ClosedSetIsFrozen
CHECK_DEADLOCK FALSE
