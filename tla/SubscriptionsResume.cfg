CONSTANTS
  Conns = {c1}
  Topics = {t1}
  Calls = {k1}
  MaxSubs = 1
  NoConn = NoConn
SPECIFICATION Spec
INVARIANT NoEscape
CHECK_DEADLOCK FALSE
