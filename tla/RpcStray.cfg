SPECIFICATION RpcSpec
CONSTANTS
  Workers = {w1, w2}
  Requests = {r1, r2, r3}
  NoConn = NoConn
  NoRequest = NoRequest
  MaxConns = 3
INVARIANT OwnAnswer
CHECK_DEADLOCK FALSE
