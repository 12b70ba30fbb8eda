SPECIFICATION RemovalSpec
CONSTANTS
  Nodes = {n1, n2}
  Users = {u1}
  Keys = {k1, k2}
  Asks = {r1, r2}
  Sessions = {s1, s2}
  Null = Null
  Initial <- AllRecommended
  MaxTxs = 3
INVARIANTS RemovalTypeOK TargetKept NothingDangles
SYMMETRY Alike
CHECK_DEADLOCK FALSE
