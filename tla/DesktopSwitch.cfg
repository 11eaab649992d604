CONSTANTS
  S = S
  T = T
  C1 = C1
  Servers = {S, T}
  Env = S
  Conns = {C1}
  NoConn = NoConn
  Calls = 3
  MaxRestarts = 1
SPECIFICATION FairSpec
INVARIANTS TransactionOnce  PoolFollowsVault
PROPERTY EveryCallIsAnswered
CHECK_DEADLOCK FALSE
