CONSTANTS
  Modulus = 31
  SubgroupOrder = 5
  Generator = 2
  PowerMod <- MCPowerMod
  Inputs = {"a", "b", "c"}
  Counters = {0, 1, 2}
  Wide <- MCWide
  ScalarDraws = {0, 1, 2, 3, 4, 5, 6, 7}
  Base = 4
  OutputBytes = 3
  PoolSize = 2
SPECIFICATION Spec
INVARIANTS
  TypeOK
  RequestsHide
PROPERTY ImplementsPrf
