SPECIFICATION Spec
CONSTANTS
  Null = Null
  Junk = Junk
  Pools = {main, raw}
  OnePools = {main}
  MaxSize = 2
  Fds = {f1, f2}
  Addrs = {a1, a2}
  Garbage <- MCGarbage
SYMMETRY Symmetric
INVARIANTS
  TypeOK
  RegistryExact
  PoolsOwnTheirBlocks
  LentOnce
  NothingLeaks
