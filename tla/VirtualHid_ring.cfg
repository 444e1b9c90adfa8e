SPECIFICATION FairSpec
CONSTANTS
  t1 = t1
  t2 = t2
  None = None
  Try = Try
  Threads = {t1, t2}
  Capacity = 2
  RpcChunks = 2
  MaxChunks = 2
  MaxParts = 2
  MaxReads = 2
  MaxWrites = 3
CHECK_DEADLOCK FALSE
INVARIANTS TypeOK RingOK NoneStranded AssemblyInStep SpoilsOne InOrder
PROPERTIES FifoSpec Drains
