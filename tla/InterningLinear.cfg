CONSTANTS
  t1 = t1  t2 = t2  t3 = t3
  a = a  b = b  c = c
  Threads = {t1, t2}
  Keys = {a, b, c}
  Buckets = {0, 1}
  BucketOf <- MCBucketOf
  NSlots = 2
  SlabCap = 2
  MaxSlabs = 3
  MaxId = 4
  MaxLive = 2
  MaxSessions = 1
  NoThread = NoThread  NoKey = NoKey  NoSym = NoSym  NoSlot = NoSlot
SPECIFICATION FairSpec
PROPERTIES Linearizable CallReturns
CHECK_DEADLOCK FALSE
