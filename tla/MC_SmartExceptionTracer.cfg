CONSTANTS
  t1 = t1
  t2 = t2
  t3 = t3
  a1 = a1
  a2 = a2
  Threads <- MCThreads
  Addrs <- MCAddrs
  MaxThrows = 4
  FailSites = {"make_unique"}
SPECIFICATION Spec
INVARIANT MetaMapConsistent
INVARIANT DestructorOnce
