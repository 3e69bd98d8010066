\* Two fdnodes, a growth step of 1 so that registering with the array full
\* reallocates it, and handlers that make up to 2 calls.
CONSTANTS
  POLLIN = POLLIN
  POLLOUT = POLLOUT
  HUP = HUP
  Fds = {3, 4}
  Events <- MCEvents
  GROW = 1
  MaxOps = 2
SPECIFICATION Spec
INVARIANT TypeOK
INVARIANT SlotTableConsistent
PROPERTY WalkCompletes
