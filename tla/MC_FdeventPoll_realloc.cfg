\* A handler registers an fd while pollfds is full.
\* Three fdnodes, so that two are ready while a handler registers the
\* third with the array full (growth step 1), and handlers that make up to 2 calls.
CONSTANTS
  POLLIN = POLLIN
  POLLOUT = POLLOUT
  HUP = HUP
  Fds = {3, 4, 5}
  Events <- MCEvents
  GROW = 1
  MaxOps = 2
SPECIFICATION Spec
INVARIANT NoStalePfds
