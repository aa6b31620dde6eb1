\* A server and two clients; one object is written, closed and sent a message, the other
\* one only takes ids.
CONSTANTS
  c1 = c1
  c2 = c2
  o1 = o1
  o2 = o2
  Server = server
  Clients = {c1, c2}
  Objects = {o1, o2}
  None = None
  MaxId = 2
  Creators <- OneEach
  Busy = {o1}
  MaxWrites = 1
  Losers = {c1, c2}
  Closers = {c1, c2}
  MaxBroken = 1
SPECIFICATION Spec
INVARIANTS TypeOK TablesExact CopiesAgree FailsForReason NoOrphans
PROPERTIES NotMisheard
CHECK_DEADLOCK FALSE
