\* Three starts of a server, so that one can bind what a second has removed
\* from the first; two clients, whose numbers come again.
SPECIFICATION DatagramSpec
CONSTANTS
  Servers = {s1, s2, s3}
  Clients = {c1, c2}
  NoFile = NoFile
  QueueMax = 2
  MaxSends = 3
INVARIANTS
  Reachable
  EndsForCause
PROPERTIES
  Replied
\* In task_02 the bound on what is sent stops the clients.
CHECK_DEADLOCK FALSE
