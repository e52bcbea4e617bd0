\* Three clients; the third connection is one too many for the descriptors,
\* and three events are one too many for one epoll_wait.
SPECIFICATION EpollSpec
CONSTANTS
  Clients = {c1, c2, c3}
  Listener = Listener
  Backlog = 1
  MAX_EVENTS_COUNT = 2
  FdLimit = 2
INVARIANTS
  EventsMatch
  DownForCause
PROPERTIES
  ClientServed
\* Clients end, and the server waits for the next ones or has gone down.
CHECK_DEADLOCK FALSE
