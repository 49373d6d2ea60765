CONSTANTS
  p = p
  q = q
  r = r
  s = s
  c1 = c1
  c2 = c2
  c3 = c3
  Sockets = {p, q, r}
  NoSocket = NoSocket
  Capacity = 3
  RunThread = RunThread
  Threads = {}
  NoThread = NoThread
  HandlersAdd = TRUE
  Registrations <- ReadOnly
  Settings <- ReadOrDrop
  SelectMayFail = FALSE
  TickMod = 4
  Clients = {c1, c2, c3}
  NoClient = NoClient
  Listening = Listening
  Closed = Closed
  LISTEN_BACKLOG = 1
  MaxRequests = 1
  Window = 1
  HangUpWhen = {"backlog", "accepted", "greeted"}
  MayRefuse = TRUE
SPECIFICATION ServerSpec
SYMMETRY ServerSymmetry
INVARIANTS ServerTypeOK SlotsFit NothingLeaks
PROPERTIES SelectServerUsed
