SPECIFICATION Spec
CONSTANTS
  a = a
  b = b
  c = c
  t = t
  Sockets = {a, b, c}
  NoSocket = NoSocket
  Capacity = 3
  RunThread = RunThread
  Threads = {t}
  NoThread = NoThread
  HandlersAdd = TRUE
  Registrations <- FewRegistrations
  Settings <- FewSettings
  SelectMayFail = FALSE
  TickMod = 4


INVARIANT NoSockLost
