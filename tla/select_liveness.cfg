SPECIFICATION FairSpec
CONSTANTS
  a = a
  b = b
  c = c
  t = t
  Sockets = {a, b}
  NoSocket = NoSocket
  Capacity = 2
  RunThread = RunThread
  Threads = {}
  NoThread = NoThread
  HandlersAdd = TRUE
  Registrations <- ReadRegistrations
  Settings <- ReadSettings
  SelectMayFail = FALSE
  TickMod = 6
PROPERTIES TimerServed StopHonoured
