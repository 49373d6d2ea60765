SPECIFICATION Spec
CONSTANTS
  a = a
  b = b
  c = c
  t = t
  Sockets = {a, b, c}
  NoSocket = NoSocket
  Capacity = 3
  RunThread = RunThread
  Threads = {}
  NoThread = NoThread
  HandlersAdd = TRUE
  Registrations <- EventRegistrations
  Settings <- EventSettings
  SelectMayFail = TRUE
  TickMod = 4
SYMMETRY Symmetric
INVARIANTS TypeOK NoSockLost NoDeadSelected PackMark CallsLiveSlot CallDiscipline StopNeverWaits
PROPERTIES SelectAsksAll ExitOnlyWhenEmpty RegistryImplemented
