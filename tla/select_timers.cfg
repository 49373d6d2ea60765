SPECIFICATION Spec
CONSTANTS
  a = a
  b = b
  c = c
  t = t
  Sockets = {a, b}
  NoSocket = NoSocket
  Capacity = 2
  RunThread = RunThread
  Threads = {t}
  NoThread = NoThread
  HandlersAdd = FALSE
  Registrations <- TimerRegistrations
  Settings <- TimerSettings
  SelectMayFail = FALSE
  TickMod = 8
SYMMETRY Symmetric
INVARIANTS CallDiscipline NoSockLost
PROPERTIES RegistryImplemented NoEarlyTimeout NoTimeoutSkipped SleepIsTight
