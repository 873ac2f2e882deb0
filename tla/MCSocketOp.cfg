\* Deadlock is checked: the end of the program is a step of its own.
CONSTANT
  Desc <- MCDesc

SPECIFICATION Spec

INVARIANTS
  TypeOK
  ListenerConfigured
  SocketsReachable
  OnlyFdStale

PROPERTIES
  NoForeignClose
