SPECIFICATION Spec
CONSTANTS
  Clients = {c1}
  c1 = c1
  Keys = {"a", "d"}
  BufCap = 2
  MaxDup = 1
  Acks = TRUE
  MaxClients = 3
  MaxEnts = 8
  MaxRestarts = 1
  CONNECTION_ATTEMPTS = 1
  MayBeNamed = {c1}
  MaxKeys = 2
CHECK_DEADLOCK FALSE
INVARIANTS
  TypeOK
  PlayersMoveByKeys
  ClientSearchTerminates
  KeysGoToServer
  IInv
PROPERTIES
  NoTeleport
