SPECIFICATION FairSpec
CONSTANTS
  Clients = {c1}
  c1 = c1
  Keys = {"d"}
  BufCap = 1
  MaxDup = 0
  Acks = FALSE
  MaxClients = 3
  MaxEnts = 8
  MaxRestarts = 1
  CONNECTION_ATTEMPTS = 1
  MayBeNamed = {}
  MaxKeys = 1
CHECK_DEADLOCK FALSE
PROPERTIES
  KeepsServing
