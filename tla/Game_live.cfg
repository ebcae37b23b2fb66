SPECIFICATION FairNetSpec
CONSTANTS
  Clients = {c1}
  c1 = c1
  Keys = {"d"}
  BufCap = 2
  MaxDup = 1
  Acks = FALSE
  MaxClients = 3
  MaxEnts = 8
  MaxRestarts = 0
  CONNECTION_ATTEMPTS = 2
  MayBeNamed = {}
  MaxKeys = 1
PROPERTIES
  ConnectResolves
  SeesItself
