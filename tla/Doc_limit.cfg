SPECIFICATION Spec
CONSTANTS
  Clients = {c1, c2}
  c1 = c1
  c2 = c2
  Keys = {"d"}
  BufCap = 1
  MaxDup = 0
  Acks = FALSE
  MaxClients = 1
  MaxEnts = 8
  MaxRestarts = 0
  CONNECTION_ATTEMPTS = 1
  MayBeNamed = {}
  MaxKeys = 0
INVARIANTS
  AtMostMaxClients
