SPECIFICATION Spec
CONSTANTS
  KILO = 3
  Header = 1
  Body = 1
  MaxIn = 3
  MaxOut = 12
  MaxFailures = 0
INVARIANTS
  ShowsMebibytes
