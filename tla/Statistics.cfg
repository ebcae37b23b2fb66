SPECIFICATION Spec
CONSTANTS
  KILO = 3
  Header = 1
  Body = 1
  MaxIn = 5
  MaxOut = 12
  MaxFailures = 1
INVARIANTS
  TypeOK
  CountsEveryByte
  ShownIsBetween
PROPERTIES
  UnitsNeverFall
