SPECIFICATION FairSpec
CONSTANTS
  Lists = {"a", "b"}
  Data = {1, 2}
  MaxNodes = 4
INVARIANTS
  HeapIsTheLists
PROPERTIES
  ImplementsDeques
  CallsReturn
