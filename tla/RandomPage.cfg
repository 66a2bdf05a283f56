SPECIFICATION Spec
CONSTANTS
  Best = 1
  Files = {1, 2, 3}
  TypeOf <- MCTypeOf
  KeyValues <- MCKeyValues
  Null = Null
  Filters <- MCFilters
  Size = 2
  RailSize = 1
  MaxChanges = 1
INVARIANTS
  RandomPageStaysInTheSet
