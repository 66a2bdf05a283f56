SPECIFICATION Spec
CONSTANTS
  Best = 2
  Albums = {1, 2, 3}
  Holdings <- MCHoldings
  Queries <- MCQueries
  Size = 1
  MaxChanges = 1
INVARIANTS
  UserGalleriesAreReached
