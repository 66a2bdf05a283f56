SPECIFICATION Spec
CONSTANTS
  Best = 1
  Ids = {1, 2, 3}
  Filters <- MCFilters
  MaxChanges = 4
INVARIANTS WhateverMatchesMayBeDrawn
