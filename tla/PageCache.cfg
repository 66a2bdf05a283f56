SPECIFICATION Spec
CONSTANTS
  Urls <- FilterUrls
  Sorts = {"bytes"}
  Types = {"image"}
  Exchanges = {x1, x2}
  MaxWrites = 2
SYMMETRY Symmetry
INVARIANTS TypeOK ReadYourRatings FilterIsCurrent
