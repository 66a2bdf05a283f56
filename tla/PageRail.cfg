SPECIFICATION Spec
CONSTANTS
  Urls <- SortUrls
  Sorts = {"bytes"}
  Types = {}
  Exchanges = {x1}
  MaxWrites = 0
INVARIANTS RailFollowsGallery
