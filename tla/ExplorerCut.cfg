SPECIFICATION Spec
CONSTANTS
  Dirs = {root, d1, d2}
  Root = root
  Pages <- SomePages
  MaxListings = 5
  MaxEvents = 3
INVARIANT NothingIsCut
CHECK_DEADLOCK FALSE
