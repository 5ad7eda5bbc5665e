SPECIFICATION FairSpec
CONSTANTS
  Dirs = {root, d1, d2}
  Root = root
  Pages <- SomePages
  MaxListings = 5
  MaxEvents = 3
INVARIANTS PagesInOrder OneCursor
PROPERTIES TreeIsShown
CHECK_DEADLOCK FALSE
