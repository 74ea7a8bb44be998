SPECIFICATION ConsoleSpec
CONSTANTS
  Recents <- SmallRecents
  DefaultRecent = 3
  MaxAdded = 4
  Entry <- FourEntries
  Sizes <- ThreeSizes
INVARIANTS NewestKept ListsTheSnapshot FitsTheScreen SectionsAgree
PROPERTIES KeepsWhatFits CatchesUp
