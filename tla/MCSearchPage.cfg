CONSTANTS
  Texts <- MCTexts
  Label <- MCLabel
  Sections = 2
  Contents <- MCContents
  NoMatches = NoMatches
  Idle = Idle
  Rows <- MCRows
  Queries <- MCQueries
  Escape <- MCEscape
  NoPage = NoPage
  NoItem = NoItem
  MaxStrays = 1
  MaxMessages = 1
SPECIFICATION Spec
INVARIANTS
  TypeOK
  FocusOnShown
  InactiveShowsLabel
  ResultsMatchField
PROPERTIES
  ClosesWhenLeft
  WalksInOrder
