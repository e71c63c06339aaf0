SPECIFICATION FairFrontSpec
CONSTANTS
  MaxPresses = 3
  Queries <- MCQueries
  Hits <- MCHits
  FullDatada <- MCFullDatada
  RowsPerPage = 2
  Labels <- MCLabels
  FullLabels <- MCFullLabels
  Lists <- MCLists
  PageCount <- MCPageCount
  MaxCalls = 4
  Rows = {"A", "B"}
  MaxOpens = 3
INVARIANTS
  FrontEndTypeOK
  OnlyKeysOverlap
  LastAnswerShown
  RowsAreOfQuery
  NextOffered
  RowsAreOfLabel
  NothingOnlyOfNothing
  NextFollows
  SavedIsOfRow
PROPERTY PageComesBack
CHECK_DEADLOCK FALSE
