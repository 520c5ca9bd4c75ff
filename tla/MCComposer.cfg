SPECIFICATION ComposerSpec
CONSTANTS
  Null = Null
  Catalog <- MCCatalog
  Trigger = "@"
  MinQueryLength = 0
  Keys = {"@", "a", " "}
  Queries <- MCQueries
  Names <- MCNames
  MaxEvents = 5
  MaxFiles = 2
INVARIANTS
  PayloadsSurvive
  PaintKeepsDraft
  RowsAreOfTheQuery
PROPERTIES
  MatchFollowsCaret
CHECK_DEADLOCK FALSE
