SPECIFICATION Spec
CONSTANTS
  Pages = 3
  Starts <- StartsOfTheQuery
  Wrap = FALSE
  MaxOpens = 3
  Null = Null
INVARIANTS
  SettledPage
  NavigatorFollows
  OneLoop
PROPERTIES
  EveryPageIsDrawn
