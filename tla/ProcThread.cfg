SPECIFICATION LiveSpec
CONSTANTS
  Main = main
  Waiter = proc
  NoThread = none
  Posters = {main, vi, isp}
  MaxItems = 4
INVARIANTS
  NobodySleepsOnPost
PROPERTIES
  ImplementsEvent
  EveryItemTaken
  QuitReturns
CHECK_DEADLOCK FALSE
