SPECIFICATION BuildSpec
CONSTANTS
  Ids = {1, 2, 3}
  Orders <- MCOrders
  MaxOrders = 2
  MaxFolders = 2
  StackDepth = 4
INVARIANTS
  CompleteIsBuilt
  PlainOrderIsSurvived
PROPERTY ToldOrSilent
CHECK_DEADLOCK FALSE
