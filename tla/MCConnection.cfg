SPECIFICATION Spec
CONSTANTS
  Orders <- MCOrders
  Replies <- MCReplies
  BufferSize = 1024
  NoHandler = noHandler
  MaxOrders = 3
  MaxFrames = 3
INVARIANTS
  TypeOK
  WriteInProgress
  FramesInOrder
  OrdersArriveIntact
  OrderReachesItsHandler
CHECK_DEADLOCK FALSE
