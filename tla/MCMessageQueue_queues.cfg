SPECIFICATION FairSpec
CONSTANTS
  main = main
  reader = reader
  Producer = {main, reader}
  Consumer = consumer
  Handler = handler
  Nobody = nobody
  Uses <- QueueUses
  MaxPushes = 4
  MaxClears = 2
INVARIANTS
  NoWakeUpIsLost
  PopHasCause
  PushesKeepTheirOrder
PROPERTIES
  MessagesLeave
CHECK_DEADLOCK FALSE
