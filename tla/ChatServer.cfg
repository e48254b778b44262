SPECIFICATION Spec
CONSTANTS
  Workload <- Loads
  ChatIds = {1, 2}
  Channel = 3
  MaxChats = 1
  MaxMessages = 8
  MaxEvents = 40
INVARIANTS
  MessagesGetTheirTurn
  DecisionAgrees
  HistoryIsWhole
  NothingStuck
CHECK_DEADLOCK FALSE
