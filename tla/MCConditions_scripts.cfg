SPECIFICATION FairSpec
CONSTANTS
    HandlerLists <- Lists
    None = None
    MaxStack = 4
    MaxIds = 2
    Programs <- MCPrograms
INVARIANTS StacksKept RecordKept
PROPERTIES TakenWherePromised CleanupsRun TransferLands
CHECK_DEADLOCK FALSE
