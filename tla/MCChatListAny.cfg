SPECIFICATION FairSpec
CONSTANTS
    Chats = {c1}
    Lists <- MCMainList
    ClassId <- MCMainClass
    Current = "chatListMain"
    MaxOrder = 2
    MaxInFlight = 2
    BornIn <- MCBornInMain
    Moves <- AllMoves
INVARIANTS
    TypeOK
    MapWithinSet
    NoNullChat
    NoLostRefresh
PROPERTIES
    ListIsRedrawn
