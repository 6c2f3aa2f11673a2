SPECIFICATION Spec
CONSTANTS
    Chats = {c1}
    Lists <- MCTwoLists
    ClassId <- MCTwoClasses
    Current = "chatListMain"
    MaxOrder = 2
    MaxInFlight = 2
    BornIn <- MCBornAnywhere
    Moves <- MCFollowedMoves
INVARIANTS
    OnePosition
    PositionsFollowed
    NoGhost
