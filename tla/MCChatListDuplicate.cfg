SPECIFICATION Spec
CONSTANTS
    Chats = {c1}
    Lists <- MCMainList
    ClassId <- MCMainClass
    Current = "chatListMain"
    MaxOrder = 2
    MaxInFlight = 2
    BornIn <- MCBornNowhere
    Moves <- MCDraftMoves
INVARIANTS
    OnePosition
