SPECIFICATION Spec
CONSTANTS
    Chats = {c1, c2}
    NoChat = NoChat
    Garbage = Garbage
    MaxQueries = 2
    MaxMessages = 1
    MaxInbox = 2
    InitTerminating <- MCInitialised
INVARIANTS
    TypeOK
    MainPaneExplained
    HandlersMatchQueries
SYMMETRY MCSymmetry
