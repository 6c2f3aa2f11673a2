SPECIFICATION Spec
CONSTANTS
    Messages <- MCMessages
    ChatOf <- MCChatOf
    Date <- MCDate
    NoChat = NoChat
    Blank = Blank
    MaxRows = 2
    MaxListed = 3
INVARIANTS
    TypeOK
    ScrollWithinHistory
    PaneShowsHistory
    OneMessagePerSecond
PROPERTIES
    ReaderKeepsPlace
