SPECIFICATION FairSpec
CONSTANTS
    Types = {ET_RESIZE, ET_CHATLIST, ET_MESSAGES}
    Payloads = {p1, p2}
    NoEvent = NoEvent
    Main = main
    Pushers = {main, tg}
    Free = free
INVARIANTS
    TypeOK
    FrontIsMapped
    NoTypeTwice
PROPERTIES
    ImplementsMailbox
    QueuedIsDelivered
