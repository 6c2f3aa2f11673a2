SPECIFICATION FairSpec
CONSTANT MaxFaults = 3
INVARIANTS
    TypeOK
    AuthorizedIsReady
    OldSessionEnded
    NewSessionKept
PROPERTIES
    ErrorRepeatsItsStep
    LoginCompletes
