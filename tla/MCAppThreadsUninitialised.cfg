SPECIFICATION FairSpec
CONSTANTS
    Chats = {c1}
    NoChat = NoChat
    Garbage = Garbage
    MaxQueries = 1
    MaxMessages = 1
    MaxInbox = 1
    InitTerminating <- MCUninitialised
PROPERTIES
    ResponsesAreTaken
