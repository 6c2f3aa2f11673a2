SPECIFICATION Spec
CONSTANTS
    Chats = {c1, c2, c3, c4}
    Blank = Blank
    MaxRows = 3
INVARIANTS
    TypeOK
    CursorOnItsChat
    ScrollWithinList
    PaneShowsList
SYMMETRY MCSymmetry
