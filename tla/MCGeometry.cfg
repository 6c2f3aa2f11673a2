SPECIFICATION Spec
CONSTANTS
    Heights = {4, 6}
    Widths = {1, 4, 6}
INVARIANTS
    TypeOK
    PanesTileScreen
    HitTestAgrees
    CursorInPane
    OnlyLostPaneAborts
PROPERTIES
    BorderFollowsMouse
