SPECIFICATION Spec
CONSTANTS
    Heights = {4}
    Widths = {4, 6}
INVARIANTS
    NeverAborts
