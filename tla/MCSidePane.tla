----------------------------- MODULE MCSidePane -----------------------------
\* Four chats on at most three rows: the list is longer than the pane.
EXTENDS SidePane, TLC

MCSymmetry == Permutations(Chats)
=============================================================================
