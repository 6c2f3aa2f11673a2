---------------------------- MODULE MCAppThreads ----------------------------
\* Two chats, so that another one can be opened while a history is pending.
EXTENDS AppThreads, TLC

MCSymmetry == Permutations(Chats)
MCInitialised == {FALSE}
MCUninitialised == BOOLEAN
=============================================================================
