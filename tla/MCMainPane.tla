----------------------------- MODULE MCMainPane -----------------------------
\* Two chats: one with more messages than rows, two of them of one second, and
\* one with a single message, which an offset for the first one leaves behind.
EXTENDS MainPane, TLC

MCMessages == 1 .. 5
MCChatOf == <<"a", "a", "a", "a", "b">>
MCDate == <<1, 1, 2, 3, 1>>
=============================================================================
