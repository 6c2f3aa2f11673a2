---------------------------- MODULE MCChatList ----------------------------
\* Instances of ChatList: the main list alone, where the server makes every
\* kind of change, and the main list with a folder, where it announces every
\* change in a way the handlers follow.
EXTENDS ChatList, TLC

MCMainList == {"main"}
MCMainClass == "main" :> "chatListMain"

MCTwoLists == {"main", "folder"}
MCTwoClasses == "main" :> "chatListMain" @@ "folder" :> "chatListFolder"

MCBornNowhere == {{}}
MCBornInMain == SUBSET MCMainList
MCBornAnywhere == SUBSET MCTwoLists

MCFollowedMoves == {"join", "leave", "reorder", "load", "last_message"}
MCDraftMoves == {"join", "draft"}
=============================================================================
