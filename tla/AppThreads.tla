----------------------------- MODULE AppThreads -----------------------------
(***************************************************************************)
(* The two threads of chatcurse once the user is authorized: the main loop *)
(* of src/src/chatcurse.cc, which reads keys, pops one event per turn and  *)
(* draws, and set_response_handlers of src/src/tg.cc, which receives what  *)
(* TDLib sends and runs the handlers.  They share the chatboxes and the    *)
(* messages mutex, the terminating flag, the event queue and, without a    *)
(* mutex, handlers_ and the position sets that the key 'o' reads.          *)
(*                                                                         *)
(* The event queue is atomic here (see EventQueueProofs) and the chat list *)
(* is the set of its chats (ChatList has its detail).                      *)
(***************************************************************************)
EXTENDS Naturals, Sequences, FiniteSets

CONSTANTS Chats,            \* chat identifiers
          NoChat,           \* chosen_chat_id when it is -1
          Garbage,          \* what an invalid iterator yields for a chat id
          MaxQueries,       \* bound on the histories asked for
          MaxMessages,      \* bound on the messages of a chat
          MaxInbox,         \* bound on the responses not yet received
          InitTerminating   \* values _terminating may have at the start

ASSUME AppAssumption ==
    /\ NoChat \notin Chats /\ Garbage \notin Chats /\ NoChat # Garbage
    /\ InitTerminating \subseteq BOOLEAN
    /\ MaxQueries \in Nat /\ MaxMessages \in Nat /\ MaxInbox \in Nat

Openable == Chats \cup {Garbage}
Queries == 1 .. MaxQueries
Holders == {"free", "main", "tg"}

VARIABLES terminating,   \* tl_app_state_struct::_terminating
          cont,          \* the main loop's local
          main, tg,      \* where the two threads are
          chatboxes,     \* the holder of mutexes[_id_chatboxes]
          messages_lock, \* the holder of mutexes[_id_messages]
          row,           \* the row on which 'o' was pressed, while it is handled
          position_set,  \* the chats of the current list
          messages,      \* how many messages of each chat are stored
          chosen,        \* chosen_chat_id
          shown,         \* the chat and the messages draw_main last drew
          queue,         \* event_queue
          handlers,      \* the query ids with an entry in handlers_
          asked,         \* TDLib: query id -> chat, unanswered
          next_id,       \* the number of queries sent
          inbox,         \* TDLib: responses not yet received
          response,      \* the response the tg thread is processing
          sent_messages, \* TDLib: how many messages each chat has
          dropped,       \* auxiliary: chats whose last history was not stored
          lost           \* auxiliary: query ids whose entry in handlers_ was lost

threads == <<terminating, cont, main, tg>>
locks == <<chatboxes, messages_lock>>
ui == <<row, chosen, shown>>
client == <<position_set, messages, handlers, next_id, lost>>
tdlib == <<asked, inbox, sent_messages>>
vars == <<terminating, cont, main, tg, chatboxes, messages_lock, row, position_set,
          messages, chosen, shown, queue, handlers, asked, next_id, inbox, response,
          sent_messages, dropped, lost>>

NoResponse == [kind |-> "none"]
ListUpdate == [kind |-> "list"]
Answer == [kind : {"messages", "empty", "error"}, id : Queries, chat : Openable, count : 0 .. MaxMessages]

\* The list may have chats already: the main thread runs the handlers itself
\* until the user is authorized.
Init ==
    /\ terminating \in InitTerminating
    /\ cont = TRUE
    /\ main = "input" /\ tg = "check"
    /\ chatboxes = "free" /\ messages_lock = "free"
    /\ row = 0
    /\ queue \in {<<>>, <<"ET_CHATLIST">>}
    /\ position_set \in IF queue = <<>> THEN {{}} ELSE SUBSET Chats
    /\ messages = [c \in Openable |-> 0]
    /\ chosen = NoChat
    /\ shown = <<NoChat, 0>>
    /\ handlers = {}
    /\ asked = [q \in {} |-> NoChat]
    /\ next_id = 0
    /\ inbox = <<>>
    /\ response = NoResponse
    /\ sent_messages = [c \in Chats |-> 0]
    /\ dropped = {}
    /\ lost = {}
-----------------------------------------------------------------------------
Push(type) ==
    queue' = IF \E i \in DOMAIN queue : queue[i] = type THEN queue ELSE Append(queue, type)

LoopTop == IF cont THEN "input" ELSE "join"

MainGoto(from, to) == main = from /\ main' = to
TgGoto(from, to) == tg = from /\ tg' = to

(***************************************************************************)
(* The main thread: process_input.                                         *)
(***************************************************************************)
InputFrame == UNCHANGED <<tg, locks, client, queue, tdlib, response, dropped>>

\* No key, a key that only moves the cursor or changes the pane, or an 'o'
\* below the last row.
KeyIdle ==
    /\ MainGoto("input", "pop")
    /\ UNCHANGED <<terminating, cont, ui>> /\ InputFrame

\* Mutant of KeyQuit: the other thread is not told.
KeyQuitAlone ==
    /\ MainGoto("input", "pop")
    /\ cont' = FALSE
    /\ UNCHANGED <<terminating, ui>> /\ InputFrame

KeyQuit ==
    /\ MainGoto("input", "pop")
    /\ cont' = FALSE
    /\ terminating' = TRUE
    /\ UNCHANGED ui /\ InputFrame

\* The keys that scroll the side pane, and 'G' and 'gg' of the main pane.
KeySide ==
    /\ MainGoto("input", "key_side")
    /\ UNCHANGED <<terminating, cont, ui>> /\ InputFrame

\* The keys that scroll the main pane.
KeyMain ==
    /\ MainGoto("input", "key_main")
    /\ UNCHANGED <<terminating, cont, ui>> /\ InputFrame

\* A new size of the terminal or of a pane: fill draws both panes.
KeyResize ==
    /\ MainGoto("input", "fill_main")
    /\ UNCHANGED <<terminating, cont, ui>> /\ InputFrame

\* 'o': the row is compared with the size of the list, without the mutex.
KeyOpen ==
    /\ next_id < MaxQueries
    /\ MainGoto("input", "open_pick")
    /\ \E r \in 0 .. Cardinality(position_set) - 1 : row' = r
    /\ UNCHANGED <<terminating, cont, chosen, shown>> /\ InputFrame

\* The iterator is advanced to the row, again without the mutex.  What it
\* yields is a chat of the list, unless the list has become shorter or is
\* being changed at the time.
OpenPick ==
    /\ MainGoto("open_pick", "open_draw")
    /\ \/ chosen' \in position_set
       \/ /\ chatboxes = "tg" \/ row >= Cardinality(position_set)
          /\ chosen' \in Openable
    /\ row' = 0
    /\ UNCHANGED <<terminating, cont, shown>> /\ InputFrame

(***************************************************************************)
(* get_chat_history and send_query.                                        *)
(***************************************************************************)
HistoryLock ==
    /\ messages_lock = "free"
    /\ MainGoto("history", "emplace")
    /\ messages_lock' = "main"
    /\ UNCHANGED <<terminating, cont, tg, chatboxes, ui, client, queue, tdlib, response, dropped>>

\* The handler is stored before the query is sent.  handlers_ has no mutex:
\* if the tg thread is searching or erasing at the time, the entry may be lost.
Emplace ==
    /\ MainGoto("emplace", "send")
    /\ next_id' = next_id + 1
    /\ \/ handlers' = handlers \cup {next_id'} /\ UNCHANGED lost
       \/ tg \in {"find", "erase"} /\ lost' = lost \cup {next_id'} /\ UNCHANGED handlers
    /\ UNCHANGED <<terminating, cont, tg, locks, ui, position_set, messages, queue, tdlib,
                   response, dropped>>

Send ==
    /\ MainGoto("send", "pop")
    /\ asked' = [q \in DOMAIN asked \cup {next_id} |-> IF q = next_id THEN chosen ELSE asked[q]]
    /\ messages_lock' = "free"
    /\ dropped' = dropped \ {chosen}
    /\ UNCHANGED <<terminating, cont, tg, chatboxes, ui, client, queue, inbox, sent_messages, response>>

(***************************************************************************)
(* Drawing.  draw_side and draw_main only read what their mutex protects.  *)
(***************************************************************************)
DrawFrame == UNCHANGED <<terminating, cont, tg, locks, row, chosen, client, queue, tdlib, response, dropped>>

draw_side(from, to) ==
    /\ chatboxes = "free"
    /\ MainGoto(from, to)
    /\ UNCHANGED shown /\ DrawFrame

draw_main(from, to) ==
    /\ messages_lock = "free"
    /\ MainGoto(from, to)
    /\ shown' = IF chosen = NoChat THEN shown ELSE <<chosen, messages[chosen]>>
    /\ DrawFrame

Draw ==
    \/ draw_side("key_side", "pop")
    \/ draw_side("open_draw", "history")
    \/ draw_side("event_side", LoopTop)
    \/ draw_main("key_main", "pop")
    \/ draw_main("fill_main", "key_side")
    \/ draw_main("event_main", LoopTop)

(***************************************************************************)
(* The rest of the main loop.                                              *)
(***************************************************************************)
PopNothing ==
    /\ queue = <<>>
    /\ MainGoto("pop", LoopTop)
    /\ UNCHANGED <<terminating, cont, tg, locks, ui, client, queue, tdlib, response, dropped>>

\* Mutant of PopEvent: every event redraws the side pane.
PopEventSide ==
    /\ queue # <<>>
    /\ MainGoto("pop", "event_side")
    /\ queue' = Tail(queue)
    /\ UNCHANGED <<terminating, cont, tg, locks, ui, client, tdlib, response, dropped>>

PopEvent ==
    /\ queue # <<>>
    /\ MainGoto("pop", IF Head(queue) = "ET_CHATLIST" THEN "event_side" ELSE "event_main")
    /\ queue' = Tail(queue)
    /\ UNCHANGED <<terminating, cont, tg, locks, ui, client, tdlib, response, dropped>>

Join ==
    /\ tg = "exited"
    /\ MainGoto("join", "done")
    /\ UNCHANGED <<terminating, cont, tg, locks, ui, client, queue, tdlib, response, dropped>>

Key == KeyIdle \/ KeyQuit \/ KeySide \/ KeyMain \/ KeyResize \/ KeyOpen

MainStep == Key \/ OpenPick \/ HistoryLock \/ Emplace \/ Send \/ Draw \/ PopNothing \/ PopEvent \/ Join
-----------------------------------------------------------------------------
(***************************************************************************)
(* The tg thread: set_response_handlers and process_response.              *)
(***************************************************************************)
TgFrame == UNCHANGED <<terminating, cont, main, ui, next_id, lost, asked, sent_messages>>

TgCheck ==
    /\ TgGoto("check", IF terminating THEN "exited" ELSE "receive")
    /\ UNCHANGED <<locks, position_set, messages, queue, handlers, inbox, response, dropped>> /\ TgFrame

\* Mutant of TgTimeout: a null response ends the thread.
TgTimeoutExits ==
    /\ inbox = <<>>
    /\ TgGoto("receive", "exited")
    /\ UNCHANGED <<locks, position_set, messages, queue, handlers, inbox, response, dropped>> /\ TgFrame

TgTimeout ==
    /\ inbox = <<>>
    /\ TgGoto("receive", "check")
    /\ UNCHANGED <<locks, position_set, messages, queue, handlers, inbox, response, dropped>> /\ TgFrame

TgReceive ==
    /\ inbox # <<>>
    /\ TgGoto("receive", IF Head(inbox) = ListUpdate THEN "list" ELSE "find")
    /\ response' = Head(inbox)
    /\ inbox' = Tail(inbox)
    /\ UNCHANGED <<locks, position_set, messages, queue, handlers, dropped>> /\ TgFrame

\* A handler of ChatList: a chat enters or leaves the list.
TgList ==
    /\ chatboxes = "free"
    /\ TgGoto("list", "list_push")
    /\ chatboxes' = "tg"
    /\ \E c \in Chats : position_set' \in {position_set \cup {c}, position_set \ {c}}
    /\ UNCHANGED <<messages_lock, messages, queue, handlers, inbox, response, dropped>> /\ TgFrame

TgListPush ==
    /\ TgGoto("list_push", "list_return")
    /\ Push("ET_CHATLIST")
    /\ UNCHANGED <<locks, position_set, messages, handlers, inbox, response, dropped>> /\ TgFrame

TgListReturn ==
    /\ TgGoto("list_return", "check")
    /\ chatboxes' = "free"
    /\ response' = NoResponse
    /\ UNCHANGED <<messages_lock, position_set, messages, queue, handlers, inbox, dropped>> /\ TgFrame

\* Only a non-empty history reaches the store; an error, an empty history and
\* an answer without a handler leave no trace.
TgFind ==
    LET found == response.id \in handlers
        stores == found /\ response.kind = "messages"
    IN  /\ TgGoto("find", IF stores THEN "store" ELSE IF found THEN "erase" ELSE "check")
        /\ response' = IF found THEN response ELSE NoResponse
        /\ dropped' = IF stores THEN dropped ELSE dropped \cup {response.chat}
        /\ UNCHANGED <<locks, position_set, messages, queue, handlers, inbox>> /\ TgFrame

\* Mutant of TgStore: a message received again is stored again.
TgStoreAgain ==
    /\ messages_lock = "free"
    /\ TgGoto("store", "store_push")
    /\ messages_lock' = "tg"
    /\ messages' = [messages EXCEPT ![response.chat] = @ + response.count]
    /\ UNCHANGED <<chatboxes, position_set, queue, handlers, inbox, response, dropped>> /\ TgFrame

\* process_get_chat_history, under the messages mutex.
TgStore ==
    /\ messages_lock = "free"
    /\ TgGoto("store", "store_push")
    /\ messages_lock' = "tg"
    /\ messages' = [messages EXCEPT ![response.chat] = IF @ > response.count THEN @ ELSE response.count]
    /\ UNCHANGED <<chatboxes, position_set, queue, handlers, inbox, response, dropped>> /\ TgFrame

\* Mutant of TgStorePush: no redraw is asked for.
TgStoreNoPush ==
    /\ TgGoto("store_push", "store_return")
    /\ UNCHANGED <<queue, locks, position_set, messages, handlers, inbox, response, dropped>> /\ TgFrame

TgStorePush ==
    /\ TgGoto("store_push", "store_return")
    /\ Push("ET_MESSAGES")
    /\ UNCHANGED <<locks, position_set, messages, handlers, inbox, response, dropped>> /\ TgFrame

TgStoreReturn ==
    /\ TgGoto("store_return", "erase")
    /\ messages_lock' = "free"
    /\ UNCHANGED <<chatboxes, position_set, messages, queue, handlers, inbox, response, dropped>> /\ TgFrame

\* Mutant of TgErase: the handler stays.
TgEraseForgotten ==
    /\ TgGoto("erase", "check")
    /\ response' = NoResponse
    /\ UNCHANGED <<locks, position_set, messages, queue, handlers, inbox, dropped>> /\ TgFrame

TgErase ==
    /\ TgGoto("erase", "check")
    /\ handlers' = handlers \ {response.id}
    /\ response' = NoResponse
    /\ UNCHANGED <<locks, position_set, messages, queue, inbox, dropped>> /\ TgFrame

TgStep ==
    \/ TgCheck \/ TgTimeout \/ TgReceive
    \/ TgList \/ TgListPush \/ TgListReturn
    \/ TgFind \/ TgStore \/ TgStorePush \/ TgStoreReturn \/ TgErase
-----------------------------------------------------------------------------
(***************************************************************************)
(* TDLib.                                                                  *)
(***************************************************************************)
TdlibFrame == UNCHANGED <<threads, locks, ui, client, queue, response, dropped>>

SendListUpdate ==
    /\ Len(inbox) < MaxInbox
    /\ inbox' = Append(inbox, ListUpdate)
    /\ UNCHANGED <<asked, sent_messages>> /\ TdlibFrame

NewMessage ==
    /\ \E c \in Chats :
        /\ sent_messages[c] < MaxMessages
        /\ sent_messages' = [sent_messages EXCEPT ![c] = @ + 1]
    /\ UNCHANGED <<asked, inbox>> /\ TdlibFrame

AnswerQuery ==
    /\ Len(inbox) < MaxInbox
    /\ \E q \in DOMAIN asked :
        LET c == asked[q]
            n == IF c \in Chats THEN sent_messages[c] ELSE 0
            kinds == IF c \notin Chats THEN {"error"}
                     ELSE IF n = 0 THEN {"empty", "error"} ELSE {"messages", "error"}
        IN  \E k \in kinds :
                /\ inbox' = Append(inbox, [kind |-> k, id |-> q, chat |-> c, count |-> n])
                /\ asked' = [p \in DOMAIN asked \ {q} |-> asked[p]]
    /\ UNCHANGED sent_messages /\ TdlibFrame

Tdlib == SendListUpdate \/ NewMessage \/ AnswerQuery

Terminated == main = "done" /\ UNCHANGED vars

Next == MainStep \/ TgStep \/ Tdlib \/ Terminated

Spec == Init /\ [][Next]_vars

\* Both threads run; neither is locked out of a mutex for ever; TDLib answers
\* every query (strongly, because the bound on the inbox may hold it up).
Fairness ==
    /\ WF_vars(MainStep)
    /\ SF_vars(Draw) /\ SF_vars(HistoryLock)
    /\ WF_vars(TgStep)
    /\ SF_vars(TgList) /\ SF_vars(TgStore)
    /\ SF_vars(AnswerQuery)

FairSpec == Spec /\ Fairness
-----------------------------------------------------------------------------
\* Types of the variables.
TypeOK ==
    /\ terminating \in BOOLEAN /\ cont \in BOOLEAN
    /\ main \in {"input", "open_pick", "open_draw", "history", "emplace", "send", "key_side",
                 "key_main", "fill_main", "pop", "event_side", "event_main", "join", "done"}
    /\ tg \in {"check", "receive", "list", "list_push", "list_return", "find", "store",
               "store_push", "store_return", "erase", "exited"}
    /\ chatboxes \in Holders /\ messages_lock \in Holders
    /\ row \in Nat
    /\ position_set \subseteq Chats
    /\ messages \in [Openable -> 0 .. MaxMessages]
    /\ chosen \in Openable \cup {NoChat}
    /\ shown \in (Openable \cup {NoChat}) \X (0 .. MaxMessages)
    /\ queue \in Seq({"ET_CHATLIST", "ET_MESSAGES"})
    /\ handlers \subseteq Queries
    /\ DOMAIN asked \subseteq Queries /\ \A q \in DOMAIN asked : asked[q] \in Openable
    /\ next_id \in 0 .. MaxQueries
    /\ inbox \in Seq(Answer \cup {ListUpdate})
    /\ response \in Answer \cup {ListUpdate, NoResponse}
    /\ sent_messages \in [Chats -> 0 .. MaxMessages]
    /\ dropped \subseteq Openable
    /\ lost \subseteq Queries

\* The history of chat c has been asked for and not yet been stored.
Pending(c) ==
    \/ main \in {"open_draw", "history", "emplace", "send"} /\ chosen = c
    \/ \E q \in DOMAIN asked : asked[q] = c
    \/ \E i \in DOMAIN inbox : inbox[i] # ListUpdate /\ inbox[i].chat = c
    \/ tg \in {"find", "store"} /\ response.chat = c

\* The main pane is out of date only while its redraw is on the way: the
\* history of the chosen chat is pending or was not stored, or an ET_MESSAGES
\* waits or is being drawn, or the handler that stored is about to push.
MainPaneExplained ==
    chosen # NoChat /\ shown # <<chosen, messages[chosen]>> =>
        \/ Pending(chosen) \/ chosen \in dropped
        \/ tg = "store_push"
        \/ \E i \in DOMAIN queue : queue[i] = "ET_MESSAGES"
        \/ main = "event_main"

Answered(q) == \E i \in DOMAIN inbox : inbox[i] # ListUpdate /\ inbox[i].id = q

\* handlers_ has an entry for exactly the queries that are under way: no
\* answer comes before its handler is in place and no handler outlives its
\* answer, unless a concurrent search or erase lost the entry.
HandlersMatchQueries ==
    \A q \in Queries :
        q \in handlers \cup lost <=>
            \/ q \in DOMAIN asked \/ Answered(q)
            \/ q \in lost
            \/ main = "send" /\ q = next_id
            \/ tg \in {"find", "store", "store_push", "store_return", "erase"} /\ response.id = q

\* Quitting ends both threads: the tg thread sees the flag and the join
\* returns, whatever is queued, locked or still unanswered.
QuitEndsBoth == ~ cont ~> (main = "done" /\ tg = "exited")

\* The tg thread receives what TDLib sends until the user quits.
ResponsesAreTaken == (inbox # <<>>) ~> (response # NoResponse \/ ~ cont)

\* The chat opened with 'o' is shown in the main pane, unless another one is
\* opened, its history is not stored or the user quits.
OpenedIsShown ==
    \A c \in Chats :
        (chosen = c) ~> (shown[1] = c \/ chosen # c \/ c \in dropped \/ ~ cont)
=============================================================================
