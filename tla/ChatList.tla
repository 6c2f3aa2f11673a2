------------------------------ MODULE ChatList ------------------------------
(***************************************************************************)
(* The chat list: the handlers of src/src/tg.cc that keep id_to_position   *)
(* and position_sets up to date from the updates TDLib sends, and the main *)
(* loop that redraws the list in the side pane.                            *)
(*                                                                         *)
(* The handlers run on one thread, each under the chatboxes mutex; the     *)
(* main loop pops ET_CHATLIST and then takes the mutex in draw_side.  The  *)
(* event queue is one atomic flag here, which EventQueueProofs justifies:  *)
(* push and pop_and_get are atomic and keep one event per type.            *)
(*                                                                         *)
(* The server part (members, orders and what is sent when they change) is  *)
(* TDLib as the handlers rely on it.  Moves says which changes it makes.   *)
(***************************************************************************)
EXTENDS Integers, Sequences, FiniteSets

CONSTANTS Chats,       \* chat identifiers
          Lists,       \* TDLib's chat lists: main, archive, one per folder
          ClassId,     \* the class id of each list: get_id() of the list object
          Current,     \* current_chatlist, the class id of the list on screen
          MaxOrder,    \* orders are 0 .. MaxOrder, 0 meaning "no position"
          MaxInFlight, \* bound on the updates not yet handled
          BornIn,      \* the chat_lists_ that updateNewChat may carry
          Moves        \* the kinds of change the server makes

AllMoves == {"join", "leave", "leave_unplaced", "reorder", "load", "unload",
             "last_message", "leave_with_message", "draft"}

ASSUME ListsAssumption ==
    /\ IsFiniteSet(Lists)
    /\ BornIn \subseteq SUBSET Lists
    /\ Moves \subseteq AllMoves
    /\ Current \in {ClassId[l] : l \in Lists}
    /\ MaxOrder \in Nat
    /\ MaxInFlight \in Nat

Classes == {ClassId[l] : l \in Lists}
Orders == 0 .. MaxOrder
Absent == -1   \* id_to_position has no entry for the chat

ChatPosition == [list : Lists, order : Orders]
Kinds == {"new_chat", "added_to_list", "position", "last_message", "unhandled"}
Update == [kind : Kinds, chat : Chats, lists : SUBSET Lists, positions : Seq(ChatPosition)]

VARIABLES known,          \* server: the chats it has announced
          member,         \* server: the chats in each list
          order,          \* server: the position of each chat in each list
          channel,        \* the updates sent and not yet received
          id_to_chat,     \* the chats with an object
          id_to_position, \* class id -> chat -> order, or Absent
          position_sets,  \* class id -> set of <<order, chat>>
          handler,        \* where the update thread is in its handler
          update,         \* the update it handles
          todo,           \* the positions of that update still to be applied
          chatlist_event, \* an ET_CHATLIST waits in event_queue
          ui,             \* "poll", or "draw": on the way into draw_side
          drawn           \* the list as draw_side last read it

server == <<known, member, order>>
app == <<id_to_chat, id_to_position, position_sets, handler, update, todo>>
screen == <<ui, drawn>>
vars == <<known, member, order, channel, id_to_chat, id_to_position, position_sets,
          handler, update, todo, chatlist_event, ui, drawn>>

NoUpdate == [kind |-> "none"]

Init ==
    /\ known = {}
    /\ member = [l \in Lists |-> {}]
    /\ order = [l \in Lists |-> [c \in Chats |-> 0]]
    /\ channel = <<>>
    /\ id_to_chat = {}
    /\ id_to_position = [k \in Classes |-> [c \in Chats |-> Absent]]
    /\ position_sets = [k \in Classes |-> {}]
    /\ handler = "receive"
    /\ update = NoUpdate
    /\ todo = <<>>
    /\ chatlist_event = FALSE
    /\ ui = "poll"
    /\ drawn = {}
-----------------------------------------------------------------------------
(***************************************************************************)
(* The server.  A change of list or position is announced in one of three  *)
(* ways: by updates of its own, with a new last message, or with a draft.  *)
(***************************************************************************)
NewChat(c, L, ps)  == [kind |-> "new_chat", chat |-> c, lists |-> L, positions |-> ps]
AddedToList(c, l)  == [kind |-> "added_to_list", chat |-> c, lists |-> {l}, positions |-> <<>>]
Position(c, l, o)  == [kind |-> "position", chat |-> c, lists |-> {},
                       positions |-> <<[list |-> l, order |-> o]>>]
LastMessage(c, ps) == [kind |-> "last_message", chat |-> c, lists |-> {}, positions |-> ps]
\* updateChatRemovedFromList and updateChatDraftMessage, which process_update
\* passes to its empty default.
Unhandled(c)       == [kind |-> "unhandled", chat |-> c, lists |-> {}, positions |-> <<>>]

Send(us) ==
    /\ Len(channel) + Len(us) <= MaxInFlight
    /\ channel' = channel \o us

\* The ways to put the elements of S one after the other.
Listings(S) == {s \in [1 .. Cardinality(S) -> S] : \A x \in S : \E i \in DOMAIN s : s[i] = x}

\* The positions an object carries: TDLib leaves those of order 0 out.
Placed(f) == {[list |-> l, order |-> f[l]] : l \in {x \in Lists : f[x] # 0}}

ListsOf(c) == {l \in Lists : c \in member[l]}
OrdersOf(c) == [l \in Lists |-> order[l][c]]

\* Chat c is now in the lists L, at the orders f.
Move(c, L, f) ==
    /\ \A l \in Lists : f[l] # 0 => l \in L
    /\ member' = [l \in Lists |-> IF l \in L THEN member[l] \cup {c} ELSE member[l] \ {c}]
    /\ order' = [l \in Lists |-> [order[l] EXCEPT ![c] = f[l]]]

\* The updates for the lists that chat c joins and leaves by moving to the
\* lists L, in any order.
ListUpdates(c, L) ==
    {[i \in DOMAIN s |-> IF s[i] \in L THEN AddedToList(c, s[i]) ELSE Unhandled(c)] :
        s \in Listings((L \ ListsOf(c)) \cup (ListsOf(c) \ L))}

ServerStep == UNCHANGED <<app, chatlist_event, screen>>

SendNewChat(c) ==
    /\ c \notin known
    /\ known' = known \cup {c}
    /\ \E L \in BornIn, f \in [Lists -> Orders] :
        /\ Move(c, L, f)
        /\ \E ps \in Listings(Placed(f)) : Send(<<NewChat(c, L, ps)>>)
    /\ ServerStep

Join(c, l, o) ==
    /\ "join" \in Moves
    /\ c \in known /\ c \notin member[l]
    /\ Move(c, ListsOf(c) \cup {l}, [OrdersOf(c) EXCEPT ![l] = o])
    /\ Send(<<AddedToList(c, l)>> \o IF o = 0 THEN <<>> ELSE <<Position(c, l, o)>>)
    /\ UNCHANGED known
    /\ ServerStep

Leave(c, l) ==
    /\ c \in member[l]
    /\ Move(c, ListsOf(c) \ {l}, [OrdersOf(c) EXCEPT ![l] = 0])
    /\ \/ /\ "leave" \in Moves /\ order[l][c] # 0
          /\ Send(<<Unhandled(c), Position(c, l, 0)>>)
       \/ /\ "leave_unplaced" \in Moves /\ order[l][c] = 0
          /\ Send(<<Unhandled(c)>>)
    /\ UNCHANGED known
    /\ ServerStep

\* A new position in a list the chat stays in.
Reorder(c, l, o) ==
    /\ c \in member[l] /\ o # order[l][c]
    /\ \/ "reorder" \in Moves /\ order[l][c] # 0 /\ o # 0
       \/ "load" \in Moves /\ order[l][c] = 0
       \/ "unload" \in Moves /\ o = 0
    /\ Move(c, ListsOf(c), [OrdersOf(c) EXCEPT ![l] = o])
    /\ Send(<<Position(c, l, o)>>)
    /\ UNCHANGED known
    /\ ServerStep

\* A new last message, with the positions it leads to.  A list that the chat
\* leaves with it, as a group that is deactivated does, is not among them.
Message(c) ==
    /\ "last_message" \in Moves
    /\ c \in known
    /\ \E L \in SUBSET Lists, f \in [Lists -> Orders] :
        /\ "leave_with_message" \in Moves \/ ListsOf(c) \subseteq L
        /\ Move(c, L, f)
        /\ \E us \in ListUpdates(c, L), ps \in Listings(Placed(f)) :
            Send(us \o <<LastMessage(c, ps)>>)
    /\ UNCHANGED known
    /\ ServerStep

\* A new draft: the positions it leads to are in the draft update only.
Draft(c) ==
    /\ "draft" \in Moves
    /\ c \in known
    /\ \E L \in SUBSET Lists, f \in [Lists -> Orders] :
        /\ Move(c, L, f)
        /\ \E us \in ListUpdates(c, L) : Send(us \o <<Unhandled(c)>>)
    /\ UNCHANGED known
    /\ ServerStep

Server ==
    \E c \in Chats :
        \/ SendNewChat(c)
        \/ \E l \in Lists, o \in Orders : Join(c, l, o)
        \/ \E l \in Lists : Leave(c, l)
        \/ \E l \in Lists, o \in Orders : Reorder(c, l, o)
        \/ Message(c)
        \/ Draft(c)
-----------------------------------------------------------------------------
(***************************************************************************)
(* The update thread.  From its lock_guard to the end of the handler it    *)
(* holds the chatboxes mutex.                                              *)
(***************************************************************************)
\* Mutant of ChatboxesFree: draw_side does not take the mutex.
ChatboxesIgnored == TRUE

ChatboxesFree == handler = "receive"

Receive(kind) ==
    /\ handler = "receive"
    /\ channel # <<>> /\ Head(channel).kind = kind
    /\ channel' = Tail(channel)
    /\ UNCHANGED <<server, id_to_chat, chatlist_event, screen>>

\* Lock the mutex and start on the update at the head of the channel.
StartHandler(kind) ==
    /\ Receive(kind)
    /\ update' = Head(channel)
    /\ todo' = Head(channel).positions
    /\ handler' = "positions"

\* Mutant of AddToLists: the pair is made the other way round.
AddToListsSwapped(c, L) ==
    LET ks == {ClassId[l] : l \in L}
    IN  /\ id_to_position' = [k \in Classes |->
              IF k \in ks THEN [id_to_position[k] EXCEPT ![c] = 0] ELSE id_to_position[k]]
        /\ position_sets' = [k \in Classes |->
              IF k \in ks THEN position_sets[k] \cup {<<c, 0>>} ELSE position_sets[k]]

\* The chat enters each of the lists at order 0.
AddToLists(c, L) ==
    LET ks == {ClassId[l] : l \in L}
    IN  /\ id_to_position' = [k \in Classes |->
              IF k \in ks THEN [id_to_position[k] EXCEPT ![c] = 0] ELSE id_to_position[k]]
        /\ position_sets' = [k \in Classes |->
              IF k \in ks THEN position_sets[k] \cup {<<0, c>>} ELSE position_sets[k]]

process_update_new_chat ==
    /\ StartHandler("new_chat")
    /\ AddToLists(Head(channel).chat, Head(channel).lists)

process_update_chat_added_to_list ==
    /\ StartHandler("added_to_list")
    /\ AddToLists(Head(channel).chat, Head(channel).lists)

process_update_chat_position ==
    /\ StartHandler("position")
    /\ UNCHANGED <<id_to_position, position_sets>>

\* Mutant of process_update_chat_last_message: the positions are not applied.
last_message_only ==
    /\ Receive("last_message")
    /\ update' = Head(channel)
    /\ todo' = <<>>
    /\ handler' = "positions"
    /\ UNCHANGED <<id_to_position, position_sets>>

process_update_chat_last_message ==
    /\ StartHandler("last_message")
    /\ UNCHANGED <<id_to_position, position_sets>>

process_update_default ==
    /\ Receive("unhandled")
    /\ UNCHANGED <<id_to_position, position_sets, handler, update, todo>>

\* Mutant of _update_position: the new pair goes in before the old one is erased.
insert_then_erase(c, k, o) ==
    LET old == id_to_position[k][c]
    IN  IF old = Absent
        THEN UNCHANGED <<id_to_position, position_sets>>
        ELSE /\ id_to_position' = [id_to_position EXCEPT ![k][c] = IF o = 0 THEN Absent ELSE o]
             /\ position_sets' = [position_sets EXCEPT ![k] =
                   (@ \cup (IF o = 0 THEN {} ELSE {<<o, c>>})) \ {<<old, c>>}]

\* Mutant of _update_position: the old pair is not erased.
insert_only(c, k, o) ==
    IF id_to_position[k][c] = Absent
    THEN UNCHANGED <<id_to_position, position_sets>>
    ELSE /\ id_to_position' = [id_to_position EXCEPT ![k][c] = IF o = 0 THEN Absent ELSE o]
         /\ position_sets' = [position_sets EXCEPT ![k] =
               @ \cup (IF o = 0 THEN {} ELSE {<<o, c>>})]

\* Mutant of _update_position: order 0 is stored like any other order.
keep_at_zero(c, k, o) ==
    LET old == id_to_position[k][c]
    IN  IF old = Absent
        THEN UNCHANGED <<id_to_position, position_sets>>
        ELSE /\ id_to_position' = [id_to_position EXCEPT ![k][c] = o]
             /\ position_sets' = [position_sets EXCEPT ![k] = (@ \ {<<old, c>>}) \cup {<<o, c>>}]

\* A position counts only for a chat the list already has, and order 0 takes
\* the chat out of it.
_update_position(c, k, o) ==
    LET old == id_to_position[k][c]
    IN  IF old = Absent
        THEN UNCHANGED <<id_to_position, position_sets>>
        ELSE /\ id_to_position' = [id_to_position EXCEPT ![k][c] = IF o = 0 THEN Absent ELSE o]
             /\ position_sets' = [position_sets EXCEPT ![k] =
                   (@ \ {<<old, c>>}) \cup (IF o = 0 THEN {} ELSE {<<o, c>>})]

ApplyPosition ==
    /\ handler = "positions" /\ todo # <<>>
    /\ _update_position(update.chat, ClassId[Head(todo).list], Head(todo).order)
    /\ todo' = Tail(todo)
    /\ UNCHANGED <<server, channel, id_to_chat, handler, update, chatlist_event, screen>>

\* Mutant of PushChatlist: a position update asks for no redraw.
PushUnlessPosition ==
    /\ handler = "positions" /\ todo = <<>>
    /\ chatlist_event' = (chatlist_event \/ update.kind # "position")
    /\ handler' = "pushed"
    /\ UNCHANGED <<server, channel, id_to_chat, id_to_position, position_sets, update, todo, screen>>

PushChatlist ==
    /\ handler = "positions" /\ todo = <<>>
    /\ chatlist_event' = TRUE
    /\ handler' = "pushed"
    /\ UNCHANGED <<server, channel, id_to_chat, id_to_position, position_sets, update, todo, screen>>

\* The object of a new chat is stored after the redraw has been asked for.
Return ==
    /\ handler = "pushed"
    /\ id_to_chat' = IF update.kind = "new_chat" THEN id_to_chat \cup {update.chat} ELSE id_to_chat
    /\ handler' = "receive"
    /\ update' = NoUpdate
    /\ UNCHANGED <<server, channel, id_to_position, position_sets, todo, chatlist_event, screen>>

Handle ==
    \/ process_update_new_chat
    \/ process_update_chat_added_to_list
    \/ process_update_chat_position
    \/ process_update_chat_last_message
    \/ process_update_default

Finish == ApplyPosition \/ PushChatlist \/ Return
-----------------------------------------------------------------------------
(***************************************************************************)
(* The main loop.                                                          *)
(***************************************************************************)
\* Mutant of PopChatlist: the event is popped and not acted on.
PopWithoutDraw ==
    /\ ui = "poll" /\ chatlist_event
    /\ chatlist_event' = FALSE
    /\ UNCHANGED <<server, channel, app, screen>>

PopChatlist ==
    /\ ui = "poll" /\ chatlist_event
    /\ chatlist_event' = FALSE
    /\ ui' = "draw"
    /\ UNCHANGED <<server, channel, app, drawn>>

\* A key or a resize that redraws the side pane on its own account.
KeyRedraw ==
    /\ ui = "poll"
    /\ ui' = "draw"
    /\ UNCHANGED <<server, channel, app, chatlist_event, drawn>>

draw_side ==
    /\ ui = "draw" /\ ChatboxesFree
    /\ drawn' = position_sets[Current]
    /\ ui' = "poll"
    /\ UNCHANGED <<server, channel, app, chatlist_event>>

Next == Server \/ Handle \/ Finish \/ PopChatlist \/ KeyRedraw \/ draw_side

Spec == Init /\ [][Next]_vars

\* Handlers return, the main loop polls the queue again and again, and it is
\* not locked out of the chatboxes mutex for ever.
Fairness ==
    /\ WF_vars(Handle)
    /\ WF_vars(Finish)
    /\ SF_vars(PopChatlist)
    /\ SF_vars(draw_side)

FairSpec == Spec /\ Fairness
-----------------------------------------------------------------------------
\* Types of the variables.
TypeOK ==
    /\ known \subseteq Chats
    /\ member \in [Lists -> SUBSET Chats]
    /\ order \in [Lists -> [Chats -> Orders]]
    /\ channel \in Seq(Update)
    /\ id_to_chat \subseteq Chats
    /\ id_to_position \in [Classes -> [Chats -> Orders \cup {Absent}]]
    /\ position_sets \in [Classes -> SUBSET (Orders \X Chats)]
    /\ handler \in {"receive", "positions", "pushed"}
    /\ update \in Update \cup {NoUpdate}
    /\ todo \in Seq(ChatPosition)
    /\ chatlist_event \in BOOLEAN
    /\ ui \in {"poll", "draw"}
    /\ drawn \subseteq Orders \X Chats

\* Whatever TDLib sends and in whatever order, the position recorded for a
\* chat is in the sorted set: the next _update_position erases what it means
\* to erase.
MapWithinSet ==
    \A k \in Classes, c \in Chats :
        id_to_position[k][c] # Absent => <<id_to_position[k][c], c>> \in position_sets[k]

\* No null chat is dereferenced: a chat that draw_side finds in a list has an
\* object, though the handler asks for the redraw before it stores the object,
\* and so has the chat whose last message is replaced.
NoNullChat ==
    /\ ui = "draw" /\ ChatboxesFree => \A p \in position_sets[Current] : p[2] \in id_to_chat
    /\ handler = "positions" /\ update.kind = "last_message" => update.chat \in id_to_chat

\* No redraw is lost: when the side pane does not show the list, an
\* ET_CHATLIST waits, or the main loop is on its way into draw_side, or the
\* handler that changed the list has yet to push.
NoLostRefresh ==
    drawn # position_sets[Current] =>
        chatlist_event \/ ui = "draw" \/ handler = "positions"

\* The sorted set holds each chat once, at the order the map has for it.
OnePosition ==
    \A k \in Classes : \A p \in position_sets[k] : id_to_position[k][p[2]] = p[1]

Drained == channel = <<>> /\ handler = "receive"

\* Once its updates are handled, the server's positions are the client's.
PositionsFollowed ==
    Drained => \A l \in Lists, c \in Chats :
        order[l][c] # 0 => id_to_position[ClassId[l]][c] = order[l][c]

\* Once its updates are handled, a chat that left a list is not in it.
NoGhost ==
    Drained => \A l \in Lists, c \in Chats :
        id_to_position[ClassId[l]][c] # Absent => c \in member[l]

\* A list that has changed is redrawn, however busy the update thread is.
ListIsRedrawn ==
    (drawn # position_sets[Current]) ~> (drawn = position_sets[Current])
-----------------------------------------------------------------------------
(***************************************************************************)
(* What makes NoNullChat inductive: updateNewChat comes before every other *)
(* update about its chat, in the channel and across the handler that is    *)
(* running.                                                                *)
(***************************************************************************)
Storing(c) == handler # "receive" /\ update.kind = "new_chat" /\ update.chat = c

Announced(c, n) ==
    \/ c \in id_to_chat
    \/ Storing(c)
    \/ \E j \in DOMAIN channel : j < n /\ channel[j].kind = "new_chat" /\ channel[j].chat = c

ServerInv ==
    /\ \A l \in Lists : member[l] \subseteq known
    /\ \A c \in known : Announced(c, Len(channel) + 1)

ChannelInv ==
    \A i \in DOMAIN channel :
        channel[i].kind # "new_chat" => Announced(channel[i].chat, i)

HandlerInv ==
    handler # "receive" =>
        /\ update \in Update
        /\ update.kind # "new_chat" => update.chat \in id_to_chat

ListedInv ==
    \A k \in Classes : \A p \in position_sets[k] : p[2] \in id_to_chat \/ Storing(p[2])

IInv ==
    TypeOK /\ MapWithinSet /\ NoLostRefresh /\ ServerInv /\ ChannelInv /\ HandlerInv /\ ListedInv
=============================================================================
