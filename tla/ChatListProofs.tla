--------------------------- MODULE ChatListProofs ---------------------------
(***************************************************************************)
(* For every set of chats and lists, every class id of a list and every    *)
(* kind of change the server may make: the map of positions stays within   *)
(* the sorted sets, no null chat is dereferenced and no redraw is lost.    *)
(*                                                                         *)
(* For lists with class ids of their own and the changes the client is     *)
(* told of: each chat is in a sorted set once, and the client's positions  *)
(* are the server's when no update is on its way.                          *)
(***************************************************************************)
EXTENDS ChatList, FiniteSetTheorems, SequenceFacts

LEMMA ListingsType ==
    ASSUME NEW S, IsFiniteSet(S), NEW s \in Listings(S)
    PROVE  s \in Seq(S)
  <1>1. Cardinality(S) \in Nat
    BY FS_CardinalityType
  <1>2. s \in [1 .. Cardinality(S) -> S]
    BY DEF Listings
  <1> QED
    BY <1>1, <1>2, SeqDef

LEMMA PlacedType ==
    ASSUME NEW f \in [Lists -> Orders], NEW ps \in Listings(Placed(f))
    PROVE  ps \in Seq(ChatPosition)
  <1> DEFINE D == {x \in Lists : f[x] # 0}
             g == [l \in D |-> [list |-> l, order |-> f[l]]]
  <1>1. IsFiniteSet(D)
    BY ListsAssumption, FS_Subset
  <1>2. g \in Surjection(D, Placed(f))
    BY DEF Placed, Surjection
  <1>3. IsFiniteSet(Placed(f))
    <2> HIDE DEF g, D
    <2> QED BY <1>1, <1>2, FS_Surjection
  <1>4. Placed(f) \subseteq ChatPosition
    BY DEF Placed, ChatPosition
  <1> QED
    BY <1>3, <1>4, ListingsType, SeqMonotonic

LEMMA SingletonUpdates ==
    ASSUME NEW c \in Chats
    PROVE  /\ \A l \in Lists, o \in Orders : Position(c, l, o) \in Update
           /\ \A l \in Lists : AddedToList(c, l) \in Update
           /\ \A ps \in Seq(ChatPosition) : LastMessage(c, ps) \in Update
           /\ Unhandled(c) \in Update
           /\ \A L \in SUBSET Lists, ps \in Seq(ChatPosition) : NewChat(c, L, ps) \in Update
  <1>1. <<>> \in Seq(ChatPosition)
    BY EmptySeq
  <1>2. \A l \in Lists, o \in Orders : <<[list |-> l, order |-> o]>> \in Seq(ChatPosition)
    BY DEF ChatPosition
  <1> QED
    BY <1>1, <1>2 DEF Position, AddedToList, LastMessage, Unhandled, NewChat, Update, Kinds

\* Updates about chat c, none of which announces it.
About(c, us) ==
    /\ us \in Seq(Update)
    /\ \A i \in DOMAIN us : us[i].kind # "new_chat" /\ us[i].chat = c

LEMMA AboutOne ==
    ASSUME NEW c, NEW u \in Update, u.kind # "new_chat", u.chat = c
    PROVE  About(c, <<u>>)
  BY DEF About

LEMMA AboutTwo ==
    ASSUME NEW c, NEW u \in Update, NEW v \in Update,
           u.kind # "new_chat", u.chat = c, v.kind # "new_chat", v.chat = c
    PROVE  About(c, <<u, v>>)
  BY DEF About

LEMMA AboutConcat ==
    ASSUME NEW c, NEW s, NEW r, About(c, s), About(c, r)
    PROVE  About(c, s \o r)
  <1>1. s \in Seq(Update) /\ r \in Seq(Update)
    BY DEF About
  <1>2. ASSUME NEW i \in DOMAIN (s \o r)
        PROVE  (s \o r)[i].kind # "new_chat" /\ (s \o r)[i].chat = c
    <2>1. i \in 1 .. Len(s) \/ (i \in Len(s) + 1 .. Len(s) + Len(r) /\ i - Len(s) \in DOMAIN r)
      BY <1>1, <1>2, ConcatFacts
    <2>2. CASE i \in 1 .. Len(s)
      BY <1>1, <2>2, ConcatFacts DEF About
    <2>3. CASE i \in Len(s) + 1 .. Len(s) + Len(r) /\ i - Len(s) \in DOMAIN r
      BY <1>1, <2>3, ConcatFacts DEF About
    <2> QED BY <2>1, <2>2, <2>3
  <1> QED
    BY <1>1, <1>2, ConcatFacts DEF About

\* The updates that the server sends about a chat it has announced.
LEMMA AboutFacts ==
    ASSUME NEW c \in Chats
    PROVE  /\ \A l \in Lists, o \in Orders : About(c, <<Position(c, l, o)>>)
           /\ \A l \in Lists : About(c, <<AddedToList(c, l)>>)
           /\ \A ps \in Seq(ChatPosition) : About(c, <<LastMessage(c, ps)>>)
           /\ About(c, <<Unhandled(c)>>)
           /\ About(c, <<>>)
  <1>1. /\ \A l \in Lists, o \in Orders : Position(c, l, o).kind # "new_chat" /\ Position(c, l, o).chat = c
        /\ \A l \in Lists : AddedToList(c, l).kind # "new_chat" /\ AddedToList(c, l).chat = c
        /\ \A ps \in Seq(ChatPosition) : LastMessage(c, ps).kind # "new_chat" /\ LastMessage(c, ps).chat = c
        /\ Unhandled(c).kind # "new_chat" /\ Unhandled(c).chat = c
    BY DEF Position, AddedToList, LastMessage, Unhandled
  <1>2. About(c, <<>>)
    BY EmptySeq, LenProperties DEF About
  <1> QED
    BY <1>1, <1>2, AboutOne, SingletonUpdates

LEMMA ListUpdatesType ==
    ASSUME NEW c \in Chats, NEW L \in SUBSET Lists, NEW us \in ListUpdates(c, L)
    PROVE  About(c, us)
  <1> DEFINE S == (L \ ListsOf(c)) \cup (ListsOf(c) \ L)
             U(l) == IF l \in L THEN AddedToList(c, l) ELSE Unhandled(c)
  <1>1. PICK s \in Listings(S) : us = [i \in DOMAIN s |-> U(s[i])]
    BY DEF ListUpdates
  <1>2. IsFiniteSet(S) /\ S \subseteq Lists
    BY ListsAssumption, FS_Subset DEF ListsOf
  <1>3. \A l \in Lists : U(l) \in Update /\ U(l).kind # "new_chat" /\ U(l).chat = c
    BY EmptySeq DEF AddedToList, Unhandled, Update, Kinds
  <1> HIDE DEF S, U
  <1>4. s \in Seq(S)
    BY <1>2, ListingsType
  <1>5. Len(s) \in Nat /\ DOMAIN s = 1 .. Len(s) /\ \A i \in 1 .. Len(s) : s[i] \in Lists
    BY <1>2, <1>4, LenProperties, ElementOfSeq
  <1>6. us \in [1 .. Len(s) -> Update]
    BY <1>1, <1>3, <1>5
  <1>7. us \in Seq(Update)
    BY <1>5, <1>6, SeqDef
  <1> QED
    BY <1>1, <1>3, <1>5, <1>7 DEF About
-----------------------------------------------------------------------------
LEMMA InitIInv == Init => IInv
  <1> SUFFICES ASSUME Init PROVE IInv
    OBVIOUS
  <1>1. /\ channel \in Seq(Update) /\ DOMAIN channel = {} /\ Len(channel) = 0
        /\ todo \in Seq(ChatPosition)
    BY EmptySeq, LenProperties DEF Init
  <1>2. 0 \in Orders /\ Current \in Classes
    BY ListsAssumption DEF Orders, Classes
  <1>3. TypeOK
    BY <1>1, <1>2 DEF Init, TypeOK
  <1>4. MapWithinSet /\ NoLostRefresh
    BY <1>2 DEF Init, MapWithinSet, NoLostRefresh
  <1>5. ServerInv /\ ChannelInv /\ HandlerInv /\ ListedInv
    BY <1>1 DEF Init, ServerInv, ChannelInv, HandlerInv, ListedInv
  <1> QED
    BY <1>3, <1>4, <1>5 DEF IInv

\* Announced(c, n) in the next state, for a c and an n of this one.
AnnouncedAfter(c, n) ==
    \/ c \in id_to_chat'
    \/ handler' # "receive" /\ update'.kind = "new_chat" /\ update'.chat = c
    \/ \E j \in DOMAIN channel' : j < n /\ channel'[j].kind = "new_chat" /\ channel'[j].chat = c

\* The invariants of the channel and the server, in those terms.
LEMMA AfterFacts ==
    /\ ChannelInv' <=> \A i \in DOMAIN channel' :
                         channel'[i].kind # "new_chat" => AnnouncedAfter(channel'[i].chat, i)
    /\ ServerInv' <=> /\ \A l \in Lists : member'[l] \subseteq known'
                      /\ \A c \in known' : AnnouncedAfter(c, Len(channel') + 1)
  BY DEF ChannelInv, ServerInv, Announced, AnnouncedAfter, Storing

\* What a chat's announcement means once more updates have been sent.
LEMMA SendFacts ==
    ASSUME IInv, NEW us \in Seq(Update), Send(us), UNCHANGED app
    PROVE  /\ channel' \in Seq(Update)
           /\ Len(channel') = Len(channel) + Len(us)
           /\ Len(channel) \in Nat /\ Len(us) \in Nat
           /\ DOMAIN channel = 1 .. Len(channel)
           /\ DOMAIN us = 1 .. Len(us)
           /\ DOMAIN channel' = 1 .. Len(channel) + Len(us)
           /\ \A i \in 1 .. Len(channel) : channel'[i] = channel[i]
           /\ \A i \in Len(channel) + 1 .. Len(channel) + Len(us) :
                 channel'[i] = us[i - Len(channel)] /\ i - Len(channel) \in DOMAIN us
           /\ \A c \in Chats, n \in Nat, m \in Nat :
                 n <= m /\ Announced(c, n) => AnnouncedAfter(c, m)
  <1>1. channel \in Seq(Update) /\ channel' = channel \o us
    BY DEF IInv, TypeOK, Send
  <1>2. /\ channel' \in Seq(Update)
        /\ Len(channel') = Len(channel) + Len(us)
        /\ Len(channel) \in Nat /\ Len(us) \in Nat
        /\ DOMAIN channel = 1 .. Len(channel)
        /\ DOMAIN us = 1 .. Len(us)
        /\ DOMAIN channel' = 1 .. Len(channel) + Len(us)
        /\ \A i \in 1 .. Len(channel) : channel'[i] = channel[i]
        /\ \A i \in Len(channel) + 1 .. Len(channel) + Len(us) : channel'[i] = us[i - Len(channel)]
    BY <1>1, ConcatFacts
  <1>3. \A i \in Len(channel) + 1 .. Len(channel) + Len(us) : i - Len(channel) \in DOMAIN us
    BY <1>2
  <1>4. ASSUME NEW c \in Chats, NEW n \in Nat, NEW m \in Nat, n <= m, Announced(c, n)
        PROVE  AnnouncedAfter(c, m)
    <2>1. CASE c \in id_to_chat \/ Storing(c)
      BY <2>1 DEF AnnouncedAfter, Storing, app
    <2>2. ASSUME NEW j \in DOMAIN channel, j < n, channel[j].kind = "new_chat", channel[j].chat = c
          PROVE  AnnouncedAfter(c, m)
      <3>1. j \in DOMAIN channel' /\ j < m /\ channel'[j] = channel[j]
        BY <1>2, <1>4, <2>2
      <3> QED
        BY <2>2, <3>1 DEF AnnouncedAfter
    <2> QED
      BY <1>4, <2>1, <2>2 DEF Announced
  <1> QED
    BY <1>2, <1>3, <1>4

\* The parts of the invariant that no change of the server touches.
LEMMA ServerFrame ==
    ASSUME IInv, ServerStep
    PROVE  MapWithinSet' /\ NoLostRefresh' /\ HandlerInv' /\ ListedInv'
  BY DEF IInv, ServerStep, app, screen, MapWithinSet, NoLostRefresh, HandlerInv, ListedInv, Storing

\* A chat the server has announced changes its lists or positions.
LEMMA ServerMove ==
    ASSUME IInv, NEW c \in known,
           NEW L \in SUBSET Lists, NEW f \in [Lists -> Orders], Move(c, L, f),
           NEW us, About(c, us), Send(us),
           UNCHANGED known, ServerStep
    PROVE  IInv'
  <1>0. /\ c \in Chats /\ UNCHANGED app
        /\ channel \in Seq(Update) /\ us \in Seq(Update)
        /\ \A i \in DOMAIN us : us[i].kind # "new_chat" /\ us[i].chat = c
    BY DEF IInv, TypeOK, ServerStep, About
  <1>1. member' \in [Lists -> SUBSET Chats] /\ order' \in [Lists -> [Chats -> Orders]]
    BY <1>0 DEF IInv, TypeOK, Move
  <1>2. TypeOK'
    BY <1>0, <1>1, SendFacts DEF IInv, TypeOK, ServerStep, app, screen
  <1>3. ServerInv'
    <2>1. \A l \in Lists : member'[l] \subseteq known
      BY DEF IInv, ServerInv, Move
    <2>2. ASSUME NEW d \in known PROVE AnnouncedAfter(d, Len(channel') + 1)
      <3>1. Announced(d, Len(channel) + 1) /\ d \in Chats
        BY DEF IInv, ServerInv, TypeOK
      <3>2. /\ Len(channel) + 1 \in Nat /\ Len(channel') + 1 \in Nat
            /\ Len(channel) + 1 <= Len(channel') + 1
        BY <1>0, SendFacts
      <3> QED
        BY <1>0, <3>1, <3>2, SendFacts
    <2> QED
      BY <2>1, <2>2, AfterFacts
  <1>4. ChannelInv'
    <2> SUFFICES ASSUME NEW i \in DOMAIN channel', channel'[i].kind # "new_chat"
                 PROVE  AnnouncedAfter(channel'[i].chat, i)
      BY AfterFacts
    <2>1. i \in Nat /\ (i \in 1 .. Len(channel) \/ i \in Len(channel) + 1 .. Len(channel) + Len(us))
      BY <1>0, SendFacts
    <2>2. CASE i \in 1 .. Len(channel)
      <3>1. channel'[i] = channel[i] /\ i \in DOMAIN channel
        BY <1>0, <2>2, SendFacts
      <3>a. channel[i] \in Update
        BY <1>0, <3>1, ElementOfSeq, LenProperties
      <3>2. Announced(channel[i].chat, i) /\ channel[i].chat \in Chats
        BY <3>a, <3>1 DEF IInv, ChannelInv, Update
      <3> QED
        BY <1>0, <2>1, <3>1, <3>2, SendFacts
    <2>3. CASE i \in Len(channel) + 1 .. Len(channel) + Len(us)
      <3>1. channel'[i].chat = c
        BY <1>0, <2>3, SendFacts
      <3>2. Announced(c, Len(channel) + 1)
        BY DEF IInv, ServerInv
      <3>3. Len(channel) + 1 \in Nat /\ Len(channel) + 1 <= i
        BY <1>0, <2>3, SendFacts
      <3> QED
        BY <1>0, <2>1, <3>1, <3>2, <3>3, SendFacts
    <2> QED
      BY <2>1, <2>2, <2>3
  <1> QED
    BY <1>2, <1>3, <1>4, ServerFrame DEF IInv

\* A chat is announced: the update about it is the last in the channel.
LEMMA ServerNewChat ==
    ASSUME IInv, NEW c \in Chats, SendNewChat(c)
    PROVE  IInv'
  <1>0. UNCHANGED app /\ ServerStep /\ channel \in Seq(Update) /\ known' = known \cup {c}
    BY DEF IInv, TypeOK, SendNewChat, ServerStep
  <1>1. PICK L \in BornIn, f \in [Lists -> Orders] :
            Move(c, L, f) /\ \E ps \in Listings(Placed(f)) : Send(<<NewChat(c, L, ps)>>)
    BY DEF SendNewChat
  <1>2. PICK ps \in Listings(Placed(f)) : Send(<<NewChat(c, L, ps)>>)
    BY <1>1
  <1> DEFINE us == <<NewChat(c, L, ps)>>
  <1>3. L \in SUBSET Lists /\ ps \in Seq(ChatPosition)
    BY ListsAssumption, PlacedType
  <1>4. /\ us \in Seq(Update) /\ Len(us) = 1
        /\ us[1].kind = "new_chat" /\ us[1].chat = c
    BY <1>3, SingletonUpdates DEF NewChat
  <1>5. Send(us)
    BY <1>2
  <1> HIDE DEF us
  <1>6. /\ Len(channel') = Len(channel) + 1
        /\ channel'[Len(channel) + 1] = us[1]
        /\ Len(channel) + 1 \in DOMAIN channel'
        /\ Len(channel) \in Nat
    <2>1. /\ Len(channel) \in Nat /\ Len(channel') = Len(channel) + Len(us)
          /\ DOMAIN channel' = 1 .. Len(channel) + Len(us)
          /\ \A i \in Len(channel) + 1 .. Len(channel) + Len(us) : channel'[i] = us[i - Len(channel)]
      BY <1>0, <1>4, <1>5, SendFacts
    <2>2. (Len(channel) + 1) - Len(channel) = 1
      BY <2>1
    <2>3. Len(channel) + 1 \in Len(channel) + 1 .. Len(channel) + Len(us)
      BY <1>4, <2>1
    <2> QED
      BY <1>4, <2>1, <2>2, <2>3
  <1>7. TypeOK'
    <2>1. member' \in [Lists -> SUBSET Chats] /\ order' \in [Lists -> [Chats -> Orders]]
      BY <1>1 DEF IInv, TypeOK, Move
    <2> QED
      BY <1>0, <1>4, <1>5, <2>1, SendFacts DEF IInv, TypeOK, ServerStep, app, screen
  <1>8. ServerInv'
    <2>1. \A l \in Lists : member'[l] \subseteq known'
      BY <1>0, <1>1 DEF IInv, ServerInv, Move
    <2>2. AnnouncedAfter(c, Len(channel') + 1)
      BY <1>4, <1>6 DEF AnnouncedAfter
    <2>3. ASSUME NEW d \in known PROVE AnnouncedAfter(d, Len(channel') + 1)
      <3>1. Announced(d, Len(channel) + 1) /\ d \in Chats
        BY DEF IInv, ServerInv, TypeOK
      <3>2. /\ Len(channel) + 1 \in Nat /\ Len(channel') + 1 \in Nat
            /\ Len(channel) + 1 <= Len(channel') + 1
        BY <1>6
      <3> QED
        BY <1>0, <1>4, <1>5, <3>1, <3>2, SendFacts
    <2> QED
      BY <1>0, <2>1, <2>2, <2>3, AfterFacts
  <1>9. ChannelInv'
    <2> SUFFICES ASSUME NEW i \in DOMAIN channel', channel'[i].kind # "new_chat"
                 PROVE  AnnouncedAfter(channel'[i].chat, i)
      BY AfterFacts
    <2>1. i \in 1 .. Len(channel) /\ i \in Nat
      BY <1>0, <1>4, <1>5, <1>6, SendFacts
    <2>2. channel'[i] = channel[i] /\ i \in DOMAIN channel
      BY <1>0, <1>4, <1>5, <2>1, SendFacts
    <2>a. channel[i] \in Update
      BY <1>0, <2>2, ElementOfSeq, LenProperties
    <2>3. Announced(channel[i].chat, i) /\ channel[i].chat \in Chats
      BY <2>a, <2>2 DEF IInv, ChannelInv, Update
    <2> QED
      BY <1>0, <1>4, <1>5, <2>1, <2>2, <2>3, SendFacts
  <1> QED
    BY <1>0, <1>7, <1>8, <1>9, ServerFrame DEF IInv

LEMMA ServerIInv == IInv /\ Server => IInv'
  <1> SUFFICES ASSUME IInv, Server PROVE IInv'
    OBVIOUS
  <1>0. \A c \in Chats : OrdersOf(c) \in [Lists -> Orders] /\ ListsOf(c) \in SUBSET Lists
    BY DEF IInv, TypeOK, OrdersOf, ListsOf
  <1>1. ASSUME NEW c \in Chats, NEW l \in Lists, NEW o \in Orders, Join(c, l, o) PROVE IInv'
    <2> DEFINE ps == IF o = 0 THEN <<>> ELSE <<Position(c, l, o)>>
               us == <<AddedToList(c, l)>> \o ps
    <2>1. About(c, us)
      <3>1. About(c, ps) /\ About(c, <<AddedToList(c, l)>>)
        BY AboutFacts
      <3> HIDE DEF ps
      <3> QED
        BY <3>1, AboutConcat
    <2>2. /\ c \in known /\ Send(us) /\ UNCHANGED known /\ ServerStep
          /\ Move(c, ListsOf(c) \cup {l}, [OrdersOf(c) EXCEPT ![l] = o])
      BY <1>1 DEF Join
    <2>3. ListsOf(c) \cup {l} \in SUBSET Lists /\ [OrdersOf(c) EXCEPT ![l] = o] \in [Lists -> Orders]
      BY <1>0
    <2> HIDE DEF us
    <2> QED
      BY <2>1, <2>2, <2>3, ServerMove
  <1>2. ASSUME NEW c \in Chats, NEW l \in Lists, Leave(c, l) PROVE IInv'
    <2>0. 0 \in Orders
      BY ListsAssumption DEF Orders
    <2>1. /\ c \in known /\ UNCHANGED known /\ ServerStep
          /\ Move(c, ListsOf(c) \ {l}, [OrdersOf(c) EXCEPT ![l] = 0])
      BY <1>2 DEF Leave, IInv, ServerInv
    <2>2. \E us : About(c, us) /\ Send(us)
      <3>1. CASE Send(<<Unhandled(c), Position(c, l, 0)>>)
        <4>1. /\ Unhandled(c).kind # "new_chat" /\ Unhandled(c).chat = c
              /\ Position(c, l, 0).kind # "new_chat" /\ Position(c, l, 0).chat = c
          BY DEF Unhandled, Position
        <4>2. About(c, <<Unhandled(c), Position(c, l, 0)>>)
          BY <2>0, <4>1, SingletonUpdates, AboutTwo
        <4> QED
          BY <3>1, <4>2
      <3>2. CASE Send(<<Unhandled(c)>>)
        BY <3>2, AboutFacts
      <3> QED
        BY <1>2, <3>1, <3>2 DEF Leave
    <2>3. ListsOf(c) \ {l} \in SUBSET Lists /\ [OrdersOf(c) EXCEPT ![l] = 0] \in [Lists -> Orders]
      BY <1>0, <2>0
    <2> QED
      BY <2>1, <2>2, <2>3, ServerMove
  <1>3. ASSUME NEW c \in Chats, NEW l \in Lists, NEW o \in Orders, Reorder(c, l, o) PROVE IInv'
    <2> DEFINE us == <<Position(c, l, o)>>
    <2>1. About(c, us)
      BY AboutFacts
    <2>2. /\ c \in known /\ Send(us) /\ UNCHANGED known /\ ServerStep
          /\ Move(c, ListsOf(c), [OrdersOf(c) EXCEPT ![l] = o])
      BY <1>3 DEF Reorder, IInv, ServerInv
    <2>3. [OrdersOf(c) EXCEPT ![l] = o] \in [Lists -> Orders]
      BY <1>0
    <2> HIDE DEF us
    <2> QED
      BY <1>0, <2>1, <2>2, <2>3, ServerMove
  <1>4. ASSUME NEW c \in Chats, Message(c) PROVE IInv'
    <2>1. PICK L \in SUBSET Lists, f \in [Lists -> Orders] :
              /\ Move(c, L, f)
              /\ \E us \in ListUpdates(c, L), ps \in Listings(Placed(f)) :
                    Send(us \o <<LastMessage(c, ps)>>)
      BY <1>4 DEF Message
    <2>2. PICK js \in ListUpdates(c, L), ps \in Listings(Placed(f)) :
              Send(js \o <<LastMessage(c, ps)>>)
      BY <2>1
    <2> DEFINE r == <<LastMessage(c, ps)>>
    <2>3. About(c, r)
      BY PlacedType, AboutFacts
    <2>4. Send(js \o r)
      BY <2>2
    <2> HIDE DEF r
    <2>5. About(c, js \o r)
      BY <2>3, ListUpdatesType, AboutConcat
    <2>6. c \in known /\ UNCHANGED known /\ ServerStep
      BY <1>4 DEF Message
    <2> QED
      BY <2>1, <2>4, <2>5, <2>6, ServerMove
  <1>5. ASSUME NEW c \in Chats, Draft(c) PROVE IInv'
    <2>1. PICK L \in SUBSET Lists, f \in [Lists -> Orders] :
              Move(c, L, f) /\ \E us \in ListUpdates(c, L) : Send(us \o <<Unhandled(c)>>)
      BY <1>5 DEF Draft
    <2>2. PICK js \in ListUpdates(c, L) : Send(js \o <<Unhandled(c)>>)
      BY <2>1
    <2> DEFINE r == <<Unhandled(c)>>
    <2>3. About(c, r)
      BY AboutFacts
    <2>4. Send(js \o r)
      BY <2>2
    <2> HIDE DEF r
    <2>5. About(c, js \o r)
      BY <2>3, ListUpdatesType, AboutConcat
    <2>6. c \in known /\ UNCHANGED known /\ ServerStep
      BY <1>5 DEF Draft
    <2> QED
      BY <2>1, <2>4, <2>5, <2>6, ServerMove
  <1> QED
    BY <1>1, <1>2, <1>3, <1>4, <1>5, ServerNewChat DEF Server
-----------------------------------------------------------------------------
\* The update at the head of the channel moves into the handler, or, when the
\* handler drops it, is one that announces nothing.
LEMMA ReceiveFacts ==
    ASSUME IInv, handler = "receive", channel # <<>>, channel' = Tail(channel),
           UNCHANGED <<server, id_to_chat>>,
           \/ handler' = "positions" /\ update' = Head(channel)
           \/ UNCHANGED handler /\ Head(channel).kind # "new_chat"
    PROVE  /\ channel' \in Seq(Update)
           /\ Head(channel) \in Update
           /\ Head(channel).kind # "new_chat" => Head(channel).chat \in id_to_chat
           /\ ServerInv' /\ ChannelInv'
  <1> DEFINE u == Head(channel)
  <1>0. channel \in Seq(Update)
    BY DEF IInv, TypeOK
  <1>1. /\ channel' \in Seq(Update) /\ u \in Update
        /\ Len(channel) \in Nat \ {0}
        /\ DOMAIN channel = 1 .. Len(channel)
        /\ Len(channel') = Len(channel) - 1
        /\ DOMAIN channel' = 1 .. Len(channel) - 1
        /\ \A i \in 1 .. Len(channel) - 1 : channel'[i] = channel[i + 1]
        /\ u = channel[1]
    BY <1>0, TailFacts
  <1>2. ASSUME NEW c \in Chats, NEW n \in Nat, n >= 1, Announced(c, n + 1)
        PROVE  AnnouncedAfter(c, n)
    <2>1. CASE c \in id_to_chat
      BY <2>1 DEF AnnouncedAfter
    <2>2. ASSUME NEW j \in DOMAIN channel, j < n + 1, channel[j].kind = "new_chat", channel[j].chat = c
          PROVE  AnnouncedAfter(c, n)
      <3>1. CASE j = 1
        BY <1>1, <2>2, <3>1 DEF AnnouncedAfter
      <3>2. CASE j # 1
        <4>1. /\ j - 1 \in DOMAIN channel' /\ j - 1 < n
              /\ channel'[j - 1] = channel[(j - 1) + 1] /\ (j - 1) + 1 = j
          BY <1>1, <1>2, <2>2, <3>2
        <4> QED
          BY <2>2, <4>1 DEF AnnouncedAfter
      <3> QED BY <3>1, <3>2
    <2> QED
      BY <1>2, <2>1, <2>2 DEF Announced, Storing
  <1>3. u.kind # "new_chat" => u.chat \in id_to_chat
    <2> SUFFICES ASSUME u.kind # "new_chat" PROVE u.chat \in id_to_chat
      OBVIOUS
    <2>1. Announced(u.chat, 1)
      BY <1>1 DEF IInv, ChannelInv
    <2> QED
      BY <1>1, <2>1 DEF Announced, Storing
  <1>4. ServerInv'
    <2>1. \A l \in Lists : member'[l] \subseteq known'
      BY DEF IInv, ServerInv, server
    <2>2. ASSUME NEW c \in known' PROVE AnnouncedAfter(c, Len(channel') + 1)
      <3>1. c \in Chats /\ Announced(c, Len(channel) + 1)
        BY <2>2 DEF IInv, TypeOK, ServerInv, server
      <3>2. Len(channel) \in Nat /\ Len(channel) >= 1 /\ Len(channel') + 1 = Len(channel)
        BY <1>1
      <3> QED
        BY <1>2, <3>1, <3>2
    <2> QED
      BY <2>1, <2>2, AfterFacts
  <1>5. ChannelInv'
    <2> SUFFICES ASSUME NEW i \in DOMAIN channel', channel'[i].kind # "new_chat"
                 PROVE  AnnouncedAfter(channel'[i].chat, i)
      BY AfterFacts
    <2>1. /\ i \in Nat /\ i >= 1 /\ i + 1 \in DOMAIN channel
          /\ channel'[i] = channel[i + 1]
      BY <1>1
    <2>2. channel[i + 1] \in Update
      BY <1>0, <2>1, ElementOfSeq, LenProperties
    <2>3. channel[i + 1].chat \in Chats
      BY <2>2 DEF Update
    <2>4. Announced(channel[i + 1].chat, i + 1)
      BY <2>1 DEF IInv, ChannelInv
    <2> QED
      BY <1>2, <2>1, <2>3, <2>4
  <1> QED
    BY <1>1, <1>3, <1>4, <1>5

\* A chat enters lists at order 0.
LEMMA AddToListsFacts ==
    ASSUME IInv, NEW c \in Chats, NEW L \in SUBSET Lists, AddToLists(c, L)
    PROVE  /\ id_to_position' \in [Classes -> [Chats -> Orders \cup {Absent}]]
           /\ position_sets' \in [Classes -> SUBSET (Orders \X Chats)]
           /\ MapWithinSet'
           /\ \A k \in Classes : \A p \in position_sets'[k] : p \in position_sets[k] \/ p[2] = c
  <1> DEFINE ks == {ClassId[l] : l \in L}
  <1>0. 0 \in Orders
    BY ListsAssumption DEF Orders
  <1>1. /\ id_to_position' = [k \in Classes |->
              IF k \in ks THEN [id_to_position[k] EXCEPT ![c] = 0] ELSE id_to_position[k]]
        /\ position_sets' = [k \in Classes |->
              IF k \in ks THEN position_sets[k] \cup {<<0, c>>} ELSE position_sets[k]]
    BY DEF AddToLists
  <1> HIDE DEF ks
  <1>2. /\ id_to_position' \in [Classes -> [Chats -> Orders \cup {Absent}]]
        /\ position_sets' \in [Classes -> SUBSET (Orders \X Chats)]
    BY <1>0, <1>1 DEF IInv, TypeOK
  <1>3. MapWithinSet'
    <2> SUFFICES ASSUME NEW k \in Classes, NEW d \in Chats, id_to_position'[k][d] # Absent
                 PROVE  <<id_to_position'[k][d], d>> \in position_sets'[k]
      BY DEF MapWithinSet
    <2>1. CASE k \in ks /\ d = c
      BY <1>1, <2>1 DEF IInv, TypeOK
    <2>2. CASE ~ (k \in ks /\ d = c)
      <3>1. id_to_position'[k][d] = id_to_position[k][d] /\ position_sets[k] \subseteq position_sets'[k]
        BY <1>1, <2>2 DEF IInv, TypeOK
      <3> QED
        BY <3>1 DEF IInv, MapWithinSet
    <2> QED BY <2>1, <2>2
  <1>4. \A k \in Classes : \A p \in position_sets'[k] : p \in position_sets[k] \/ p[2] = c
    BY <1>1
  <1> QED
    BY <1>2, <1>3, <1>4

LEMMA HandleIInv == IInv /\ Handle => IInv'
  <1> SUFFICES ASSUME IInv, Handle PROVE IInv'
    OBVIOUS
  <1> DEFINE u == Head(channel)
  <1>1. ASSUME StartHandler("new_chat") \/ StartHandler("added_to_list"),
               AddToLists(u.chat, u.lists)
        PROVE  IInv'
    <2>0. /\ handler = "receive" /\ handler' = "positions" /\ update' = u
          /\ channel # <<>> /\ channel' = Tail(channel) /\ todo' = u.positions
          /\ UNCHANGED <<server, id_to_chat, chatlist_event, screen>>
      BY <1>1 DEF StartHandler, Receive
    <2>1. /\ channel' \in Seq(Update) /\ u \in Update
          /\ u.kind # "new_chat" => u.chat \in id_to_chat
          /\ ServerInv' /\ ChannelInv'
      BY <2>0, ReceiveFacts
    <2>2. /\ u.chat \in Chats /\ u.lists \in SUBSET Lists /\ u.positions \in Seq(ChatPosition)
      BY <2>1 DEF Update
    <2>3. /\ id_to_position' \in [Classes -> [Chats -> Orders \cup {Absent}]]
          /\ position_sets' \in [Classes -> SUBSET (Orders \X Chats)]
          /\ MapWithinSet'
          /\ \A k \in Classes : \A p \in position_sets'[k] : p \in position_sets[k] \/ p[2] = u.chat
      BY <1>1, <2>2, AddToListsFacts
    <2>4. TypeOK'
      BY <2>0, <2>1, <2>2, <2>3 DEF IInv, TypeOK, server, screen
    <2>5. NoLostRefresh' /\ HandlerInv'
      BY <2>0, <2>1 DEF NoLostRefresh, HandlerInv
    <2>6. ListedInv'
      BY <2>0, <2>1, <2>3 DEF IInv, ListedInv, Storing
    <2> QED
      BY <2>1, <2>3, <2>4, <2>5, <2>6 DEF IInv
  <1>2. ASSUME StartHandler("position") \/ StartHandler("last_message"),
               UNCHANGED <<id_to_position, position_sets>>
        PROVE  IInv'
    <2>0. /\ handler = "receive" /\ handler' = "positions" /\ update' = u
          /\ channel # <<>> /\ channel' = Tail(channel) /\ todo' = u.positions
          /\ UNCHANGED <<server, id_to_chat, chatlist_event, screen>>
          /\ u.kind # "new_chat"
      BY <1>2 DEF StartHandler, Receive
    <2>1. /\ channel' \in Seq(Update) /\ u \in Update
          /\ u.kind # "new_chat" => u.chat \in id_to_chat
          /\ ServerInv' /\ ChannelInv'
      BY <2>0, ReceiveFacts
    <2>2. u.positions \in Seq(ChatPosition)
      BY <2>1 DEF Update
    <2>3. TypeOK'
      BY <1>2, <2>0, <2>1, <2>2 DEF IInv, TypeOK, server, screen
    <2>4. MapWithinSet' /\ NoLostRefresh' /\ HandlerInv'
      BY <1>2, <2>0, <2>1 DEF IInv, MapWithinSet, NoLostRefresh, HandlerInv
    <2>5. ListedInv'
      BY <1>2, <2>0 DEF IInv, ListedInv, Storing
    <2> QED
      BY <2>1, <2>3, <2>4, <2>5 DEF IInv
  <1>3. ASSUME process_update_default PROVE IInv'
    <2>0. /\ handler = "receive" /\ channel # <<>> /\ channel' = Tail(channel)
          /\ UNCHANGED <<server, id_to_chat, chatlist_event, screen>>
          /\ UNCHANGED <<id_to_position, position_sets, handler, update, todo>>
          /\ u.kind # "new_chat"
      BY <1>3 DEF process_update_default, Receive
    <2>1. channel' \in Seq(Update) /\ ServerInv' /\ ChannelInv'
      BY <2>0, ReceiveFacts
    <2>2. TypeOK'
      BY <2>0, <2>1 DEF IInv, TypeOK, server, screen
    <2>3. MapWithinSet' /\ NoLostRefresh' /\ HandlerInv' /\ ListedInv'
      BY <2>0 DEF IInv, MapWithinSet, NoLostRefresh, HandlerInv, ListedInv, Storing, screen
    <2> QED
      BY <2>1, <2>2, <2>3 DEF IInv
  <1> QED
    BY <1>1, <1>2, <1>3 DEF Handle, process_update_new_chat, process_update_chat_added_to_list,
        process_update_chat_position, process_update_chat_last_message

LEMMA ApplyIInv == IInv /\ ApplyPosition => IInv'
  <1> SUFFICES ASSUME IInv, ApplyPosition PROVE IInv'
    OBVIOUS
  <1> DEFINE c == update.chat
             k == ClassId[Head(todo).list]
             o == Head(todo).order
             old == id_to_position[k][c]
  <1>0. /\ handler = "positions" /\ todo # <<>> /\ todo' = Tail(todo)
        /\ UNCHANGED <<server, channel, id_to_chat, handler, update, chatlist_event, screen>>
        /\ _update_position(c, k, o)
    BY DEF ApplyPosition
  <1>1. todo' \in Seq(ChatPosition) /\ Head(todo) \in ChatPosition
    BY <1>0, TailFacts DEF IInv, TypeOK
  <1>2. c \in Chats /\ k \in Classes /\ o \in Orders
    BY <1>0, <1>1 DEF IInv, HandlerInv, Update, ChatPosition, Classes
  <1>3. /\ id_to_position \in [Classes -> [Chats -> Orders \cup {Absent}]]
        /\ position_sets \in [Classes -> SUBSET (Orders \X Chats)]
    BY DEF IInv, TypeOK
  <1> HIDE DEF c, k, o
  <1>4. ServerInv' /\ ChannelInv' /\ HandlerInv'
    BY <1>0 DEF IInv, ServerInv, ChannelInv, HandlerInv, Announced, Storing, server
  <1>5. NoLostRefresh'
    BY <1>0 DEF NoLostRefresh
  <1>6. CASE old = Absent
    <2>1. UNCHANGED <<id_to_position, position_sets>>
      BY <1>0, <1>6 DEF _update_position
    <2>2. TypeOK' /\ MapWithinSet' /\ ListedInv'
      BY <1>0, <1>1, <2>1 DEF IInv, TypeOK, MapWithinSet, ListedInv, Storing, server, screen
    <2> QED
      BY <1>4, <1>5, <2>2 DEF IInv
  <1>7. CASE old # Absent
    <2> DEFINE new == IF o = 0 THEN Absent ELSE o
               S == (position_sets[k] \ {<<old, c>>}) \cup (IF o = 0 THEN {} ELSE {<<o, c>>})
    <2>1. /\ id_to_position' = [id_to_position EXCEPT ![k][c] = new]
          /\ position_sets' = [position_sets EXCEPT ![k] = S]
      BY <1>0, <1>7 DEF _update_position
    <2>2. new \in Orders \cup {Absent} /\ S \subseteq Orders \X Chats
      BY <1>2, <1>3
    <2>3. /\ id_to_position' \in [Classes -> [Chats -> Orders \cup {Absent}]]
          /\ position_sets' \in [Classes -> SUBSET (Orders \X Chats)]
      <3> HIDE DEF new, S
      <3> QED BY <1>2, <1>3, <2>1, <2>2
    <2>4. TypeOK'
      BY <1>0, <1>1, <2>3 DEF IInv, TypeOK, server, screen
    <2>5. MapWithinSet'
      <3> SUFFICES ASSUME NEW j \in Classes, NEW d \in Chats, id_to_position'[j][d] # Absent
                   PROVE  <<id_to_position'[j][d], d>> \in position_sets'[j]
        BY DEF MapWithinSet
      <3>1. CASE j # k
        BY <1>2, <1>3, <2>1, <3>1 DEF IInv, MapWithinSet
      <3>2. CASE j = k /\ d # c
        <4>1. id_to_position'[j][d] = id_to_position[j][d] /\ position_sets'[j] = S
          BY <1>2, <1>3, <2>1, <3>2
        <4>2. <<id_to_position[k][d], d>> \in position_sets[k]
          BY <3>2, <4>1 DEF IInv, MapWithinSet
        <4> QED
          BY <3>2, <4>1, <4>2
      <3>3. CASE j = k /\ d = c
        <4>1. id_to_position'[j][d] = new /\ position_sets'[j] = S
          BY <1>2, <1>3, <2>1, <3>3
        <4> QED
          BY <3>3, <4>1
      <3> QED BY <3>1, <3>2, <3>3
    <2>6. c \in id_to_chat \/ Storing(c)
      <3>1. <<old, c>> \in position_sets[k]
        BY <1>2, <1>7 DEF IInv, MapWithinSet
      <3> QED
        BY <1>2, <3>1 DEF IInv, ListedInv
    <2>7. ListedInv'
      <3> SUFFICES ASSUME NEW j \in Classes, NEW p \in position_sets'[j]
                   PROVE  p[2] \in id_to_chat \/ Storing(p[2])
        BY <1>0 DEF ListedInv, Storing
      <3>1. p \in position_sets[j] \/ p[2] = c
        BY <1>2, <1>3, <2>1
      <3> QED
        BY <2>6, <3>1 DEF IInv, ListedInv
    <2> QED
      BY <1>4, <1>5, <2>4, <2>5, <2>7 DEF IInv
  <1> QED
    BY <1>6, <1>7

LEMMA NextIInv == IInv /\ [Next]_vars => IInv'
  <1> SUFFICES ASSUME IInv, [Next]_vars PROVE IInv'
    OBVIOUS
  <1>1. ASSUME PushChatlist PROVE IInv'
    <2>1. TypeOK' /\ MapWithinSet' /\ NoLostRefresh'
      BY <1>1 DEF PushChatlist, IInv, TypeOK, MapWithinSet, NoLostRefresh, server, screen
    <2>2. ServerInv' /\ ChannelInv' /\ HandlerInv' /\ ListedInv'
      BY <1>1 DEF PushChatlist, IInv, ServerInv, ChannelInv, HandlerInv, ListedInv,
                  Announced, Storing, server
    <2> QED
      BY <2>1, <2>2 DEF IInv
  <1>2. ASSUME Return PROVE IInv'
    <2>0. /\ handler = "pushed" /\ handler' = "receive" /\ update' = NoUpdate
          /\ id_to_chat' = IF update.kind = "new_chat" THEN id_to_chat \cup {update.chat} ELSE id_to_chat
          /\ UNCHANGED <<server, channel, id_to_position, position_sets, todo, chatlist_event, screen>>
          /\ update \in Update /\ update.chat \in Chats
      BY <1>2 DEF Return, IInv, HandlerInv, Update
    <2>1. \A c : c \in id_to_chat \/ Storing(c) => c \in id_to_chat'
      BY <2>0 DEF Storing
    <2>2. TypeOK'
      BY <2>0 DEF IInv, TypeOK, server, screen
    <2>3. MapWithinSet' /\ HandlerInv'
      BY <2>0 DEF IInv, MapWithinSet, HandlerInv
    <2>4. NoLostRefresh'
      BY <2>0 DEF IInv, NoLostRefresh, screen
    <2>5. \A c, n : Announced(c, n) => AnnouncedAfter(c, n)
      BY <2>0, <2>1 DEF Announced, AnnouncedAfter
    <2>6. ServerInv' /\ ChannelInv'
      BY <2>0, <2>5, AfterFacts DEF IInv, ServerInv, ChannelInv, server
    <2>7. ListedInv'
      BY <2>0, <2>1 DEF IInv, ListedInv
    <2> QED
      BY <2>2, <2>3, <2>4, <2>6, <2>7 DEF IInv
  <1>3. ASSUME PopChatlist \/ KeyRedraw PROVE IInv'
    <2>1. TypeOK' /\ MapWithinSet' /\ NoLostRefresh'
      BY <1>3 DEF PopChatlist, KeyRedraw, IInv, TypeOK, MapWithinSet, NoLostRefresh, server, app
    <2>2. ServerInv' /\ ChannelInv' /\ HandlerInv' /\ ListedInv'
      BY <1>3 DEF PopChatlist, KeyRedraw, IInv, ServerInv, ChannelInv, HandlerInv, ListedInv,
                  Announced, Storing, server, app
    <2> QED
      BY <2>1, <2>2 DEF IInv
  <1>4. ASSUME draw_side PROVE IInv'
    <2>0. Current \in Classes
      BY ListsAssumption DEF Classes
    <2>1. TypeOK' /\ MapWithinSet' /\ NoLostRefresh'
      BY <1>4, <2>0 DEF draw_side, IInv, TypeOK, MapWithinSet, NoLostRefresh, server, app
    <2>2. ServerInv' /\ ChannelInv' /\ HandlerInv' /\ ListedInv'
      BY <1>4 DEF draw_side, IInv, ServerInv, ChannelInv, HandlerInv, ListedInv,
                  Announced, Storing, server, app
    <2> QED
      BY <2>1, <2>2 DEF IInv
  <1>5. ASSUME UNCHANGED vars PROVE IInv'
    BY <1>5 DEF vars, IInv, TypeOK, MapWithinSet, NoLostRefresh, ServerInv, ChannelInv,
                HandlerInv, ListedInv, Announced, Storing
  <1> QED
    BY <1>1, <1>2, <1>3, <1>4, <1>5, ServerIInv, HandleIInv, ApplyIInv DEF Next, Finish

LEMMA Inductive == Spec => []IInv
  BY InitIInv, NextIInv, PTL DEF Spec

\* The handlers keep every variable of the chat list within its type,
\* whatever updates TDLib sends.
THEOREM TypeCorrect == Spec => []TypeOK
  <1>1. IInv => TypeOK
    BY DEF IInv
  <1> QED
    BY <1>1, Inductive, PTL

\* The order recorded for a chat in id_to_position is in position_sets, for
\* any chats, lists and class ids and any updates.
THEOREM MapAlwaysWithinSet == Spec => []MapWithinSet
  <1>1. IInv => MapWithinSet
    BY DEF IInv
  <1> QED
    BY <1>1, Inductive, PTL

\* draw_side and process_update_chat_last_message find an object for every
\* chat they dereference, for any number of chats and updates in flight.
THEOREM NeverNullChat == Spec => []NoNullChat
  <1>1. IInv => NoNullChat
    <2> SUFFICES ASSUME IInv PROVE NoNullChat
      OBVIOUS
    <2>1. ASSUME ui = "draw", ChatboxesFree, NEW p \in position_sets[Current]
          PROVE  p[2] \in id_to_chat
      BY <2>1, ListsAssumption DEF IInv, ListedInv, Storing, ChatboxesFree, Classes
    <2>2. ASSUME handler = "positions", update.kind = "last_message"
          PROVE  update.chat \in id_to_chat
      BY <2>2 DEF IInv, HandlerInv
    <2> QED
      BY <2>1, <2>2 DEF NoNullChat
  <1> QED
    BY <1>1, Inductive, PTL

\* Every change of the list on screen has its ET_CHATLIST, however the pushes
\* of the handlers and the pops of the main loop interleave.
THEOREM NeverLostRefresh == Spec => []NoLostRefresh
  <1>1. IInv => NoLostRefresh
    BY DEF IInv
  <1> QED
    BY <1>1, Inductive, PTL
-----------------------------------------------------------------------------
(***************************************************************************)
(* What the updates on their way mean for one chat in one list.  A is the  *)
(* set of their numbers that add the chat to the list, G[o] of those that  *)
(* set its order to o; p is the order the client has, mem and ord what the *)
(* server has.  The running update has number 0, those in the channel have *)
(* their place in it.                                                      *)
(***************************************************************************)
\* The chat enters only a list it is out of: between two entries, and between
\* an entry and the server's word that it is out, there is an order 0.
Leaves(A, G, p, mem) ==
    /\ \A i, j \in A : i < j => \E m \in G[0] : i < m /\ m < j
    /\ p # Absent => \A i \in A : \E m \in G[0] : m < i
    /\ ~ mem => \A i \in A : \E m \in G[0] : i < m
    /\ ~ mem /\ p # Absent => G[0] # {}

\* The chat gets an order only in a list it is in.
Enters(A, G, p, mem) ==
    /\ \A o \in Orders \ {0} : \A j \in G[o] :
        /\ \A i \in G[0] : i <= j => \E m \in A : i < m /\ m <= j
        /\ p = Absent => \E m \in A : m <= j
    /\ mem => \A i \in G[0] : \E m \in A : i < m
    /\ mem /\ p = Absent => A # {}

\* The order the server has is the last one the client will hear of.
Agrees(A, G, p, ord) ==
    ord # 0 =>
        /\ \A o \in Orders \ {ord} : \A i \in G[o] : \E m \in G[ord] : i < m
        /\ \A i \in A : \E m \in G[ord] : i <= m
        /\ p # ord => G[ord] # {}

\* The next update is received: every number is one less, and a chat that it
\* adds is at order 0.
LEMMA Shifted ==
    ASSUME NEW A \in SUBSET (Nat \ {0}), NEW G \in [Orders -> SUBSET (Nat \ {0})], NEW p, NEW mem,
           NEW ord \in Orders,
           NEW A1, A1 = {i \in Nat \ {0} : i + 1 \in A},
           NEW G1, G1 = [o \in Orders |-> {i \in Nat : i + 1 \in G[o]}],
           NEW p1, p1 = IF 1 \in A THEN 0 ELSE p
    PROVE  /\ Leaves(A, G, p, mem) => Leaves(A1, G1, p1, mem)
           /\ Enters(A, G, p, mem) => Enters(A1, G1, p1, mem)
           /\ Agrees(A, G, p, ord) => Agrees(A1, G1, p1, ord)
  <1>0. 0 \in Orders /\ Absent # 0
    BY ListsAssumption DEF Orders, Absent
  <1>1. /\ \A i \in A1 : i \in Nat /\ i >= 1 /\ i + 1 \in A
        /\ \A i \in A : i # 1 => i - 1 \in A1 /\ (i - 1) + 1 = i
        /\ \A i \in A : i \in Nat /\ i >= 1
    OBVIOUS
  <1>2. /\ \A o \in Orders : \A i \in G1[o] : i \in Nat /\ i + 1 \in G[o]
        /\ \A o \in Orders : \A i \in G[o] : i - 1 \in G1[o] /\ i \in Nat /\ i >= 1
    OBVIOUS
  <1>3. p1 = IF 1 \in A THEN 0 ELSE p
    OBVIOUS
  <1> HIDE DEF Absent
  <1>4. ASSUME Leaves(A, G, p, mem) PROVE Leaves(A1, G1, p1, mem)
    <2>1. ASSUME NEW i \in A1, NEW j \in A1, i < j PROVE \E m \in G1[0] : i < m /\ m < j
      <3>1. i + 1 \in A /\ j + 1 \in A /\ i + 1 < j + 1 /\ i \in Nat /\ j \in Nat
        BY <1>1, <2>1
      <3>2. PICK m \in G[0] : i + 1 < m /\ m < j + 1
        BY <1>4, <3>1 DEF Leaves
      <3> QED
        BY <1>0, <1>2, <3>1, <3>2
    <2>2. ASSUME p1 # Absent, NEW i \in A1 PROVE \E m \in G1[0] : m < i
      <3>1. i + 1 \in A /\ i \in Nat /\ 1 < i + 1
        BY <1>1, <2>2
      <3>2. PICK m \in G[0] : m < i + 1
        BY <1>3, <1>4, <2>2, <3>1 DEF Leaves
      <3> QED
        BY <1>0, <1>2, <3>1, <3>2
    <2>3. ASSUME ~ mem, NEW i \in A1 PROVE \E m \in G1[0] : i < m
      <3>1. i + 1 \in A /\ i \in Nat
        BY <1>1, <2>3
      <3>2. PICK m \in G[0] : i + 1 < m
        BY <1>4, <2>3, <3>1 DEF Leaves
      <3> QED
        BY <1>0, <1>2, <3>1, <3>2
    <2>4. ASSUME ~ mem, p1 # Absent PROVE G1[0] # {}
      <3>1. G[0] # {}
        BY <1>3, <1>4, <2>4 DEF Leaves
      <3> QED
        BY <1>0, <1>2, <3>1
    <2> QED
      BY <2>1, <2>2, <2>3, <2>4 DEF Leaves
  <1>5. ASSUME Enters(A, G, p, mem) PROVE Enters(A1, G1, p1, mem)
    <2>1. ASSUME NEW o \in Orders \ {0}, NEW j \in G1[o], NEW i \in G1[0], i <= j
          PROVE  \E m \in A1 : i < m /\ m <= j
      <3>1. i \in Nat /\ j \in Nat /\ i + 1 \in G[0] /\ j + 1 \in G[o] /\ i + 1 <= j + 1
        BY <1>0, <1>2, <2>1
      <3>2. PICK m \in A : i + 1 < m /\ m <= j + 1
        BY <1>5, <3>1 DEF Enters
      <3> QED
        BY <1>1, <3>1, <3>2
    <2>2. ASSUME NEW o \in Orders \ {0}, NEW j \in G1[o], p1 = Absent
          PROVE  \E m \in A1 : m <= j
      <3>1. j \in Nat /\ j + 1 \in G[o] /\ 1 \notin A /\ p = Absent
        BY <1>0, <1>2, <1>3, <2>2
      <3>2. PICK m \in A : m <= j + 1
        BY <1>5, <3>1 DEF Enters
      <3> QED
        BY <1>1, <3>1, <3>2
    <2>3. ASSUME mem, NEW i \in G1[0] PROVE \E m \in A1 : i < m
      <3>1. i \in Nat /\ i + 1 \in G[0]
        BY <1>0, <1>2
      <3>2. PICK m \in A : i + 1 < m
        BY <1>5, <2>3, <3>1 DEF Enters
      <3> QED
        BY <1>1, <3>1, <3>2
    <2>4. ASSUME mem, p1 = Absent PROVE A1 # {}
      <3>1. 1 \notin A /\ A # {}
        BY <1>0, <1>3, <1>5, <2>4 DEF Enters
      <3> QED
        BY <1>1, <3>1
    <2> QED
      BY <2>1, <2>2, <2>3, <2>4 DEF Enters
  <1>6. ASSUME Agrees(A, G, p, ord) PROVE Agrees(A1, G1, p1, ord)
    <2> SUFFICES ASSUME ord # 0
                 PROVE  /\ \A o \in Orders \ {ord} : \A i \in G1[o] : \E m \in G1[ord] : i < m
                        /\ \A i \in A1 : \E m \in G1[ord] : i <= m
                        /\ p1 # ord => G1[ord] # {}
      BY DEF Agrees
    <2>1. ASSUME NEW o \in Orders \ {ord}, NEW i \in G1[o] PROVE \E m \in G1[ord] : i < m
      <3>1. i \in Nat /\ i + 1 \in G[o]
        BY <1>2
      <3>2. PICK m \in G[ord] : i + 1 < m
        BY <1>6, <3>1 DEF Agrees
      <3> QED
        BY <1>2, <3>1, <3>2
    <2>2. ASSUME NEW i \in A1 PROVE \E m \in G1[ord] : i <= m
      <3>1. i \in Nat /\ i + 1 \in A
        BY <1>1
      <3>2. PICK m \in G[ord] : i + 1 <= m
        BY <1>6, <3>1 DEF Agrees
      <3> QED
        BY <1>2, <3>1, <3>2
    <2>3. ASSUME p1 # ord PROVE G1[ord] # {}
      <3>1. G[ord] # {}
        BY <1>3, <1>6, <2>3 DEF Agrees
      <3> QED
        BY <1>2, <3>1
    <2> QED
      BY <2>1, <2>2, <2>3
  <1> QED
    BY <1>4, <1>5, <1>6

\* The running update sets the order to x.
LEMMA Applied ==
    ASSUME NEW A \in SUBSET (Nat \ {0}), NEW G \in [Orders -> SUBSET Nat], NEW p, NEW mem,
           NEW ord \in Orders, NEW x \in Orders, 0 \in G[x],
           NEW G1 \in [Orders -> SUBSET Nat],
           \A o \in Orders : G1[o] \subseteq G[o] /\ G[o] \ {0} \subseteq G1[o],
           \A o \in Orders \ {x} : G1[o] = G[o],
           NEW p1, p1 = IF p = Absent \/ x = 0 THEN Absent ELSE x
    PROVE  /\ Leaves(A, G, p, mem) => Leaves(A, G1, p1, mem)
           /\ Enters(A, G, p, mem) => Enters(A, G1, p1, mem)
           /\ Enters(A, G, p, mem) /\ Agrees(A, G, p, ord) => Agrees(A, G1, p1, ord)
  <1>0. 0 \in Orders /\ Absent # 0 /\ x # Absent
    BY ListsAssumption DEF Orders, Absent
  <1>1. \A i \in A : i \in Nat /\ i >= 1
    OBVIOUS
  <1>2. \A o \in Orders : \A i \in G[o] : i \in Nat /\ (i # 0 => i \in G1[o])
    OBVIOUS
  <1> HIDE DEF Absent
  <1>3. ASSUME Leaves(A, G, p, mem) PROVE Leaves(A, G1, p1, mem)
    <2>1. \A i, j \in A : i < j => \E m \in G1[0] : i < m /\ m < j
      BY <1>0, <1>1, <1>2, <1>3 DEF Leaves
    <2>2. ~ mem => \A i \in A : \E m \in G1[0] : i < m
      BY <1>0, <1>1, <1>2, <1>3 DEF Leaves
    <2>3. p1 # Absent => p # Absent /\ G1[0] = G[0]
      BY <1>0
    <2> QED
      BY <1>3, <2>1, <2>2, <2>3 DEF Leaves
  <1>4. ASSUME Enters(A, G, p, mem) PROVE Enters(A, G1, p1, mem)
    <2>1. \A o \in Orders \ {0} : \A j \in G1[o] : \A i \in G1[0] : i <= j => \E m \in A : i < m /\ m <= j
      BY <1>0, <1>4 DEF Enters
    <2>2. mem => \A i \in G1[0] : \E m \in A : i < m
      BY <1>0, <1>4 DEF Enters
    <2>3. CASE x = 0
      <3>1. ASSUME NEW o \in Orders \ {0}, NEW j \in G1[o] PROVE \E m \in A : m <= j
        <4>1. j \in G[o] /\ 0 <= j /\ 0 \in G[0]
          BY <1>2, <2>3, <3>1
        <4> QED
          BY <1>4, <4>1 DEF Enters
      <3>2. mem => A # {}
        BY <1>4, <2>3 DEF Enters
      <3> QED
        BY <2>1, <2>2, <3>1, <3>2 DEF Enters
    <2>4. CASE x # 0
      <3>1. p1 = Absent => p = Absent
        BY <1>0, <2>4
      <3>2. \A o \in Orders : G1[o] \subseteq G[o]
        OBVIOUS
      <3> QED
        BY <1>0, <1>4, <2>1, <2>2, <3>1, <3>2 DEF Enters
    <2> QED BY <2>3, <2>4
  <1>5. ASSUME Enters(A, G, p, mem), Agrees(A, G, p, ord) PROVE Agrees(A, G1, p1, ord)
    <2> SUFFICES ASSUME ord # 0
                 PROVE  /\ \A o \in Orders \ {ord} : \A i \in G1[o] : \E m \in G1[ord] : i < m
                        /\ \A i \in A : \E m \in G1[ord] : i <= m
                        /\ p1 # ord => G1[ord] # {}
      BY DEF Agrees
    <2>1. ASSUME NEW o \in Orders \ {ord}, NEW i \in G1[o] PROVE \E m \in G1[ord] : i < m
      <3>1. i \in G[o] /\ i \in Nat
        BY <1>2
      <3>2. PICK m \in G[ord] : i < m
        BY <1>5, <3>1 DEF Agrees
      <3> QED
        BY <1>2, <3>1, <3>2
    <2>2. ASSUME NEW i \in A PROVE \E m \in G1[ord] : i <= m
      <3>1. PICK m \in G[ord] : i <= m
        BY <1>5 DEF Agrees
      <3> QED
        BY <1>1, <1>2, <3>1
    <2>3. ASSUME p1 # ord PROVE G1[ord] # {}
      <3>1. CASE x = ord
        <4>1. p = Absent
          BY <2>3, <3>1
        <4>2. PICK m \in A : m <= 0
          BY <1>5, <3>1, <4>1 DEF Enters
        <4> QED
          BY <1>1, <4>2
      <3>2. CASE x # ord
        <4>1. PICK m \in G[ord] : 0 < m
          BY <1>5, <3>2 DEF Agrees
        <4> QED
          BY <1>2, <4>1
      <3> QED BY <3>1, <3>2
    <2> QED
      BY <2>1, <2>2, <2>3
  <1> QED
    BY <1>3, <1>4, <1>5

\* Updates are sent: those of numbers A2 and G2 come after all others.
Later(n, A, G, A2, G2, A1, G1) ==
    /\ n \in Nat
    /\ A1 = A \cup A2 /\ \A o \in Orders : G1[o] = G[o] \cup G2[o]
    /\ \A i \in A : i \in Nat /\ i <= n
    /\ \A i \in A2 : i \in Nat /\ n < i
    /\ \A o \in Orders : \A i \in G[o] : i \in Nat /\ i <= n
    /\ \A o \in Orders : \A i \in G2[o] : i \in Nat /\ n < i

\* The list gets at most one entry, of a chat that was out, and a chat that is out
\* after it was in gets an order 0.
LeavesWith(A2, G2, mem, mem1) ==
    /\ \A i, j \in A2 : i = j
    /\ A2 # {} => ~ mem
    /\ ~ mem1 => A2 = {} /\ (~ mem \/ G2[0] # {})

\* A chat that is in after it was out gets an entry, before it gets an order.
EntersWith(A2, G2, mem, mem1) ==
    /\ mem1 => G2[0] = {} /\ (mem \/ A2 # {})
    /\ \A o \in Orders \ {0} : \A j \in G2[o] : mem1 /\ (mem \/ \E m \in A2 : m <= j)

\* The order that the server now has comes last.
AgreesWith(A2, G2, ord, ord1) ==
    \/ ord1 = ord /\ A2 = {} /\ \A o \in Orders : G2[o] = {}
    \/ ord1 = 0
    \/ /\ \A o \in Orders \ {ord1} : G2[o] = {}
       /\ \E m \in G2[ord1] : \A i \in A2 : i <= m

LEMMA SentLeaves ==
    ASSUME NEW n, NEW A, NEW G, NEW A2, NEW G2, NEW A1, NEW G1, NEW p, NEW mem, NEW mem1,
           Later(n, A, G, A2, G2, A1, G1),
           Leaves(A, G, p, mem), LeavesWith(A2, G2, mem, mem1)
    PROVE  Leaves(A1, G1, p, mem1)
  <1>0. 0 \in Orders
    BY ListsAssumption DEF Orders
  <1>1. /\ n \in Nat
        /\ \A i \in A : i \in Nat /\ i <= n
        /\ \A i \in A2 : i \in Nat /\ n < i
        /\ \A o \in Orders : \A i \in G[o] : i \in Nat /\ i <= n
        /\ \A o \in Orders : \A i \in G2[o] : i \in Nat /\ n < i
    BY DEF Later
  <1>2. \A o \in Orders : G1[o] = G[o] \cup G2[o]
    BY DEF Later
  <1>3. A1 = A \cup A2
    BY DEF Later
  <1>5. (\A i, j \in A2 : i = j) /\ (A2 # {} => ~ mem)
        /\ (~ mem1 => A2 = {} /\ (~ mem \/ G2[0] # {}))
    BY DEF LeavesWith
  <1> HIDE DEF Absent
  <1>4. Leaves(A1, G1, p, mem1)
    <2>1. ASSUME NEW i \in A1, NEW j \in A1, i < j PROVE \E m \in G1[0] : i < m /\ m < j
      <3>1. CASE i \in A /\ j \in A
        BY <1>5, <1>0, <1>2, <2>1, <3>1 DEF Leaves
      <3>2. CASE i \in A /\ j \in A2
        <4>1. PICK m \in G[0] : i < m
          BY <1>5, <3>2 DEF Leaves
        <4> QED
          BY <1>5, <1>0, <1>1, <1>2, <3>2, <4>1
      <3>3. CASE i \in A2
        BY <1>5, <1>1, <1>3, <2>1, <3>3
      <3> QED BY <1>5, <1>3, <3>1, <3>2, <3>3
    <2>2. ASSUME p # Absent, NEW i \in A1 PROVE \E m \in G1[0] : m < i
      <3>1. CASE i \in A
        BY <1>5, <1>0, <1>2, <2>2, <3>1 DEF Leaves
      <3>2. CASE i \in A2
        <4>1. PICK m \in G[0] : TRUE
          BY <1>5, <2>2, <3>2 DEF Leaves
        <4> QED
          BY <1>5, <1>0, <1>1, <1>2, <3>2, <4>1
      <3> QED BY <1>5, <1>3, <3>1, <3>2
    <2>3. ASSUME ~ mem1, NEW i \in A1 PROVE \E m \in G1[0] : i < m
      <3>1. i \in A
        BY <1>5, <1>3, <2>3
      <3>2. CASE ~ mem
        BY <1>5, <1>0, <1>2, <3>1, <3>2 DEF Leaves
      <3>3. CASE mem
        BY <1>5, <1>0, <1>1, <1>2, <2>3, <3>1, <3>3
      <3> QED BY <1>5, <3>2, <3>3
    <2>4. ~ mem1 /\ p # Absent => G1[0] # {}
      BY <1>5, <1>0, <1>2 DEF Leaves
    <2> QED
      BY <1>5, <2>1, <2>2, <2>3, <2>4 DEF Leaves
  <1> QED BY <1>4

LEMMA SentEnters ==
    ASSUME NEW n, NEW A, NEW G, NEW A2, NEW G2, NEW A1, NEW G1, NEW p, NEW mem, NEW mem1,
           Later(n, A, G, A2, G2, A1, G1),
           Enters(A, G, p, mem), EntersWith(A2, G2, mem, mem1)
    PROVE  Enters(A1, G1, p, mem1)
  <1>0. 0 \in Orders
    BY ListsAssumption DEF Orders
  <1>1. /\ n \in Nat
        /\ \A i \in A : i \in Nat /\ i <= n
        /\ \A i \in A2 : i \in Nat /\ n < i
        /\ \A o \in Orders : \A i \in G[o] : i \in Nat /\ i <= n
        /\ \A o \in Orders : \A i \in G2[o] : i \in Nat /\ n < i
    BY DEF Later
  <1>2. \A o \in Orders : G1[o] = G[o] \cup G2[o]
    BY DEF Later
  <1>3. A1 = A \cup A2
    BY DEF Later
  <1>5. /\ mem1 => G2[0] = {} /\ (mem \/ A2 # {})
        /\ \A o \in Orders \ {0} : \A j \in G2[o] : mem1 /\ (mem \/ \E m \in A2 : m <= j)
    BY DEF EntersWith
  <1> HIDE DEF Absent
  <1>4. Enters(A1, G1, p, mem1)
    <2>1. ASSUME NEW o \in Orders \ {0}, NEW j \in G1[o], NEW i \in G1[0], i <= j
          PROVE  \E m \in A1 : i < m /\ m <= j
      <3>1. CASE j \in G[o]
        <4>1. i \in G[0]
          BY <1>5, <1>0, <1>1, <1>2, <2>1, <3>1
        <4> QED
          BY <1>5, <1>3, <2>1, <3>1, <4>1 DEF Enters
      <3>2. CASE j \in G2[o]
        <4>1. mem1 /\ i \in G[0]
          BY <1>5, <1>0, <1>2, <2>1, <3>2
        <4>2. CASE mem
          <5>1. PICK m \in A : i < m
            BY <1>5, <4>1, <4>2 DEF Enters
          <5> QED
            BY <1>5, <1>1, <1>3, <3>2, <5>1
        <4>3. CASE ~ mem
          <5>1. PICK m \in A2 : m <= j
            BY <1>5, <3>2, <4>3
          <5> QED
            BY <1>5, <1>0, <1>1, <1>3, <4>1, <5>1
        <4> QED BY <1>5, <4>2, <4>3
      <3> QED BY <1>5, <1>2, <3>1, <3>2
    <2>2. ASSUME NEW o \in Orders \ {0}, NEW j \in G1[o], p = Absent PROVE \E m \in A1 : m <= j
      <3>1. CASE j \in G[o]
        BY <1>5, <1>3, <2>2, <3>1 DEF Enters
      <3>2. CASE j \in G2[o] /\ mem
        <4>1. PICK m \in A : TRUE
          BY <1>5, <2>2, <3>2 DEF Enters
        <4> QED
          BY <1>5, <1>1, <1>3, <3>2, <4>1
      <3>3. CASE j \in G2[o] /\ ~ mem
        BY <1>5, <1>3, <3>3
      <3> QED BY <1>5, <1>2, <3>1, <3>2, <3>3
    <2>3. ASSUME mem1, NEW i \in G1[0] PROVE \E m \in A1 : i < m
      <3>1. i \in G[0]
        BY <1>5, <1>0, <1>2, <2>3
      <3>2. CASE mem
        BY <1>5, <1>3, <3>1, <3>2 DEF Enters
      <3>3. CASE ~ mem
        <4>1. PICK m \in A2 : TRUE
          BY <1>5, <2>3, <3>3
        <4> QED
          BY <1>5, <1>0, <1>1, <1>3, <3>1, <4>1
      <3> QED BY <1>5, <3>2, <3>3
    <2>4. mem1 /\ p = Absent => A1 # {}
      BY <1>5, <1>3 DEF Enters
    <2> QED
      BY <1>5, <2>1, <2>2, <2>3, <2>4 DEF Enters
  <1> QED BY <1>4

LEMMA SentAgrees ==
    ASSUME NEW n, NEW A, NEW G, NEW A2, NEW G2, NEW A1, NEW G1, NEW p, NEW ord, NEW ord1 \in Orders,
           Later(n, A, G, A2, G2, A1, G1),
           Agrees(A, G, p, ord), AgreesWith(A2, G2, ord, ord1)
    PROVE  Agrees(A1, G1, p, ord1)
  <1>0. 0 \in Orders
    BY ListsAssumption DEF Orders
  <1>1. /\ n \in Nat
        /\ \A i \in A : i \in Nat /\ i <= n
        /\ \A i \in A2 : i \in Nat /\ n < i
        /\ \A o \in Orders : \A i \in G[o] : i \in Nat /\ i <= n
        /\ \A o \in Orders : \A i \in G2[o] : i \in Nat /\ n < i
    BY DEF Later
  <1>2. \A o \in Orders : G1[o] = G[o] \cup G2[o]
    BY DEF Later
  <1>3. A1 = A \cup A2
    BY DEF Later
  <1>5. \/ ord1 = ord /\ A2 = {} /\ \A o \in Orders : G2[o] = {}
        \/ ord1 = 0
        \/ /\ \A o \in Orders \ {ord1} : G2[o] = {}
           /\ \E m \in G2[ord1] : \A i \in A2 : i <= m
    BY DEF AgreesWith
  <1> HIDE DEF Absent
  <1>4. Agrees(A1, G1, p, ord1)
    <2>1. CASE ord1 = ord /\ A2 = {} /\ \A o \in Orders : G2[o] = {}
      <3>1. A1 = A /\ \A o \in Orders : G1[o] = G[o]
        BY <1>5, <1>2, <1>3, <2>1
      <3> QED
        BY <1>5, <2>1, <3>1 DEF Agrees
    <2>2. CASE ord1 = 0
      BY <1>5, <2>2 DEF Agrees
    <2>3. ASSUME \A o \in Orders \ {ord1} : G2[o] = {},
                 NEW m \in G2[ord1], \A i \in A2 : i <= m
          PROVE  Agrees(A1, G1, p, ord1)
      <3>1. m \in G1[ord1] /\ m \in Nat /\ n < m
        BY <1>5, <1>1, <1>2
      <3>2. \A o \in Orders \ {ord1} : \A i \in G1[o] : i < m
        BY <1>5, <1>1, <1>2, <2>3, <3>1
      <3>3. \A i \in A1 : i <= m
        BY <1>5, <1>1, <1>3, <2>3, <3>1
      <3> QED
        BY <1>5, <3>1, <3>2, <3>3 DEF Agrees
    <2> QED BY <1>5, <2>1, <2>2, <2>3
  <1> QED BY <1>4
-----------------------------------------------------------------------------
(***************************************************************************)
(* These numbers in the states of the specification.                       *)
(***************************************************************************)
Has(ps, l, o) == \E n \in DOMAIN ps : ps[n] = [list |-> l, order |-> o]

\* What one update says of chat c in list l.
Adds(u, l, c) == u.chat = c /\ l \in u.lists
Sets(u, l, c, o) == u.chat = c /\ Has(u.positions, l, o)

At(l, c) == id_to_position[ClassId[l]][c]

AddsOf(l, c) == {i \in DOMAIN channel : Adds(channel[i], l, c)}

SetsOf(l, c) == [o \in Orders |-> {i \in 0 .. Len(channel) :
    IF i = 0 THEN handler = "positions" /\ update.chat = c /\ Has(todo, l, o)
             ELSE Sets(channel[i], l, c, o)}]

LeaveInv == \A l \in Lists, c \in Chats : Leaves(AddsOf(l, c), SetsOf(l, c), At(l, c), c \in member[l])
EnterInv == \A l \in Lists, c \in Chats : Enters(AddsOf(l, c), SetsOf(l, c), At(l, c), c \in member[l])
OrderInv == \A l \in Lists, c \in Chats : Agrees(AddsOf(l, c), SetsOf(l, c), At(l, c), order[l][c])

\* Only two kinds of update add a chat, and an update that no handler takes says
\* nothing of the lists.
Shape(u) ==
    /\ u.kind \notin {"new_chat", "added_to_list"} => u.lists = {}
    /\ u.kind = "unhandled" => u.positions = <<>>

ShapeInv == \A i \in DOMAIN channel : Shape(channel[i])

\* No two lists have one class id.
DistinctClasses == \A l, m \in Lists : ClassId[l] = ClassId[m] => l = m

LEMMA PairTypes ==
    ASSUME IInv, NEW l \in Lists, NEW c \in Chats
    PROVE  /\ Len(channel) \in Nat /\ DOMAIN channel = 1 .. Len(channel)
           /\ AddsOf(l, c) \in SUBSET (1 .. Len(channel))
           /\ AddsOf(l, c) \in SUBSET (Nat \ {0})
           /\ SetsOf(l, c) \in [Orders -> SUBSET (0 .. Len(channel))]
           /\ SetsOf(l, c) \in [Orders -> SUBSET Nat]
           /\ ClassId[l] \in Classes
           /\ order[l][c] \in Orders
  <1>1. Len(channel) \in Nat /\ DOMAIN channel = 1 .. Len(channel)
    BY LenProperties DEF IInv, TypeOK
  <1>2. SetsOf(l, c) \in [Orders -> SUBSET (0 .. Len(channel))]
    BY DEF SetsOf
  <1>3. 0 .. Len(channel) \subseteq Nat
    BY <1>1
  <1>4. SetsOf(l, c) \in [Orders -> SUBSET Nat]
    BY <1>2, <1>3
  <1>5. AddsOf(l, c) \in SUBSET (1 .. Len(channel)) /\ AddsOf(l, c) \in SUBSET (Nat \ {0})
    BY <1>1 DEF AddsOf
  <1>6. ClassId[l] \in Classes /\ order[l][c] \in Orders
    BY DEF Classes, IInv, TypeOK
  <1> QED
    BY <1>1, <1>2, <1>4, <1>5, <1>6

\* The invariants after a step, in terms of the numbers after it.
LEMMA PairsAfter ==
    /\ (\A l \in Lists, c \in Chats : Leaves(AddsOf(l, c)', SetsOf(l, c)', At(l, c)', c \in member'[l])) => LeaveInv'
    /\ (\A l \in Lists, c \in Chats : Enters(AddsOf(l, c)', SetsOf(l, c)', At(l, c)', c \in member'[l])) => EnterInv'
    /\ (\A l \in Lists, c \in Chats : Agrees(AddsOf(l, c)', SetsOf(l, c)', At(l, c)', order'[l][c])) => OrderInv'
  BY DEF LeaveInv, EnterInv, OrderInv, Leaves, Enters, Agrees

\* A step of the handlers' thread that starts on an update shifts the numbers.
LEMMA ReceivePair ==
    ASSUME IInv, ShapeInv, DistinctClasses, Handle, NEW l \in Lists, NEW c \in Chats
    PROVE  /\ SetsOf(l, c) \in [Orders -> SUBSET (Nat \ {0})]
           /\ AddsOf(l, c)' = {i \in Nat \ {0} : i + 1 \in AddsOf(l, c)}
           /\ SetsOf(l, c)' = [o \in Orders |-> {i \in Nat : i + 1 \in SetsOf(l, c)[o]}]
           /\ At(l, c)' = IF 1 \in AddsOf(l, c) THEN 0 ELSE At(l, c)
           /\ UNCHANGED <<member, order>>
  <1> DEFINE u == channel[1]
             N == Len(channel)
  <1>0. handler = "receive" /\ channel # <<>> /\ channel' = Tail(channel) /\ UNCHANGED <<member, order>>
    BY DEF Handle, process_update_new_chat, process_update_chat_added_to_list,
           process_update_chat_position, process_update_chat_last_message, process_update_default,
           StartHandler, Receive, server
  <1>1. /\ channel \in Seq(Update) /\ N \in Nat \ {0} /\ DOMAIN channel = 1 .. N
        /\ Len(channel') = N - 1 /\ DOMAIN channel' = 1 .. N - 1
        /\ \A i \in 1 .. N - 1 : channel'[i] = channel[i + 1]
        /\ Head(channel) = u /\ u \in Update /\ 1 \in DOMAIN channel
    <2>1. channel \in Seq(Update)
      BY DEF IInv, TypeOK
    <2> QED
      BY <1>0, <2>1, TailFacts
  <1>2. /\ SetsOf(l, c) \in [Orders -> SUBSET (Nat \ {0})]
        /\ \A o \in Orders : \A i : i \in SetsOf(l, c)[o] <=> i \in 1 .. N /\ Sets(channel[i], l, c, o)
        /\ \A i : i \in AddsOf(l, c) <=> i \in 1 .. N /\ Adds(channel[i], l, c)
    <2>1. \A o \in Orders : \A i : i \in SetsOf(l, c)[o] <=> i \in 1 .. N /\ Sets(channel[i], l, c, o)
      BY <1>0, <1>1 DEF SetsOf
    <2> QED
      BY <1>1, <2>1, PairTypes DEF AddsOf
  <1>3. /\ \A i : i \in AddsOf(l, c)' <=> i \in 1 .. N - 1 /\ Adds(channel[i + 1], l, c)
        /\ AddsOf(l, c)' \in SUBSET (Nat \ {0})
    BY <1>1 DEF AddsOf, Adds
  <1>4. AddsOf(l, c)' = {i \in Nat \ {0} : i + 1 \in AddsOf(l, c)}
    <2>1. \A i \in Nat \ {0} : i + 1 \in 1 .. N <=> i \in 1 .. N - 1
      BY <1>1
    <2> QED
      BY <1>2, <1>3, <2>1
  <1>5. ASSUME NEW o \in Orders PROVE (handler' = "positions" /\ update'.chat = c /\ Has(todo, l, o)') <=> Sets(u, l, c, o)
    <2>1. CASE process_update_default
      <3>1. handler' = "receive" /\ u.kind = "unhandled"
        BY <1>0, <1>1, <2>1 DEF process_update_default, Receive
      <3>2. u.positions = <<>>
        BY <1>1, <3>1 DEF ShapeInv, Shape
      <3> QED
        BY <3>1, <3>2, EmptySeq DEF Sets, Has
    <2>2. CASE ~ process_update_default
      <3>1. handler' = "positions" /\ update' = u /\ todo' = u.positions
        BY <1>1, <2>2 DEF Handle, process_update_new_chat, process_update_chat_added_to_list,
           process_update_chat_position, process_update_chat_last_message, StartHandler
      <3> QED
        BY <3>1 DEF Sets, Has
    <2> QED BY <2>1, <2>2
  <1>6. SetsOf(l, c)' = [o \in Orders |-> {i \in Nat : i + 1 \in SetsOf(l, c)[o]}]
    <2>1. SetsOf(l, c)' = [o \in Orders |-> {i \in 0 .. N - 1 :
            IF i = 0 THEN handler' = "positions" /\ update'.chat = c /\ Has(todo, l, o)'
                     ELSE Sets(channel'[i], l, c, o)}]
      BY <1>1 DEF SetsOf, Sets, Has
    <2>2. ASSUME NEW o \in Orders
          PROVE  {i \in 0 .. N - 1 :
                    IF i = 0 THEN handler' = "positions" /\ update'.chat = c /\ Has(todo, l, o)'
                             ELSE Sets(channel'[i], l, c, o)}
                 = {i \in Nat : i + 1 \in SetsOf(l, c)[o]}
      <3> HIDE DEF N
      <3>1. ASSUME NEW i \in 0 .. N - 1
            PROVE  (IF i = 0 THEN handler' = "positions" /\ update'.chat = c /\ Has(todo, l, o)'
                             ELSE Sets(channel'[i], l, c, o)) <=> Sets(channel[i + 1], l, c, o)
        <4>1. CASE i = 0
          BY <1>5, <4>1
        <4>2. CASE i # 0
          BY <1>1, <4>2
        <4> QED BY <4>1, <4>2
      <3>2. \A i \in Nat : i \in 0 .. N - 1 <=> i + 1 \in 1 .. N
        BY <1>1
      <3>3. \A i \in Nat : i + 1 \in SetsOf(l, c)[o] <=> i \in 0 .. N - 1 /\ Sets(channel[i + 1], l, c, o)
        BY <1>2, <3>2
      <3>4. 0 .. N - 1 \subseteq Nat
        BY <1>1
      <3> QED
        BY <3>1, <3>3, <3>4
    <2> QED
      BY <2>1, <2>2
  <1>7. At(l, c)' = IF 1 \in AddsOf(l, c) THEN 0 ELSE At(l, c)
    <2>0. id_to_position \in [Classes -> [Chats -> Orders \cup {Absent}]] /\ ClassId[l] \in Classes
      BY PairTypes DEF IInv, TypeOK
    <2>1. CASE process_update_new_chat \/ process_update_chat_added_to_list
      <3> DEFINE ks == {ClassId[m] : m \in u.lists}
      <3>1. id_to_position' = [k \in Classes |->
              IF k \in ks THEN [id_to_position[k] EXCEPT ![u.chat] = 0] ELSE id_to_position[k]]
        BY <1>1, <2>1 DEF process_update_new_chat, process_update_chat_added_to_list, AddToLists
      <3>2. u.lists \subseteq Lists /\ u.chat \in Chats
        BY <1>1 DEF Update
      <3>3. ClassId[l] \in ks <=> l \in u.lists
        BY <3>2 DEF DistinctClasses
      <3> HIDE DEF ks
      <3>4. At(l, c)' = IF ClassId[l] \in ks /\ u.chat = c THEN 0 ELSE At(l, c)
        BY <2>0, <3>1, <3>2 DEF At
      <3>5. 1 \in AddsOf(l, c) <=> u.chat = c /\ l \in u.lists
        BY <1>1, <1>2 DEF Adds
      <3> QED
        BY <3>3, <3>4, <3>5
    <2>2. CASE ~ (process_update_new_chat \/ process_update_chat_added_to_list)
      <3>1. UNCHANGED id_to_position /\ u.kind \notin {"new_chat", "added_to_list"}
        BY <1>1, <2>2 DEF Handle, process_update_chat_position, process_update_chat_last_message,
           process_update_default, StartHandler, Receive
      <3>2. u.lists = {}
        BY <1>1, <3>1 DEF ShapeInv, Shape
      <3> QED
        BY <1>2, <3>1, <3>2 DEF Adds, At
    <2> QED BY <2>1, <2>2
  <1> QED
    BY <1>0, <1>2, <1>4, <1>6, <1>7

\* ApplyPosition sets the order of one chat in one list, from the running update.
LEMMA ApplyPair ==
    ASSUME IInv, DistinctClasses, ApplyPosition, NEW l \in Lists, NEW c \in Chats
    PROVE  /\ AddsOf(l, c)' = AddsOf(l, c)
           /\ UNCHANGED <<member, order>>
           /\ \/ SetsOf(l, c)' = SetsOf(l, c) /\ At(l, c)' = At(l, c)
              \/ \E x \in Orders :
                    /\ 0 \in SetsOf(l, c)[x]
                    /\ SetsOf(l, c)' \in [Orders -> SUBSET Nat]
                    /\ \A o \in Orders : /\ SetsOf(l, c)'[o] \subseteq SetsOf(l, c)[o]
                                         /\ SetsOf(l, c)[o] \ {0} \subseteq SetsOf(l, c)'[o]
                    /\ \A o \in Orders \ {x} : SetsOf(l, c)'[o] = SetsOf(l, c)[o]
                    /\ At(l, c)' = IF At(l, c) = Absent \/ x = 0 THEN Absent ELSE x
  <1> DEFINE m == Head(todo).list
             x == Head(todo).order
             N == Len(channel)
  <1>0. /\ handler = "positions" /\ todo # <<>> /\ todo' = Tail(todo)
        /\ UNCHANGED <<known, member, order, channel, handler, update>>
        /\ _update_position(update.chat, ClassId[m], x)
    BY DEF ApplyPosition, server
  <1>1. /\ todo \in Seq(ChatPosition) /\ Head(todo) \in ChatPosition /\ Head(todo) = todo[1]
        /\ Len(todo) \in Nat \ {0} /\ DOMAIN todo = 1 .. Len(todo) /\ DOMAIN todo' = 1 .. Len(todo) - 1
        /\ \A i \in 1 .. Len(todo) - 1 : todo'[i] = todo[i + 1]
    <2>1. todo \in Seq(ChatPosition)
      BY DEF IInv, TypeOK
    <2> QED
      BY <1>0, <2>1, TailFacts
  <1>2. m \in Lists /\ x \in Orders /\ todo[1] = [list |-> m, order |-> x] /\ update.chat \in Chats
    <2>1. m \in Lists /\ x \in Orders /\ todo[1] = [list |-> m, order |-> x]
      BY <1>1 DEF ChatPosition
    <2>2. update.chat \in Chats
      BY <1>0 DEF IInv, HandlerInv, Update
    <2> QED BY <2>1, <2>2
  <1>3. AddsOf(l, c)' = AddsOf(l, c)
    BY <1>0 DEF AddsOf
  <1> HIDE DEF m, x
  <1>4. ASSUME NEW o \in Orders
        PROVE  /\ Has(todo, l, o)' => Has(todo, l, o)
               /\ Has(todo, l, o) /\ ~ (l = m /\ o = x) => Has(todo, l, o)'
    <2>1. ASSUME NEW i \in DOMAIN todo', todo'[i] = [list |-> l, order |-> o] PROVE Has(todo, l, o)
      <3>1. i + 1 \in DOMAIN todo /\ todo[i + 1] = todo'[i]
        BY <1>1, <2>1
      <3> QED
        BY <2>1, <3>1 DEF Has
    <2>2. ASSUME NEW i \in DOMAIN todo, todo[i] = [list |-> l, order |-> o], ~ (l = m /\ o = x)
          PROVE  Has(todo, l, o)'
      <3>1. i # 1
        BY <1>2, <2>2
      <3>2. i - 1 \in DOMAIN todo' /\ todo'[i - 1] = todo[(i - 1) + 1] /\ (i - 1) + 1 = i
        BY <1>1, <2>2, <3>1
      <3> QED
        BY <2>2, <3>2 DEF Has
    <2> QED
      BY <2>1, <2>2 DEF Has
  <1>5. /\ SetsOf(l, c)' \in [Orders -> SUBSET (0 .. N)]
        /\ \A o \in Orders : \A i \in 0 .. N : i \in SetsOf(l, c)'[o] <=>
              IF i = 0 THEN update.chat = c /\ Has(todo, l, o)' ELSE Sets(channel[i], l, c, o)
        /\ \A o \in Orders : \A i \in 0 .. N : i \in SetsOf(l, c)[o] <=>
              IF i = 0 THEN update.chat = c /\ Has(todo, l, o) ELSE Sets(channel[i], l, c, o)
    <2>1. SetsOf(l, c)' = [o \in Orders |-> {i \in 0 .. N :
            IF i = 0 THEN handler' = "positions" /\ update'.chat = c /\ Has(todo, l, o)'
                     ELSE Sets(channel'[i], l, c, o)}]
      BY <1>0 DEF SetsOf, Has
    <2> HIDE DEF N
    <2>2. SetsOf(l, c) = [o \in Orders |-> {i \in 0 .. N :
            IF i = 0 THEN handler = "positions" /\ update.chat = c /\ Has(todo, l, o)
                     ELSE Sets(channel[i], l, c, o)}]
      BY DEF SetsOf, N
    <2> QED
      BY <1>0, <2>1, <2>2
  <1>6. /\ N \in Nat /\ SetsOf(l, c) \in [Orders -> SUBSET (0 .. N)]
        /\ 0 .. N \subseteq Nat /\ 0 \in 0 .. N
    BY PairTypes
  <1> HIDE DEF N
  <1>7. /\ SetsOf(l, c)' \in [Orders -> SUBSET Nat]
        /\ \A o \in Orders : /\ SetsOf(l, c)'[o] \subseteq SetsOf(l, c)[o]
                             /\ SetsOf(l, c)[o] \ {0} \subseteq SetsOf(l, c)'[o]
        /\ \A o \in Orders : ~ (l = m /\ o = x /\ c = update.chat) => SetsOf(l, c)'[o] = SetsOf(l, c)[o]
    <2>1. SetsOf(l, c)' \in [Orders -> SUBSET Nat]
      BY <1>5, <1>6
    <2>2. ASSUME NEW o \in Orders
          PROVE  SetsOf(l, c)'[o] \subseteq SetsOf(l, c)[o] /\ SetsOf(l, c)[o] \ {0} \subseteq SetsOf(l, c)'[o]
      BY <1>4, <1>5, <1>6
    <2>3. ASSUME NEW o \in Orders, ~ (l = m /\ o = x /\ c = update.chat)
          PROVE  SetsOf(l, c)'[o] = SetsOf(l, c)[o]
      <3>1. 0 \in SetsOf(l, c)'[o] <=> 0 \in SetsOf(l, c)[o]
        BY <1>4, <1>5, <1>6, <2>3
      <3> QED
        BY <2>2, <3>1
    <2> QED BY <2>1, <2>2, <2>3
  <1>8. /\ id_to_position \in [Classes -> [Chats -> Orders \cup {Absent}]]
        /\ ClassId[l] \in Classes /\ ClassId[m] \in Classes
    BY <1>2 DEF IInv, TypeOK, Classes
  <1>9. CASE l = m /\ c = update.chat
    <2>1. 0 \in SetsOf(l, c)[x]
      <3>1. Has(todo, l, x)
        BY <1>1, <1>2, <1>9 DEF Has
      <3> QED
        BY <1>2, <1>5, <1>6, <1>9, <3>1
    <2>2. At(l, c)' = IF At(l, c) = Absent \/ x = 0 THEN Absent ELSE x
      BY <1>0, <1>8, <1>9 DEF _update_position, At
    <2> QED
      BY <1>0, <1>2, <1>3, <1>7, <1>9, <2>1, <2>2
  <1>10. CASE ~ (l = m /\ c = update.chat)
    <2>1. \A o \in Orders : SetsOf(l, c)'[o] = SetsOf(l, c)[o]
      BY <1>7, <1>10
    <2>2. SetsOf(l, c)' = SetsOf(l, c)
      BY <1>5, <1>6, <2>1
    <2>3. ~ (ClassId[l] = ClassId[m] /\ c = update.chat)
      BY <1>2, <1>10 DEF DistinctClasses
    <2>4. At(l, c)' = At(l, c)
      BY <1>0, <1>2, <1>8, <2>3 DEF _update_position, At
    <2> QED
      BY <1>0, <1>3, <2>2, <2>4
  <1> QED
    BY <1>9, <1>10

\* The numbers that the updates us get when they are sent.
SentAdds(us, l, c) == {Len(channel) + i : i \in {j \in DOMAIN us : Adds(us[j], l, c)}}
SentSets(us, l, c) ==
    [o \in Orders |-> {Len(channel) + i : i \in {j \in DOMAIN us : Sets(us[j], l, c, o)}}]

LEMMA SendPair ==
    ASSUME IInv, NEW us \in Seq(Update), Send(us), UNCHANGED app, NEW l \in Lists, NEW c \in Chats
    PROVE  /\ SentAdds(us, l, c) \in SUBSET {i \in Nat : Len(channel) < i}
           /\ SentSets(us, l, c) \in [Orders -> SUBSET {i \in Nat : Len(channel) < i}]
           /\ AddsOf(l, c)' = AddsOf(l, c) \cup SentAdds(us, l, c)
           /\ SetsOf(l, c)' = [o \in Orders |-> SetsOf(l, c)[o] \cup SentSets(us, l, c)[o]]
           /\ At(l, c)' = At(l, c)
  <1> DEFINE N == Len(channel)
  <1>1. /\ N \in Nat /\ Len(us) \in Nat /\ Len(channel') = N + Len(us)
        /\ DOMAIN channel = 1 .. N /\ DOMAIN us = 1 .. Len(us) /\ DOMAIN channel' = 1 .. N + Len(us)
        /\ \A i \in 1 .. N : channel'[i] = channel[i]
        /\ \A i \in N + 1 .. N + Len(us) : channel'[i] = us[i - N]
    BY SendFacts
  <1>2. /\ SentAdds(us, l, c) \in SUBSET {i \in Nat : N < i}
        /\ SentSets(us, l, c) \in [Orders -> SUBSET {i \in Nat : N < i}]
    BY <1>1 DEF SentAdds, SentSets
  <1> HIDE DEF N
  <1>3. AddsOf(l, c)' = AddsOf(l, c) \cup SentAdds(us, l, c)
    <2>1. ASSUME NEW i \in 1 .. N + Len(us)
          PROVE  Adds(channel'[i], l, c) <=>
                    (i \in 1 .. N /\ Adds(channel[i], l, c)) \/ i \in SentAdds(us, l, c)
      <3>1. CASE i \in 1 .. N
        <4>1. i \notin SentAdds(us, l, c)
          BY <1>1, <1>2, <3>1
        <4> QED BY <1>1, <3>1, <4>1
      <3>2. CASE i \in N + 1 .. N + Len(us)
        <4>1. i - N \in DOMAIN us /\ N + (i - N) = i /\ i \notin 1 .. N /\ channel'[i] = us[i - N]
          BY <1>1, <3>2
        <4>2. \A j \in DOMAIN us : N + j = i => j = i - N
          BY <1>1
        <4>3. i \in SentAdds(us, l, c) <=> Adds(us[i - N], l, c)
          BY <4>1, <4>2 DEF SentAdds, N
        <4> QED BY <4>1, <4>3
      <3> QED BY <1>1, <3>1, <3>2
    <2>2. /\ AddsOf(l, c)' = {i \in 1 .. N + Len(us) : Adds(channel'[i], l, c)}
          /\ AddsOf(l, c) = {i \in 1 .. N : Adds(channel[i], l, c)}
      BY <1>1 DEF AddsOf
    <2>3. SentAdds(us, l, c) \subseteq 1 .. N + Len(us) /\ 1 .. N \subseteq 1 .. N + Len(us)
      BY <1>1 DEF SentAdds, N
    <2> QED
      BY <2>1, <2>2, <2>3
  <1>4. ASSUME NEW o \in Orders PROVE SetsOf(l, c)'[o] = SetsOf(l, c)[o] \cup SentSets(us, l, c)[o]
    <2> DEFINE Z == handler = "positions" /\ update.chat = c /\ Has(todo, l, o)
               Q == SentSets(us, l, c)[o]
    <2>0. Q = {Len(channel) + i : i \in {j \in DOMAIN us : Sets(us[j], l, c, o)}}
      BY DEF SentSets
    <2>1. /\ SetsOf(l, c)[o] = {i \in 0 .. N : IF i = 0 THEN Z ELSE Sets(channel[i], l, c, o)}
          /\ SetsOf(l, c)'[o] = {i \in 0 .. N + Len(us) : IF i = 0 THEN Z ELSE Sets(channel'[i], l, c, o)}
      BY <1>1 DEF SetsOf, app, Has, N
    <2> HIDE DEF Z, Q
    <2>2. ASSUME NEW i \in 0 .. N + Len(us)
          PROVE  (IF i = 0 THEN Z ELSE Sets(channel'[i], l, c, o)) <=>
                    (i \in 0 .. N /\ (IF i = 0 THEN Z ELSE Sets(channel[i], l, c, o))) \/ i \in Q
      <3>0. \A j \in Q : j \in Nat /\ N < j
        BY <1>2 DEF Q
      <3>1. CASE i \in 0 .. N
        <4>1. i \notin Q /\ (i # 0 => i \in 1 .. N)
          BY <1>1, <3>0, <3>1
        <4> QED BY <1>1, <3>1, <4>1
      <3>2. CASE i \in N + 1 .. N + Len(us)
        <4>1. i - N \in DOMAIN us /\ N + (i - N) = i /\ i \notin 0 .. N /\ i # 0 /\ channel'[i] = us[i - N]
          BY <1>1, <3>2
        <4>2. \A j \in DOMAIN us : N + j = i => j = i - N
          BY <1>1
        <4>3. i \in Q <=> Sets(us[i - N], l, c, o)
          BY <2>0, <4>1, <4>2 DEF N
        <4> QED BY <4>1, <4>3
      <3> QED BY <1>1, <3>1, <3>2
    <2>3. Q \subseteq 0 .. N + Len(us) /\ 0 .. N \subseteq 0 .. N + Len(us)
      BY <1>1, <2>0 DEF N
    <2>4. SetsOf(l, c)'[o] = SetsOf(l, c)[o] \cup Q
      BY <2>1, <2>2, <2>3
    <2> QED BY <2>4 DEF Q
  <1>5. SetsOf(l, c)' = [o \in Orders |-> SetsOf(l, c)[o] \cup SentSets(us, l, c)[o]]
    <2>1. SetsOf(l, c)' = [o \in Orders |-> SetsOf(l, c)'[o]]
      BY DEF SetsOf
    <2> QED BY <1>4, <2>1
  <1>6. At(l, c)' = At(l, c)
    BY DEF app, At
  <1> QED
    BY <1>2, <1>3, <1>5, <1>6 DEF N
-----------------------------------------------------------------------------
(***************************************************************************)
(* What the server sends with a change.  Chat d is in the lists L after it.*)
(***************************************************************************)
\* A list gets at most one entry, of a chat that is not in it yet, and a list
\* that the chat leaves gets an order 0.
LeaveBatch(us, d, L) ==
    \A l \in Lists :
        /\ \A i, j \in DOMAIN us : Adds(us[i], l, d) /\ Adds(us[j], l, d) => i = j
        /\ \A i \in DOMAIN us : Adds(us[i], l, d) => l \in L /\ d \notin member[l]
        /\ l \notin L /\ d \in member[l] => \E i \in DOMAIN us : Sets(us[i], l, d, 0)

\* A list that the chat joins gets an entry before it gets an order, and only a
\* list that the chat leaves gets an order 0.
EnterBatch(us, d, L) ==
    \A l \in Lists :
        /\ l \in L => /\ \A i \in DOMAIN us : ~ Sets(us[i], l, d, 0)
                      /\ d \in member[l] \/ \E i \in DOMAIN us : Adds(us[i], l, d)
        /\ \A o \in Orders \ {0} : \A j \in DOMAIN us : Sets(us[j], l, d, o) =>
              l \in L /\ (d \in member[l] \/ \E i \in DOMAIN us : Adds(us[i], l, d) /\ i <= j)

\* A list in which the chat gets another order is told that order, last.
OrderBatch(us, d, f) ==
    \A l \in Lists :
        \/ /\ f[l] = order[l][d]
           /\ \A i \in DOMAIN us : ~ Adds(us[i], l, d) /\ \A o \in Orders : ~ Sets(us[i], l, d, o)
        \/ f[l] = 0
        \/ /\ \A o \in Orders \ {f[l]} : \A i \in DOMAIN us : ~ Sets(us[i], l, d, o)
           /\ \E j \in DOMAIN us :
                Sets(us[j], l, d, f[l]) /\ \A i \in DOMAIN us : Adds(us[i], l, d) => i <= j

LEMMA BatchFacts ==
    ASSUME IInv, ServerStep, NEW d \in Chats,
           NEW L \in SUBSET Lists, NEW f \in [Lists -> Orders], Move(d, L, f),
           NEW us \in Seq(Update), \A i \in DOMAIN us : us[i].chat = d, Send(us)
    PROVE  /\ LeaveInv /\ LeaveBatch(us, d, L) => LeaveInv'
           /\ EnterInv /\ EnterBatch(us, d, L) => EnterInv'
           /\ OrderInv /\ OrderBatch(us, d, f) => OrderInv'
  <1> DEFINE N == Len(channel)
  <1>0. UNCHANGED app /\ 0 \in Orders
    BY ListsAssumption DEF ServerStep, Orders
  <1>1. ASSUME NEW l \in Lists, NEW c \in Chats
        PROVE  /\ LeaveInv /\ LeaveBatch(us, d, L) =>
                    Leaves(AddsOf(l, c)', SetsOf(l, c)', At(l, c)', c \in member'[l])
               /\ EnterInv /\ EnterBatch(us, d, L) =>
                    Enters(AddsOf(l, c)', SetsOf(l, c)', At(l, c)', c \in member'[l])
               /\ OrderInv /\ OrderBatch(us, d, f) =>
                    Agrees(AddsOf(l, c)', SetsOf(l, c)', At(l, c)', order'[l][c])
    <2> DEFINE A == AddsOf(l, c)
               G == SetsOf(l, c)
               p == At(l, c)
               A2 == SentAdds(us, l, c)
               G2 == SentSets(us, l, c)
               mem == c \in member[l]
               mem1 == c \in member'[l]
               ord == order[l][c]
               ord1 == order'[l][c]
    <2>1. /\ N \in Nat /\ A \in SUBSET (1 .. N) /\ G \in [Orders -> SUBSET (0 .. N)] /\ ord \in Orders
      BY PairTypes
    <2>2. /\ A2 \in SUBSET {i \in Nat : N < i} /\ G2 \in [Orders -> SUBSET {i \in Nat : N < i}]
          /\ AddsOf(l, c)' = A \cup A2 /\ SetsOf(l, c)' = [o \in Orders |-> G[o] \cup G2[o]]
          /\ At(l, c)' = p
      BY <1>0, SendPair
    <2>3. /\ ord1 = IF c = d THEN f[l] ELSE ord
          /\ mem1 <=> IF c = d THEN l \in L ELSE mem
          /\ ord1 \in Orders
      BY DEF Move, IInv, TypeOK
    <2>4. /\ \A k : k \in A2 <=> \E i \in DOMAIN us : k = N + i /\ Adds(us[i], l, c)
          /\ \A o \in Orders : \A k : k \in G2[o] <=> \E i \in DOMAIN us : k = N + i /\ Sets(us[i], l, c, o)
          /\ \A i \in DOMAIN us : i \in Nat
      <3>1. \A i \in DOMAIN us : i \in Nat
        BY LenProperties
      <3> QED
        BY <3>1 DEF SentAdds, SentSets
    <2>5. c # d => A2 = {} /\ \A o \in Orders : G2[o] = {}
      BY <2>4 DEF Adds, Sets
    <2>6. /\ LeaveInv => Leaves(A, G, p, mem)
          /\ EnterInv => Enters(A, G, p, mem)
          /\ OrderInv => Agrees(A, G, p, ord)
      BY DEF LeaveInv, EnterInv, OrderInv
    <2> HIDE DEF A, G, p, A2, G2, mem, mem1, ord, ord1, N
    <2>7. ASSUME LeaveBatch(us, d, L)
          PROVE  LeavesWith(A2, G2, mem, mem1)
      <3>1. CASE c = d
        <4>1. /\ \A i, j \in DOMAIN us : Adds(us[i], l, c) /\ Adds(us[j], l, c) => i = j
              /\ \A i \in DOMAIN us : Adds(us[i], l, c) => mem1 /\ ~ mem
              /\ ~ mem1 /\ mem => \E i \in DOMAIN us : Sets(us[i], l, c, 0)
          BY <2>3, <2>7, <3>1 DEF LeaveBatch, mem
        <4>2. \A i, j \in A2 : i = j
          BY <2>4, <4>1
        <4>3. A2 # {} => mem1 /\ ~ mem
          BY <2>4, <4>1
        <4>4. ~ mem1 => A2 = {} /\ (~ mem \/ G2[0] # {})
          BY <1>0, <2>4, <4>1, <4>3
        <4> QED BY <4>2, <4>3, <4>4 DEF LeavesWith
      <3>2. CASE c # d
        BY <2>3, <2>5, <3>2 DEF LeavesWith
      <3> QED BY <3>1, <3>2
    <2>8. ASSUME EnterBatch(us, d, L)
          PROVE  EntersWith(A2, G2, mem, mem1)
      <3>1. CASE c = d
        <4>1. mem1 => G2[0] = {} /\ (mem \/ A2 # {})
          BY <1>0, <2>3, <2>4, <2>8, <3>1 DEF EnterBatch, mem
        <4>2. ASSUME NEW o \in Orders \ {0}, NEW j \in G2[o] PROVE mem1 /\ (mem \/ \E m \in A2 : m <= j)
          <5>1. PICK i \in DOMAIN us : j = N + i /\ Sets(us[i], l, c, o)
            BY <2>4
          <5>2. l \in L /\ (mem \/ \E k \in DOMAIN us : Adds(us[k], l, d) /\ k <= i)
            BY <2>8, <3>1, <5>1 DEF EnterBatch, mem
          <5>3. \A k \in DOMAIN us : k <= i => N + k <= j
            BY <2>1, <2>4, <5>1
          <5> QED
            BY <2>3, <2>4, <3>1, <5>2, <5>3
        <4> QED BY <4>1, <4>2 DEF EntersWith
      <3>2. CASE c # d
        BY <1>0, <2>3, <2>5, <3>2 DEF EntersWith
      <3> QED BY <3>1, <3>2
    <2>9. ASSUME OrderBatch(us, d, f)
          PROVE  AgreesWith(A2, G2, ord, ord1)
      <3>1. CASE c = d
        <4>1. ord1 = f[l] /\ f[l] \in Orders
          BY <2>3, <3>1
        <4>2. CASE /\ f[l] = order[l][d]
                   /\ \A i \in DOMAIN us : ~ Adds(us[i], l, d) /\ \A o \in Orders : ~ Sets(us[i], l, d, o)
          BY <2>4, <3>1, <4>1, <4>2 DEF ord, AgreesWith
        <4>3. CASE f[l] = 0
          BY <4>1, <4>3 DEF AgreesWith
        <4>4. ASSUME \A o \in Orders \ {f[l]} : \A i \in DOMAIN us : ~ Sets(us[i], l, d, o),
                     NEW j \in DOMAIN us, Sets(us[j], l, d, f[l]),
                     \A i \in DOMAIN us : Adds(us[i], l, d) => i <= j
              PROVE  AgreesWith(A2, G2, ord, ord1)
          <5>1. \A o \in Orders \ {ord1} : G2[o] = {}
            BY <2>4, <3>1, <4>1, <4>4
          <5>2. N + j \in G2[ord1]
            BY <2>4, <3>1, <4>1, <4>4
          <5>3. \A i \in A2 : i <= N + j
            BY <2>1, <2>4, <3>1, <4>4
          <5> QED BY <5>1, <5>2, <5>3 DEF AgreesWith
        <4> QED
          BY <2>9, <4>2, <4>3, <4>4 DEF OrderBatch
      <3>2. CASE c # d
        BY <2>3, <2>5, <3>2 DEF AgreesWith
      <3> QED BY <3>1, <3>2
    <2> DEFINE A1 == AddsOf(l, c)'
               G1 == SetsOf(l, c)'
    <2>10. Later(N, A, G, A2, G2, A1, G1) /\ At(l, c)' = p
      BY <2>1, <2>2 DEF Later
    <2> HIDE DEF A1, G1
    <2>11. /\ Leaves(A, G, p, mem) /\ LeaveBatch(us, d, L) => Leaves(A1, G1, p, mem1)
           /\ Enters(A, G, p, mem) /\ EnterBatch(us, d, L) => Enters(A1, G1, p, mem1)
           /\ Agrees(A, G, p, ord) /\ OrderBatch(us, d, f) => Agrees(A1, G1, p, ord1)
      BY <2>3, <2>7, <2>8, <2>9, <2>10, SentLeaves, SentEnters, SentAgrees
    <2> QED
      BY <2>6, <2>10, <2>11 DEF mem1, ord1, A1, G1
  <1> QED
    BY <1>1, PairsAfter

\* What each update of the server says.
LEMMA AddedSays ==
    ASSUME NEW d, NEW m, NEW l
    PROVE  (Adds(AddedToList(d, m), l, d) <=> l = m) /\ \A o : ~ Sets(AddedToList(d, m), l, d, o)
  BY EmptySeq DEF Adds, Sets, Has, AddedToList

LEMMA PositionSays ==
    ASSUME NEW d, NEW m, NEW x, NEW l
    PROVE  /\ ~ Adds(Position(d, m, x), l, d)
           /\ \A o : Sets(Position(d, m, x), l, d, o) <=> l = m /\ o = x
  <1> DEFINE s == <<[list |-> m, order |-> x]>>
  <1>1. DOMAIN s = {1} /\ s[1] = [list |-> m, order |-> x]
    OBVIOUS
  <1>2. Position(d, m, x) = [kind |-> "position", chat |-> d, lists |-> {}, positions |-> s]
    BY DEF Position
  <1> HIDE DEF s
  <1>3. \A o : Has(s, l, o) <=> [list |-> m, order |-> x] = [list |-> l, order |-> o]
    BY <1>1 DEF Has
  <1>4. \A o : [list |-> m, order |-> x] = [list |-> l, order |-> o] <=> l = m /\ o = x
    OBVIOUS
  <1>5. ~ Adds(Position(d, m, x), l, d)
    BY <1>2 DEF Adds
  <1>6. ASSUME NEW o PROVE Sets(Position(d, m, x), l, d, o) <=> Has(s, l, o)
    BY <1>2 DEF Sets
  <1> QED
    BY <1>3, <1>4, <1>5, <1>6

LEMMA UnhandledSays ==
    ASSUME NEW d, NEW l
    PROVE  ~ Adds(Unhandled(d), l, d) /\ \A o : ~ Sets(Unhandled(d), l, d, o)
  BY EmptySeq DEF Adds, Sets, Has, Unhandled

LEMMA LastMessageSays ==
    ASSUME NEW d, NEW ps, NEW l
    PROVE  ~ Adds(LastMessage(d, ps), l, d) /\ \A o : Sets(LastMessage(d, ps), l, d, o) <=> Has(ps, l, o)
  BY DEF Adds, Sets, LastMessage

LEMMA NewChatSays ==
    ASSUME NEW d, NEW L, NEW ps, NEW l
    PROVE  /\ Adds(NewChat(d, L, ps), l, d) <=> l \in L
           /\ \A o : Sets(NewChat(d, L, ps), l, d, o) <=> Has(ps, l, o)
  BY DEF Adds, Sets, NewChat

\* The positions of an object are those that are not 0.
LEMMA HasPlaced ==
    ASSUME NEW f \in [Lists -> Orders], NEW ps \in Listings(Placed(f)), NEW l \in Lists, NEW o \in Orders
    PROVE  Has(ps, l, o) <=> o = f[l] /\ o # 0
  <1>1. \A e : e \in Placed(f) <=> \E n \in DOMAIN ps : ps[n] = e
    BY DEF Listings
  <1>2. [list |-> l, order |-> o] \in Placed(f) <=> o = f[l] /\ o # 0
    <2>1. ASSUME NEW x \in Lists, f[x] # 0, [list |-> l, order |-> o] = [list |-> x, order |-> f[x]]
          PROVE  o = f[l] /\ o # 0
      <3>1. l = x /\ o = f[x]
        BY <2>1
      <3> QED BY <2>1, <3>1
    <2>2. ASSUME o = f[l], o # 0 PROVE [list |-> l, order |-> o] \in Placed(f)
      BY <2>2 DEF Placed
    <2> QED
      BY <2>1, <2>2 DEF Placed
  <1> QED
    BY <1>1, <1>2 DEF Has

\* One entry for each list that the chat joins, and no order.
LEMMA ListFacts ==
    ASSUME NEW d \in Chats, NEW L \in SUBSET Lists, NEW us \in ListUpdates(d, L), NEW l \in Lists
    PROVE  /\ \A i, j \in DOMAIN us : Adds(us[i], l, d) /\ Adds(us[j], l, d) => i = j
           /\ (\E i \in DOMAIN us : Adds(us[i], l, d)) <=> l \in L /\ d \notin member[l]
           /\ \A i \in DOMAIN us : \A o \in Orders : ~ Sets(us[i], l, d, o)
  <1> DEFINE S == (L \ ListsOf(d)) \cup (ListsOf(d) \ L)
             U(k) == IF k \in L THEN AddedToList(d, k) ELSE Unhandled(d)
  <1>1. PICK s \in Listings(S) : us = [i \in DOMAIN s |-> U(s[i])]
    BY DEF ListUpdates
  <1>2. IsFiniteSet(S)
    BY ListsAssumption, FS_Subset DEF ListsOf
  <1>3. l \in S /\ l \in L <=> l \in L /\ d \notin member[l]
    BY DEF ListsOf
  <1>4. ASSUME NEW k PROVE (Adds(U(k), l, d) <=> k \in L /\ l = k) /\ \A o \in Orders : ~ Sets(U(k), l, d, o)
    <2>1. CASE k \in L
      BY <2>1, AddedSays
    <2>2. CASE k \notin L
      BY <2>2, UnhandledSays
    <2> QED BY <2>1, <2>2
  <1> HIDE DEF S, U
  <1>5. Cardinality(S) \in Nat /\ s \in Surjection(1 .. Cardinality(S), S) /\ DOMAIN s = 1 .. Cardinality(S)
    BY <1>2, FS_CardinalityType DEF Listings, Surjection
  <1>6. s \in Injection(1 .. Cardinality(S), S)
    <2>1. IsFiniteSet(1 .. Cardinality(S)) /\ Cardinality(1 .. Cardinality(S)) = Cardinality(S)
      BY <1>5, FS_Interval
    <2> QED
      BY <1>5, <2>1, FS_SurjSameCardinalityImpliesInj
  <1>7. /\ \A i, j \in DOMAIN s : s[i] = s[j] => i = j
        /\ \A x : x \in S <=> \E i \in DOMAIN s : s[i] = x
    BY <1>5, <1>6 DEF Injection, IsInjective, Surjection
  <1>8. \A i \in DOMAIN us : /\ Adds(us[i], l, d) <=> s[i] \in L /\ l = s[i]
                            /\ \A o \in Orders : ~ Sets(us[i], l, d, o)
    BY <1>1, <1>4
  <1> QED
    BY <1>1, <1>3, <1>7, <1>8

LEMMA ShapeFacts ==
    ASSUME NEW d
    PROVE  /\ \A l : Shape(AddedToList(d, l))
           /\ \A l, o : Shape(Position(d, l, o))
           /\ \A ps : Shape(LastMessage(d, ps))
           /\ \A L, ps : Shape(NewChat(d, L, ps))
           /\ Shape(Unhandled(d))
  BY DEF Shape, AddedToList, Position, LastMessage, NewChat, Unhandled

\* The moves by which a chat leaves a list and the client is told of no order 0.
LeavesTold == "leave_unplaced" \notin Moves /\ "leave_with_message" \notin Moves

\* Chat d is in the lists L at the orders f after updates us about it are sent.
Batch(us, d, L, f) ==
    /\ Move(d, L, f) /\ Send(us) /\ us \in Seq(Update)
    /\ \A i \in DOMAIN us : us[i].chat = d /\ Shape(us[i])
    /\ LeavesTold => LeaveBatch(us, d, L)
    /\ "unload" \notin Moves => EnterBatch(us, d, L)
    /\ OrderBatch(us, d, f)

LEMMA NewChatBatch ==
    ASSUME IInv, NEW d \in Chats, SendNewChat(d)
    PROVE  \E L \in SUBSET Lists, f \in [Lists -> Orders], us \in Seq(Update) : Batch(us, d, L, f)
  <1>1. PICK L \in BornIn, f \in [Lists -> Orders] :
            Move(d, L, f) /\ \E ps \in Listings(Placed(f)) : Send(<<NewChat(d, L, ps)>>)
    BY DEF SendNewChat
  <1>2. PICK ps \in Listings(Placed(f)) : Send(<<NewChat(d, L, ps)>>)
    BY <1>1
  <1> DEFINE us == <<NewChat(d, L, ps)>>
  <1>3. L \in SUBSET Lists /\ ps \in Seq(ChatPosition)
    BY ListsAssumption, PlacedType
  <1>4. us \in Seq(Update) /\ DOMAIN us = {1} /\ us[1] = NewChat(d, L, ps) /\ Send(us)
    BY <1>2, <1>3, SingletonUpdates
  <1>5. us[1].chat = d /\ Shape(us[1])
    BY <1>4, ShapeFacts DEF NewChat
  <1> HIDE DEF us
  <1>6. /\ 0 \in Orders
        /\ \A l \in Lists : d \notin member[l] /\ f[l] \in Orders /\ (f[l] # 0 => l \in L)
    BY <1>1, ListsAssumption DEF SendNewChat, IInv, ServerInv, Orders, Move
  <1>7. \A l \in Lists : Adds(us[1], l, d) <=> l \in L
    BY <1>4, NewChatSays
  <1>8. \A l \in Lists : \A o \in Orders : Sets(us[1], l, d, o) <=> o = f[l] /\ o # 0
    <2> SUFFICES ASSUME NEW l \in Lists, NEW o \in Orders
                 PROVE  Sets(us[1], l, d, o) <=> o = f[l] /\ o # 0
      OBVIOUS
    <2>1. Sets(us[1], l, d, o) <=> Has(ps, l, o)
      <3>1. us[1] = NewChat(d, L, ps)
        BY <1>4
      <3> QED
        BY <3>1 DEF Sets, NewChat
    <2>2. Has(ps, l, o) <=> o = f[l] /\ o # 0
      BY HasPlaced
    <2> QED BY <2>1, <2>2
  <1>9. LeaveBatch(us, d, L)
    BY <1>4, <1>6, <1>7 DEF LeaveBatch
  <1>10. EnterBatch(us, d, L)
    BY <1>4, <1>6, <1>7, <1>8 DEF EnterBatch
  <1>11. OrderBatch(us, d, f)
    BY <1>4, <1>6, <1>7, <1>8 DEF OrderBatch
  <1> QED
    BY <1>1, <1>3, <1>4, <1>5, <1>9, <1>10, <1>11 DEF Batch

LEMMA JoinBatch ==
    ASSUME IInv, NEW d \in Chats, NEW m \in Lists, NEW x \in Orders, Join(d, m, x)
    PROVE  \E L \in SUBSET Lists, f \in [Lists -> Orders], us \in Seq(Update) : Batch(us, d, L, f)
  <1> DEFINE L == ListsOf(d) \cup {m}
             f == [OrdersOf(d) EXCEPT ![m] = x]
             r == IF x = 0 THEN <<>> ELSE <<Position(d, m, x)>>
             us == <<AddedToList(d, m)>> \o r
  <1>1. Move(d, L, f) /\ Send(us) /\ d \notin member[m]
    BY DEF Join
  <1>2. /\ L \in SUBSET Lists /\ f \in [Lists -> Orders] /\ f[m] = x /\ m \in L
        /\ \A l \in Lists \ {m} : f[l] = order[l][d] /\ (l \in L <=> d \in member[l])
    BY DEF OrdersOf, ListsOf, IInv, TypeOK
  <1>3. 0 \in Orders
    BY ListsAssumption DEF Orders
  <1>4. /\ us \in Seq(Update) /\ us[1] = AddedToList(d, m)
        /\ DOMAIN us = IF x = 0 THEN {1} ELSE {1, 2}
        /\ x # 0 => us[2] = Position(d, m, x)
    <2> DEFINE q == <<AddedToList(d, m)>>
    <2>1. q \in Seq(Update) /\ Len(q) = 1 /\ q[1] = AddedToList(d, m)
      BY SingletonUpdates
    <2>2. r \in Seq(Update) /\ (x = 0 => Len(r) = 0) /\ (x # 0 => Len(r) = 1 /\ r[1] = Position(d, m, x))
      BY SingletonUpdates
    <2>3. us = q \o r
      OBVIOUS
    <2> HIDE DEF q, r, us
    <2>4. /\ us \in Seq(Update) /\ DOMAIN us = 1 .. 1 + Len(r) /\ us[1] = q[1]
          /\ \A i \in 2 .. 1 + Len(r) : us[i] = r[i - 1]
      BY <2>1, <2>2, <2>3, ConcatFacts
    <2>5. CASE x = 0
      BY <2>1, <2>2, <2>4, <2>5
    <2>6. CASE x # 0
      <3>1. Len(r) = 1 /\ r[1] = Position(d, m, x) /\ 2 \in 2 .. 2 /\ 2 - 1 = 1
        BY <2>2, <2>6
      <3>2. us[2] = r[2 - 1] /\ DOMAIN us = 1 .. 2
        BY <2>4, <3>1
      <3>3. DOMAIN us = {1, 2}
        BY <3>2
      <3>4. us[2] = Position(d, m, x)
        BY <3>1, <3>2
      <3> QED
        BY <2>1, <2>4, <2>6, <3>3, <3>4
    <2> QED BY <2>5, <2>6
  <1> HIDE DEF us, L, f, r
  <1>5. \A i \in DOMAIN us : us[i].chat = d /\ Shape(us[i])
    <2>1. AddedToList(d, m).chat = d /\ Position(d, m, x).chat = d
      BY DEF AddedToList, Position
    <2> QED
      BY <1>4, <2>1, ShapeFacts
  <1>6. \A l \in Lists : Adds(us[1], l, d) <=> l = m
    BY <1>4, AddedSays
  <1>7. \A l \in Lists : \A o \in Orders : ~ Sets(us[1], l, d, o)
    <2>1. us[1] = AddedToList(d, m)
      BY <1>4
    <2>2. \A l, o : ~ Sets(AddedToList(d, m), l, d, o)
      BY AddedSays
    <2> QED BY <2>1, <2>2
  <1>8. x # 0 => \A l \in Lists : ~ Adds(us[2], l, d)
    BY <1>4, PositionSays
  <1>9. x # 0 => \A l \in Lists : \A o \in Orders : Sets(us[2], l, d, o) <=> l = m /\ o = x
    <2>1. x # 0 => us[2] = Position(d, m, x)
      BY <1>4
    <2>2. \A l, o : Sets(Position(d, m, x), l, d, o) <=> l = m /\ o = x
      BY PositionSays
    <2> QED BY <2>1, <2>2
  <1>10. LeaveBatch(us, d, L)
    BY <1>1, <1>2, <1>4, <1>6, <1>8 DEF LeaveBatch
  <1>11. EnterBatch(us, d, L)
    BY <1>1, <1>2, <1>3, <1>4, <1>6, <1>7, <1>9 DEF EnterBatch
  <1>12. OrderBatch(us, d, f)
    BY <1>2, <1>4, <1>6, <1>7, <1>8, <1>9 DEF OrderBatch
  <1> QED
    BY <1>1, <1>2, <1>4, <1>5, <1>10, <1>11, <1>12 DEF Batch

LEMMA LeaveBatchFacts ==
    ASSUME IInv, NEW d \in Chats, NEW m \in Lists, Leave(d, m)
    PROVE  \E L \in SUBSET Lists, f \in [Lists -> Orders], us \in Seq(Update) : Batch(us, d, L, f)
  <1> DEFINE L == ListsOf(d) \ {m}
             f == [OrdersOf(d) EXCEPT ![m] = 0]
  <1>0. 0 \in Orders
    BY ListsAssumption DEF Orders
  <1>1. Move(d, L, f)
    BY DEF Leave
  <1>2. /\ L \in SUBSET Lists /\ f \in [Lists -> Orders] /\ f[m] = 0 /\ m \notin L
        /\ \A l \in Lists \ {m} : f[l] = order[l][d] /\ (l \in L <=> d \in member[l])
    BY <1>0 DEF OrdersOf, ListsOf, IInv, TypeOK
  <1> HIDE DEF L, f
  <1>3. Unhandled(d).chat = d /\ Position(d, m, 0).chat = d
    BY DEF Unhandled, Position
  <1>4. ASSUME NEW us, us \in Seq(Update), DOMAIN us \in {{1}, {1, 2}}, us[1] = Unhandled(d), Send(us),
               2 \in DOMAIN us => us[2] = Position(d, m, 0),
               "leave_unplaced" \notin Moves => 2 \in DOMAIN us
        PROVE  Batch(us, d, L, f)
    <2>1. \A i \in DOMAIN us : us[i].chat = d /\ Shape(us[i])
      BY <1>3, <1>4, ShapeFacts
    <2>2. \A l \in Lists : \A o \in Orders : ~ Adds(us[1], l, d) /\ ~ Sets(us[1], l, d, o)
      BY <1>4, UnhandledSays
    <2>3. 2 \in DOMAIN us => \A l \in Lists : \A o \in Orders :
              ~ Adds(us[2], l, d) /\ (Sets(us[2], l, d, o) <=> l = m /\ o = 0)
      <3> SUFFICES ASSUME 2 \in DOMAIN us, NEW l \in Lists, NEW o \in Orders
                   PROVE  ~ Adds(us[2], l, d) /\ (Sets(us[2], l, d, o) <=> l = m /\ o = 0)
        OBVIOUS
      <3>1. us[2] = Position(d, m, 0)
        BY <1>4
      <3>2. ~ Adds(Position(d, m, 0), l, d)
        BY PositionSays
      <3>3. \A k, y : Sets(Position(d, m, 0), k, d, y) <=> k = m /\ y = 0
        BY PositionSays
      <3> QED BY <3>1, <3>2, <3>3
    <2>4. \A i \in DOMAIN us : \A l \in Lists : ~ Adds(us[i], l, d)
      BY <1>0, <1>4, <2>2, <2>3
    <2>5. \A i \in DOMAIN us : \A l \in Lists : \A o \in Orders : Sets(us[i], l, d, o) => l = m /\ o = 0
      BY <1>4, <2>2, <2>3
    <2>6. LeavesTold => LeaveBatch(us, d, L)
      BY <1>0, <1>2, <1>4, <2>3, <2>4 DEF LeaveBatch, LeavesTold
    <2>7. EnterBatch(us, d, L)
      BY <1>0, <1>2, <2>5 DEF EnterBatch
    <2>8. OrderBatch(us, d, f)
      BY <1>2, <2>4, <2>5 DEF OrderBatch
    <2> QED
      BY <1>1, <1>4, <2>1, <2>6, <2>7, <2>8 DEF Batch
  <1>5. CASE Send(<<Unhandled(d), Position(d, m, 0)>>)
    <2> DEFINE us == <<Unhandled(d), Position(d, m, 0)>>
    <2>1. /\ us \in Seq(Update) /\ DOMAIN us = {1, 2}
          /\ us[1] = Unhandled(d) /\ us[2] = Position(d, m, 0) /\ Send(us)
      BY <1>0, <1>5, SingletonUpdates
    <2> HIDE DEF us
    <2> QED
      BY <1>2, <1>4, <2>1
  <1>6. CASE Send(<<Unhandled(d)>>) /\ "leave_unplaced" \in Moves
    <2> DEFINE us == <<Unhandled(d)>>
    <2>1. us \in Seq(Update) /\ DOMAIN us = {1} /\ us[1] = Unhandled(d) /\ Send(us)
      BY <1>6, SingletonUpdates
    <2> HIDE DEF us
    <2> QED
      BY <1>2, <1>4, <1>6, <2>1
  <1> QED
    BY <1>5, <1>6 DEF Leave

LEMMA ReorderBatch ==
    ASSUME IInv, NEW d \in Chats, NEW m \in Lists, NEW x \in Orders, Reorder(d, m, x)
    PROVE  \E L \in SUBSET Lists, f \in [Lists -> Orders], us \in Seq(Update) : Batch(us, d, L, f)
  <1> DEFINE L == ListsOf(d)
             f == [OrdersOf(d) EXCEPT ![m] = x]
             us == <<Position(d, m, x)>>
  <1>1. /\ Move(d, L, f) /\ Send(us) /\ d \in member[m]
        /\ "unload" \notin Moves => x # 0
    BY DEF Reorder
  <1>2. /\ L \in SUBSET Lists /\ f \in [Lists -> Orders] /\ f[m] = x
        /\ \A l \in Lists : (l # m => f[l] = order[l][d]) /\ (l \in L <=> d \in member[l])
    BY DEF OrdersOf, ListsOf, IInv, TypeOK
  <1>3. 0 \in Orders
    BY ListsAssumption DEF Orders
  <1>4. /\ us \in Seq(Update) /\ DOMAIN us = {1} /\ us[1] = Position(d, m, x)
        /\ us[1].chat = d /\ Shape(us[1])
    <2>1. us \in Seq(Update) /\ DOMAIN us = {1} /\ us[1] = Position(d, m, x)
      BY SingletonUpdates
    <2>2. Position(d, m, x).chat = d
      BY DEF Position
    <2> QED
      BY <2>1, <2>2, ShapeFacts
  <1> HIDE DEF us, L, f
  <1>5. \A l \in Lists : \A o \in Orders :
            ~ Adds(us[1], l, d) /\ (Sets(us[1], l, d, o) <=> l = m /\ o = x)
    <2> SUFFICES ASSUME NEW l \in Lists, NEW o \in Orders
                 PROVE  ~ Adds(us[1], l, d) /\ (Sets(us[1], l, d, o) <=> l = m /\ o = x)
      OBVIOUS
    <2>1. us[1] = Position(d, m, x)
      BY <1>4
    <2>2. ~ Adds(Position(d, m, x), l, d)
      BY PositionSays
    <2>3. \A k, y : Sets(Position(d, m, x), k, d, y) <=> k = m /\ y = x
      BY PositionSays
    <2> QED BY <2>1, <2>2, <2>3
  <1>6. LeaveBatch(us, d, L)
    BY <1>2, <1>3, <1>4, <1>5 DEF LeaveBatch
  <1>7. "unload" \notin Moves => EnterBatch(us, d, L)
    BY <1>1, <1>2, <1>3, <1>4, <1>5 DEF EnterBatch
  <1>8. OrderBatch(us, d, f)
    BY <1>2, <1>3, <1>4, <1>5 DEF OrderBatch
  <1> QED
    BY <1>1, <1>2, <1>4, <1>6, <1>7, <1>8 DEF Batch

LEMMA MessageBatch ==
    ASSUME IInv, NEW d \in Chats, Message(d)
    PROVE  \E L \in SUBSET Lists, f \in [Lists -> Orders], us \in Seq(Update) : Batch(us, d, L, f)
  <1>1. PICK L \in SUBSET Lists, f \in [Lists -> Orders] :
            /\ "leave_with_message" \in Moves \/ ListsOf(d) \subseteq L
            /\ Move(d, L, f)
            /\ \E js \in ListUpdates(d, L), ps \in Listings(Placed(f)) : Send(js \o <<LastMessage(d, ps)>>)
    BY DEF Message
  <1>2. PICK js \in ListUpdates(d, L), ps \in Listings(Placed(f)) : Send(js \o <<LastMessage(d, ps)>>)
    BY <1>1
  <1> DEFINE r == <<LastMessage(d, ps)>>
             us == js \o r
             n == Len(js) + 1
  <1>3. 0 \in Orders /\ \A l \in Lists : f[l] \in Orders /\ (f[l] # 0 => l \in L)
    BY <1>1, ListsAssumption DEF Orders, Move
  <1>4. /\ js \in Seq(Update) /\ \A i \in DOMAIN js : js[i].chat = d
        /\ \A i \in DOMAIN js : Shape(js[i])
    <2>1. js \in Seq(Update) /\ \A i \in DOMAIN js : js[i].chat = d
      BY ListUpdatesType DEF About
    <2>2. \A i \in DOMAIN js : Shape(js[i])
      BY ShapeFacts DEF ListUpdates
    <2> QED BY <2>1, <2>2
  <1>5. r \in Seq(Update) /\ Len(r) = 1 /\ r[1] = LastMessage(d, ps)
    BY PlacedType, SingletonUpdates
  <1>6. Send(us) /\ us = js \o r
    BY <1>2
  <1> HIDE DEF us, r
  <1>7. /\ us \in Seq(Update) /\ Len(js) \in Nat /\ DOMAIN us = 1 .. n /\ DOMAIN js = 1 .. Len(js)
        /\ \A i \in DOMAIN js : i \in DOMAIN us /\ us[i] = js[i] /\ i < n
        /\ \A i \in DOMAIN us : i \in DOMAIN js \/ i = n
        /\ n \in DOMAIN us /\ us[n] = LastMessage(d, ps)
    <2>1. /\ us \in Seq(Update) /\ Len(js) \in Nat /\ DOMAIN us = 1 .. n /\ DOMAIN js = 1 .. Len(js)
          /\ \A i \in 1 .. Len(js) : us[i] = js[i]
          /\ \A i \in n .. n : us[i] = r[i - Len(js)]
      <3>1. /\ us \in Seq(Update) /\ Len(js) \in Nat /\ DOMAIN us = 1 .. Len(js) + Len(r)
            /\ DOMAIN js = 1 .. Len(js) /\ \A i \in 1 .. Len(js) : us[i] = js[i]
            /\ \A i \in Len(js) + 1 .. Len(js) + Len(r) : us[i] = r[i - Len(js)]
        <4>1. js \in Seq(Update) /\ r \in Seq(Update)
          BY <1>4, <1>5
        <4> QED
          BY <1>6, <4>1, ConcatFacts
      <3> QED BY <1>5, <3>1
    <2>2. n - Len(js) = 1 /\ n \in n .. n
      BY <2>1
    <2> QED
      BY <1>5, <2>1, <2>2
  <1> HIDE DEF n
  <1>8. \A i \in DOMAIN us : us[i].chat = d /\ Shape(us[i])
    <2>1. us[n].chat = d /\ Shape(us[n])
      <3>1. us[n] = LastMessage(d, ps)
        BY <1>7
      <3>2. LastMessage(d, ps).chat = d
        BY DEF LastMessage
      <3>3. Shape(LastMessage(d, ps))
        BY ShapeFacts
      <3> QED BY <3>1, <3>2, <3>3
    <2>2. ASSUME NEW i \in DOMAIN js PROVE us[i].chat = d /\ Shape(us[i])
      <3>1. us[i] = js[i]
        BY <1>7
      <3> QED BY <1>4, <3>1
    <2>3. \A i \in DOMAIN us : i \in DOMAIN js \/ i = n
      BY <1>7
    <2> QED BY <2>1, <2>2, <2>3
  <1>9. ASSUME NEW l \in Lists
        PROVE  /\ ~ Adds(us[n], l, d)
               /\ \A o \in Orders : Sets(us[n], l, d, o) <=> o = f[l] /\ o # 0
               /\ \A i, j \in DOMAIN us : Adds(us[i], l, d) /\ Adds(us[j], l, d) => i = j
               /\ (\E i \in DOMAIN us : Adds(us[i], l, d)) <=> l \in L /\ d \notin member[l]
               /\ \A i \in DOMAIN us : \A o \in Orders : Sets(us[i], l, d, o) => i = n
               /\ \A i \in DOMAIN us : Adds(us[i], l, d) => i <= n
    <2>1. ~ Adds(us[n], l, d)
      BY <1>7, LastMessageSays
    <2>2. \A o \in Orders : Sets(us[n], l, d, o) <=> o = f[l] /\ o # 0
      <3> SUFFICES ASSUME NEW o \in Orders PROVE Sets(us[n], l, d, o) <=> o = f[l] /\ o # 0
        OBVIOUS
      <3>1. us[n] = LastMessage(d, ps)
        BY <1>7
      <3>2. Sets(LastMessage(d, ps), l, d, o) <=> Has(ps, l, o)
        BY DEF Sets, LastMessage
      <3>3. Has(ps, l, o) <=> o = f[l] /\ o # 0
        BY HasPlaced
      <3> QED BY <3>1, <3>2, <3>3
    <2>3. /\ \A i, j \in DOMAIN js : Adds(js[i], l, d) /\ Adds(js[j], l, d) => i = j
          /\ (\E i \in DOMAIN js : Adds(js[i], l, d)) <=> l \in L /\ d \notin member[l]
          /\ \A i \in DOMAIN js : \A o \in Orders : ~ Sets(js[i], l, d, o)
      BY ListFacts
    <2>4. \A i \in DOMAIN us : Adds(us[i], l, d) => i \in DOMAIN js /\ Adds(js[i], l, d) /\ i <= n
      <3>1. \A i \in DOMAIN us : i <= n
        BY <1>7 DEF n
      <3> QED BY <1>7, <2>1, <3>1
    <2> QED
      BY <1>7, <2>1, <2>2, <2>3, <2>4
  <1>10. LeavesTold => LeaveBatch(us, d, L)
    BY <1>1, <1>3, <1>9 DEF LeaveBatch, LeavesTold, ListsOf
  <1>11. EnterBatch(us, d, L)
    BY <1>3, <1>9 DEF EnterBatch
  <1>12. OrderBatch(us, d, f)
    BY <1>3, <1>7, <1>9 DEF OrderBatch
  <1> QED
    BY <1>1, <1>6, <1>7, <1>8, <1>10, <1>11, <1>12 DEF Batch

\* What a step of the server keeps, of the moves that have the updates for it.
LEMMA ServerFollows ==
    ASSUME IInv, ShapeInv, Server, "draft" \notin Moves
    PROVE  /\ ShapeInv'
           /\ LeavesTold /\ LeaveInv => LeaveInv'
           /\ "unload" \notin Moves /\ EnterInv => EnterInv'
           /\ OrderInv => OrderInv'
  <1>1. PICK d \in Chats :
            ServerStep /\ \E L \in SUBSET Lists, f \in [Lists -> Orders], us \in Seq(Update) : Batch(us, d, L, f)
    <2>1. PICK d \in Chats :
            \/ SendNewChat(d)
            \/ \E l \in Lists, o \in Orders : Join(d, l, o)
            \/ \E l \in Lists : Leave(d, l)
            \/ \E l \in Lists, o \in Orders : Reorder(d, l, o)
            \/ Message(d)
      BY DEF Server, Draft
    <2>2. ServerStep
      BY <2>1 DEF SendNewChat, Join, Leave, Reorder, Message
    <2>3. \E L \in SUBSET Lists, f \in [Lists -> Orders], us \in Seq(Update) : Batch(us, d, L, f)
      BY <2>1, NewChatBatch, JoinBatch, LeaveBatchFacts, ReorderBatch, MessageBatch
    <2> QED BY <2>2, <2>3
  <1>2. PICK L \in SUBSET Lists, f \in [Lists -> Orders], us \in Seq(Update) : Batch(us, d, L, f)
    BY <1>1
  <1>3. /\ Move(d, L, f) /\ Send(us) /\ us \in Seq(Update)
        /\ \A i \in DOMAIN us : us[i].chat = d
        /\ \A i \in DOMAIN us : Shape(us[i])
    BY <1>2 DEF Batch
  <1>4. /\ LeavesTold => LeaveBatch(us, d, L)
        /\ "unload" \notin Moves => EnterBatch(us, d, L)
        /\ OrderBatch(us, d, f)
    BY <1>2 DEF Batch
  <1>5. /\ LeaveInv /\ LeaveBatch(us, d, L) => LeaveInv'
        /\ EnterInv /\ EnterBatch(us, d, L) => EnterInv'
        /\ OrderInv /\ OrderBatch(us, d, f) => OrderInv'
    BY <1>1, <1>3, BatchFacts
  <1>6. ShapeInv'
    <2>1. /\ Len(channel) \in Nat /\ Len(us) \in Nat
          /\ DOMAIN channel = 1 .. Len(channel) /\ DOMAIN us = 1 .. Len(us)
          /\ DOMAIN channel' = 1 .. Len(channel) + Len(us)
          /\ \A i \in 1 .. Len(channel) : channel'[i] = channel[i]
          /\ \A i \in Len(channel) + 1 .. Len(channel) + Len(us) : channel'[i] = us[i - Len(channel)]
      BY <1>1, <1>3, SendFacts DEF ServerStep
    <2>2. ASSUME NEW i \in DOMAIN channel' PROVE Shape(channel'[i])
      <3>1. CASE i \in 1 .. Len(channel)
        BY <2>1, <3>1 DEF ShapeInv
      <3>2. CASE i \in Len(channel) + 1 .. Len(channel) + Len(us)
        <4>1. i - Len(channel) \in DOMAIN us /\ channel'[i] = us[i - Len(channel)]
          BY <2>1, <3>2
        <4> QED BY <1>3, <4>1
      <3> QED BY <2>1, <3>1, <3>2
    <2> QED
      BY <2>2 DEF ShapeInv, Shape
  <1> QED
    BY <1>4, <1>5, <1>6

\* The steps that neither handle an update nor send one.
Quiet == PushChatlist \/ Return \/ PopChatlist \/ KeyRedraw \/ draw_side \/ UNCHANGED vars

LEMMA QuietPair ==
    ASSUME IInv, Quiet, NEW l \in Lists, NEW c \in Chats
    PROVE  /\ AddsOf(l, c)' = AddsOf(l, c) /\ SetsOf(l, c)' = SetsOf(l, c) /\ At(l, c)' = At(l, c)
           /\ UNCHANGED <<member, order, channel, id_to_position, position_sets>>
  <1>1. UNCHANGED <<member, order, channel, id_to_position, position_sets, todo>>
    BY DEF Quiet, PushChatlist, Return, PopChatlist, KeyRedraw, draw_side, vars, server, app
  <1>2. \/ UNCHANGED <<handler, update>>
        \/ handler = "positions" /\ todo = <<>> /\ handler' = "pushed"
        \/ handler = "pushed" /\ handler' = "receive"
    BY DEF Quiet, PushChatlist, Return, PopChatlist, KeyRedraw, draw_side, vars, app
  <1>3. ASSUME NEW o
        PROVE  (handler' = "positions" /\ update'.chat = c /\ Has(todo, l, o))
               <=> (handler = "positions" /\ update.chat = c /\ Has(todo, l, o))
    <2>1. todo = <<>> => ~ Has(todo, l, o)
      BY EmptySeq DEF Has
    <2> QED BY <1>2, <2>1
  <1>4. SetsOf(l, c)' = SetsOf(l, c)
    <2>1. SetsOf(l, c)' = [o \in Orders |-> {i \in 0 .. Len(channel) :
            IF i = 0 THEN handler' = "positions" /\ update'.chat = c /\ Has(todo, l, o)
                     ELSE Sets(channel[i], l, c, o)}]
      BY <1>1 DEF SetsOf, Has
    <2>2. SetsOf(l, c) = [o \in Orders |-> {i \in 0 .. Len(channel) :
            IF i = 0 THEN handler = "positions" /\ update.chat = c /\ Has(todo, l, o)
                     ELSE Sets(channel[i], l, c, o)}]
      BY DEF SetsOf
    <2>3. ASSUME NEW o \in Orders
          PROVE  {i \in 0 .. Len(channel) :
                    IF i = 0 THEN handler' = "positions" /\ update'.chat = c /\ Has(todo, l, o)
                             ELSE Sets(channel[i], l, c, o)}
               = {i \in 0 .. Len(channel) :
                    IF i = 0 THEN handler = "positions" /\ update.chat = c /\ Has(todo, l, o)
                             ELSE Sets(channel[i], l, c, o)}
      BY <1>3
    <2> QED BY <2>1, <2>2, <2>3
  <1>5. AddsOf(l, c)' = AddsOf(l, c) /\ At(l, c)' = At(l, c)
    BY <1>1 DEF AddsOf, At
  <1> QED
    BY <1>1, <1>4, <1>5

\* What the other steps keep, whatever the server's moves.
LEMMA ClientFollows ==
    ASSUME IInv, ShapeInv, DistinctClasses, Handle \/ ApplyPosition \/ Quiet
    PROVE  /\ ShapeInv'
           /\ LeaveInv => LeaveInv'
           /\ EnterInv => EnterInv'
           /\ EnterInv /\ OrderInv => OrderInv'
  <1>1. ASSUME NEW l \in Lists, NEW c \in Chats
        PROVE  /\ LeaveInv => Leaves(AddsOf(l, c)', SetsOf(l, c)', At(l, c)', c \in member'[l])
               /\ EnterInv => Enters(AddsOf(l, c)', SetsOf(l, c)', At(l, c)', c \in member'[l])
               /\ EnterInv /\ OrderInv => Agrees(AddsOf(l, c)', SetsOf(l, c)', At(l, c)', order'[l][c])
    <2> DEFINE A == AddsOf(l, c)
               G == SetsOf(l, c)
               p == At(l, c)
               mem == c \in member[l]
               ord == order[l][c]
               A1 == AddsOf(l, c)'
               G1 == SetsOf(l, c)'
               p1 == At(l, c)'
    <2>1. /\ LeaveInv => Leaves(A, G, p, mem)
          /\ EnterInv => Enters(A, G, p, mem)
          /\ OrderInv => Agrees(A, G, p, ord)
      BY DEF LeaveInv, EnterInv, OrderInv
    <2>2. A \in SUBSET (Nat \ {0}) /\ G \in [Orders -> SUBSET Nat] /\ ord \in Orders
      BY PairTypes
    <2>3. UNCHANGED <<member, order>>
      <3>1. CASE Handle BY <3>1, ReceivePair
      <3>2. CASE ApplyPosition BY <3>2, ApplyPair
      <3>3. CASE Quiet BY <3>3, QuietPair
      <3> QED BY <3>1, <3>2, <3>3
    <2>4. /\ Leaves(A, G, p, mem) => Leaves(A1, G1, p1, mem)
          /\ Enters(A, G, p, mem) => Enters(A1, G1, p1, mem)
          /\ Enters(A, G, p, mem) /\ Agrees(A, G, p, ord) => Agrees(A1, G1, p1, ord)
      <3>1. CASE Handle
        <4>1. /\ G \in [Orders -> SUBSET (Nat \ {0})]
              /\ A1 = {i \in Nat \ {0} : i + 1 \in A}
              /\ G1 = [o \in Orders |-> {i \in Nat : i + 1 \in G[o]}]
              /\ p1 = IF 1 \in A THEN 0 ELSE p
          BY <3>1, ReceivePair
        <4> HIDE DEF A, G, p, mem, ord, A1, G1, p1
        <4> QED
          BY <2>2, <4>1, Shifted
      <3>2. CASE ApplyPosition
        <4>1. A1 = A
          BY <3>2, ApplyPair
        <4>2. \/ G1 = G /\ p1 = p
              \/ \E x \in Orders :
                    /\ 0 \in G[x]
                    /\ G1 \in [Orders -> SUBSET Nat]
                    /\ \A o \in Orders : G1[o] \subseteq G[o] /\ G[o] \ {0} \subseteq G1[o]
                    /\ \A o \in Orders \ {x} : G1[o] = G[o]
                    /\ p1 = IF p = Absent \/ x = 0 THEN Absent ELSE x
          BY <3>2, ApplyPair
        <4> HIDE DEF A, G, p, mem, ord, A1, G1, p1
        <4>3. CASE G1 = G /\ p1 = p
          BY <4>1, <4>3
        <4>4. ASSUME NEW x \in Orders,
                     0 \in G[x],
                     G1 \in [Orders -> SUBSET Nat],
                     \A o \in Orders : G1[o] \subseteq G[o] /\ G[o] \ {0} \subseteq G1[o],
                     \A o \in Orders \ {x} : G1[o] = G[o],
                     p1 = IF p = Absent \/ x = 0 THEN Absent ELSE x
              PROVE  /\ Leaves(A, G, p, mem) => Leaves(A1, G1, p1, mem)
                     /\ Enters(A, G, p, mem) => Enters(A1, G1, p1, mem)
                     /\ Enters(A, G, p, mem) /\ Agrees(A, G, p, ord) => Agrees(A1, G1, p1, ord)
          BY <2>2, <4>1, <4>4, Applied
        <4> QED BY <4>2, <4>3, <4>4
      <3>3. CASE Quiet
        <4>1. A1 = A /\ G1 = G /\ p1 = p
          BY <3>3, QuietPair
        <4> HIDE DEF A, G, p, mem, ord, A1, G1, p1
        <4> QED BY <4>1
      <3> QED BY <3>1, <3>2, <3>3
    <2> QED
      BY <2>1, <2>3, <2>4
  <1>2. ShapeInv'
    <2>1. CASE Handle
      <3>1. channel # <<>> /\ channel' = Tail(channel) /\ channel \in Seq(Update)
        BY <2>1 DEF Handle, process_update_new_chat, process_update_chat_added_to_list,
               process_update_chat_position, process_update_chat_last_message, process_update_default,
               StartHandler, Receive, IInv, TypeOK
      <3>2. /\ Len(channel) \in Nat /\ DOMAIN channel = 1 .. Len(channel)
            /\ DOMAIN channel' = 1 .. Len(channel) - 1
            /\ \A i \in 1 .. Len(channel) - 1 : channel'[i] = channel[i + 1]
        BY <3>1, TailFacts
      <3>3. ASSUME NEW i \in DOMAIN channel' PROVE Shape(channel'[i])
        <4>1. i + 1 \in DOMAIN channel /\ channel'[i] = channel[i + 1]
          BY <3>2
        <4> QED BY <4>1 DEF ShapeInv
      <3> QED
        BY <3>3 DEF ShapeInv, Shape
    <2>2. CASE ApplyPosition \/ Quiet
      <3>1. UNCHANGED channel
        BY <2>2 DEF ApplyPosition, Quiet, PushChatlist, Return, PopChatlist, KeyRedraw, draw_side, vars
      <3> QED
        BY <3>1 DEF ShapeInv, Shape
    <2> QED BY <2>1, <2>2
  <1> QED
    BY <1>1, <1>2, PairsAfter

\* The sorted set keeps one pair per chat: a chat is added to a list only when
\* the client has it out of the list, and the pair that is erased is its only one.
LEMMA OnePositionStep ==
    ASSUME IInv, ShapeInv, LeaveInv, OnePosition, DistinctClasses, [Next]_vars
    PROVE  OnePosition'
  <1>0. /\ id_to_position \in [Classes -> [Chats -> Orders \cup {Absent}]]
        /\ position_sets \in [Classes -> SUBSET (Orders \X Chats)]
    BY DEF IInv, TypeOK
  <1>1. CASE UNCHANGED <<id_to_position, position_sets>>
    BY <1>1 DEF OnePosition
  <1>2. CASE process_update_new_chat \/ process_update_chat_added_to_list
    <2> DEFINE u == channel[1]
               c == u.chat
               ks == {ClassId[l] : l \in u.lists}
    <2>1. Handle
      BY <1>2 DEF Handle
    <2>2. /\ channel # <<>> /\ channel \in Seq(Update)
          /\ AddToLists(Head(channel).chat, Head(channel).lists)
      BY <1>2 DEF process_update_new_chat, process_update_chat_added_to_list, StartHandler, Receive,
             IInv, TypeOK
    <2>3. Head(channel) = u /\ u \in Update /\ 1 \in DOMAIN channel
      BY <2>2, TailFacts
    <2>4. c \in Chats /\ u.lists \subseteq Lists /\ AddToLists(c, u.lists)
      BY <2>2, <2>3 DEF Update
    <2>5. ASSUME NEW l \in u.lists PROVE At(l, c) = Absent
      <3>1. 1 \in AddsOf(l, c)
        BY <2>3 DEF AddsOf, Adds
      <3>2. SetsOf(l, c) \in [Orders -> SUBSET (Nat \ {0})]
        BY <2>1, <2>4, <2>5, ReceivePair
      <3>3. At(l, c) # Absent => \A i \in AddsOf(l, c) : \E m \in SetsOf(l, c)[0] : m < i
        BY <2>4, <2>5 DEF LeaveInv, Leaves
      <3>4. \A m \in SetsOf(l, c)[0] : m \in Nat \ {0}
        <4>1. 0 \in Orders
          BY ListsAssumption DEF Orders
        <4> QED BY <3>2, <4>1
      <3>5. \A m \in SetsOf(l, c)[0] : ~ (m < 1)
        BY <3>4
      <3> QED
        BY <3>1, <3>3, <3>5
    <2>6. /\ id_to_position' = [k \in Classes |->
              IF k \in ks THEN [id_to_position[k] EXCEPT ![c] = 0] ELSE id_to_position[k]]
          /\ position_sets' = [k \in Classes |->
              IF k \in ks THEN position_sets[k] \cup {<<0, c>>} ELSE position_sets[k]]
      BY <2>4 DEF AddToLists
    <2>7. \A k \in ks : id_to_position[k][c] = Absent
      BY <2>5 DEF At
    <2> HIDE DEF u, c, ks
    <2>8. ASSUME NEW k \in Classes, NEW p \in position_sets'[k]
          PROVE  id_to_position'[k][p[2]] = p[1]
      <3>1. CASE k \notin ks
        BY <2>6, <2>8, <3>1 DEF OnePosition
      <3>2. CASE k \in ks /\ p = <<0, c>>
        BY <1>0, <2>4, <2>6, <3>2
      <3>3. CASE k \in ks /\ p \in position_sets[k]
        <4>1. p[1] \in Orders /\ p[2] \in Chats /\ id_to_position[k][p[2]] = p[1]
          BY <1>0, <3>3 DEF OnePosition
        <4>2. p[1] # Absent
          BY <4>1, ListsAssumption DEF Orders, Absent
        <4>3. p[2] # c
          BY <2>7, <3>3, <4>1, <4>2
        <4>4. id_to_position'[k] = [id_to_position[k] EXCEPT ![c] = 0]
          BY <2>6, <3>3
        <4> QED
          BY <1>0, <4>1, <4>3, <4>4
      <3> QED
        BY <2>6, <2>8, <3>1, <3>2, <3>3
    <2> QED
      BY <2>8 DEF OnePosition
  <1>3. CASE ApplyPosition
    <2> DEFINE c == update.chat
               k == ClassId[Head(todo).list]
               o == Head(todo).order
               old == id_to_position[k][c]
    <2>1. /\ todo # <<>> /\ todo \in Seq(ChatPosition) /\ _update_position(c, k, o)
          /\ c \in Chats
      BY <1>3 DEF ApplyPosition, IInv, TypeOK, HandlerInv, Update
    <2>2. Head(todo) \in ChatPosition
      BY <2>1, TailFacts
    <2>3. k \in Classes /\ o \in Orders
      BY <2>2 DEF ChatPosition, Classes
    <2>4. \/ UNCHANGED <<id_to_position, position_sets>>
          \/ /\ id_to_position' = [id_to_position EXCEPT ![k][c] = IF o = 0 THEN Absent ELSE o]
             /\ position_sets' = [position_sets EXCEPT ![k] =
                   (@ \ {<<old, c>>}) \cup (IF o = 0 THEN {} ELSE {<<o, c>>})]
      BY <2>1 DEF _update_position
    <2> HIDE DEF c, k, o, old, Absent
    <2>5. ASSUME id_to_position' = [id_to_position EXCEPT ![k][c] = IF o = 0 THEN Absent ELSE o],
                 position_sets' = [position_sets EXCEPT ![k] =
                   (@ \ {<<old, c>>}) \cup (IF o = 0 THEN {} ELSE {<<o, c>>})],
                 NEW j \in Classes, NEW p \in position_sets'[j]
          PROVE  id_to_position'[j][p[2]] = p[1]
      <3>1. CASE j # k
        BY <1>0, <2>5, <3>1 DEF OnePosition
      <3>2. CASE j = k /\ o # 0 /\ p = <<o, c>>
        BY <1>0, <2>1, <2>3, <2>5, <3>2
      <3>3. CASE j = k /\ p \in position_sets[k] /\ p # <<old, c>>
        <4>1. p[1] \in Orders /\ p[2] \in Chats /\ p = <<p[1], p[2]>> /\ id_to_position[k][p[2]] = p[1]
          BY <1>0, <3>3 DEF OnePosition
        <4>2. p[2] # c
          BY <3>3, <4>1 DEF old
        <4> QED
          BY <1>0, <2>1, <2>3, <2>5, <3>3, <4>1, <4>2
      <3>4. position_sets'[k] = (position_sets[k] \ {<<old, c>>}) \cup (IF o = 0 THEN {} ELSE {<<o, c>>})
        BY <1>0, <2>3, <2>5
      <3> QED
        BY <2>5, <3>1, <3>2, <3>3, <3>4
    <2>6. CASE ~ UNCHANGED <<id_to_position, position_sets>>
      BY <2>4, <2>5, <2>6 DEF OnePosition
    <2> QED BY <1>1, <2>6
  <1> QED
    BY <1>1, <1>2, <1>3 DEF Next, Server, SendNewChat, Join, Leave, Reorder, Message, Draft,
       ServerStep, app, Handle, process_update_chat_position, process_update_chat_last_message,
       process_update_default, Finish, PushChatlist, Return, PopChatlist, KeyRedraw, draw_side, vars

\* The moves with which an updateChatPosition of order 0 tells the client of every
\* list a chat leaves: no draft, no leave without a position, no leave with a last
\* message.  And those with which it is told of no order 0 for a list the chat
\* stays in.  Drafts are in neither: the client drops the positions they carry.
LeaveMoves == "draft" \notin Moves /\ LeavesTold
EnterMoves == "draft" \notin Moves /\ "unload" \notin Moves

LeaveIInv == ShapeInv /\ LeaveInv /\ OnePosition
EnterIInv == ShapeInv /\ EnterInv /\ OrderInv

LEMMA InitFollows == Init => LeaveIInv /\ EnterIInv
  <1> SUFFICES ASSUME Init PROVE LeaveIInv /\ EnterIInv
    OBVIOUS
  <1>1. DOMAIN channel = {} /\ Len(channel) = 0 /\ handler = "receive" /\ 0 .. 0 = {0} /\ 0 \in Orders
    BY EmptySeq, LenProperties, ListsAssumption DEF Init, Orders
  <1>2. ASSUME NEW l \in Lists, NEW c \in Chats
        PROVE  /\ AddsOf(l, c) = {} /\ \A o \in Orders : SetsOf(l, c)[o] = {}
               /\ At(l, c) = Absent /\ c \notin member[l] /\ order[l][c] = 0
    BY <1>1 DEF AddsOf, SetsOf, At, Init, Classes
  <1> HIDE DEF Absent
  <1>3. LeaveInv
    BY <1>1, <1>2 DEF LeaveInv, Leaves
  <1>4. EnterInv
    BY <1>1, <1>2 DEF EnterInv, Enters
  <1>5. OrderInv
    BY <1>1, <1>2 DEF OrderInv, Agrees
  <1>6. ShapeInv /\ OnePosition
    BY <1>1 DEF ShapeInv, OnePosition, Init
  <1> QED
    BY <1>3, <1>4, <1>5, <1>6 DEF LeaveIInv, EnterIInv

LEMMA NextCases == [Next]_vars => Server \/ Handle \/ ApplyPosition \/ Quiet
  BY DEF Next, Finish, Quiet

LEMMA LeaveStep ==
    DistinctClasses /\ LeaveMoves /\ IInv /\ LeaveIInv /\ [Next]_vars => LeaveIInv'
  <1> SUFFICES ASSUME DistinctClasses, LeaveMoves, IInv, LeaveIInv, [Next]_vars PROVE LeaveIInv'
    OBVIOUS
  <1>1. ShapeInv /\ LeaveInv /\ OnePosition
    BY DEF LeaveIInv
  <1>2. OnePosition'
    BY <1>1, OnePositionStep
  <1>3. ShapeInv' /\ LeaveInv'
    <2>1. CASE Server
      BY <1>1, <2>1, ServerFollows DEF LeaveMoves
    <2>2. CASE Handle \/ ApplyPosition \/ Quiet
      BY <1>1, <2>2, ClientFollows
    <2> QED BY <2>1, <2>2, NextCases
  <1> QED
    BY <1>2, <1>3 DEF LeaveIInv

LEMMA EnterStep ==
    DistinctClasses /\ EnterMoves /\ IInv /\ EnterIInv /\ [Next]_vars => EnterIInv'
  <1> SUFFICES ASSUME DistinctClasses, EnterMoves, IInv, EnterIInv, [Next]_vars PROVE EnterIInv'
    OBVIOUS
  <1>1. ShapeInv /\ EnterInv /\ OrderInv
    BY DEF EnterIInv
  <1>2. ShapeInv' /\ EnterInv' /\ OrderInv'
    <2>1. CASE Server
      BY <1>1, <2>1, ServerFollows DEF EnterMoves
    <2>2. CASE Handle \/ ApplyPosition \/ Quiet
      BY <1>1, <2>2, ClientFollows
    <2> QED BY <2>1, <2>2, NextCases
  <1> QED
    BY <1>2 DEF EnterIInv

\* No update is on its way once they are handled.
LEMMA DrainedPair ==
    ASSUME Drained, NEW l \in Lists, NEW c \in Chats, NEW o \in Orders
    PROVE  SetsOf(l, c)[o] = {}
  <1>1. Len(channel) = 0 /\ handler = "receive" /\ 0 .. 0 = {0}
    BY EmptySeq DEF Drained
  <1> QED
    BY <1>1 DEF SetsOf

\* If every list has a class id of its own and every list that a chat leaves is
\* announced by an updateChatPosition, never by a draft or a last message alone,
\* then the handlers never put a chat into one of the position_sets twice: every
\* pair in it has the order of id_to_position.
THEOREM AlwaysOnePosition ==
    ASSUME DistinctClasses, LeaveMoves
    PROVE  Spec => []OnePosition
  <1>1. LeaveIInv => OnePosition
    BY DEF LeaveIInv
  <1>2. IInv /\ LeaveIInv /\ [Next]_vars => LeaveIInv'
    BY LeaveStep
  <1>3. Init => LeaveIInv
    BY InitFollows
  <1> QED
    BY <1>1, <1>2, <1>3, Inductive, PTL DEF Spec

\* Under the same conditions, process_update_chat_position has taken a chat that
\* left a list out of id_to_position once the updates are handled.
THEOREM NeverGhost ==
    ASSUME DistinctClasses, LeaveMoves
    PROVE  Spec => []NoGhost
  <1>1. LeaveIInv => NoGhost
    <2> SUFFICES ASSUME LeaveIInv, Drained, NEW l \in Lists, NEW c \in Chats,
                        id_to_position[ClassId[l]][c] # Absent, c \notin member[l]
                 PROVE  FALSE
      BY DEF NoGhost
    <2>1. 0 \in Orders
      BY ListsAssumption DEF Orders
    <2>2. SetsOf(l, c)[0] # {}
      BY DEF LeaveIInv, LeaveInv, Leaves, At
    <2> QED
      BY <2>1, <2>2, DrainedPair
  <1>2. IInv /\ LeaveIInv /\ [Next]_vars => LeaveIInv'
    BY LeaveStep
  <1>3. Init => LeaveIInv
    BY InitFollows
  <1> QED
    BY <1>1, <1>2, <1>3, Inductive, PTL DEF Spec

\* If every list has a class id of its own and the server takes no position away
\* from a chat that stays in a list, then id_to_position has the server's order
\* of every chat once the updates are handled, though _update_position drops the
\* order of a chat that is not in the list yet.
THEOREM PositionsAlwaysFollowed ==
    ASSUME DistinctClasses, EnterMoves
    PROVE  Spec => []PositionsFollowed
  <1>1. IInv /\ EnterIInv => PositionsFollowed
    <2> SUFFICES ASSUME IInv, EnterIInv, Drained, NEW l \in Lists, NEW c \in Chats,
                        order[l][c] # 0, id_to_position[ClassId[l]][c] # order[l][c]
                 PROVE  FALSE
      BY DEF PositionsFollowed
    <2>1. order[l][c] \in Orders
      BY PairTypes
    <2>2. SetsOf(l, c)[order[l][c]] # {}
      BY DEF EnterIInv, OrderInv, Agrees, At
    <2> QED
      BY <2>1, <2>2, DrainedPair
  <1>2. IInv /\ EnterIInv /\ [Next]_vars => EnterIInv'
    BY EnterStep
  <1>3. Init => EnterIInv
    BY InitFollows
  <1> QED
    BY <1>1, <1>2, <1>3, Inductive, PTL DEF Spec
=============================================================================
