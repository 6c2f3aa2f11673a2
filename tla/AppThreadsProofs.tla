-------------------------- MODULE AppThreadsProofs --------------------------
(***************************************************************************)
(* For any number of chats, queries, messages and responses: whatever the  *)
(* two threads and TDLib interleave, handlers_ has an entry for exactly    *)
(* the queries under way, and a main pane that is out of date has its      *)
(* redraw on the way.                                                      *)
(***************************************************************************)
EXTENDS AppThreads, SequenceFacts

(***************************************************************************)
(* The inductive invariant.                                                *)
(***************************************************************************)
\* The tg thread has an answer to a query in its hands.
Answering == tg \in {"find", "store", "store_push", "store_return", "erase"}

\* Each mutex is held exactly in the critical sections of its holder.
MutexInv ==
    /\ messages_lock = "main" <=> main \in {"emplace", "send"}
    /\ messages_lock = "tg" <=> tg \in {"store_push", "store_return"}
    /\ chatboxes = "tg" <=> tg \in {"list_push", "list_return"}
    /\ chatboxes # "main"

\* What the threads carry from one step to the next.
CarriedInv ==
    /\ Answering => response \in Answer
    /\ main \in {"open_draw", "history", "emplace", "send"} => chosen \in Openable
    /\ main \in {"open_pick", "open_draw", "history", "emplace"} => next_id < MaxQueries
    /\ main = "send" => next_id # 0

\* The queries that have been handed to TDLib.
SentQueries == {q \in 1 .. next_id : main = "send" => q # next_id}

\* Where the answers are in the inbox.
Answers == {i \in DOMAIN inbox : inbox[i] # ListUpdate}

\* A query is in one place at a time: unanswered in TDLib, answered in the
\* inbox or in the hands of the tg thread.
QueryInv ==
    /\ DOMAIN asked \subseteq SentQueries
    /\ \A i \in Answers : inbox[i].id \in SentQueries \ DOMAIN asked
    /\ \A i, j \in Answers : inbox[i].id = inbox[j].id => i = j
    /\ Answering =>
        /\ response.id \in SentQueries \ DOMAIN asked
        /\ \A i \in Answers : inbox[i].id # response.id

IInv == TypeOK /\ MutexInv /\ CarriedInv /\ QueryInv /\ HandlersMatchQueries /\ MainPaneExplained

MainPlaces == {"input", "open_pick", "open_draw", "history", "emplace", "send", "key_side",
               "key_main", "fill_main", "pop", "event_side", "event_main", "join", "done"}

EventTypes == {"ET_CHATLIST", "ET_MESSAGES"}
-----------------------------------------------------------------------------
(***************************************************************************)
(* What the groups of steps leave alone.                                   *)
(***************************************************************************)
\* The steps of the main thread outside send_query.
UiStep == Key \/ OpenPick \/ HistoryLock \/ Draw \/ PopNothing \/ PopEvent \/ Join

LEMMA UiFrame ==
    ASSUME UiStep
    PROVE  /\ tg' = tg /\ chatboxes' = chatboxes /\ position_set' = position_set /\ messages' = messages
           /\ handlers' = handlers /\ next_id' = next_id /\ lost' = lost /\ asked' = asked
           /\ inbox' = inbox /\ sent_messages' = sent_messages /\ response' = response
           /\ dropped' = dropped
           /\ main # "send" /\ main' # "send" /\ main # "emplace"
  BY DEF UiStep, Key, KeyIdle, KeyQuit, KeySide, KeyMain, KeyResize, KeyOpen, OpenPick, HistoryLock,
         Draw, draw_side, draw_main, PopNothing, PopEvent, Join, InputFrame, DrawFrame, MainGoto, LoopTop,
         locks, client, tdlib, ui

LEMMA TgStepFrame ==
    ASSUME TgStep
    PROVE  /\ terminating' = terminating /\ cont' = cont /\ main' = main /\ row' = row /\ chosen' = chosen
           /\ shown' = shown /\ next_id' = next_id /\ lost' = lost /\ asked' = asked
           /\ sent_messages' = sent_messages
  BY DEF TgStep, TgCheck, TgTimeout, TgReceive, TgList, TgListPush, TgListReturn, TgFind, TgStore,
         TgStorePush, TgStoreReturn, TgErase, TgFrame, ui

LEMMA TdlibStepFrame ==
    ASSUME Tdlib
    PROVE  /\ terminating' = terminating /\ cont' = cont /\ main' = main /\ tg' = tg
           /\ chatboxes' = chatboxes /\ messages_lock' = messages_lock
           /\ row' = row /\ chosen' = chosen /\ shown' = shown
           /\ position_set' = position_set /\ messages' = messages /\ handlers' = handlers
           /\ next_id' = next_id /\ lost' = lost /\ queue' = queue /\ response' = response /\ dropped' = dropped
  BY DEF Tdlib, SendListUpdate, NewMessage, AnswerQuery, TdlibFrame, threads, locks, ui, client

\* The step relation, by who takes the step.
LEMMA NextSplit == [Next]_vars => UiStep \/ Emplace \/ Send \/ TgStep \/ Tdlib \/ UNCHANGED vars
  BY DEF Next, MainStep, UiStep, Terminated
-----------------------------------------------------------------------------
(***************************************************************************)
(* Types.                                                                  *)
(***************************************************************************)
LEMMA InitIInv == Init => IInv
  <1> SUFFICES ASSUME Init PROVE IInv
    OBVIOUS
  <1> USE DEF Init
  <1>1. TypeOK
    <2>1. terminating \in BOOLEAN /\ cont \in BOOLEAN
      BY AppAssumption
    <2>2. queue \in Seq({"ET_CHATLIST", "ET_MESSAGES"}) /\ inbox \in Seq(Answer \cup {ListUpdate})
      <3>1. \A S : <<>> \in Seq(S)
        BY EmptySeq
      <3>2. <<"ET_CHATLIST">> \in Seq({"ET_CHATLIST", "ET_MESSAGES"})
        OBVIOUS
      <3> QED BY <3>1, <3>2
    <2>3. /\ DOMAIN asked = {} /\ next_id \in 0 .. MaxQueries /\ row \in Nat
          /\ messages \in [Openable -> 0 .. MaxMessages] /\ sent_messages \in [Chats -> 0 .. MaxMessages]
          /\ shown \in (Openable \cup {NoChat}) \X (0 .. MaxMessages)
      BY AppAssumption
    <2>4. position_set \subseteq Chats
      OBVIOUS
    <2> QED BY <2>1, <2>2, <2>3, <2>4 DEF TypeOK, Holders
  <1>2. MutexInv /\ CarriedInv
    BY DEF MutexInv, CarriedInv, Answering
  <1>3. inbox = <<>> /\ DOMAIN inbox = {} /\ DOMAIN asked = {}
    OBVIOUS
  <1>4. QueryInv
    BY <1>3 DEF QueryInv, Answering, Answers
  <1>5. HandlersMatchQueries
    BY <1>3 DEF HandlersMatchQueries, Answered
  <1>6. MainPaneExplained
    BY DEF MainPaneExplained
  <1> QED BY <1>1, <1>2, <1>4, <1>5, <1>6 DEF IInv

LEMMA UiType == IInv /\ UiStep => TypeOK'
  <1> SUFFICES ASSUME IInv, UiStep PROVE TypeOK'
    OBVIOUS
  <1> USE DEF UiStep, Key, Draw, draw_side, draw_main, MainGoto, InputFrame, DrawFrame
  <1>0. /\ terminating \in BOOLEAN /\ cont \in BOOLEAN /\ row \in Nat /\ messages_lock \in Holders
        /\ position_set \subseteq Chats /\ messages \in [Openable -> 0 .. MaxMessages]
        /\ chosen \in Openable \cup {NoChat} /\ shown \in (Openable \cup {NoChat}) \X (0 .. MaxMessages)
        /\ queue \in Seq(EventTypes)
    BY DEF IInv, TypeOK, EventTypes
  <1>1. terminating' \in BOOLEAN /\ cont' \in BOOLEAN
    BY <1>0 DEF KeyIdle, KeyQuit, KeySide, KeyMain, KeyResize, KeyOpen, OpenPick, HistoryLock, PopNothing, PopEvent, Join
  <1>2. main' \in MainPlaces
    BY DEF KeyIdle, KeyQuit, KeySide, KeyMain, KeyResize, KeyOpen, OpenPick, HistoryLock,
           PopNothing, PopEvent, Join, LoopTop, MainPlaces
  <1>3. messages_lock' \in Holders
    BY <1>0 DEF KeyIdle, KeyQuit, KeySide, KeyMain, KeyResize, KeyOpen, OpenPick, HistoryLock,
           PopNothing, PopEvent, Join, locks, Holders
  <1>4. row' \in Nat
    BY <1>0 DEF KeyIdle, KeyQuit, KeySide, KeyMain, KeyResize, KeyOpen, OpenPick, HistoryLock,
           PopNothing, PopEvent, Join, ui
  <1>5. chosen' \in Openable \cup {NoChat}
    BY <1>0 DEF KeyIdle, KeyQuit, KeySide, KeyMain, KeyResize, KeyOpen, OpenPick, HistoryLock,
           PopNothing, PopEvent, Join, ui, Openable
  <1>6. shown' \in (Openable \cup {NoChat}) \X (0 .. MaxMessages)
    <2>1. chosen # NoChat => <<chosen, messages[chosen]>> \in (Openable \cup {NoChat}) \X (0 .. MaxMessages)
      BY <1>0
    <2>2. shown' = shown \/ (chosen # NoChat /\ shown' = <<chosen, messages[chosen]>>)
      BY DEF KeyIdle, KeyQuit, KeySide, KeyMain, KeyResize, KeyOpen, OpenPick, HistoryLock,
             PopNothing, PopEvent, Join, ui
    <2> QED BY <1>0, <2>1, <2>2
  <1>7. queue' \in Seq(EventTypes)
    <2>1. queue' = queue \/ (queue # <<>> /\ queue' = Tail(queue))
      BY DEF KeyIdle, KeyQuit, KeySide, KeyMain, KeyResize, KeyOpen, OpenPick, HistoryLock,
             PopNothing, PopEvent, Join
    <2> QED BY <1>0, <2>1, TailFacts
  <1> HIDE DEF UiStep
  <1> QED
    BY <1>1, <1>2, <1>3, <1>4, <1>5, <1>6, <1>7, UiFrame DEF IInv, TypeOK, MainPlaces, EventTypes

LEMMA EmplaceType == IInv /\ Emplace => TypeOK'
  <1> SUFFICES ASSUME IInv, Emplace PROVE TypeOK'
    OBVIOUS
  <1> USE DEF Emplace, MainGoto
  <1>1. next_id' \in 1 .. MaxQueries
    BY AppAssumption DEF IInv, TypeOK, CarriedInv
  <1>2. handlers' \subseteq Queries /\ lost' \subseteq Queries /\ next_id' \in 0 .. MaxQueries
    <2>1. next_id' \in Queries /\ next_id' \in 0 .. MaxQueries
      BY <1>1, AppAssumption DEF Queries
    <2>2. handlers' \subseteq handlers \cup {next_id'} /\ lost' \subseteq lost \cup {next_id'}
      OBVIOUS
    <2>3. handlers \subseteq Queries /\ lost \subseteq Queries
      BY DEF IInv, TypeOK
    <2> HIDE DEF Emplace
    <2> QED BY <2>1, <2>2, <2>3
  <1>3. main' = "send"
    OBVIOUS
  <1> QED
    BY <1>2, <1>3 DEF IInv, TypeOK, locks, ui, tdlib

LEMMA SendType == IInv /\ Send => TypeOK'
  <1> SUFFICES ASSUME IInv, Send PROVE TypeOK'
    OBVIOUS
  <1> USE DEF Send, MainGoto
  <1>1. next_id \in Queries /\ chosen \in Openable
    <2>1. chosen \in Openable /\ next_id \in 0 .. MaxQueries
      BY DEF IInv, TypeOK, CarriedInv
    <2>2. next_id # 0
      BY DEF IInv, CarriedInv
    <2> QED BY <2>1, <2>2, AppAssumption DEF Queries
  <1>2. DOMAIN asked' \subseteq Queries /\ \A q \in DOMAIN asked' : asked'[q] \in Openable
    BY <1>1 DEF IInv, TypeOK
  <1>3. dropped' \subseteq Openable /\ main' = "pop" /\ messages_lock' \in Holders
    BY DEF IInv, TypeOK, Holders
  <1> QED
    BY <1>2, <1>3 DEF IInv, TypeOK, ui, client

\* A push of either type of event.
LEMMA PushFacts ==
    ASSUME queue \in Seq(EventTypes), NEW type \in EventTypes, Push(type)
    PROVE  /\ queue' \in Seq(EventTypes)
           /\ \E i \in DOMAIN queue' : queue'[i] = type
           /\ \A i \in DOMAIN queue : i \in DOMAIN queue' /\ queue'[i] = queue[i]
  <1>1. CASE \E i \in DOMAIN queue : queue[i] = type
    BY <1>1 DEF Push
  <1>2. CASE ~ \E i \in DOMAIN queue : queue[i] = type
    <2>1. queue' = Append(queue, type)
      BY <1>2 DEF Push
    <2> QED
      BY <2>1, AppendFacts
  <1> QED BY <1>1, <1>2

\* The fields of an answer.
LEMMA AnswerFacts ==
    ASSUME NEW a \in Answer
    PROVE  /\ a.id \in Queries /\ a.chat \in Openable /\ a.count \in 0 .. MaxMessages
           /\ a # ListUpdate /\ a # NoResponse
  <1>1. a.kind \in {"messages", "empty", "error"} /\ a.id \in Queries /\ a.chat \in Openable
        /\ a.count \in 0 .. MaxMessages
    BY DEF Answer
  <1>2. ListUpdate.kind = "list" /\ NoResponse.kind = "none"
    BY DEF ListUpdate, NoResponse
  <1> QED BY <1>1, <1>2

\* What is in the inbox.
LEMMA InboxFacts ==
    ASSUME TypeOK
    PROVE  /\ Len(inbox) \in Nat /\ DOMAIN inbox = 1 .. Len(inbox)
           /\ \A i \in DOMAIN inbox : inbox[i] \in Answer \cup {ListUpdate}
           /\ \A i \in Answers : inbox[i] \in Answer
  BY LenProperties, ElementOfSeq DEF TypeOK, Answers

\* The tg thread takes the first response.
LEMMA ReceiveFacts ==
    ASSUME TypeOK, TgReceive
    PROVE  /\ response' \in Answer \cup {ListUpdate} /\ inbox' \in Seq(Answer \cup {ListUpdate})
           /\ response' = inbox[1] /\ 1 \in DOMAIN inbox
           /\ tg = "receive" /\ tg' = IF response' = ListUpdate THEN "list" ELSE "find"
           /\ DOMAIN inbox' = 1 .. Len(inbox) - 1
           /\ \A i \in DOMAIN inbox' : i + 1 \in DOMAIN inbox /\ inbox'[i] = inbox[i + 1]
  <1>1. /\ inbox \in Seq(Answer \cup {ListUpdate}) /\ inbox # <<>>
        /\ response' = Head(inbox) /\ inbox' = Tail(inbox)
        /\ tg = "receive" /\ tg' = IF Head(inbox) = ListUpdate THEN "list" ELSE "find"
    BY DEF TypeOK, TgReceive, TgGoto
  <1> QED
    BY <1>1, TailFacts

LEMMA TgType == IInv /\ TgStep => TypeOK'
  <1> SUFFICES ASSUME IInv, TgStep PROVE TypeOK'
    OBVIOUS
  <1>0. /\ chatboxes \in Holders /\ messages_lock \in Holders /\ position_set \subseteq Chats
        /\ messages \in [Openable -> 0 .. MaxMessages] /\ queue \in Seq(EventTypes)
        /\ handlers \subseteq Queries /\ inbox \in Seq(Answer \cup {ListUpdate})
        /\ response \in Answer \cup {ListUpdate, NoResponse} /\ dropped \subseteq Openable
    BY DEF IInv, TypeOK, EventTypes
  <1> USE DEF TgGoto
  <1>1. /\ tg' \in {"check", "receive", "list", "list_push", "list_return", "find", "store",
                    "store_push", "store_return", "erase", "exited"}
    BY DEF TgStep, TgCheck, TgTimeout, TgReceive, TgList, TgListPush, TgListReturn, TgFind, TgStore,
           TgStorePush, TgStoreReturn, TgErase
  <1>2. chatboxes' \in Holders /\ messages_lock' \in Holders
    BY <1>0 DEF TgStep, TgCheck, TgTimeout, TgReceive, TgList, TgListPush, TgListReturn, TgFind, TgStore,
           TgStorePush, TgStoreReturn, TgErase, locks, Holders
  <1>3. position_set' \subseteq Chats
    BY <1>0 DEF TgStep, TgCheck, TgTimeout, TgReceive, TgList, TgListPush, TgListReturn, TgFind, TgStore,
           TgStorePush, TgStoreReturn, TgErase
  <1>4. messages' \in [Openable -> 0 .. MaxMessages]
    <2>1. CASE TgStore
      <3>1. response \in Answer
        BY <2>1 DEF TgStore, IInv, CarriedInv, Answering
      <3>2. response.chat \in Openable /\ response.count \in 0 .. MaxMessages
        BY <3>1, AnswerFacts
      <3>3. messages' = [messages EXCEPT ![response.chat] = IF messages[response.chat] > response.count
                                                           THEN messages[response.chat] ELSE response.count]
        BY <2>1 DEF TgStore
      <3> QED BY <1>0, <3>2, <3>3
    <2>2. CASE ~ TgStore
      BY <1>0, <2>2 DEF TgStep, TgCheck, TgTimeout, TgReceive, TgList, TgListPush, TgListReturn, TgFind,
             TgStorePush, TgStoreReturn, TgErase
    <2> QED BY <2>1, <2>2
  <1>5. queue' \in Seq(EventTypes)
    <2>1. CASE TgListPush \/ TgStorePush
      BY <1>0, <2>1, PushFacts DEF TgListPush, TgStorePush, EventTypes
    <2>2. CASE ~ (TgListPush \/ TgStorePush)
      BY <1>0, <2>2 DEF TgStep, TgCheck, TgTimeout, TgReceive, TgList, TgListReturn, TgFind, TgStore,
             TgStoreReturn, TgErase
    <2> QED BY <2>1, <2>2
  <1>6. handlers' \subseteq Queries
    BY <1>0 DEF TgStep, TgCheck, TgTimeout, TgReceive, TgList, TgListPush, TgListReturn, TgFind, TgStore,
           TgStorePush, TgStoreReturn, TgErase
  <1>7. inbox' \in Seq(Answer \cup {ListUpdate}) /\ response' \in Answer \cup {ListUpdate, NoResponse}
    <2>1. CASE TgReceive
      BY <2>1, ReceiveFacts DEF IInv
    <2>2. CASE ~ TgReceive
      BY <1>0, <2>2 DEF TgStep, TgCheck, TgTimeout, TgList, TgListPush, TgListReturn, TgFind, TgStore,
             TgStorePush, TgStoreReturn, TgErase
    <2> QED BY <2>1, <2>2
  <1>8. dropped' \subseteq Openable
    <2>1. CASE TgFind
      <3>1. response \in Answer
        BY <2>1 DEF TgFind, IInv, CarriedInv, Answering
      <3>2. response.chat \in Openable
        BY <3>1, AnswerFacts
      <3> QED BY <1>0, <2>1, <3>2 DEF TgFind
    <2>2. CASE ~ TgFind
      BY <1>0, <2>2 DEF TgStep, TgCheck, TgTimeout, TgReceive, TgList, TgListPush, TgListReturn, TgStore,
             TgStorePush, TgStoreReturn, TgErase
    <2> QED BY <2>1, <2>2
  <1> QED
    BY <1>1, <1>2, <1>3, <1>4, <1>5, <1>6, <1>7, <1>8, TgStepFrame DEF IInv, TypeOK, EventTypes

\* An answer to query q joins the inbox and q is no longer unanswered.
LEMMA AnswerQueryFacts ==
    ASSUME TypeOK, AnswerQuery
    PROVE  \E q \in DOMAIN asked, a \in Answer :
            /\ inbox' = Append(inbox, a) /\ a.id = q /\ a.chat = asked[q]
            /\ DOMAIN asked' = DOMAIN asked \ {q} /\ \A p \in DOMAIN asked' : asked'[p] = asked[p]
            /\ sent_messages' = sent_messages
  <1>1. PICK q \in DOMAIN asked :
            LET c == asked[q]
                n == IF c \in Chats THEN sent_messages[c] ELSE 0
                kinds == IF c \notin Chats THEN {"error"}
                         ELSE IF n = 0 THEN {"empty", "error"} ELSE {"messages", "error"}
            IN  \E k \in kinds :
                    /\ inbox' = Append(inbox, [kind |-> k, id |-> q, chat |-> c, count |-> n])
                    /\ asked' = [p \in DOMAIN asked \ {q} |-> asked[p]]
    BY DEF AnswerQuery
  <1> DEFINE c == asked[q]
             n == IF c \in Chats THEN sent_messages[c] ELSE 0
  <1>2. PICK k \in {"messages", "empty", "error"} :
            /\ inbox' = Append(inbox, [kind |-> k, id |-> q, chat |-> c, count |-> n])
            /\ asked' = [p \in DOMAIN asked \ {q} |-> asked[p]]
    BY <1>1
  <1>3. q \in Queries /\ c \in Openable /\ n \in 0 .. MaxMessages
    BY AppAssumption DEF TypeOK
  <1> DEFINE a == [kind |-> k, id |-> q, chat |-> c, count |-> n]
  <1>4. a \in Answer /\ a.id = q /\ a.chat = asked[q]
    BY <1>3 DEF Answer
  <1>5. sent_messages' = sent_messages
    BY DEF AnswerQuery
  <1>6. DOMAIN asked' = DOMAIN asked \ {q} /\ \A p \in DOMAIN asked' : asked'[p] = asked[p]
    BY <1>2
  <1>7. inbox' = Append(inbox, a)
    BY <1>2
  <1> HIDE DEF a
  <1> QED
    BY <1>4, <1>5, <1>6, <1>7

LEMMA TdlibType == IInv /\ Tdlib => TypeOK'
  <1> SUFFICES ASSUME IInv, Tdlib PROVE TypeOK'
    OBVIOUS
  <1>0. /\ DOMAIN asked \subseteq Queries /\ \A q \in DOMAIN asked : asked[q] \in Openable
        /\ inbox \in Seq(Answer \cup {ListUpdate}) /\ sent_messages \in [Chats -> 0 .. MaxMessages]
    BY DEF IInv, TypeOK
  <1>1. CASE SendListUpdate
    <2>1. inbox' = Append(inbox, ListUpdate) /\ asked' = asked /\ sent_messages' = sent_messages
      BY <1>1 DEF SendListUpdate
    <2>2. inbox' \in Seq(Answer \cup {ListUpdate})
      BY <1>0, <2>1, AppendFacts
    <2> QED BY <2>1, <2>2, TdlibStepFrame DEF IInv, TypeOK
  <1>2. CASE NewMessage
    <2>1. sent_messages' \in [Chats -> 0 .. MaxMessages]
      BY <1>0, <1>2, AppAssumption DEF NewMessage
    <2>2. inbox' = inbox /\ asked' = asked
      BY <1>2 DEF NewMessage
    <2> QED BY <2>1, <2>2, TdlibStepFrame DEF IInv, TypeOK
  <1>3. CASE AnswerQuery
    <2>1. PICK q \in DOMAIN asked, a \in Answer :
            /\ inbox' = Append(inbox, a) /\ a.id = q /\ a.chat = asked[q]
            /\ DOMAIN asked' = DOMAIN asked \ {q} /\ \A p \in DOMAIN asked' : asked'[p] = asked[p]
            /\ sent_messages' = sent_messages
      BY <1>3, AnswerQueryFacts DEF IInv
    <2>2. inbox' \in Seq(Answer \cup {ListUpdate})
      BY <1>0, <2>1, AppendFacts
    <2>3. DOMAIN asked' \subseteq Queries /\ \A p \in DOMAIN asked' : asked'[p] \in Openable
      BY <1>0, <2>1
    <2> QED BY <2>1, <2>2, <2>3, TdlibStepFrame DEF IInv, TypeOK
  <1> QED BY <1>1, <1>2, <1>3 DEF Tdlib

LEMMA TypeStep == IInv /\ [Next]_vars => TypeOK'
  <1>1. IInv /\ UNCHANGED vars => TypeOK'
    BY DEF IInv, TypeOK, vars
  <1> QED
    BY <1>1, NextSplit, UiType, EmplaceType, SendType, TgType, TdlibType
-----------------------------------------------------------------------------
(***************************************************************************)
(* The mutexes and what the threads carry.                                 *)
(***************************************************************************)
LEMMA MutexStep == IInv /\ [Next]_vars => MutexInv'
  <1> SUFFICES ASSUME IInv, [Next]_vars PROVE MutexInv'
    OBVIOUS
  <1> USE DEF MutexInv
  <1>0. MutexInv /\ messages_lock \in Holders /\ chatboxes \in Holders
    BY DEF IInv, TypeOK
  <1>1. CASE HistoryLock
    BY <1>0, <1>1 DEF HistoryLock, MainGoto
  <1>2. CASE UiStep /\ ~ HistoryLock
    <2>1. messages_lock' = messages_lock /\ main' \notin {"emplace", "send"} /\ main \notin {"emplace", "send"}
      BY <1>2 DEF UiStep, Key, KeyIdle, KeyQuit, KeySide, KeyMain, KeyResize, KeyOpen, OpenPick,
           Draw, draw_side, draw_main, PopNothing, PopEvent, Join, InputFrame, DrawFrame, MainGoto, LoopTop, locks
    <2> QED BY <1>0, <1>2, <2>1, UiFrame
  <1>3. CASE Emplace
    BY <1>0, <1>3 DEF Emplace, MainGoto, locks
  <1>4. CASE Send
    BY <1>0, <1>4 DEF Send, MainGoto
  <1>5. CASE TgStore \/ TgStoreReturn
    BY <1>0, <1>5 DEF TgStore, TgStoreReturn, TgGoto, TgFrame
  <1>6. CASE TgList \/ TgListReturn
    BY <1>0, <1>6 DEF TgList, TgListReturn, TgGoto, TgFrame
  <1>7. CASE TgCheck \/ TgTimeout \/ TgReceive \/ TgListPush \/ TgFind \/ TgStorePush \/ TgErase
    BY <1>0, <1>7 DEF TgCheck, TgTimeout, TgReceive, TgListPush, TgFind, TgStorePush, TgErase, TgGoto, TgFrame, locks
  <1>8. CASE Tdlib
    BY <1>0, <1>8, TdlibStepFrame
  <1>9. CASE UNCHANGED vars
    BY <1>0, <1>9 DEF vars
  <1> QED
    BY <1>1, <1>2, <1>3, <1>4, <1>5, <1>6, <1>7, <1>8, <1>9, NextSplit DEF TgStep

LEMMA CarriedStep == IInv /\ [Next]_vars => CarriedInv'
  <1> SUFFICES ASSUME IInv, [Next]_vars PROVE CarriedInv'
    OBVIOUS
  <1> USE DEF CarriedInv, Answering
  <1>0. CarriedInv /\ position_set \subseteq Chats /\ next_id \in 0 .. MaxQueries
    BY DEF IInv, TypeOK
  <1>1. CASE OpenPick
    <2>1. chosen' \in Openable /\ main = "open_pick" /\ main' = "open_draw"
      BY <1>0, <1>1 DEF OpenPick, MainGoto, Openable
    <2> QED BY <1>0, <1>1, <2>1, UiFrame DEF UiStep
  <1>2. CASE KeyOpen
    <2>1. main' = "open_pick" /\ next_id < MaxQueries
      BY <1>2 DEF KeyOpen, MainGoto
    <2> QED BY <1>0, <1>2, <2>1, UiFrame DEF UiStep, Key
  <1>3. CASE UiStep /\ ~ OpenPick /\ ~ KeyOpen
    <2>1. /\ main' \in {"open_draw", "history", "emplace", "send"} => main \in {"open_draw", "history", "emplace", "send"}
          /\ main' \in {"open_pick", "open_draw", "history", "emplace"} =>
                main \in {"open_pick", "open_draw", "history", "emplace"}
          /\ main' # "send" /\ chosen' = chosen
      BY <1>3 DEF UiStep, Key, KeyIdle, KeyQuit, KeySide, KeyMain, KeyResize, HistoryLock,
           Draw, draw_side, draw_main, PopNothing, PopEvent, Join, InputFrame, DrawFrame, MainGoto, LoopTop, ui
    <2> QED BY <1>0, <1>3, <2>1, UiFrame
  <1>4. CASE Emplace
    <2>1. /\ main = "emplace" /\ main' = "send" /\ chosen' = chosen /\ tg' = tg /\ response' = response
          /\ next_id' = next_id + 1
      BY <1>4 DEF Emplace, MainGoto, ui
    <2>2. next_id' # 0
      BY <1>0, <2>1, AppAssumption
    <2> QED BY <1>0, <2>1, <2>2
  <1>5. CASE Send
    BY <1>0, <1>5 DEF Send, MainGoto, ui, client
  <1>6. CASE TgReceive
    <2>1. tg' \in {"find", "list"} /\ (tg' = "find" => response' \in Answer)
      BY <1>6, ReceiveFacts DEF IInv
    <2> QED BY <1>0, <1>6, <2>1, TgStepFrame DEF TgStep
  <1>7. CASE TgStep /\ ~ TgReceive
    <2>1. Answering' => Answering /\ response' = response
      BY <1>7 DEF TgStep, TgCheck, TgTimeout, TgList, TgListPush, TgListReturn, TgFind, TgStore,
           TgStorePush, TgStoreReturn, TgErase, TgGoto
    <2> QED BY <1>0, <1>7, <2>1, TgStepFrame
  <1>8. CASE Tdlib
    BY <1>0, <1>8, TdlibStepFrame
  <1>9. CASE UNCHANGED vars
    BY <1>0, <1>9 DEF vars
  <1> QED
    BY <1>1, <1>2, <1>3, <1>4, <1>5, <1>6, <1>7, <1>8, <1>9, NextSplit
-----------------------------------------------------------------------------
(***************************************************************************)
(* The queries: where they are, and their entries in handlers_.            *)
(***************************************************************************)
\* Steps that move no query.
LEMMA QuerySame ==
    ASSUME QueryInv, asked' = asked, inbox' = inbox,
           Answering' => Answering /\ response' = response,
           SentQueries \subseteq SentQueries'
    PROVE  QueryInv'
  BY DEF QueryInv, Answers

\* What a response that joins the inbox does to the answers in it.
LEMMA InboxGrows ==
    ASSUME TypeOK, NEW r \in Answer \cup {ListUpdate}, inbox' = Append(inbox, r)
    PROVE  /\ \A i \in Answers : inbox'[i] = inbox[i]
           /\ inbox'[Len(inbox) + 1] = r
           /\ Len(inbox) + 1 \notin Answers
           /\ Answers' = IF r = ListUpdate THEN Answers ELSE Answers \cup {Len(inbox) + 1}
  <1>1. /\ DOMAIN inbox' = 1 .. Len(inbox) + 1 /\ Len(inbox) \in Nat /\ DOMAIN inbox = 1 .. Len(inbox)
        /\ \A i \in 1 .. Len(inbox) : inbox'[i] = inbox[i]
        /\ inbox'[Len(inbox) + 1] = r
    BY AppendFacts DEF TypeOK
  <1> QED
    BY <1>1 DEF Answers

\* What receiving does to the answers in the inbox.
LEMMA InboxShrinks ==
    ASSUME TypeOK, TgReceive
    PROVE  /\ tg = "receive" /\ response' = inbox[1]
           /\ IF 1 \in Answers THEN tg' = "find" ELSE tg' = "list"
           /\ \A i \in Answers' : i \in Nat \ {0} /\ i + 1 \in Answers /\ inbox'[i] = inbox[i + 1]
           /\ \A i \in Answers \ {1} : i - 1 \in Answers' /\ inbox'[i - 1] = inbox[i]
  <1>1. /\ tg = "receive" /\ tg' = IF response' = ListUpdate THEN "list" ELSE "find"
        /\ response' = inbox[1] /\ 1 \in DOMAIN inbox
        /\ DOMAIN inbox' = 1 .. Len(inbox) - 1 /\ DOMAIN inbox = 1 .. Len(inbox) /\ Len(inbox) \in Nat
        /\ \A i \in DOMAIN inbox' : i + 1 \in DOMAIN inbox /\ inbox'[i] = inbox[i + 1]
    BY ReceiveFacts, InboxFacts
  <1>2. IF 1 \in Answers THEN tg' = "find" ELSE tg' = "list"
    BY <1>1 DEF Answers
  <1>3. \A i \in Answers' : i \in Nat \ {0} /\ i + 1 \in Answers /\ inbox'[i] = inbox[i + 1]
    BY <1>1 DEF Answers
  <1>4. ASSUME NEW i \in Answers \ {1} PROVE i - 1 \in Answers' /\ inbox'[i - 1] = inbox[i]
    <2>1. i \in 1 .. Len(inbox) /\ i # 1 /\ inbox[i] # ListUpdate
      BY <1>1 DEF Answers
    <2>2. i - 1 \in DOMAIN inbox' /\ (i - 1) + 1 = i
      BY <1>1, <2>1
    <2>3. inbox'[i - 1] = inbox[i]
      BY <1>1, <2>2
    <2> QED BY <2>1, <2>2, <2>3 DEF Answers
  <1> QED
    BY <1>1, <1>2, <1>3, <1>4

LEMMA QueryStep == IInv /\ [Next]_vars => QueryInv'
  <1> SUFFICES ASSUME IInv, [Next]_vars PROVE QueryInv'
    OBVIOUS
  <1>0. QueryInv /\ TypeOK /\ next_id \in Nat
    BY AppAssumption DEF IInv, TypeOK
  <1>1. CASE UiStep
    <2>1. SentQueries \subseteq SentQueries'
      BY <1>1, UiFrame DEF SentQueries
    <2> QED BY <1>0, <1>1, <2>1, UiFrame, QuerySame DEF Answering
  <1>2. CASE Emplace
    <2>1. /\ next_id' = next_id + 1 /\ tg' = tg /\ response' = response /\ asked' = asked /\ inbox' = inbox
      BY <1>2 DEF Emplace, tdlib
    <2>2. SentQueries \subseteq SentQueries'
      BY <1>0, <2>1 DEF SentQueries
    <2> QED BY <1>0, <2>1, <2>2, QuerySame DEF Answering
  <1>3. CASE Send
    <2>1. /\ main = "send" /\ main' = "pop" /\ next_id' = next_id /\ tg' = tg /\ response' = response
          /\ inbox' = inbox /\ DOMAIN asked' = DOMAIN asked \cup {next_id} /\ next_id # 0
      BY <1>3 DEF Send, MainGoto, client, IInv, CarriedInv
    <2>2. SentQueries' = SentQueries \cup {next_id} /\ next_id \notin SentQueries
      BY <1>0, <2>1 DEF SentQueries
    <2> QED BY <1>0, <2>1, <2>2 DEF QueryInv, Answers, Answering
  <1>4. CASE TgReceive
    <2>1. asked' = asked /\ SentQueries' = SentQueries
      BY <1>4, TgStepFrame DEF TgStep, SentQueries
    <2>2. /\ response' = inbox[1] /\ (Answering' => 1 \in Answers)
          /\ \A i \in Answers' : i \in Nat \ {0} /\ i + 1 \in Answers /\ inbox'[i] = inbox[i + 1]
      BY <1>0, <1>4, InboxShrinks DEF Answering
    <2>3. ASSUME NEW i \in Answers', NEW j \in Answers', inbox'[i].id = inbox'[j].id PROVE i = j
      <3>1. i + 1 = j + 1
        BY <1>0, <2>2, <2>3 DEF QueryInv
      <3> QED BY <2>2, <3>1
    <2>4. ASSUME Answering', NEW i \in Answers' PROVE inbox'[i].id # response'.id
      <3>1. i + 1 # 1 /\ i + 1 \in Answers /\ 1 \in Answers /\ inbox'[i] = inbox[i + 1]
        BY <2>2, <2>4
      <3> QED BY <1>0, <2>2, <3>1 DEF QueryInv
    <2> QED BY <1>0, <2>1, <2>2, <2>3, <2>4 DEF QueryInv
  <1>5. CASE TgStep /\ ~ TgReceive
    <2>1. (Answering' => Answering /\ response' = response) /\ inbox' = inbox
      BY <1>5 DEF TgStep, TgCheck, TgTimeout, TgList, TgListPush, TgListReturn, TgFind, TgStore,
           TgStorePush, TgStoreReturn, TgErase, TgGoto, Answering
    <2>2. SentQueries \subseteq SentQueries'
      BY <1>5, TgStepFrame DEF SentQueries
    <2> QED BY <1>0, <1>5, <2>1, <2>2, TgStepFrame, QuerySame
  <1>6. CASE Tdlib
    <2>0. SentQueries' = SentQueries /\ tg' = tg /\ response' = response /\ (Answering' <=> Answering)
      BY <1>6, TdlibStepFrame DEF SentQueries, Answering
    <2>1. CASE NewMessage
      BY <1>0, <2>0, <2>1, QuerySame DEF NewMessage
    <2>2. CASE SendListUpdate
      <3>1. asked' = asked /\ inbox' = Append(inbox, ListUpdate)
        BY <2>2 DEF SendListUpdate
      <3>2. Answers' = Answers /\ \A i \in Answers : inbox'[i] = inbox[i]
        BY <1>0, <3>1, InboxGrows
      <3>3. asked' = asked
        BY <3>1
      <3> QED BY <1>0, <2>0, <3>2, <3>3 DEF QueryInv
    <2>3. CASE AnswerQuery
      <3>1. PICK q \in DOMAIN asked, a \in Answer :
              /\ inbox' = Append(inbox, a) /\ a.id = q /\ a.chat = asked[q]
              /\ DOMAIN asked' = DOMAIN asked \ {q} /\ \A p \in DOMAIN asked' : asked'[p] = asked[p]
              /\ sent_messages' = sent_messages
        BY <1>0, <2>3, AnswerQueryFacts
      <3> DEFINE n == Len(inbox) + 1
      <3>2. /\ Answers' = Answers \cup {n} /\ n \notin Answers
            /\ inbox'[n] = a /\ \A i \in Answers : inbox'[i] = inbox[i]
        BY <1>0, <3>1, InboxGrows, AnswerFacts
      <3>3. DOMAIN asked' = DOMAIN asked \ {q} /\ a.id = q
        BY <3>1
      <3> HIDE DEF n
      <3>4. DOMAIN asked' \subseteq SentQueries' /\ \A i \in Answers' : inbox'[i].id \in SentQueries' \ DOMAIN asked'
        BY <1>0, <2>0, <3>2, <3>3 DEF QueryInv
      <3>5. \A i \in Answers : inbox[i].id # q
        BY <1>0 DEF QueryInv
      <3>6. \A i, j \in Answers' : inbox'[i].id = inbox'[j].id => i = j
        BY <1>0, <3>2, <3>3, <3>5 DEF QueryInv
      <3>7. Answering' => /\ response'.id \in SentQueries' \ DOMAIN asked'
                          /\ \A i \in Answers' : inbox'[i].id # response'.id
        BY <1>0, <2>0, <3>2, <3>3 DEF QueryInv
      <3> QED BY <3>4, <3>6, <3>7 DEF QueryInv
    <2> QED BY <1>6, <2>1, <2>2, <2>3 DEF Tdlib
  <1>7. CASE UNCHANGED vars
    <2>1. SentQueries \subseteq SentQueries'
      BY <1>7 DEF SentQueries, vars
    <2> QED BY <1>0, <1>7, <2>1, QuerySame DEF vars, Answering
  <1> QED
    BY <1>1, <1>2, <1>3, <1>4, <1>5, <1>6, <1>7, NextSplit

\* The queries whose answer is in the inbox.
AnswerIds == {inbox[i].id : i \in Answers}

\* HandlersMatchQueries, with the places of a query as sets.
HandlersInv ==
    \A q \in Queries :
        q \in handlers \cup lost <=>
            \/ q \in DOMAIN asked \/ q \in AnswerIds
            \/ q \in lost
            \/ main = "send" /\ q = next_id
            \/ Answering /\ response.id = q

LEMMA HandlersSame == HandlersMatchQueries <=> HandlersInv
  <1>1. ASSUME NEW q PROVE Answered(q) <=> q \in AnswerIds
    BY DEF Answered, AnswerIds, Answers
  <1> QED
    BY <1>1 DEF HandlersMatchQueries, HandlersInv, Answering

LEMMA HandlersStep == IInv /\ [Next]_vars => HandlersMatchQueries'
  <1> SUFFICES ASSUME IInv, [Next]_vars PROVE HandlersInv'
    <2>1. HandlersMatchQueries' <=> HandlersInv'
      BY HandlersSame, PTL
    <2> QED BY <2>1
  <1>0. HandlersInv /\ QueryInv /\ TypeOK
    BY HandlersSame DEF IInv
  <1>1. CASE UiStep
    <2>1. AnswerIds' = AnswerIds /\ (Answering' <=> Answering)
      BY <1>1, UiFrame DEF AnswerIds, Answers, Answering
    <2> QED BY <1>0, <1>1, <2>1, UiFrame DEF HandlersInv
  <1>2. CASE Emplace
    <2>1. /\ main = "emplace" /\ main' = "send" /\ asked' = asked /\ inbox' = inbox /\ tg' = tg /\ response' = response
          /\ \/ handlers' = handlers \cup {next_id'} /\ lost' = lost
             \/ handlers' = handlers /\ lost' = lost \cup {next_id'}
      BY <1>2 DEF Emplace, MainGoto, tdlib
    <2>2. AnswerIds' = AnswerIds /\ (Answering' <=> Answering)
      BY <2>1 DEF AnswerIds, Answers, Answering
    <2> QED BY <1>0, <2>1, <2>2 DEF HandlersInv
  <1>3. CASE Send
    <2>1. /\ main = "send" /\ main' = "pop" /\ inbox' = inbox /\ tg' = tg /\ response' = response
          /\ handlers' = handlers /\ lost' = lost /\ next_id' = next_id
          /\ DOMAIN asked' = DOMAIN asked \cup {next_id}
      BY <1>3 DEF Send, MainGoto, client
    <2>2. AnswerIds' = AnswerIds /\ (Answering' <=> Answering)
      BY <2>1 DEF AnswerIds, Answers, Answering
    <2> QED BY <1>0, <2>1, <2>2 DEF HandlersInv
  <1>4. CASE TgReceive
    <2>1. /\ asked' = asked /\ lost' = lost /\ main' = main /\ next_id' = next_id /\ handlers' = handlers
      BY <1>4, TgStepFrame DEF TgStep, TgReceive
    <2>2. /\ tg = "receive" /\ response' = inbox[1]
          /\ IF 1 \in Answers THEN tg' = "find" ELSE tg' = "list"
          /\ \A i \in Answers' : i \in Nat \ {0} /\ i + 1 \in Answers /\ inbox'[i] = inbox[i + 1]
          /\ \A i \in Answers \ {1} : i - 1 \in Answers' /\ inbox'[i - 1] = inbox[i]
      BY <1>0, <1>4, InboxShrinks
    <2>3. ~ Answering /\ (Answering' <=> 1 \in Answers)
      BY <2>2 DEF Answering
    <2>4. AnswerIds' \subseteq AnswerIds
      BY <2>2 DEF AnswerIds
    <2>5. ASSUME NEW q \in AnswerIds PROVE q \in AnswerIds' \/ (1 \in Answers /\ response'.id = q)
      <3>1. PICK i \in Answers : inbox[i].id = q
        BY DEF AnswerIds
      <3>2. CASE i = 1
        BY <2>2, <3>1, <3>2
      <3>3. CASE i # 1
        <4>1. i - 1 \in Answers' /\ inbox'[i - 1].id = q
          BY <2>2, <3>1, <3>3
        <4> QED BY <4>1 DEF AnswerIds
      <3> QED BY <3>2, <3>3
    <2>6. 1 \in Answers => response'.id \in AnswerIds
      BY <2>2 DEF AnswerIds
    <2>7. \A q : q \in AnswerIds <=> q \in AnswerIds' \/ (Answering' /\ response'.id = q)
      BY <2>3, <2>4, <2>5, <2>6
    <2> QED BY <1>0, <2>1, <2>3, <2>7 DEF HandlersInv
  <1>5. CASE TgErase
    <2>1. /\ asked' = asked /\ lost' = lost /\ main' = main /\ next_id' = next_id /\ inbox' = inbox
          /\ handlers' = handlers \ {response.id} /\ tg = "erase" /\ tg' = "check"
      BY <1>5, TgStepFrame DEF TgStep, TgErase, TgGoto
    <2>2. AnswerIds' = AnswerIds /\ Answering /\ ~ Answering'
      BY <2>1 DEF AnswerIds, Answers, Answering
    <2>3. response.id \notin DOMAIN asked /\ response.id \notin AnswerIds /\ ~ (main = "send" /\ response.id = next_id)
      BY <1>0, <2>2 DEF QueryInv, AnswerIds, SentQueries
    <2> QED BY <1>0, <2>1, <2>2, <2>3 DEF HandlersInv
  <1>6. CASE TgFind
    <2>1. /\ asked' = asked /\ lost' = lost /\ main' = main /\ next_id' = next_id /\ inbox' = inbox
          /\ handlers' = handlers /\ tg = "find"
          /\ \/ response.id \in handlers /\ response' = response /\ tg' \in {"store", "erase"}
             \/ response.id \notin handlers /\ tg' = "check"
      BY <1>6, TgStepFrame DEF TgStep, TgFind, TgGoto
    <2>2. AnswerIds' = AnswerIds /\ Answering
      BY <2>1 DEF AnswerIds, Answers, Answering
    <2>3. Answering' <=> response.id \in handlers
      BY <2>1 DEF Answering
    <2> QED BY <1>0, <2>1, <2>2, <2>3 DEF HandlersInv
  <1>7. CASE TgStep /\ ~ (TgReceive \/ TgErase \/ TgFind)
    <2>1. /\ inbox' = inbox /\ handlers' = handlers /\ (Answering' <=> Answering)
          /\ Answering => response' = response
      BY <1>7 DEF TgStep, TgCheck, TgTimeout, TgList, TgListPush, TgListReturn, TgStore,
           TgStorePush, TgStoreReturn, TgGoto, Answering
    <2>2. AnswerIds' = AnswerIds
      BY <2>1 DEF AnswerIds, Answers
    <2> QED BY <1>0, <1>7, <2>1, <2>2, TgStepFrame DEF HandlersInv
  <1>8. CASE Tdlib
    <2>0. /\ handlers' = handlers /\ lost' = lost /\ main' = main /\ next_id' = next_id
          /\ response' = response /\ (Answering' <=> Answering)
      BY <1>8, TdlibStepFrame DEF Answering
    <2>1. CASE NewMessage
      <3>1. asked' = asked /\ AnswerIds' = AnswerIds
        BY <2>1 DEF NewMessage, AnswerIds, Answers
      <3> QED BY <1>0, <2>0, <3>1 DEF HandlersInv
    <2>2. CASE SendListUpdate
      <3>1. asked' = asked /\ inbox' = Append(inbox, ListUpdate)
        BY <2>2 DEF SendListUpdate
      <3>2. Answers' = Answers /\ \A i \in Answers : inbox'[i] = inbox[i]
        BY <1>0, <3>1, InboxGrows
      <3>3. AnswerIds' = AnswerIds /\ asked' = asked
        BY <3>1, <3>2 DEF AnswerIds
      <3> QED BY <1>0, <2>0, <3>3 DEF HandlersInv
    <2>3. CASE AnswerQuery
      <3>1. PICK q \in DOMAIN asked, a \in Answer :
              /\ inbox' = Append(inbox, a) /\ a.id = q /\ a.chat = asked[q]
              /\ DOMAIN asked' = DOMAIN asked \ {q} /\ \A p \in DOMAIN asked' : asked'[p] = asked[p]
              /\ sent_messages' = sent_messages
        BY <1>0, <2>3, AnswerQueryFacts
      <3> DEFINE n == Len(inbox) + 1
      <3>2. /\ Answers' = Answers \cup {n} /\ n \notin Answers
            /\ inbox'[n] = a /\ \A i \in Answers : inbox'[i] = inbox[i]
        BY <1>0, <3>1, InboxGrows, AnswerFacts
      <3>3. DOMAIN asked' = DOMAIN asked \ {q} /\ a.id = q
        BY <3>1
      <3> HIDE DEF n
      <3>4. AnswerIds' = AnswerIds \cup {q}
        BY <3>2, <3>3 DEF AnswerIds
      <3> QED BY <1>0, <2>0, <3>3, <3>4 DEF HandlersInv
    <2> QED BY <1>8, <2>1, <2>2, <2>3 DEF Tdlib
  <1>9. CASE UNCHANGED vars
    <2>1. AnswerIds' = AnswerIds /\ (Answering' <=> Answering)
      BY <1>9 DEF AnswerIds, Answers, Answering, vars
    <2> QED BY <1>0, <1>9, <2>1 DEF HandlersInv, vars
  <1> QED
    BY <1>1, <1>2, <1>3, <1>4, <1>5, <1>6, <1>7, <1>8, <1>9, NextSplit
-----------------------------------------------------------------------------
(***************************************************************************)
(* The main pane and its redraw.                                           *)
(***************************************************************************)
AskedChats == {asked[q] : q \in DOMAIN asked}
AnswerChats == {inbox[i].chat : i \in Answers}
RedrawWaits == \E i \in DOMAIN queue : queue[i] = "ET_MESSAGES"
Opening == main \in {"open_draw", "history", "emplace", "send"}
OutOfDate == chosen # NoChat /\ shown # <<chosen, messages[chosen]>>

\* MainPaneExplained, with the chats whose history is pending as sets.
RedrawInv ==
    OutOfDate =>
        \/ Opening
        \/ chosen \in AskedChats \/ chosen \in AnswerChats \/ chosen \in dropped
        \/ tg \in {"find", "store"} /\ response.chat = chosen
        \/ tg = "store_push"
        \/ RedrawWaits
        \/ main = "event_main"

LEMMA RedrawSame == MainPaneExplained <=> RedrawInv
  BY DEF MainPaneExplained, RedrawInv, Pending, OutOfDate, Opening, AskedChats, AnswerChats, Answers, RedrawWaits

LEMMA RedrawUi == IInv /\ RedrawInv /\ UiStep => RedrawInv'
  <1> SUFFICES ASSUME IInv, RedrawInv, UiStep PROVE RedrawInv'
    OBVIOUS
  <1>0. AskedChats' = AskedChats /\ AnswerChats' = AnswerChats
    BY UiFrame DEF AskedChats, AnswerChats, Answers
  <1>1. CASE main \in {"key_main", "fill_main", "event_main"}
    <2>1. chosen' = chosen /\ shown' = IF chosen = NoChat THEN shown ELSE <<chosen, messages[chosen]>>
      BY <1>1 DEF UiStep, Key, KeyIdle, KeyQuit, KeySide, KeyMain, KeyResize, KeyOpen, OpenPick, HistoryLock,
         Draw, draw_side, draw_main, PopNothing, PopEvent, Join, DrawFrame, MainGoto
    <2>2. messages' = messages
      BY UiFrame
    <2>3. ~ OutOfDate'
      BY <2>1, <2>2 DEF OutOfDate
    <2> QED BY <2>3 DEF RedrawInv
  <1>2. CASE main = "open_pick"
    <2>1. main' = "open_draw"
      BY <1>2 DEF UiStep, Key, KeyIdle, KeyQuit, KeySide, KeyMain, KeyResize, KeyOpen, OpenPick, HistoryLock,
         Draw, draw_side, draw_main, PopNothing, PopEvent, Join, MainGoto
    <2> QED BY <2>1 DEF RedrawInv, Opening
  <1>3. CASE main \notin {"key_main", "fill_main", "event_main", "open_pick"}
    <2>1. shown' = shown /\ chosen' = chosen /\ (Opening => Opening')
      BY <1>3 DEF UiStep, Key, KeyIdle, KeyQuit, KeySide, KeyMain, KeyResize, KeyOpen, OpenPick, HistoryLock,
         Draw, draw_side, draw_main, PopNothing, PopEvent, Join, InputFrame, DrawFrame, MainGoto, ui, Opening
    <2>2. RedrawWaits => RedrawWaits' \/ main' = "event_main"
      <3>1. CASE PopEvent
        <4>1. /\ queue \in Seq(EventTypes) /\ queue # <<>> /\ queue' = Tail(queue)
              /\ main' = IF Head(queue) = "ET_CHATLIST" THEN "event_side" ELSE "event_main"
          BY <3>1 DEF PopEvent, MainGoto, IInv, TypeOK, EventTypes
        <4> HIDE DEF PopEvent
        <4>2. /\ Len(queue) \in Nat \ {0} /\ DOMAIN queue = 1 .. Len(queue)
              /\ DOMAIN queue' = 1 .. Len(queue) - 1
              /\ \A i \in 1 .. Len(queue) - 1 : queue'[i] = queue[i + 1]
              /\ Head(queue) = queue[1]
          BY <4>1, TailFacts
        <4>3. ASSUME NEW i \in DOMAIN queue, queue[i] = "ET_MESSAGES" PROVE RedrawWaits' \/ main' = "event_main"
          <5>1. CASE i = 1
            BY <4>1, <4>2, <4>3, <5>1
          <5>2. CASE i # 1
            <6>1. i - 1 \in DOMAIN queue' /\ queue'[i - 1] = queue[i]
              BY <4>2, <5>2
            <6> QED BY <4>3, <6>1 DEF RedrawWaits
          <5> QED BY <5>1, <5>2
        <4> QED BY <4>3 DEF RedrawWaits
      <3>2. CASE ~ PopEvent
        <4>1. queue' = queue
          BY <3>2 DEF UiStep, Key, KeyIdle, KeyQuit, KeySide, KeyMain, KeyResize, KeyOpen, OpenPick, HistoryLock,
             Draw, draw_side, draw_main, PopNothing, Join, InputFrame, DrawFrame
        <4> QED BY <4>1 DEF RedrawWaits
      <3> QED BY <3>1, <3>2
    <2>3. OutOfDate' => OutOfDate
      BY <2>1, UiFrame DEF OutOfDate
    <2> QED BY <1>0, <1>3, <2>1, <2>2, <2>3, UiFrame DEF RedrawInv
  <1> QED BY <1>1, <1>2, <1>3

LEMMA RedrawTg == IInv /\ RedrawInv /\ TgStep => RedrawInv'
  <1> SUFFICES ASSUME IInv, RedrawInv, TgStep PROVE RedrawInv'
    OBVIOUS
  <1>0. /\ AskedChats' = AskedChats /\ (Opening' <=> Opening) /\ main' = main /\ chosen' = chosen /\ shown' = shown
    BY TgStepFrame DEF AskedChats, Opening
  <1>1. CASE TgReceive
    <2>1. /\ messages' = messages /\ dropped' = dropped /\ (RedrawWaits' <=> RedrawWaits)
      BY <1>1 DEF TgReceive, RedrawWaits
    <2>2. /\ tg = "receive" /\ response' = inbox[1]
          /\ IF 1 \in Answers THEN tg' = "find" ELSE tg' = "list"
          /\ \A i \in Answers \ {1} : i - 1 \in Answers' /\ inbox'[i - 1] = inbox[i]
      BY <1>1, InboxShrinks DEF IInv
    <2>3. ASSUME NEW c \in AnswerChats PROVE c \in AnswerChats' \/ (tg' = "find" /\ response'.chat = c)
      <3>1. PICK i \in Answers : inbox[i].chat = c
        BY DEF AnswerChats
      <3>2. CASE i = 1
        BY <2>2, <3>1, <3>2
      <3>3. CASE i # 1
        <4>1. i - 1 \in Answers' /\ inbox'[i - 1].chat = c
          BY <2>2, <3>1, <3>3
        <4> QED BY <4>1 DEF AnswerChats
      <3> QED BY <3>2, <3>3
    <2>4. OutOfDate' => OutOfDate
      BY <1>0, <2>1 DEF OutOfDate
    <2>5. tg \notin {"find", "store", "store_push"}
      BY <2>2
    <2> QED BY <1>0, <2>1, <2>3, <2>4, <2>5 DEF RedrawInv
  <1>2. CASE TgFind
    <2>1. /\ messages' = messages /\ (RedrawWaits' <=> RedrawWaits) /\ AnswerChats' = AnswerChats
      BY <1>2 DEF TgFind, RedrawWaits, AnswerChats, Answers
    <2>2. /\ tg = "find"
          /\ \/ tg' = "store" /\ response' = response /\ dropped' = dropped
             \/ dropped' = dropped \cup {response.chat}
      BY <1>2 DEF TgFind, TgGoto
    <2>3. OutOfDate' => OutOfDate
      BY <1>0, <2>1 DEF OutOfDate
    <2>4. tg # "store_push"
      BY <2>2
    <2> QED BY <1>0, <2>1, <2>2, <2>3, <2>4 DEF RedrawInv
  <1>3. CASE TgStore
    <2>1. tg' = "store_push"
      BY <1>3 DEF TgStore, TgGoto
    <2> QED BY <2>1 DEF RedrawInv
  <1>4. CASE TgStorePush
    <2>1. queue \in Seq(EventTypes) /\ Push("ET_MESSAGES") /\ "ET_MESSAGES" \in EventTypes
      BY <1>4 DEF TgStorePush, IInv, TypeOK, EventTypes
    <2>2. RedrawWaits'
      BY <2>1, PushFacts DEF RedrawWaits
    <2> QED BY <2>2 DEF RedrawInv
  <1>5. CASE TgListPush
    <2>1. /\ queue \in Seq(EventTypes) /\ Push("ET_CHATLIST") /\ "ET_CHATLIST" \in EventTypes
          /\ messages' = messages /\ dropped' = dropped /\ inbox' = inbox /\ tg = "list_push"
      BY <1>5 DEF TgListPush, TgGoto, IInv, TypeOK, EventTypes
    <2>2. RedrawWaits => RedrawWaits'
      BY <2>1, PushFacts DEF RedrawWaits
    <2>3. AnswerChats' = AnswerChats /\ (OutOfDate' => OutOfDate)
      BY <1>0, <2>1 DEF AnswerChats, Answers, OutOfDate
    <2>4. tg \notin {"find", "store", "store_push"} /\ dropped' = dropped
      BY <2>1
    <2> QED BY <1>0, <2>2, <2>3, <2>4 DEF RedrawInv
  <1>6. CASE TgCheck \/ TgTimeout \/ TgList \/ TgListReturn \/ TgStoreReturn \/ TgErase
    <2>1. /\ messages' = messages /\ dropped' = dropped /\ inbox' = inbox /\ queue' = queue
          /\ tg \notin {"find", "store", "store_push"}
      BY <1>6 DEF TgCheck, TgTimeout, TgList, TgListReturn, TgStoreReturn, TgErase, TgGoto
    <2>2. AnswerChats' = AnswerChats /\ (OutOfDate' => OutOfDate) /\ (RedrawWaits' <=> RedrawWaits)
      BY <1>0, <2>1 DEF AnswerChats, Answers, OutOfDate, RedrawWaits
    <2> QED BY <1>0, <2>1, <2>2 DEF RedrawInv
  <1> QED BY <1>1, <1>2, <1>3, <1>4, <1>5, <1>6 DEF TgStep

LEMMA RedrawTdlib == IInv /\ RedrawInv /\ Tdlib => RedrawInv'
  <1> SUFFICES ASSUME IInv, RedrawInv, Tdlib PROVE RedrawInv'
    OBVIOUS
  <1>0. /\ main' = main /\ chosen' = chosen /\ tg' = tg /\ response' = response /\ dropped' = dropped
        /\ (Opening' <=> Opening) /\ (RedrawWaits' <=> RedrawWaits) /\ (OutOfDate' <=> OutOfDate)
    BY TdlibStepFrame DEF Opening, RedrawWaits, OutOfDate
  <1>1. AskedChats \cup AnswerChats \subseteq AskedChats' \cup AnswerChats'
    <2>1. CASE NewMessage
      BY <2>1 DEF NewMessage, AskedChats, AnswerChats, Answers
    <2>2. CASE SendListUpdate
      <3>1. asked' = asked /\ inbox' = Append(inbox, ListUpdate)
        BY <2>2 DEF SendListUpdate
      <3>2. Answers' = Answers /\ \A i \in Answers : inbox'[i] = inbox[i]
        BY <3>1, InboxGrows DEF IInv
      <3>3. AnswerChats' = AnswerChats
        BY <3>2 DEF AnswerChats
      <3>4. AskedChats' = AskedChats
        BY <3>1 DEF AskedChats
      <3> QED BY <3>3, <3>4
    <2>3. CASE AnswerQuery
      <3>1. PICK q \in DOMAIN asked, a \in Answer :
              /\ inbox' = Append(inbox, a) /\ a.id = q /\ a.chat = asked[q]
              /\ DOMAIN asked' = DOMAIN asked \ {q} /\ \A p \in DOMAIN asked' : asked'[p] = asked[p]
              /\ sent_messages' = sent_messages
        BY <2>3, AnswerQueryFacts DEF IInv
      <3> DEFINE n == Len(inbox) + 1
      <3>2. /\ Answers' = Answers \cup {n} /\ n \notin Answers
            /\ inbox'[n] = a /\ \A i \in Answers : inbox'[i] = inbox[i]
        BY <3>1, InboxGrows, AnswerFacts DEF IInv
      <3> HIDE DEF n
      <3>3. AnswerChats' = AnswerChats \cup {asked[q]}
        <4>1. a.chat = asked[q]
          BY <3>1
        <4> QED BY <3>2, <4>1 DEF AnswerChats
      <3>4. AskedChats \subseteq AskedChats' \cup {asked[q]}
        <4>1. DOMAIN asked' = DOMAIN asked \ {q} /\ \A p \in DOMAIN asked' : asked'[p] = asked[p]
          BY <3>1
        <4> QED BY <4>1 DEF AskedChats
      <3> QED BY <3>3, <3>4
    <2> QED BY <2>1, <2>2, <2>3 DEF Tdlib
  <1> QED
    BY <1>0, <1>1 DEF RedrawInv

LEMMA RedrawStep == IInv /\ [Next]_vars => MainPaneExplained'
  <1> SUFFICES ASSUME IInv, [Next]_vars PROVE RedrawInv'
    <2>1. MainPaneExplained' <=> RedrawInv'
      BY RedrawSame, PTL
    <2> QED BY <2>1
  <1>0. RedrawInv
    BY RedrawSame DEF IInv
  <1>1. CASE Emplace
    BY <1>1 DEF Emplace, MainGoto, RedrawInv, Opening
  <1>2. CASE Send
    <2>1. chosen' \in AskedChats'
      <3>1. /\ chosen' = chosen /\ next_id' = next_id
            /\ asked' = [q \in DOMAIN asked \cup {next_id} |-> IF q = next_id THEN chosen ELSE asked[q]]
        BY <1>2 DEF Send, ui, client
      <3> QED BY <3>1 DEF AskedChats
    <2> QED BY <2>1 DEF RedrawInv
  <1>3. CASE UNCHANGED vars
    BY <1>0, <1>3 DEF vars, RedrawInv, OutOfDate, Opening, AskedChats, AnswerChats, Answers, RedrawWaits
  <1> QED
    BY <1>0, <1>1, <1>2, <1>3, RedrawUi, RedrawTg, RedrawTdlib, NextSplit
-----------------------------------------------------------------------------
(***************************************************************************)
(* The theorems.                                                           *)
(***************************************************************************)
LEMMA Inductive == Spec => []IInv
  <1>1. IInv /\ [Next]_vars => IInv'
    BY TypeStep, MutexStep, CarriedStep, QueryStep, HandlersStep, RedrawStep DEF IInv
  <1> QED
    BY <1>1, InitIInv, PTL DEF Spec

\* The variables of both threads, of the queue between them and of TDLib have
\* their types in every interleaving.
THEOREM TypeCorrect == Spec => []TypeOK
  <1>1. IInv => TypeOK
    BY DEF IInv
  <1> QED
    BY <1>1, Inductive, PTL

\* handlers_ has an entry for exactly the queries that are under way, but for
\* the entries its unprotected use has lost.
THEOREM HandlersAlwaysMatchQueries == Spec => []HandlersMatchQueries
  <1>1. IInv => HandlersMatchQueries
    BY DEF IInv
  <1> QED
    BY <1>1, Inductive, PTL

\* Whenever the main pane is out of date its redraw is on the way, or the
\* history it would need was not stored.
THEOREM MainPaneAlwaysExplained == Spec => []MainPaneExplained
  <1>1. IInv => MainPaneExplained
    BY DEF IInv
  <1> QED
    BY <1>1, Inductive, PTL
=============================================================================
