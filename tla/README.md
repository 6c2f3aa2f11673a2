# chatcurse: specification, model checking and proofs

chatcurse is a terminal client for Telegram: an ncurses front end on TDLib, in
about 1600 lines of C++ under `src/src/`. This directory holds TLA+ modules of
its logic, the TLC configurations that check them and the TLAPS proofs of what
holds for every size of the system.

## 1. The system

Two threads run after the login. The **main thread** reads a key, pops one event
and draws (`chatcurse.cc`, `process_input.cc`, `layout.cc`). The **tg thread**
receives from TDLib and runs the handlers (`tg.cc`). They share
`tl_app_state_struct` and the event queue (`global.h`, `global.cc`).

| component | state | operations | correct when |
|---|---|---|---|
| event queue (`global.cc:18-40`) | `queue`, `event_map`, `q_mutex` | `push`, `pop_and_get` | atomic, one place per type, the unchecked `find` never fails, no type starves |
| chat list (`tg.cc:257-358`) | `id_to_position`, `position_sets`, `id_to_chat` | four update handlers, `_update_position` | map and sorted set agree, no null chat is used, the list is the server's, every change is drawn |
| threads (`chatcurse.cc:118-180`, `tg.cc:45-105`) | `_terminating`, `handlers_`, the chatboxes and messages mutexes, program counters | main loop, `set_response_handlers`, `process_response`, `get_chat_history`, `send_query` | quitting ends both, every answer finds its handler, an opened chat is shown |
| side pane (`layout.cc:127-161`, `process_input.cc:136-257`) | rows of the window, `scroll_offset`, cursor, `input_state` | keys j k g G o, resize, drag, `draw_side` | the cursor selects what it is on, the pane shows the list |
| main pane (`layout.cc:163-215`, `process_input.cc:258-378`) | rows of the window, `scroll_offset`, cursor, `chosen_chat_id` | the same keys, `draw_main` | the offset stays within the messages, the pane shows the chosen chat |
| message history (`tg.cc:67-89,360-375`, `global.h:56-61`) | `messages`, sets ordered by date | `process_get_chat_history` | overlapping answers lose nothing and move a reader only by newer messages |
| authorization (`tg.cc:22-34,148-255`, `tg.h:73-82`) | `auth_state_`, `is_auth_`, `need_restart_`, `auth_query_id_`, `logout_next` | `init_auth`, `process_auth`, `auth_query_handler` | a late error repeats no finished step, `--logout` ends the old session and only that one, the login ends |
| pane geometry (`layout.cc:11-105`, `process_input.cc:31-89`) | `side_w`, `composer_h`, windows, what is dragged, cursor columns | `init_layout`, `resize`, hit test, drag | the windows share out the screen, the hit test agrees with them |
| user and group caches (`tg.cc:277-327`) | six maps | one assignment each | nothing reads them |

What is hard here: two threads with a mutex for some of the shared data and none
for the rest (`handlers_`, the set that 'o' reads, `_terminating` before its
first write); a redraw that is asked for before the data it needs is complete; a
position kept in two containers; a protocol in which one fact is announced by one
of several updates, not all of them handled; a list that changes between the key
that measures it and the function that draws it; answers to authorization queries
that come after the state has moved on; sizes of 0, which mean something else to
ncurses than to the code that computes them. `PROJECT.json` lists these
hazards line by line.

## 2. The modules

**`Mailbox`** is the abstract specification of the event queue: a line of events,
one per type, replaced in place.

**`EventQueue`** is the code: each statement between `q_mutex.lock()` and
`unlock()` is a step, so the mutex does the work it does in the program. The main
thread is a pusher too (it runs the handlers itself until `init_auth` returns).
`PendingEvents` is the refinement mapping: `push` takes effect when it decides
whether to queue the type, `pop_and_get` when it takes the event from the map.

**`ChatList`** has one action per update handler, then `ApplyPosition` (one turn
of the loop over the positions), `PushChatlist` and `Return`, since the redraw is
asked for before `id_to_chat` is written. `handler # "receive"` is the chatboxes
mutex. Main loop steps are `PopChatlist`, `KeyRedraw`, `draw_side`. The event
queue is one Boolean, which `EventQueueProofs!Refinement` justifies. The server
part stands for TDLib: members and orders per list, changed by the moves the
constant `Moves` names and announced by the updates TDLib sends for them (an added
chat before its position; positions of order 0 left out of lists of positions; a
draft's positions in the draft update only). Each kind of leave is a move of its own,
because the client hears of them differently: `leave` (updateChatRemovedFromList and
updateChatPosition with order 0), `leave_unplaced` and `draft` (updateChatRemovedFromList
only, for what the client handles) and `leave_with_message` (updateChatRemovedFromList,
then an updateChatLastMessage whose positions leave the list out:
`MessagesManager::send_update_chat_last_message` updates the lists with
`need_send_update` false). TDLib's order of updates is kept:
the channel is FIFO and never loses anything. `updateNewChat` comes first for its
chat. The text of messages, and chat titles, are left out.

**`AppThreads`** has both threads with a program counter each, the two mutexes,
the terminating flag and the history of queries. The chat list is the set of its
chats. Undefined behaviour is a choice over outcomes: 'o' walks the set without
the mutex, so when the set is being changed or has become shorter it may choose
any chat or a value that is none (`Garbage`, for which TDLib returns an error); an
entry put into `handlers_` while the other thread searches or erases may be lost
(`lost` remembers which). Outcomes that corrupt memory or kill the process are not
modelled. `InitTerminating` is the set of values `_terminating` may start with.
`dropped` remembers chats whose last answer stored nothing. Only the two event
types the program pushes occur; ET_QUIT, ET_RESIZE and ET_CYCLE_PANEL are never
pushed.

**`SidePane`** has what the rows of the pane show, the offset and the cursor. The
list changes between any two steps of the main thread, so a key's measure of the
list can be out of date when `draw_side` runs. `left`
remembers that a chat has left the list: what is promised of offset and rows is
promised until then (see the divergences in section 3).
A window asked for with no rows gets the whole screen from ncurses, so the height
is never 0. An offset past the end makes `draw_side` advance its iterator past the
end: the rows then drawn are arbitrary. Padding and highlighting are left out.

**`MainPane`** is the same for the messages, together with the set they are stored
in. `Emplace` is `std::set::emplace` under `cmp_msg_reverse_chrono`, which compares
dates only: of the messages of one second the first to be put in stays. An answer
holds the newest messages of a chat, as many as TDLib likes, so answers of
different lengths overlap. The newest message is on the last row. Two history
variables name what the code does not handle: `mismeasured` (the offset was set by
'G', which measures the chat list, or for the chat shown before) and `undrawn` ('G',
'gg' and 'o' change the view and do not draw this pane). The pane always has a row
and a window here; `Geometry` has the case without one. `chosen_chat_id` is a chat
of the list; what an unprotected read may give instead is in `AppThreads`.

**`Auth`** has the client's authorization members, TDLib's own state and the stream
between them. `process_auth` has one disjunct per case of its switch but for
authorizationStateClosing, whose handler is empty and which TDLib sends only for a close
or a hangup, neither of which this program asks for. `prompting` is the wait for `std::cin`, during which nothing is received. Positive answers have no
effect in `auth_query_handler` and are left out. TDLib may start in any state of its
database (a session, an unfinished login or logout, nothing), refuse a query, send an
error after the update its query led to, renew a QR link and lose the session;
`MaxFaults` bounds these. `Restart` is the assignment of a new client in `init_auth`,
which leaves the global `logout_next` alone. `fresh` remembers that the user was
asked to log in.

**`Geometry`** has the terminal's size, the two sizes the user drags, the window of
each panel and the cursor's column. `newwin` and `NoWindow` are ncurses: a size of 0
stands for the rest of the screen, and when nothing is left there is no window, whose
size is -1. `resize` is applied by KEY_RESIZE and by a drag; it refuses a border
outside the screen and then changes nothing, so windows and terminal can disagree for
a while. `running` becomes false when `draw_main` builds a string of length -1
(`DrawMainThrows`) or when `update_panels` reads the window of a panel that was given
none (`UpdatePanelsFails`): `replace_panel` stores the null pointer and `update_panels`
follows it. `new_panel` of no window makes no panel, so a pane that had no room when the
program started is not among those it reads.

Definitions named "Mutant of ..." are deliberate faults. They are part of no
specification: each shows that a property notices a plausible bug in the code.

## 3. Runs

| run | instance | checks | distinct states |
|---|---|---|---|
| `event_queue` | 2 pushers, 3 types, 2 payloads | types, `FrontIsMapped`, `NoTypeTwice`, refinement of `Mailbox`, `QueuedIsDelivered` | 17,307 |
| `chat_list_any` | 1 chat, main list, orders 0..2, 2 updates in flight, all moves | types, `MapWithinSet`, `NoNullChat`, `NoLostRefresh`, `ListIsRedrawn` | 277,142 |
| `chat_list_followed` | 1 chat, two lists; joins and positions by their own updates or with a last message, leaves by updateChatPosition | `OnePosition`, `PositionsFollowed`, `NoGhost` | 1,014,251 |
| `app_threads` | 2 chats, 2 queries, inbox of 2, 1 message per chat | types, `MainPaneExplained`, `HandlersMatchQueries` | 2,455,521 |
| `app_threads_live` | 1 chat, 1 query, inbox of 1 | `QuitEndsBoth`, `ResponsesAreTaken`, `OpenedIsShown` | 13,708 |
| `side_pane` | 4 chats, up to 3 rows, list grows, moves and shrinks | types, `CursorOnItsChat`, `ScrollWithinList`, `PaneShowsList` | 38,967 |
| `main_pane` | 4 messages in one chat, two of one second, 1 in another; up to 2 rows | types, `ScrollWithinHistory`, `PaneShowsHistory`, `OneMessagePerSecond`, `ReaderKeepsPlace` | 519,972 |
| `auth` | every state of the database, with and without `--logout`, 3 faults | types, `AuthorizedIsReady`, `OldSessionEnded`, `NewSessionKept`, `ErrorRepeatsItsStep`, `LoginCompletes` | 127,284 |
| `geometry` | terminals of 4 and 6 lines, of 1, 4 and 6 columns | types, `PanesTileScreen`, `HitTestAgrees`, `CursorInPane`, `OnlyLostPaneAborts`, `BorderFollowsMouse` | 67,752 |

Three runs expect a violation; each is a finding of `PROJECT.json`:

- `chat_list_duplicate`: a chat that left with a draft and joins again is in the
  sorted set twice (`tg.cc:333`).
- `app_threads_uninitialised`: `_terminating` is never initialised (`global.h:65`).
- `geometry_edge`: `resize` accepts a border in the last column (`layout.cc:59`) and
  the main pane then has no window: drawing an opened chat throws, and without one
  `update_panels` fails. `OnlyLostPaneAborts` (run `geometry`) says what else ends the
  program: a composer border dragged to the last row (`layout.cc:61` accepts
  `composer_h = 0`), and opening a chat after a start on a terminal of one column, where
  the main pane has no panel for good. Nothing else does.

**Divergences without a run of their own.** The passing runs state what holds and
leave these out by a named guard or a smaller set of moves:

- `tg.cc:265`: after order 0 a chat is out of the map and its next position is ignored
  though the chat is still in the list. `PositionsFollowed` fails with the moves
  `join`, `unload` and `load`.
- `tg.cc:143`: the positions in updateChatDraftMessage are dropped. `PositionsFollowed`
  fails with the moves `join` and `draft`.
- A chat that leaves a list in which it has no position is announced by
  updateChatRemovedFromList alone, which no handler takes
  (`src/doc/update_lists.md:31` lists it under "not use"): `NoGhost` fails with the
  move `leave_unplaced`.
- `tg.cc:352`: a chat that leaves a list with a last message, as a group may that is
  deactivated, comes as updateChatRemovedFromList and an updateChatLastMessage without
  that list's position, which the handler applies by leaving map and set as they are.
  `NoGhost` fails with the moves `join`, `last_message` and `leave_with_message`, and once
  the chat has joined again so does `OnePosition`. `PositionsFollowed` holds with them.
- `tg.cc:259`, `:293`, `:333`: positions are kept by the class id of a list, which all
  folders share: with two lists of one class id a chat that leaves one folder is taken out of
  the other too, and an order from either overwrites the other's. `NoGhost` and
  `PositionsFollowed` fail; `DistinctClasses` is a hypothesis of their theorems.
- `layout.cc:132`: rows below a list that became shorter are not cleared, and
  `layout.cc:134` advances the iterator by an offset that may be past its end. Without
  `~ left`, `PaneShowsList` and `ScrollWithinList` fail.
- `process_input.cc:322`, `:362`: 'G' in the main pane measures the chat list, and 'o'
  keeps the offset of the other chat. Without `~ mismeasured`, `ScrollWithinHistory`
  fails.
- `process_input.cc:340`: 'gg' and 'G' in the main pane draw the side pane. Without
  `~ undrawn`, `PaneShowsHistory` fails.
- `global.h:59`: of two messages of one second one is never shown.
  `OneMessagePerSecond` says exactly what remains.
- `tg.cc:254`: authorizationStateWaitPassword has no case, so an account with a
  password stays in `init_auth` (the second disjunct of `LoginCompletes`).
- `tg.cc:250`: `need_restart_` is looked at by `init_auth` only. A session closed after
  the login is not replaced; `AuthorizedIsReady` says that the program then knows it
  is not authorized, and nothing more.

**Bounds.** The chats of `ChatList` never affect each other, so one chat shows what
can happen to it; two lists show that they do not mix. Three orders tell "none",
"first" and "changed" apart; two updates in flight let an announcement and its
position be separated by every step of the handler and of the main loop. In
`AppThreads` two chats and two queries are the least in which another chat is
opened while an answer is under way and in which a handler is stored while another
is erased. Four chats on three rows make a list that scrolls. Three seconds of
messages on two rows make a history that scrolls, two messages of one second make one
that loses a message, and a second chat with one message is shorter than the offset
left by the first. Three faults are a lost session and an error before and after the
restart. A terminal of 4 lines has no room for the composer at the start, one of 1
column none for the main pane; sizes chosen on 6 lines or columns are refused on less. The instances of `AppThreads` are symmetric in
the chats; symmetry is used for invariants only.

**Fairness.** Threads are scheduled and do not stop inside a critical section
(weak fairness of their steps). The main loop polls with `timeout(0)` and the
handlers hold a mutex for a moment only, so a thread that wants a mutex gets it
some time (strong fairness of the steps that lock): a `std::mutex` does not
promise that, schedulers deliver it. TDLib answers every query; strong fairness
because the bound on the inbox can hold an answer up. For the login: the program
receives (with a timeout, so it never blocks for good), the user answers a prompt and
scans a code, TDLib answers queries and closes a session it is logging out; `std::cin`
is not at its end (then the prompt would return at once, for ever). That the login
completes holds for any bounded number of errors; the code itself sets no limit. No fairness is assumed of
the user, of the server's changes or of keys that happen to redraw.

**Deadlock** is checked in every run. `AppThreads` stutters once `main` has
returned and `Geometry` once the program has been ended by an exception or a crash; in `Auth` the
program goes on receiving nothing. The others never stop.

## 4. Proofs

Every proof has the same shape: an inductive invariant `IInv` with `Init => IInv` and
`IInv /\ [Next]_vars => IInv'`, one step or lemma per action, and for each theorem the
step from `IInv` to the property. An action property follows from `IInv` and one step.
What follows says, module by module, which properties are proved for every value of
the constants and what `IInv` adds to them, because none is inductive alone.
`SequenceFacts` has what the others use of `Append`, `\o` and `Tail`.

**`EventQueueProofs`**: types, `FrontIsMapped`, `NoTypeTwice` and the refinement of
`Mailbox`. `IInv` adds that the holder of the mutex is the thread inside an operation
(`LockInv`), that the queue lists exactly the mapped types, up to the one a push is
about to store or a pop is about to remove (`QueueMatchesMap`), and what is known
inside these windows (`WindowInv`). Assumed: `Free` is no thread and `NoEvent` no
event.

**`ChatListProofs`**, for any chats, lists (folders with one class id included),
bounds and moves: types, `MapWithinSet`, `NoNullChat`, `NoLostRefresh`. `NoNullChat`
needs the whole path of an update: every chat the server knows has been announced
(`ServerInv`), in the channel its updateNewChat comes before its other updates
(`ChannelInv`), the handler that runs is for a chat that has an object or is about
to get one (`HandlerInv`), and so is every chat in a set (`ListedInv`).

The same module proves `OnePosition` and `NoGhost` without the moves `draft`,
`leave_unplaced` and `leave_with_message` (`LeaveMoves`: every leave is announced by
updateChatPosition), `PositionsFollowed` without `draft` and `unload` (`EnterMoves`), in
both cases for lists with class ids of their own (`DistinctClasses`), any chats and any
channel bound: more moves than the run `chat_list_followed` has. The hypotheses are needed:
section 3 says how the properties fail with each of the moves left out. The invariants say, for each chat and
list, what the updates on their way will make of the client's position. `AddsOf` and
`SetsOf` number them, 0 being the running handler. `LeaveInv`: between two entries into a
list there is an order 0, and so there is before an entry of a chat the client still has
and after an entry of a chat the server has out. `EnterInv`: an order comes after an
entry that no order 0 has undone, so `_update_position` ignores none that matters.
`OrderInv`: the server's order is the last one on its way, or the client has it. A
receive shifts the numbers (`Shifted`), a position uses up one of the handler's
(`Applied`), and what the server sends comes after all of them (`SentLeaves`,
`SentEnters`, `SentAgrees`); for each move one lemma says what its updates contain.

**`AppThreadsProofs`**, for any chats, queries, messages and inbox, and whatever
`_terminating` starts with: types, `HandlersMatchQueries`, `MainPaneExplained`. `IInv`
adds that each mutex is held exactly in the critical sections of its holder
(`MutexInv`), what a thread carries from one step to the next (`CarriedInv`), and that
a query is in one place at a time: with TDLib, answered in the inbox or in the hands of
the tg thread (`QueryInv`). Without the last a second answer could find its handler
erased. Assumed: `NoChat` and `Garbage` are different and no chats.

**`SidePaneProofs`**, for any chats and heights: types, `CursorOnItsChat`,
`ScrollWithinList`, `PaneShowsList`. `IInv` adds that the list holds each chat once
(`ListInv`), that every row is right once it was drawn and not only the cursor's
(`RowsInv`: 'j' moves the cursor without drawing), and that the offset is within the
list also while nothing is drawn (`GrowingInv`).

**`MainPaneProofs`**, for any messages, chats and heights: types,
`ScrollWithinHistory`, `PaneShowsHistory`, `OneMessagePerSecond` and the action
property `ReaderKeepsPlace`. `IInv` adds that the server has the oldest messages of each
chat and of every second a newest one (`SentInv`: an answer is a suffix of the history,
so it holds the newest message of every second it reaches), that what is stored was
received for its chat (`StoredInv`), the offset while nothing is drawn (`ScrollInv`) and
a blank pane before a chat is chosen (`BlankInv`). `RankExists` shows that the iterator
of `draw_main` can be advanced k times in a set of more than k messages, `RankGrows` that
the message it then finds in a larger set is not older, and the same if only older ones
were added; with dates that differ (`OneMessagePerSecond`) and messages that are never
removed (`MessagesGrow`) this is `ReaderKeepsPlace`. Assumed:
identifiers and dates are numbers, dates do not decrease with the identifiers of a chat.

**`AuthProofs`**, for any number of faults: types, `AuthorizedIsReady`,
`OldSessionEnded`, `NewSessionKept` and the action property `ErrorRepeatsItsStep`. `IInv`
adds that a query fits the state it was sent in (`QueryInv`), that a query or error with
the current number is about the current state (`NumberInv`, the reason why comparing
numbers is enough), that after Ready only the end of the session follows (`EndInv`),
that a closed session has left the database (`ClosedInv`), and what holds between the
logout and the next prompt (`LogoutInv`): the old session is ending or the new client
finds an empty database.

**`GeometryProofs`**, for terminals of any sizes: types, `PanesTileScreen`,
`HitTestAgrees`, `CursorInPane`, `OnlyLostPaneAborts` and the action property
`BorderFollowsMouse`. `IInv` adds that the windows are those of the current sizes
whenever these are accepted, also after sizes that were refused (`WindowsInv`), that
while the program runs exactly the panels have windows, the side pane's always among
them (`PaneInv`), and that the cursor is in its pane also when the sizes do not fit
(`ColumnInv`). `AcceptedPanes` shows which windows a size that `resize` accepts can
leave out: the main pane's and the composer's, no other. The proof found the start on a
terminal of one column, which the runs had not tried: the last disjunct of
`OnlyLostPaneAborts` and the third width of the run.

**Only model-checked.** Liveness (`QueuedIsDelivered`, `ListIsRedrawn`, `QuitEndsBoth`,
`ResponsesAreTaken`, `OpenedIsShown`, `LoginCompletes`), which is out of the proof
system's reach.

## 5. Plan

In the order in which the modules were written; all items are done.

1. `Mailbox`, `EventQueue`, `EventQueueProofs`.
2. `ChatList`, `ChatListProofs`.
3. `AppThreads`, which composes the two on the level of threads and mutexes.
4. `SidePane`.
5. `Auth`.
6. `MainPane`, with the message history.
7. `Geometry`.
8. Proofs of `SidePane`, `Auth`, `MainPane`, `Geometry` and `AppThreads`.
9. Proofs of `OnePosition`, `PositionsFollowed` and `NoGhost`, with invariants that say
   what the updates in the channel will make of the client's positions.

## 6. Not modelled

The user and group caches: six handlers that each replace a map entry nothing reads.
Options, logging and signal handling: I/O without state that the rest depends on
(`logout_next` is in `Auth`). Outcomes of data races that corrupt memory. The text of
messages and titles, padding and highlighting.

The vendored TDLib (`src/lib/td`, SQLite included) and QR code generator, which are
nearly all of the repository's lines: the program itself is the 1600 lines of
`src/src`. TDLib appears as the environment of the modules, as far as the handlers
rely on the order and kind of what it sends. Modelling its managers would be another
project, with other properties.
