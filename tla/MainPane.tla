------------------------------ MODULE MainPane ------------------------------
(***************************************************************************)
(* The main pane and the messages behind it: the set of messages of a chat *)
(* (cmp_msg_reverse_chrono in src/src/global.h, process_get_chat_history   *)
(* in src/src/tg.cc), the rows draw_main (src/src/layout.cc) writes and    *)
(* the keys of src/src/process_input.cc that move the cursor and the       *)
(* scroll offset.  The tg thread stores messages between any two steps of  *)
(* the main thread, in particular between the unprotected read of their    *)
(* number by a key and draw_main.                                          *)
(***************************************************************************)
EXTENDS Naturals, FiniteSets

CONSTANTS Messages,   \* message identifiers, which are numbers
          ChatOf,     \* the chat of a message
          Date,       \* the second it was sent in
          NoChat,     \* chosen_chat_id when it is -1
          Blank,      \* an empty row
          MaxRows,    \* bound on the height of the pane
          MaxListed   \* bound on the length of the chat list

ASSUME MainPaneAssumption ==
    /\ Messages \subseteq Nat /\ Blank \notin Messages
    /\ MaxRows \in Nat \ {0} /\ MaxListed \in Nat
    /\ \A m, n \in Messages : ChatOf[m] = ChatOf[n] /\ m < n => Date[m] <= Date[n]
    /\ \A m \in Messages : ChatOf[m] # NoChat /\ Date[m] \in Nat

VARIABLES sent,      \* the messages the server has
          asked,     \* the chats whose history is asked for
          messages,  \* app_state.messages
          redraw,    \* an ET_MESSAGES waits
          ui,        \* "poll", or "draw": on the way into draw_main
          chosen,    \* chosen_chat_id
          rows,      \* the height of the window
          screen,    \* what its rows show, from the top
          scroll,    \* scroll_offset[ID_MAIN]
          cursor,    \* cursor_positions[ID_MAIN].first
          prefix,    \* input_state is S_KEY_PREF with 'g'
          received,  \* history: the messages TDLib has returned
          undrawn,   \* history: a key changed the view and did not draw it
          mismeasured \* history: the offset was set for the chat list or another chat

history == <<received, undrawn, mismeasured>>
server == <<sent, asked>>
vars == <<server, messages, redraw, ui, chosen, rows, screen, scroll, cursor, prefix, history>>

Chats == {ChatOf[m] : m \in Messages}
AllRows == 0 .. MaxRows - 1
BlankScreen == [r \in AllRows |-> Blank]

Larger(m, n) == IF m > n THEN m ELSE n
Smaller(m, n) == IF m < n THEN m ELSE n

Size == IF chosen = NoChat THEN 0 ELSE Cardinality(messages[chosen])

Init ==
    /\ sent = {} /\ asked = {}
    /\ messages = [c \in Chats |-> {}]
    /\ redraw = FALSE
    /\ ui = "poll"
    /\ chosen = NoChat
    /\ rows \in 1 .. MaxRows
    /\ screen = BlankScreen
    /\ scroll = 0 /\ cursor = 0
    /\ prefix = FALSE
    /\ received = {} /\ undrawn = FALSE /\ mismeasured = FALSE
-----------------------------------------------------------------------------
(***************************************************************************)
(* The server and the tg thread.                                           *)
(***************************************************************************)
SendMessage ==
    /\ \E m \in Messages \ sent :
        /\ \A n \in Messages : ChatOf[n] = ChatOf[m] /\ n < m => n \in sent
        /\ sent' = sent \cup {m}
    /\ UNCHANGED <<asked, messages, redraw, ui, chosen, rows, screen, scroll, cursor, prefix, history>>

\* The newest messages of a chat, as many as TDLib chooses to return.
Histories(c) ==
    LET all == {m \in sent : ChatOf[m] = c}
    IN  {{m \in all : m >= first} : first \in all}

\* Mutant of Emplace: what was stored before is forgotten.
EmplaceAnew(old, new) == {m \in new : \A n \in new : Date[n] = Date[m] => n <= m}

\* The messages are put into the set from the newest to the oldest; one whose
\* second is taken is dropped.
Emplace(old, new) ==
    old \cup {m \in new : /\ \A n \in old : Date[n] # Date[m]
                          /\ \A n \in new : Date[n] = Date[m] => n <= m}

\* Mutant of process_get_chat_history: no redraw is asked for.
process_get_chat_history_silent(c, new) ==
    /\ messages' = [messages EXCEPT ![c] = Emplace(@, new)]
    /\ received' = received \cup new
    /\ UNCHANGED redraw

process_get_chat_history(c, new) ==
    /\ messages' = [messages EXCEPT ![c] = Emplace(@, new)]
    /\ received' = received \cup new
    /\ redraw' = TRUE

\* The answer to getChatHistory; an error or an empty history has no effect.
Answer ==
    /\ \E c \in asked :
        /\ asked' = asked \ {c}
        /\ \/ \E new \in Histories(c) : process_get_chat_history(c, new)
           \/ UNCHANGED <<messages, received, redraw>>
    /\ UNCHANGED <<sent, ui, chosen, rows, screen, scroll, cursor, prefix, undrawn, mismeasured>>
-----------------------------------------------------------------------------
(***************************************************************************)
(* The main thread.                                                        *)
(***************************************************************************)
Poll(next) == ui = "poll" /\ ui' = next

Pop ==
    /\ redraw
    /\ Poll("draw")
    /\ redraw' = FALSE
    /\ UNCHANGED <<server, messages, chosen, rows, screen, scroll, cursor, prefix, history>>

KeyFrame == UNCHANGED <<server, messages, redraw, rows, screen, received>>

\* 'j': at the last row the pane scrolls to newer messages.
KeyDown ==
    /\ \/ /\ cursor >= rows - 1
          /\ cursor' = rows - 1
          /\ scroll' = Larger(1, scroll) - 1
          /\ Poll("draw")
       \/ /\ cursor < rows - 1
          /\ cursor' = cursor + 1
          /\ Poll("poll")
          /\ UNCHANGED scroll
    /\ UNCHANGED <<chosen, prefix, undrawn, mismeasured>> /\ KeyFrame

\* Mutant of KeyUp: the offset is not held at its largest value.
KeyUpUnbounded ==
    /\ \/ /\ cursor = 0
          /\ scroll' = scroll + 1
          /\ mismeasured' = FALSE
          /\ Poll("draw")
          /\ UNCHANGED cursor
       \/ /\ cursor > 0
          /\ cursor' = cursor - 1
          /\ Poll("poll")
          /\ UNCHANGED <<scroll, mismeasured>>
    /\ UNCHANGED <<chosen, prefix, undrawn>> /\ KeyFrame

\* 'k': at the first row the pane scrolls to older messages, as far as the
\* number of messages read without the mutex allows.
KeyUp ==
    /\ \/ /\ cursor = 0
          /\ scroll' = Smaller(Larger(Size, rows) - rows, scroll + 1)
          /\ mismeasured' = FALSE
          /\ Poll("draw")
          /\ UNCHANGED cursor
       \/ /\ cursor > 0
          /\ cursor' = cursor - 1
          /\ Poll("poll")
          /\ UNCHANGED <<scroll, mismeasured>>
    /\ UNCHANGED <<chosen, prefix, undrawn>> /\ KeyFrame

\* 'G': the offset is computed from the number of chats, and only the side
\* pane is drawn.
KeyLast ==
    /\ Poll("poll")
    /\ cursor' = rows - 1
    /\ \E listed \in 0 .. MaxListed : scroll' = Larger(rows, listed) - rows
    /\ undrawn' = (undrawn \/ scroll' # scroll) /\ mismeasured' = (scroll' > 0)
    /\ UNCHANGED <<chosen, prefix>> /\ KeyFrame

\* A second 'g': the side pane is drawn, not this one.
KeyFirst ==
    /\ prefix /\ prefix' = FALSE
    /\ Poll("poll")
    /\ cursor' = 0 /\ scroll' = 0
    /\ undrawn' = (undrawn \/ scroll > 0) /\ mismeasured' = FALSE
    /\ UNCHANGED chosen /\ KeyFrame

\* The first 'g'; a second one in the side pane or a mouse button ends it.
KeyPrefix ==
    /\ Poll("poll")
    /\ prefix' = ~ prefix
    /\ UNCHANGED <<chosen, scroll, cursor, undrawn, mismeasured>> /\ KeyFrame

\* 'o', in either pane, chooses a chat of the list and asks for its history.
\* The offset stays, and this pane is drawn when the answer is stored.
KeyOpen ==
    /\ Poll("poll")
    /\ \E c \in Chats :
        /\ chosen' = c
        /\ asked' = asked \cup {c}
        /\ undrawn' = (undrawn \/ c # chosen)
        /\ mismeasured' = (mismeasured \/ (c # chosen /\ scroll > 0))
    /\ UNCHANGED <<sent, messages, redraw, rows, screen, scroll, cursor, prefix, received>>

\* Mutant of Resize: the cursor may be left outside.
ResizeCursorKept ==
    /\ Poll("draw")
    /\ rows' \in 1 .. MaxRows
    /\ screen' = BlankScreen
    /\ UNCHANGED <<server, messages, redraw, chosen, scroll, cursor, prefix, history>>

\* The windows are made anew, empty, and the cursor is kept inside.
Resize ==
    /\ Poll("draw")
    /\ rows' \in 1 .. MaxRows
    /\ screen' = BlankScreen
    /\ cursor' = Smaller(cursor, rows' - 1)
    /\ UNCHANGED <<server, messages, redraw, chosen, scroll, prefix, history>>

\* Mutant of Nth: the messages are in the order of their dates.
NthOldest(c, n) ==
    CHOOSE m \in messages[c] : Cardinality({x \in messages[c] : Date[x] < Date[m]}) = n

\* The message of chat c that n others are newer than.
Nth(c, n) ==
    CHOOSE m \in messages[c] : Cardinality({x \in messages[c] : Date[x] > Date[m]}) = n

\* What row r shows: the newest message from the offset on is on the last row.
Row(r) ==
    LET n == scroll + (rows - 1 - r)
    IN  IF r < rows /\ n < Size THEN Nth(chosen, n) ELSE Blank

\* Every row is written.  An offset past the end has no defined outcome.
draw_main ==
    /\ ui = "draw" /\ ui' = "poll"
    /\ \/ chosen = NoChat /\ UNCHANGED <<screen, undrawn>>
       \/ /\ chosen # NoChat
          /\ undrawn' = FALSE
          /\ IF scroll <= Size
             THEN screen' = [r \in AllRows |-> Row(r)]
             ELSE \E f \in [0 .. rows - 1 -> messages[chosen] \cup {Blank}] :
                    screen' = [r \in AllRows |-> IF r < rows THEN f[r] ELSE Blank]
    /\ UNCHANGED <<server, messages, redraw, chosen, rows, scroll, cursor, prefix, received, mismeasured>>

Next ==
    \/ SendMessage \/ Answer
    \/ Pop \/ draw_main
    \/ KeyDown \/ KeyUp \/ KeyLast \/ KeyFirst \/ KeyPrefix \/ KeyOpen \/ Resize

Spec == Init /\ [][Next]_vars
-----------------------------------------------------------------------------
\* Types of the variables; the cursor is on a row of the pane.
TypeOK ==
    /\ received \subseteq sent /\ sent \subseteq Messages
    /\ asked \subseteq Chats
    /\ messages \in [Chats -> SUBSET Messages]
    /\ redraw \in BOOLEAN /\ ui \in {"poll", "draw"}
    /\ chosen \in Chats \cup {NoChat}
    /\ rows \in 1 .. MaxRows
    /\ screen \in [AllRows -> Messages \cup {Blank}]
    /\ scroll \in Nat
    /\ cursor \in 0 .. rows - 1
    /\ prefix \in BOOLEAN /\ undrawn \in BOOLEAN /\ mismeasured \in BOOLEAN

\* draw_main does not advance its iterator past the end of the messages,
\* whatever is stored or resized meanwhile, unless the offset was set by 'G'
\* or for another chat.
ScrollWithinHistory == ui = "draw" /\ ~ mismeasured => scroll <= Size

\* When no redraw is due, the pane shows the messages of the chosen chat from
\* the offset on, the newest at the bottom, unless the offset is past the end
\* or the last key changed the view without drawing it.
PaneShowsHistory ==
    ui = "poll" /\ ~ redraw /\ ~ undrawn /\ scroll <= Size =>
        \A r \in AllRows : screen[r] = Row(r)

\* A chat keeps exactly one message of every second it has received messages
\* of: what repeated and overlapping answers hold of older messages is not
\* lost, the other messages of a second are.
OneMessagePerSecond ==
    /\ \A c \in Chats :
        {Date[m] : m \in messages[c]} = {Date[m] : m \in {x \in received : ChatOf[x] = c}}
    /\ \A c \in Chats : \A m, n \in messages[c] : Date[m] = Date[n] => m = n

\* What is stored while the user leaves the view alone never empties a row and
\* never puts an older message on it, and older history leaves the row as it
\* is: a reader who has scrolled back is moved by newer messages only, however
\* the answers overlap and whichever messages of a second they hold.
ReaderKeepsPlace ==
    [][UNCHANGED <<chosen, scroll, rows>> =>
        \A r \in AllRows : Row(r) # Blank =>
            /\ Row(r)' # Blank /\ Date[Row(r)] <= Date[Row(r)']
            /\ (\A m \in messages'[chosen] \ messages[chosen] : Date[m] < Date[Row(r)]) =>
                   Row(r)' = Row(r)]_vars
=============================================================================
