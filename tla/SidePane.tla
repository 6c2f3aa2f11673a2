------------------------------ MODULE SidePane ------------------------------
(***************************************************************************)
(* The side pane: the rows draw_side (src/src/layout.cc) writes, and the   *)
(* keys of src/src/process_input.cc that move the cursor and the scroll    *)
(* offset over the list.  The list is what position_sets holds for the     *)
(* current chat list, in display order; the update thread changes it       *)
(* between any two steps of the main thread, in particular between the     *)
(* unprotected read of its size by a key and draw_side.                    *)
(***************************************************************************)
EXTENDS Naturals, Sequences, FiniteSets

CONSTANTS Chats,    \* chat identifiers
          Blank,    \* an empty row
          MaxRows   \* bound on the height of the pane

ASSUME SidePaneAssumption == Blank \notin Chats /\ MaxRows \in Nat \ {0}

VARIABLES list,        \* the chats in display order
          redraw,      \* an ET_CHATLIST waits
          ui,          \* "poll", or "draw": on the way into draw_side
          rows,        \* the height of the window
          screen,      \* what its rows show
          scroll,      \* scroll_offset[ID_SIDE]
          cursor,      \* cursor_positions[ID_SIDE].first
          input_state, \* input_state.state, and pref_key when it is S_KEY_PREF
          left         \* history: a chat has left the list

vars == <<list, redraw, ui, rows, screen, scroll, cursor, input_state, left>>

AllRows == 0 .. MaxRows - 1

Larger(m, n) == IF m > n THEN m ELSE n
Smaller(m, n) == IF m < n THEN m ELSE n

Init ==
    /\ list = <<>>
    /\ redraw = FALSE
    /\ ui = "poll"
    /\ rows \in 1 .. MaxRows
    /\ screen = [r \in AllRows |-> Blank]
    /\ scroll = 0
    /\ cursor = 0
    /\ input_state = "S_NONE"
    /\ left = FALSE
-----------------------------------------------------------------------------
\* The chats of S in some order.
Listings(S) == {s \in [1 .. Cardinality(S) -> S] : \A x \in S : \E i \in DOMAIN s : s[i] = x}

Listed == {list[i] : i \in DOMAIN list}

\* The update thread: chats enter, move or leave, and a redraw is asked for.
ChangeList ==
    /\ \E c \in Chats :
        \/ list' \in Listings(Listed \cup {c}) /\ UNCHANGED left
        \/ c \in Listed /\ list' \in Listings(Listed \ {c}) /\ left' = TRUE
    /\ redraw' = TRUE
    /\ UNCHANGED <<ui, rows, screen, scroll, cursor, input_state>>
-----------------------------------------------------------------------------
\* The largest offset the keys set, from the size read without the mutex.
MaxOffset == Larger(rows, Len(list)) - rows

Poll(next) == ui = "poll" /\ ui' = next

Pop ==
    /\ redraw
    /\ Poll("draw")
    /\ redraw' = FALSE
    /\ UNCHANGED <<list, left, rows, screen, scroll, cursor, input_state>>

\* Mutant of KeyDown: the list scrolls and is not drawn.
KeyDownUndrawn ==
    /\ \/ /\ cursor >= rows - 1
          /\ cursor' = rows - 1
          /\ scroll' = Smaller(MaxOffset, scroll + 1)
       \/ /\ cursor < rows - 1
          /\ cursor' = cursor + 1
          /\ UNCHANGED scroll
    /\ Poll("poll")
    /\ UNCHANGED <<list, left, redraw, rows, screen, input_state>>

\* Mutant of KeyDown: the offset is not held at its largest value.
KeyDownUnbounded ==
    /\ \/ /\ cursor >= rows - 1
          /\ cursor' = rows - 1
          /\ scroll' = scroll + 1
          /\ Poll("draw")
       \/ /\ cursor < rows - 1
          /\ cursor' = cursor + 1
          /\ Poll("poll")
          /\ UNCHANGED scroll
    /\ UNCHANGED <<list, left, redraw, rows, screen, input_state>>

\* 'j': at the last row the list scrolls, elsewhere the cursor moves.
KeyDown ==
    /\ \/ /\ cursor >= rows - 1
          /\ cursor' = rows - 1
          /\ scroll' = Smaller(MaxOffset, scroll + 1)
          /\ Poll("draw")
       \/ /\ cursor < rows - 1
          /\ cursor' = cursor + 1
          /\ Poll("poll")
          /\ UNCHANGED scroll
    /\ UNCHANGED <<list, left, redraw, rows, screen, input_state>>

\* 'k': at the first row the list scrolls, elsewhere the cursor moves.
KeyUp ==
    /\ \/ /\ cursor = 0
          /\ scroll' = Larger(1, scroll) - 1
          /\ Poll("draw")
          /\ UNCHANGED cursor
       \/ /\ cursor > 0
          /\ cursor' = cursor - 1
          /\ Poll("poll")
          /\ UNCHANGED scroll
    /\ UNCHANGED <<list, left, redraw, rows, screen, input_state>>

\* 'G'
KeyLast ==
    /\ Poll("draw")
    /\ cursor' = rows - 1
    /\ scroll' = MaxOffset
    /\ UNCHANGED <<list, left, redraw, rows, screen, input_state>>

\* 'g', once, in either pane: the prefix is noted.  It ends a drag, and other
\* keys leave it.
KeyPrefix ==
    /\ input_state # "S_KEY_PREF"
    /\ Poll("poll")
    /\ input_state' = "S_KEY_PREF"
    /\ UNCHANGED <<list, left, redraw, rows, screen, scroll, cursor>>

\* 'g' after 'g'
KeyFirst ==
    /\ input_state = "S_KEY_PREF"
    /\ Poll("draw")
    /\ cursor' = 0
    /\ scroll' = 0
    /\ input_state' = "S_NONE"
    /\ UNCHANGED <<list, left, redraw, rows, screen>>

\* 'o', and in the main pane 'G' and a second 'g', which leave this pane's
\* cursor and offset alone, redraw it as well.
KeyRedraw ==
    /\ Poll("draw")
    /\ \/ UNCHANGED input_state
       \/ input_state = "S_KEY_PREF" /\ input_state' = "S_NONE"
    /\ UNCHANGED <<list, left, redraw, rows, screen, scroll, cursor>>

\* Mutant of Resize: the cursor may be left outside.
ResizeCursorKept(n) ==
    /\ Poll("draw")
    /\ rows' = n
    /\ screen' = [r \in AllRows |-> Blank]
    /\ UNCHANGED <<list, left, redraw, scroll, cursor, input_state>>

\* The windows are made anew, empty, and the cursor is kept inside.
Resize(n) ==
    /\ Poll("draw")
    /\ rows' = n
    /\ screen' = [r \in AllRows |-> Blank]
    /\ cursor' = Smaller(cursor, n - 1)
    /\ UNCHANGED <<list, left, redraw, scroll, input_state>>

\* The button is pressed on a border, or elsewhere, or released.
MouseButton ==
    /\ Poll("poll")
    /\ input_state' \in {"S_MOUSE_DRAG", "S_NONE"}
    /\ UNCHANGED <<list, left, redraw, rows, screen, scroll, cursor>>

KeyResize == \E n \in 1 .. MaxRows : Resize(n)

MouseDrag == input_state = "S_MOUSE_DRAG" /\ \E n \in 1 .. MaxRows : Resize(n)

\* Mutant of draw_side: the last row is left out.
draw_side_short ==
    LET drawn == 0 .. Smaller(Len(list), rows - 1) - 1
        row(r) == IF scroll + r < Len(list) THEN list[scroll + r + 1] ELSE Blank
    IN  /\ ui = "draw" /\ ui' = "poll"
        /\ screen' = [r \in AllRows |-> IF r \in drawn THEN row(r) ELSE screen[r]]
        /\ UNCHANGED <<list, left, redraw, rows, scroll, cursor, input_state>>

\* As many rows are written as the list has chats, from the offset on; rows
\* past the end of the list become empty and rows below keep what they show.
\* An offset past the end has no defined outcome.
draw_side ==
    LET drawn == 0 .. Smaller(Len(list), rows) - 1
        row(r) == IF scroll + r < Len(list) THEN list[scroll + r + 1] ELSE Blank
    IN  /\ ui = "draw" /\ ui' = "poll"
        /\ IF scroll <= Len(list)
           THEN screen' = [r \in AllRows |-> IF r \in drawn THEN row(r) ELSE screen[r]]
           ELSE \E f \in [drawn -> Chats \cup {Blank}] :
                   screen' = [r \in AllRows |-> IF r \in drawn THEN f[r] ELSE screen[r]]
        /\ UNCHANGED <<list, left, redraw, rows, scroll, cursor, input_state>>

Next ==
    \/ ChangeList
    \/ Pop \/ draw_side
    \/ KeyDown \/ KeyUp \/ KeyLast \/ KeyPrefix \/ KeyFirst \/ KeyRedraw
    \/ KeyResize \/ MouseButton \/ MouseDrag

Spec == Init /\ [][Next]_vars
-----------------------------------------------------------------------------
\* Types of the variables; the cursor is on a row of the pane.
TypeOK ==
    /\ list \in Seq(Chats)
    /\ redraw \in BOOLEAN
    /\ ui \in {"poll", "draw"}
    /\ rows \in 1 .. MaxRows
    /\ screen \in [AllRows -> Chats \cup {Blank}]
    /\ scroll \in Nat
    /\ cursor \in 0 .. rows - 1
    /\ input_state \in {"S_NONE", "S_KEY_PREF", "S_MOUSE_DRAG"}
    /\ left \in BOOLEAN

Settled == ui = "poll" /\ ~ redraw

\* What 'o' opens is what the user sees: when no redraw is due, the chat that
\* scroll offset and cursor select is the one on the cursor's row.
CursorOnItsChat ==
    Settled /\ scroll + cursor < Len(list) => screen[cursor] = list[scroll + cursor + 1]

\* draw_side does not advance its iterator past the end of the list, as long
\* as no chat has left it: the offset is the only measure of the list that a
\* key keeps.
ScrollWithinList == ui = "draw" /\ ~ left => scroll <= Len(list)

\* When no redraw is due, the pane shows the list from the offset on and
\* nothing else, as long as no chat has left it: rows below a list that has
\* become shorter are not cleared.
PaneShowsList ==
    Settled /\ ~ left => \A r \in 0 .. rows - 1 :
        screen[r] = IF scroll + r < Len(list) THEN list[scroll + r + 1] ELSE Blank
=============================================================================
