------------------------------ MODULE Geometry ------------------------------
(***************************************************************************)
(* The windows of the three panes and the two borders (init_config,        *)
(* init_layout and resize of src/src/layout.cc), the mouse that drags the  *)
(* borders (process_mouse and process_B1_pressed of                        *)
(* src/src/process_input.cc) and the column of the cursor in the panes.    *)
(***************************************************************************)
EXTENDS Integers

CONSTANTS Heights, Widths  \* the sizes the terminal may have

ASSUME GeometryAssumption == Heights \subseteq Nat \ {0} /\ Widths \subseteq Nat \ {0}

VARIABLES LINES, COLS,         \* the size of the terminal
          side_w, composer_h,
          panels,              \* the panels init_layout could create
          windows,             \* panel -> its window
          where,               \* what is dragged, "none" unless S_MOUSE_DRAG
          column,              \* cursor_positions[...].second of side and main pane
          opened,              \* chosen_chat_id is not -1
          running              \* nothing has ended the program

sizes == <<side_w, composer_h>>
vars == <<LINES, COLS, sizes, panels, windows, where, column, opened, running>>

Panels == {"ID_SIDE", "ID_MAIN", "ID_COMP", "ID_E_SIDE_MAIN", "ID_C_SIDE_MAIN_COMP"}

Larger(m, n) == IF m > n THEN m ELSE n
Smaller(m, n) == IF m < n THEN m ELSE n

NoWindow == [h |-> -1, w |-> -1, y |-> 0, x |-> 0]

\* ncurses: a size of 0 stands for all that is left of the screen, and without
\* anything left there is no window; the size of no window is -1.
newwin(l, c, h, w, y, x) ==
    LET hh == IF h = 0 THEN l - y ELSE h
        ww == IF w = 0 THEN c - x ELSE w
    IN  IF hh > 0 /\ ww > 0 THEN [h |-> hh, w |-> ww, y |-> y, x |-> x] ELSE NoWindow

\* Mutant of MainWindow: one more column is left free.
MainWindowNarrow(l, c, sw, ch) == newwin(l, c, l - ch - 1, c - sw - 2, 0, sw + 2)

MainWindow(l, c, sw, ch) == newwin(l, c, l - ch - 1, c - sw - 1, 0, sw + 1)

\* The five windows, on a terminal of l lines and c columns.
Layout(l, c, sw, ch) ==
    [ID_SIDE |-> newwin(l, c, l - ch - 1, sw, 0, 0),
     ID_MAIN |-> MainWindow(l, c, sw, ch),
     ID_COMP |-> newwin(l, c, ch, c, l - ch, 0),
     ID_E_SIDE_MAIN |-> newwin(l, c, l - ch - 1, 1, 0, sw),
     ID_C_SIDE_MAIN_COMP |-> newwin(l, c, 1, c, l - ch - 1, 0)]

\* draw_main fills every row with as many spaces as the window has columns;
\* for -1 of them std::string throws std::length_error, which nobody catches.
DrawMainThrows(wins) == opened /\ wins["ID_MAIN"] = NoWindow

Init ==
    /\ LINES \in Heights /\ COLS \in Widths
    /\ side_w = Smaller(32, COLS \div 4)
    /\ composer_h = Smaller(3, LINES \div 5)
    /\ windows = Layout(LINES, COLS, side_w, composer_h)
    /\ panels = {p \in Panels : windows[p] # NoWindow}
    /\ where = "none"
    /\ column = [p \in {"ID_SIDE", "ID_MAIN"} |-> 0]
    /\ opened = FALSE /\ running = TRUE
-----------------------------------------------------------------------------
\* A panel that could not be created is never given a window.
Replaced(wins) == [p \in Panels |-> IF p \in panels THEN wins[p] ELSE NoWindow]

\* update_panels reads the window of every panel; without one it is a null
\* pointer.  A panel that could not be created is not among the panels.
UpdatePanelsFails(wins) == \E p \in panels : wins[p] = NoWindow

Accepts(l, c, sw, ch) == sw < c /\ ch < l

\* Mutant of resize: the cursor stays where it is.
resize_cursor_kept(l, c, sw, ch) ==
    \/ /\ ~ Accepts(l, c, sw, ch)
       /\ UNCHANGED <<sizes, windows, column, running>>
    \/ /\ Accepts(l, c, sw, ch)
       /\ side_w' = sw /\ composer_h' = ch
       /\ windows' = Replaced(Layout(l, c, sw, ch))
       /\ running' = ~ (DrawMainThrows(windows') \/ UpdatePanelsFails(windows'))
       /\ UNCHANGED column

\* The windows are replaced, the cursor is kept inside, the panes are filled,
\* the main pane first, and the panels updated.  A size that is too large
\* changes nothing.
resize(l, c, sw, ch) ==
    \/ /\ ~ Accepts(l, c, sw, ch)
       /\ UNCHANGED <<sizes, windows, column, running>>
    \/ /\ Accepts(l, c, sw, ch)
       /\ side_w' = sw /\ composer_h' = ch
       /\ windows' = Replaced(Layout(l, c, sw, ch))
       /\ column' = [p \in DOMAIN column |-> Smaller(column[p], windows'[p].w - 1)]
       /\ running' = ~ (DrawMainThrows(windows') \/ UpdatePanelsFails(windows'))

\* Mutant of KeyResize: only ncurses takes notice.
KeyResizeIgnored ==
    /\ running
    /\ LINES' \in Heights /\ COLS' \in Widths
    /\ UNCHANGED <<sizes, windows, column, running, panels, where, opened>>

\* KEY_RESIZE: the terminal has a new size.
KeyResize ==
    /\ running
    /\ LINES' \in Heights /\ COLS' \in Widths
    /\ resize(LINES', COLS', side_w, composer_h)
    /\ UNCHANGED <<panels, where, opened>>

\* Mutant of Hit: the pane above the border reaches one row too far.
HitBelow(y, x) ==
    IF y < LINES - composer_h
    THEN IF x < side_w THEN "ID_SIDE" ELSE IF x > side_w THEN "ID_MAIN" ELSE "ID_E_SIDE_MAIN"
    ELSE IF y > LINES - composer_h THEN "ID_COMP"
    ELSE IF x = side_w THEN "ID_C_SIDE_MAIN_COMP" ELSE "ID_E_COMP_TOP"

\* What the mouse is on.
Hit(y, x) ==
    IF y < LINES - composer_h - 1
    THEN IF x < side_w THEN "ID_SIDE" ELSE IF x > side_w THEN "ID_MAIN" ELSE "ID_E_SIDE_MAIN"
    ELSE IF y > LINES - composer_h - 1 THEN "ID_COMP"
    ELSE IF x = side_w THEN "ID_C_SIDE_MAIN_COMP" ELSE "ID_E_COMP_TOP"

Edges == {"ID_E_SIDE_MAIN", "ID_E_COMP_TOP", "ID_C_SIDE_MAIN_COMP"}

Rows == 0 .. LINES - 1
Columns == 0 .. COLS - 1

MousePress ==
    /\ running
    /\ \E y \in Rows, x \in Columns : where' = IF Hit(y, x) \in Edges THEN Hit(y, x) ELSE "none"
    /\ UNCHANGED <<LINES, COLS, sizes, panels, windows, column, opened, running>>

\* The button is released, or 'g' makes the input state a key prefix.
EndDrag ==
    /\ running
    /\ where # "none" /\ where' = "none"
    /\ UNCHANGED <<LINES, COLS, sizes, panels, windows, column, opened, running>>

SideDragged == where \in {"ID_E_SIDE_MAIN", "ID_C_SIDE_MAIN_COMP"}
TopDragged == where \in {"ID_E_COMP_TOP", "ID_C_SIDE_MAIN_COMP"}

\* Mutant of MouseMove: the border's own row is forgotten.
MouseMoveBelow(y, x) ==
    /\ running
    /\ where # "none"
    /\ resize(LINES, COLS, IF SideDragged THEN x ELSE side_w,
                           IF TopDragged THEN LINES - y ELSE composer_h)
    /\ UNCHANGED <<LINES, COLS, panels, where, opened>>

\* Mutant of MouseMove: the border is taken for two rows high.
MouseMoveAbove(y, x) ==
    /\ running
    /\ where # "none"
    /\ resize(LINES, COLS, IF SideDragged THEN x ELSE side_w,
                           IF TopDragged THEN LINES - y - 2 ELSE composer_h)
    /\ UNCHANGED <<LINES, COLS, panels, where, opened>>

MouseMove(y, x) ==
    /\ running
    /\ where # "none"
    /\ resize(LINES, COLS, IF SideDragged THEN x ELSE side_w,
                           IF TopDragged THEN LINES - y - 1 ELSE composer_h)
    /\ UNCHANGED <<LINES, COLS, panels, where, opened>>

ColumnFrame == UNCHANGED <<LINES, COLS, sizes, panels, windows, where, opened, running>>

\* 'h'
KeyLeft(p) ==
    /\ running
    /\ column' = [column EXCEPT ![p] = Larger(@ - 1, 0)]
    /\ ColumnFrame

\* 'l'.  When resize has refused the size of the terminal, ncurses has cut the
\* windows to fit and their width is not known.
KeyRight(p) ==
    /\ running
    /\ \E w \in IF Accepts(LINES, COLS, side_w, composer_h) \/ windows[p] = NoWindow
             THEN {windows[p].w} ELSE 1 .. windows[p].w :
        column' = [column EXCEPT ![p] = Smaller(@ + 1, w - 1)]
    /\ ColumnFrame

\* 'o' chooses a chat.
Open ==
    /\ running
    /\ opened' = TRUE
    /\ UNCHANGED <<LINES, COLS, sizes, panels, windows, where, column, running>>

\* The main pane is drawn for another reason: a key or ET_MESSAGES.
DrawMain ==
    /\ running
    /\ running' = ~ DrawMainThrows(windows)
    /\ UNCHANGED <<LINES, COLS, sizes, panels, windows, where, column, opened>>

Aborted == ~ running /\ UNCHANGED vars

Next ==
    \/ KeyResize \/ MousePress \/ EndDrag
    \/ \E y \in Rows, x \in Columns : MouseMove(y, x)
    \/ \E p \in DOMAIN column : KeyLeft(p) \/ KeyRight(p)
    \/ Open \/ DrawMain \/ Aborted

Spec == Init /\ [][Next]_vars
-----------------------------------------------------------------------------
\* Types of the variables.
TypeOK ==
    /\ LINES \in Heights /\ COLS \in Widths
    /\ side_w \in Nat /\ composer_h \in Nat
    /\ panels \subseteq Panels
    /\ DOMAIN windows = Panels /\ \A p \in Panels : windows[p] # NoWindow => windows[p].h > 0 /\ windows[p].w > 0
    /\ where \in Edges \cup {"none"}
    /\ DOMAIN column = {"ID_SIDE", "ID_MAIN"} /\ \A p \in DOMAIN column : column[p] \in Int
    /\ opened \in BOOLEAN /\ running \in BOOLEAN

\* Every pane has a row and a column beside its borders.
Fits == panels = Panels /\ side_w \in 1 .. COLS - 2 /\ composer_h \in 1 .. LINES - 2

Covers(p, y, x) ==
    /\ y \in windows[p].y .. windows[p].y + windows[p].h - 1
    /\ x \in windows[p].x .. windows[p].x + windows[p].w - 1

\* Panes and borders share out the screen: every cell belongs to one window,
\* after whatever sequence of drags, terminal sizes and refused sizes.
PanesTileScreen ==
    Fits => \A y \in Rows, x \in Columns :
        \E p \in Panels : Covers(p, y, x) /\ \A q \in Panels \ {p} : ~ Covers(q, y, x)

\* The arithmetic that tells what the mouse is on agrees with the windows.
HitTestAgrees ==
    Fits => \A y \in Rows, x \in Columns :
        Covers(IF Hit(y, x) = "ID_E_COMP_TOP" THEN "ID_C_SIDE_MAIN_COMP" ELSE Hit(y, x), y, x)

\* A dragged border is where the mouse is, also when both are dragged at the
\* corner and when the terminal has changed its size during the drag.
BorderFollowsMouse ==
    [][where # "none" /\ Fits' => \A y \in Rows, x \in Columns : MouseMove(y, x) =>
        /\ SideDragged => windows'["ID_E_SIDE_MAIN"].x = x
        /\ TopDragged => windows'["ID_C_SIDE_MAIN_COMP"].y = y]_vars

\* The cursor stays within the columns of its pane, if the pane has a panel.
CursorInPane ==
    running /\ Accepts(LINES, COLS, side_w, composer_h) =>
        \A p \in DOMAIN column \cap panels : column[p] \in 0 .. windows[p].w - 1

\* What ends the program is a pane that has lost its window: the main pane with
\* the border in the last column, the composer with its border in the last row,
\* or, once a chat is opened, a main pane that has had no panel since the
\* program was started on a terminal of one column.  No other drag or size of
\* the terminal does.
OnlyLostPaneAborts ==
    ~ running => \/ side_w = COLS - 1
                 \/ composer_h = 0 /\ "ID_COMP" \in panels
                 \/ opened /\ "ID_MAIN" \notin panels

\* No drag ends the program: the sizes that resize accepts leave every pane a
\* row and a column.
NeverAborts == running
=============================================================================
