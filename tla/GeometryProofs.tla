--------------------------- MODULE GeometryProofs ---------------------------
(***************************************************************************)
(* For terminals of any sizes and drags and resizes in any order: panes    *)
(* and borders share out the screen, the hit test agrees with them, a      *)
(* dragged border follows the mouse, the cursor stays in its pane, and     *)
(* only a main pane or a composer without a window ends the program.       *)
(***************************************************************************)
EXTENDS Geometry, TLAPS

(***************************************************************************)
(* The inductive invariant.                                                *)
(***************************************************************************)
Sides == {"ID_SIDE", "ID_MAIN"}

\* While the sizes fit the terminal the windows are the ones they ask for.  A
\* size that is refused leaves the windows of an earlier one.
WindowsInv ==
    Accepts(LINES, COLS, side_w, composer_h) =>
        windows = Replaced(Layout(LINES, COLS, side_w, composer_h))

\* A window has a size; the side pane is never without a window, no panel is
\* while the program runs, and what has no panel has no window.
PaneInv ==
    /\ \A p \in Panels : windows[p] # NoWindow => windows[p].w \in Nat \ {0}
    /\ "ID_SIDE" \in panels
    /\ running => \A p \in panels : windows[p] # NoWindow
    /\ \A p \in Panels \ panels : windows[p] = NoWindow

\* The cursor is in its pane whether or not the terminal's size is accepted.
ColumnInv ==
    running => \A p \in Sides \cap panels : column[p] >= 0 /\ column[p] < windows[p].w

IInv == TypeOK /\ WindowsInv /\ PaneInv /\ ColumnInv /\ OnlyLostPaneAborts
-----------------------------------------------------------------------------
(***************************************************************************)
(* The windows of a layout.                                                *)
(***************************************************************************)
\* The window of h lines and w columns with its corner at line y and column x.
Window(h, w, y, x) == [h |-> h, w |-> w, y |-> y, x |-> x]

\* ncurses returns a window of some size, where it was asked for, or none.
LEMMA NewwinFacts ==
    ASSUME NEW l \in Int, NEW c \in Int, NEW h \in Int, NEW w \in Int, NEW y \in Int, NEW x \in Int
    PROVE  /\ newwin(l, c, h, w, y, x) # NoWindow =>
                /\ newwin(l, c, h, w, y, x).h \in Nat \ {0}
                /\ newwin(l, c, h, w, y, x).w \in Nat \ {0}
           /\ newwin(l, c, h, w, y, x).w \in Int
           /\ h > 0 /\ w > 0 => newwin(l, c, h, w, y, x) = Window(h, w, y, x)
  BY DEF newwin, NoWindow, Window

\* The five windows, whatever the sizes.
LEMMA LayoutFacts ==
    ASSUME NEW l \in Nat \ {0}, NEW c \in Nat \ {0}, NEW sw \in Nat, NEW ch \in Nat
    PROVE  /\ DOMAIN Layout(l, c, sw, ch) = Panels
           /\ \A p \in Panels :
                /\ Layout(l, c, sw, ch)[p].w \in Int
                /\ Layout(l, c, sw, ch)[p] # NoWindow =>
                    /\ Layout(l, c, sw, ch)[p].h \in Nat \ {0}
                    /\ Layout(l, c, sw, ch)[p].w \in Nat \ {0}
  <1> DEFINE L == Layout(l, c, sw, ch)
  <1>1. /\ DOMAIN L = Panels
        /\ L["ID_SIDE"] = newwin(l, c, l - ch - 1, sw, 0, 0)
        /\ L["ID_MAIN"] = newwin(l, c, l - ch - 1, c - sw - 1, 0, sw + 1)
        /\ L["ID_COMP"] = newwin(l, c, ch, c, l - ch, 0)
        /\ L["ID_E_SIDE_MAIN"] = newwin(l, c, l - ch - 1, 1, 0, sw)
        /\ L["ID_C_SIDE_MAIN_COMP"] = newwin(l, c, 1, c, l - ch - 1, 0)
    BY DEF Layout, MainWindow, Panels
  <1>2. /\ l \in Int /\ c \in Int /\ sw \in Int /\ ch \in Int /\ l - ch - 1 \in Int
        /\ c - sw - 1 \in Int /\ l - ch \in Int /\ sw + 1 \in Int /\ 0 \in Int /\ 1 \in Int
    OBVIOUS
  <1> DEFINE Good(win) == /\ win.w \in Int
                          /\ win # NoWindow => win.h \in Nat \ {0} /\ win.w \in Nat \ {0}
  <1>3. ASSUME NEW h \in Int, NEW w \in Int, NEW y \in Int, NEW x \in Int
        PROVE  Good(newwin(l, c, h, w, y, x))
    BY <1>2, NewwinFacts
  <1> HIDE DEF L, Good
  <1>4. /\ Good(L["ID_SIDE"]) /\ Good(L["ID_MAIN"]) /\ Good(L["ID_COMP"])
        /\ Good(L["ID_E_SIDE_MAIN"]) /\ Good(L["ID_C_SIDE_MAIN_COMP"])
    BY <1>1, <1>2, <1>3
  <1>5. \A p \in Panels : Good(L[p])
    BY <1>4 DEF Panels
  <1> QED
    BY <1>1, <1>5 DEF L, Good

\* A size that is accepted leaves the side pane and the borders a window, the
\* main pane one unless the border is in the last column, and the composer one
\* unless its border is in the last row.
LEMMA AcceptedPanes ==
    ASSUME NEW l \in Nat \ {0}, NEW c \in Nat \ {0}, NEW sw \in Nat, NEW ch \in Nat,
           Accepts(l, c, sw, ch), NEW p \in Panels, Layout(l, c, sw, ch)[p] = NoWindow
    PROVE  (p = "ID_MAIN" /\ sw = c - 1) \/ (p = "ID_COMP" /\ ch = 0)
  <1>1. sw < c /\ ch < l
    BY DEF Accepts
  <1>2. newwin(l, c, l - ch - 1, sw, 0, 0) # NoWindow
    BY <1>1 DEF newwin, NoWindow
  <1>3. sw # c - 1 => newwin(l, c, l - ch - 1, c - sw - 1, 0, sw + 1) # NoWindow
    BY <1>1 DEF newwin, NoWindow
  <1>4. ch # 0 => newwin(l, c, ch, c, l - ch, 0) # NoWindow
    BY <1>1 DEF newwin, NoWindow
  <1>5. newwin(l, c, l - ch - 1, 1, 0, sw) # NoWindow
    BY <1>1 DEF newwin, NoWindow
  <1>6. newwin(l, c, 1, c, l - ch - 1, 0) # NoWindow
    BY <1>1 DEF newwin, NoWindow
  <1> QED
    BY <1>2, <1>3, <1>4, <1>5, <1>6 DEF Layout, MainWindow, Panels

\* When every pane fits, the windows are exactly these rectangles.
LEMMA FittingLayout ==
    ASSUME NEW l \in Nat, NEW c \in Nat, NEW sw \in Nat, NEW ch \in Nat,
           sw > 0, sw <= c - 2, ch > 0, ch <= l - 2
    PROVE  /\ Layout(l, c, sw, ch)["ID_SIDE"] = Window(l - ch - 1, sw, 0, 0)
           /\ Layout(l, c, sw, ch)["ID_MAIN"] = Window(l - ch - 1, c - sw - 1, 0, sw + 1)
           /\ Layout(l, c, sw, ch)["ID_COMP"] = Window(ch, c, l - ch, 0)
           /\ Layout(l, c, sw, ch)["ID_E_SIDE_MAIN"] = Window(l - ch - 1, 1, 0, sw)
           /\ Layout(l, c, sw, ch)["ID_C_SIDE_MAIN_COMP"] = Window(1, c, l - ch - 1, 0)
  <1>1. sw \in Int /\ ch \in Int /\ sw > 0 /\ ch > 0 /\ c - sw - 1 > 0 /\ l - ch - 1 > 0 /\ c > 0
    OBVIOUS
  <1>2. newwin(l, c, l - ch - 1, sw, 0, 0) = Window(l - ch - 1, sw, 0, 0)
    BY <1>1 DEF newwin, Window
  <1>3. newwin(l, c, l - ch - 1, c - sw - 1, 0, sw + 1) = Window(l - ch - 1, c - sw - 1, 0, sw + 1)
    BY <1>1 DEF newwin, Window
  <1>4. newwin(l, c, ch, c, l - ch, 0) = Window(ch, c, l - ch, 0)
    BY <1>1 DEF newwin, Window
  <1>5. newwin(l, c, l - ch - 1, 1, 0, sw) = Window(l - ch - 1, 1, 0, sw)
    BY <1>1 DEF newwin, Window
  <1>6. newwin(l, c, 1, c, l - ch - 1, 0) = Window(1, c, l - ch - 1, 0)
    BY <1>1 DEF newwin, Window
  <1> QED
    BY <1>2, <1>3, <1>4, <1>5, <1>6 DEF Layout, MainWindow
-----------------------------------------------------------------------------
(***************************************************************************)
(* Init and the steps.                                                     *)
(***************************************************************************)
\* The constants are sets of numbers of lines and columns.
LEMMA Sizes ==
    ASSUME TypeOK
    PROVE  /\ LINES \in Nat \ {0} /\ COLS \in Nat \ {0}
           /\ side_w \in Nat /\ composer_h \in Nat
  BY GeometryAssumption DEF TypeOK

LEMMA InitIInv == Init => IInv
  <1> SUFFICES ASSUME Init PROVE IInv
    OBVIOUS
  <1> USE DEF Init
  <1>1. /\ LINES \in Nat \ {0} /\ COLS \in Nat \ {0}
        /\ side_w \in Nat /\ composer_h \in Nat /\ side_w < COLS /\ composer_h < LINES
    BY GeometryAssumption DEF Smaller
  <1>2. /\ DOMAIN windows = Panels
        /\ \A p \in Panels :
            /\ windows[p].w \in Int
            /\ windows[p] # NoWindow => windows[p].h \in Nat \ {0} /\ windows[p].w \in Nat \ {0}
    BY <1>1, LayoutFacts
  <1>3. windows["ID_SIDE"] # NoWindow
    BY <1>1, AcceptedPanes DEF Accepts, Panels
  <1>4. TypeOK
    <2>1. opened \in BOOLEAN /\ running \in BOOLEAN
      OBVIOUS
    <2>2. \A p \in Panels : windows[p] # NoWindow => windows[p].h > 0 /\ windows[p].w > 0
      BY <1>2
    <2>3. DOMAIN column = {"ID_SIDE", "ID_MAIN"} /\ \A p \in DOMAIN column : column[p] \in Int
      OBVIOUS
    <2> QED BY <1>1, <1>2, <2>1, <2>2, <2>3 DEF TypeOK
  <1>5. WindowsInv
    <2>1. windows = Replaced(windows)
      <3>1. \A p \in Panels : windows[p] = IF p \in panels THEN windows[p] ELSE NoWindow
        OBVIOUS
      <3>2. windows = [p \in Panels |-> windows[p]]
        BY <1>2 DEF Layout
      <3> QED BY <3>1, <3>2 DEF Replaced
    <2> QED BY <2>1 DEF WindowsInv
  <1>6. PaneInv
    <2>1. \A p \in panels : windows[p] # NoWindow
      OBVIOUS
    <2>2. \A p \in Panels \ panels : windows[p] = NoWindow
      OBVIOUS
    <2> QED BY <1>2, <1>3, <2>1, <2>2 DEF PaneInv, Panels
  <1>7. ColumnInv
    <2>1. \A p \in Sides \cap panels : p \in Panels /\ column[p] = 0 /\ windows[p] # NoWindow
      BY DEF Sides, Panels
    <2> QED BY <1>2, <2>1 DEF ColumnInv
  <1>8. OnlyLostPaneAborts
    BY DEF OnlyLostPaneAborts
  <1> QED
    BY <1>4, <1>5, <1>6, <1>7, <1>8 DEF IInv

\* The whole of resize, for any size of the terminal and any sizes asked for.
LEMMA ResizeIInv ==
    ASSUME IInv, running,
           LINES' \in Heights, COLS' \in Widths, NEW sw \in Nat, NEW ch \in Nat,
           resize(LINES', COLS', sw, ch),
           (sw = side_w /\ ch = composer_h) \/ (LINES' = LINES /\ COLS' = COLS),
           panels' = panels, where' = where, opened' = opened
    PROVE  IInv'
  <1>0. LINES' \in Nat \ {0} /\ COLS' \in Nat \ {0} /\ side_w \in Nat /\ composer_h \in Nat
    BY GeometryAssumption DEF IInv, TypeOK
  <1>1. CASE ~ Accepts(LINES', COLS', sw, ch)
    <2>1. /\ side_w' = side_w /\ composer_h' = composer_h /\ windows' = windows
          /\ column' = column /\ running' = running
      BY <1>1 DEF resize, sizes
    <2>2. TypeOK'
      BY <2>1 DEF IInv, TypeOK
    <2>3. WindowsInv'
      BY <1>1, <2>1 DEF IInv, WindowsInv, Replaced
    <2>4. PaneInv' /\ ColumnInv'
      BY <2>1 DEF IInv, PaneInv, ColumnInv
    <2>5. OnlyLostPaneAborts'
      BY <2>1 DEF OnlyLostPaneAborts
    <2> QED BY <2>2, <2>3, <2>4, <2>5 DEF IInv
  <1>2. CASE Accepts(LINES', COLS', sw, ch)
    <2> DEFINE L == Layout(LINES', COLS', sw, ch)
    <2>1. /\ side_w' = sw /\ composer_h' = ch
          /\ windows' = Replaced(L)
          /\ column' = [p \in DOMAIN column |-> Smaller(column[p], windows'[p].w - 1)]
          /\ running' = ~ (DrawMainThrows(windows') \/ UpdatePanelsFails(windows'))
      BY <1>2 DEF resize
    <2>2. \A p \in Panels :
            /\ L[p].w \in Int
            /\ L[p] # NoWindow => L[p].h \in Nat \ {0} /\ L[p].w \in Nat \ {0}
      BY <1>0, LayoutFacts
    <2>3. \A p \in Panels :
            L[p] = NoWindow => (p = "ID_MAIN" /\ sw = COLS' - 1) \/ (p = "ID_COMP" /\ ch = 0)
      BY <1>0, <1>2, AcceptedPanes
    <2> HIDE DEF L
    <2>4. /\ DOMAIN windows' = Panels
          /\ \A p \in Panels : windows'[p] = IF p \in panels THEN L[p] ELSE NoWindow
      BY <2>1 DEF Replaced
    <2>5. /\ NoWindow.w = -1
          /\ \A p \in Panels :
                /\ windows'[p].w \in Int
                /\ windows'[p] # NoWindow => windows'[p].h \in Nat \ {0} /\ windows'[p].w \in Nat \ {0}
      BY <2>2, <2>4 DEF NoWindow
    <2>6. DOMAIN column = Sides /\ \A p \in Sides : column[p] \in Int /\ p \in Panels
      BY DEF IInv, TypeOK, Sides, Panels
    <2>7. /\ DOMAIN column' = Sides
          /\ \A p \in Sides : column'[p] = IF column[p] < windows'[p].w - 1 THEN column[p] ELSE windows'[p].w - 1
      BY <2>1, <2>6 DEF Smaller
    <2>8. TypeOK'
      <3>1. running' \in BOOLEAN
        BY <2>1
      <3>2. \A p \in Sides : column'[p] \in Int
        BY <2>5, <2>6, <2>7
      <3>3. \A p \in Panels : windows'[p] # NoWindow => windows'[p].h > 0 /\ windows'[p].w > 0
        BY <2>5
      <3> QED BY <2>1, <2>4, <2>7, <3>1, <3>2, <3>3 DEF IInv, TypeOK, Sides
    <2>9. WindowsInv'
      BY <2>1 DEF WindowsInv, Replaced, L
    <2>10. PaneInv'
      <3>1. "ID_SIDE" \in panels /\ panels \subseteq Panels
        BY DEF IInv, PaneInv, TypeOK
      <3>2. running' => \A p \in panels : windows'[p] # NoWindow
        BY <2>1 DEF UpdatePanelsFails
      <3> QED BY <2>4, <2>5, <3>1, <3>2 DEF PaneInv
    <2>11. ColumnInv'
      <3> SUFFICES ASSUME running', NEW p \in Sides, p \in panels
                   PROVE  column'[p] >= 0 /\ column'[p] < windows'[p].w
        BY DEF ColumnInv
      <3>1. windows'[p] # NoWindow
        BY <2>10 DEF PaneInv
      <3>2. column[p] >= 0
        BY DEF IInv, ColumnInv
      <3> QED BY <2>5, <2>6, <2>7, <3>1, <3>2
    <2>12. OnlyLostPaneAborts'
      <3> SUFFICES ASSUME DrawMainThrows(windows') \/ UpdatePanelsFails(windows')
                   PROVE  OnlyLostPaneAborts'
        BY <2>1 DEF OnlyLostPaneAborts
      <3>1. panels \subseteq Panels
        BY DEF IInv, TypeOK
      <3>2. CASE UpdatePanelsFails(windows')
        <4>1. PICK p \in panels : windows'[p] = NoWindow
          BY <3>2 DEF UpdatePanelsFails
        <4>2. L[p] = NoWindow
          BY <2>4, <3>1, <4>1
        <4> QED BY <2>1, <2>3, <3>1, <4>1, <4>2 DEF OnlyLostPaneAborts
      <3>3. CASE DrawMainThrows(windows') /\ "ID_MAIN" \notin panels
        BY <3>3 DEF DrawMainThrows, OnlyLostPaneAborts
      <3>4. CASE DrawMainThrows(windows') /\ "ID_MAIN" \in panels
        BY <3>2, <3>4 DEF DrawMainThrows, UpdatePanelsFails
      <3> QED BY <3>2, <3>3, <3>4
    <2> QED BY <2>8, <2>9, <2>10, <2>11, <2>12 DEF IInv
  <1> QED BY <1>1, <1>2

LEMMA KeyResizeIInv == IInv /\ KeyResize => IInv'
  <1> SUFFICES ASSUME IInv, KeyResize PROVE IInv'
    OBVIOUS
  <1>1. side_w \in Nat /\ composer_h \in Nat
    BY DEF IInv, TypeOK
  <1>2. /\ running /\ LINES' \in Heights /\ COLS' \in Widths
        /\ resize(LINES', COLS', side_w, composer_h)
        /\ panels' = panels /\ where' = where /\ opened' = opened
    BY DEF KeyResize
  <1> QED
    BY <1>1, <1>2, ResizeIInv

LEMMA MouseMoveIInv == ASSUME IInv, NEW y \in Rows, NEW x \in Columns, MouseMove(y, x) PROVE IInv'
  <1> DEFINE sw == IF SideDragged THEN x ELSE side_w
             ch == IF TopDragged THEN LINES - y - 1 ELSE composer_h
  <1>1. sw \in Nat /\ ch \in Nat
    BY Sizes DEF IInv, Rows, Columns
  <1>2. /\ running /\ resize(LINES, COLS, sw, ch)
        /\ LINES' = LINES /\ COLS' = COLS
        /\ panels' = panels /\ where' = where /\ opened' = opened
    BY DEF MouseMove
  <1>3. LINES' \in Heights /\ COLS' \in Widths
    BY <1>2 DEF IInv, TypeOK
  <1> HIDE DEF sw, ch
  <1> QED
    BY <1>1, <1>2, <1>3, ResizeIInv

\* A step that leaves the windows and the cursor alone.
LEMMA OthersIInv ==
    ASSUME IInv,
           \/ MousePress \/ EndDrag \/ Open \/ UNCHANGED vars
    PROVE  IInv'
  <1>1. /\ LINES' = LINES /\ COLS' = COLS /\ side_w' = side_w /\ composer_h' = composer_h
        /\ panels' = panels /\ windows' = windows /\ column' = column
        /\ running' = running
    BY DEF MousePress, EndDrag, Open, sizes, vars
  <1>2. where' \in Edges \cup {"none"}
    BY DEF MousePress, EndDrag, Open, vars, IInv, TypeOK
  <1>3. opened' \in BOOLEAN
    BY DEF MousePress, EndDrag, Open, vars, IInv, TypeOK
  <1>4. TypeOK'
    BY <1>1, <1>2, <1>3 DEF IInv, TypeOK
  <1>5. WindowsInv'
    BY <1>1 DEF IInv, WindowsInv, Replaced
  <1>6. PaneInv' /\ ColumnInv'
    BY <1>1 DEF IInv, PaneInv, ColumnInv
  <1>7. OnlyLostPaneAborts'
    <2>1. opened => opened'
      BY DEF MousePress, EndDrag, Open, vars
    <2> QED BY <1>1, <2>1 DEF IInv, OnlyLostPaneAborts
  <1> QED BY <1>4, <1>5, <1>6, <1>7 DEF IInv

LEMMA DrawMainIInv == IInv /\ DrawMain => IInv'
  <1> SUFFICES ASSUME IInv, DrawMain PROVE IInv'
    OBVIOUS
  <1>1. /\ LINES' = LINES /\ COLS' = COLS /\ side_w' = side_w /\ composer_h' = composer_h
        /\ panels' = panels /\ windows' = windows /\ column' = column
        /\ where' = where /\ opened' = opened
        /\ running /\ running' = ~ DrawMainThrows(windows)
    BY DEF DrawMain, sizes
  <1>2. running' \in BOOLEAN
    BY <1>1
  <1>3. TypeOK'
    BY <1>1, <1>2 DEF IInv, TypeOK
  <1>4. WindowsInv'
    BY <1>1 DEF IInv, WindowsInv, Replaced
  <1>5. PaneInv' /\ ColumnInv'
    BY <1>1 DEF IInv, PaneInv, ColumnInv
  <1>6. OnlyLostPaneAborts'
    BY <1>1 DEF IInv, PaneInv, OnlyLostPaneAborts, DrawMainThrows
  <1> QED BY <1>3, <1>4, <1>5, <1>6 DEF IInv

\* A step that moves the cursor of pane p to column k and changes nothing else.
LEMMA ColumnIInv ==
    ASSUME IInv, ColumnFrame, NEW p \in Sides, NEW k \in Int,
           column' = [column EXCEPT ![p] = k],
           running /\ p \in panels => k >= 0 /\ k < windows[p].w
    PROVE  IInv'
  <1>1. /\ LINES' = LINES /\ COLS' = COLS /\ side_w' = side_w /\ composer_h' = composer_h
        /\ panels' = panels /\ windows' = windows /\ where' = where /\ opened' = opened
        /\ running' = running
    BY DEF ColumnFrame, sizes
  <1>2. /\ DOMAIN column' = Sides /\ DOMAIN column = Sides
        /\ \A q \in Sides : column'[q] = IF q = p THEN k ELSE column[q]
    BY DEF IInv, TypeOK, Sides
  <1>3. TypeOK'
    BY <1>1, <1>2 DEF IInv, TypeOK, Sides
  <1>4. WindowsInv'
    BY <1>1 DEF IInv, WindowsInv, Replaced
  <1>5. PaneInv' /\ OnlyLostPaneAborts'
    BY <1>1 DEF IInv, PaneInv, OnlyLostPaneAborts
  <1>6. ColumnInv'
    BY <1>1, <1>2 DEF IInv, ColumnInv
  <1> QED BY <1>3, <1>4, <1>5, <1>6 DEF IInv

LEMMA KeyLeftIInv == ASSUME IInv, NEW p \in DOMAIN column, KeyLeft(p) PROVE IInv'
  <1>1. p \in Sides /\ p \in Panels /\ column[p] \in Int
    BY DEF IInv, TypeOK, Sides, Panels
  <1>2. ColumnFrame /\ column' = [column EXCEPT ![p] = Larger(column[p] - 1, 0)]
    BY DEF KeyLeft
  <1>3. Larger(column[p] - 1, 0) \in Int /\ Larger(column[p] - 1, 0) >= 0
    BY <1>1 DEF Larger
  <1>4. running /\ p \in panels => Larger(column[p] - 1, 0) < windows[p].w
    <2>1. running /\ p \in panels => column[p] >= 0 /\ column[p] < windows[p].w /\ windows[p].w \in Nat \ {0}
      BY <1>1 DEF IInv, PaneInv, ColumnInv
    <2> QED BY <1>1, <2>1 DEF Larger
  <1> QED BY <1>1, <1>2, <1>3, <1>4, ColumnIInv

LEMMA KeyRightIInv == ASSUME IInv, NEW p \in DOMAIN column, KeyRight(p) PROVE IInv'
  <1>1. p \in Sides /\ p \in Panels /\ column[p] \in Int
    BY DEF IInv, TypeOK, Sides, Panels
  <1>2. PICK w \in IF Accepts(LINES, COLS, side_w, composer_h) \/ windows[p] = NoWindow
                   THEN {windows[p].w} ELSE 1 .. windows[p].w :
            column' = [column EXCEPT ![p] = Smaller(column[p] + 1, w - 1)]
    BY DEF KeyRight
  <1>3. ColumnFrame
    BY DEF KeyRight
  <1>4. CASE windows[p] = NoWindow
    <2>1. w = -1
      BY <1>2, <1>4 DEF NoWindow
    <2>2. ~ (running /\ p \in panels)
      BY <1>4 DEF IInv, PaneInv
    <2>3. Smaller(column[p] + 1, w - 1) \in Int
      BY <1>1, <2>1 DEF Smaller
    <2> QED BY <1>1, <1>2, <1>3, <2>2, <2>3, ColumnIInv
  <1>5. CASE windows[p] # NoWindow
    <2>1. windows[p].w \in Nat \ {0}
      BY <1>1, <1>5 DEF IInv, PaneInv
    <2>2. w \in 1 .. windows[p].w
      BY <1>2, <1>5, <2>1
    <2>3. Smaller(column[p] + 1, w - 1) \in Int /\ Smaller(column[p] + 1, w - 1) < windows[p].w
      BY <1>1, <2>1, <2>2 DEF Smaller
    <2>4. column[p] >= 0 => Smaller(column[p] + 1, w - 1) >= 0
      BY <1>1, <2>1, <2>2 DEF Smaller
    <2>5. running /\ p \in panels => column[p] >= 0
      BY <1>1 DEF IInv, ColumnInv
    <2> QED BY <1>1, <1>2, <1>3, <2>3, <2>4, <2>5, ColumnIInv
  <1> QED BY <1>4, <1>5
-----------------------------------------------------------------------------
(***************************************************************************)
(* The theorems.                                                           *)
(***************************************************************************)
LEMMA Inductive == Spec => []IInv
  <1>1. IInv /\ [Next]_vars => IInv'
    BY KeyResizeIInv, MouseMoveIInv, OthersIInv, DrawMainIInv, KeyLeftIInv, KeyRightIInv
       DEF Next, Aborted
  <1> QED
    BY <1>1, InitIInv, PTL DEF Spec

\* The variables have their types: drags and terminals of any size make no
\* window of a size below one and no negative size of a pane.
THEOREM TypeCorrect == Spec => []TypeOK
  <1>1. IInv => TypeOK
    BY DEF IInv
  <1> QED
    BY <1>1, Inductive, PTL

\* The rectangles of the five windows, when every pane fits.
LEMMA FittingWindows ==
    ASSUME IInv, Fits
    PROVE  /\ LINES \in Nat /\ COLS \in Nat
           /\ side_w \in 1 .. COLS - 2 /\ composer_h \in 1 .. LINES - 2
           /\ windows["ID_SIDE"] = Window(LINES - composer_h - 1, side_w, 0, 0)
           /\ windows["ID_MAIN"] = Window(LINES - composer_h - 1, COLS - side_w - 1, 0, side_w + 1)
           /\ windows["ID_COMP"] = Window(composer_h, COLS, LINES - composer_h, 0)
           /\ windows["ID_E_SIDE_MAIN"] = Window(LINES - composer_h - 1, 1, 0, side_w)
           /\ windows["ID_C_SIDE_MAIN_COMP"] = Window(1, COLS, LINES - composer_h - 1, 0)
  <1>1. LINES \in Nat \ {0} /\ COLS \in Nat \ {0} /\ side_w \in 1 .. COLS - 2 /\ composer_h \in 1 .. LINES - 2
    BY Sizes DEF IInv, Fits
  <1>2. Accepts(LINES, COLS, side_w, composer_h)
    BY <1>1 DEF Accepts
  <1>3. \A p \in Panels : windows[p] = Layout(LINES, COLS, side_w, composer_h)[p]
    BY <1>2 DEF IInv, WindowsInv, Replaced, Fits
  <1> DEFINE L == Layout(LINES, COLS, side_w, composer_h)
  <1>4. /\ L["ID_SIDE"] = Window(LINES - composer_h - 1, side_w, 0, 0)
        /\ L["ID_MAIN"] = Window(LINES - composer_h - 1, COLS - side_w - 1, 0, side_w + 1)
        /\ L["ID_COMP"] = Window(composer_h, COLS, LINES - composer_h, 0)
        /\ L["ID_E_SIDE_MAIN"] = Window(LINES - composer_h - 1, 1, 0, side_w)
        /\ L["ID_C_SIDE_MAIN_COMP"] = Window(1, COLS, LINES - composer_h - 1, 0)
    <2>1. /\ LINES \in Nat /\ COLS \in Nat /\ side_w \in Nat /\ composer_h \in Nat
          /\ side_w > 0 /\ side_w <= COLS - 2 /\ composer_h > 0 /\ composer_h <= LINES - 2
      BY <1>1
    <2> QED BY <2>1, FittingLayout
  <1> HIDE DEF L
  <1>5. /\ windows["ID_SIDE"] = L["ID_SIDE"] /\ windows["ID_MAIN"] = L["ID_MAIN"]
        /\ windows["ID_COMP"] = L["ID_COMP"] /\ windows["ID_E_SIDE_MAIN"] = L["ID_E_SIDE_MAIN"]
        /\ windows["ID_C_SIDE_MAIN_COMP"] = L["ID_C_SIDE_MAIN_COMP"]
    BY <1>3 DEF Panels, L
  <1> QED
    BY <1>1, <1>4, <1>5

\* The cells of each window.
LEMMA Cells ==
    ASSUME IInv, Fits, NEW y \in Rows, NEW x \in Columns
    PROVE  /\ y \in Int /\ x \in Int /\ LINES \in Int /\ composer_h \in Int /\ side_w \in Int
           /\ Covers("ID_SIDE", y, x) <=> y < LINES - composer_h - 1 /\ x < side_w
           /\ Covers("ID_MAIN", y, x) <=> y < LINES - composer_h - 1 /\ x > side_w
           /\ Covers("ID_COMP", y, x) <=> y > LINES - composer_h - 1
           /\ Covers("ID_E_SIDE_MAIN", y, x) <=> y < LINES - composer_h - 1 /\ x = side_w
           /\ Covers("ID_C_SIDE_MAIN_COMP", y, x) <=> y = LINES - composer_h - 1
  <1>1. /\ LINES \in Nat /\ COLS \in Nat /\ side_w \in Nat /\ composer_h \in Nat
        /\ y \in 0 .. LINES - 1 /\ x \in 0 .. COLS - 1
    BY FittingWindows DEF Rows, Columns
  <1>2. Covers("ID_SIDE", y, x) <=> y < LINES - composer_h - 1 /\ x < side_w
    BY <1>1, FittingWindows DEF Covers, Window
  <1>3. Covers("ID_MAIN", y, x) <=> y < LINES - composer_h - 1 /\ x > side_w
    BY <1>1, FittingWindows DEF Covers, Window
  <1>4. Covers("ID_COMP", y, x) <=> y > LINES - composer_h - 1
    BY <1>1, FittingWindows DEF Covers, Window
  <1>5. Covers("ID_E_SIDE_MAIN", y, x) <=> y < LINES - composer_h - 1 /\ x = side_w
    BY <1>1, FittingWindows DEF Covers, Window
  <1>6. Covers("ID_C_SIDE_MAIN_COMP", y, x) <=> y = LINES - composer_h - 1
    BY <1>1, FittingWindows DEF Covers, Window
  <1> QED
    BY <1>1, <1>2, <1>3, <1>4, <1>5, <1>6

\* Every cell of the screen belongs to exactly one pane or border.
THEOREM PanesAlwaysTileScreen == Spec => []PanesTileScreen
  <1>1. IInv => PanesTileScreen
    <2> SUFFICES ASSUME IInv, Fits, NEW y \in Rows, NEW x \in Columns
                 PROVE  \E p \in Panels : Covers(p, y, x) /\ \A q \in Panels \ {p} : ~ Covers(q, y, x)
      BY DEF PanesTileScreen
    <2>1. CASE y < LINES - composer_h - 1 /\ x < side_w
      BY <2>1, Cells DEF Panels
    <2>2. CASE y < LINES - composer_h - 1 /\ x > side_w
      BY <2>2, Cells DEF Panels
    <2>3. CASE y < LINES - composer_h - 1 /\ x = side_w
      BY <2>3, Cells DEF Panels
    <2>4. CASE y > LINES - composer_h - 1
      BY <2>4, Cells DEF Panels
    <2>5. CASE y = LINES - composer_h - 1
      BY <2>5, Cells DEF Panels
    <2> QED BY <2>1, <2>2, <2>3, <2>4, <2>5, Cells
  <1> QED
    BY <1>1, Inductive, PTL

\* The arithmetic of process_mouse names the window the mouse is on.
THEOREM HitTestAlwaysAgrees == Spec => []HitTestAgrees
  <1>1. IInv => HitTestAgrees
    <2> SUFFICES ASSUME IInv, Fits, NEW y \in Rows, NEW x \in Columns
                 PROVE  Covers(IF Hit(y, x) = "ID_E_COMP_TOP" THEN "ID_C_SIDE_MAIN_COMP" ELSE Hit(y, x), y, x)
      BY DEF HitTestAgrees
    <2> QED
      BY Cells DEF Hit
  <1> QED
    BY <1>1, Inductive, PTL

\* The cursor is within the columns of its pane whatever keys, drags and sizes
\* of the terminal come.
THEOREM CursorAlwaysInPane == Spec => []CursorInPane
  <1>1. IInv => CursorInPane
    <2> SUFFICES ASSUME IInv, running, NEW p \in DOMAIN column, p \in panels
                 PROVE  column[p] \in 0 .. windows[p].w - 1
      BY DEF CursorInPane
    <2>1. p \in Sides /\ p \in Panels /\ column[p] \in Int
      BY DEF IInv, TypeOK, Sides, Panels
    <2>2. windows[p].w \in Nat
      BY <2>1 DEF IInv, PaneInv
    <2>3. column[p] >= 0 /\ column[p] < windows[p].w
      BY <2>1 DEF IInv, ColumnInv
    <2> QED BY <2>1, <2>2, <2>3
  <1> QED
    BY <1>1, Inductive, PTL

\* Whatever keys, drags and sizes of the terminal come, only a main pane or a
\* composer without a window ends the program: no other window is ever missing,
\* and resize leaves these two theirs but for a border on the last column or row.
THEOREM OnlyLostPaneEverAborts == Spec => []OnlyLostPaneAborts
  <1>1. IInv => OnlyLostPaneAborts
    BY DEF IInv
  <1> QED
    BY <1>1, Inductive, PTL

\* A dragged border is where the mouse is.
THEOREM BorderAlwaysFollowsMouse == Spec => BorderFollowsMouse
  <1> DEFINE Follows ==
        where # "none" /\ Fits' => \A y \in Rows, x \in Columns : MouseMove(y, x) =>
            /\ SideDragged => windows'["ID_E_SIDE_MAIN"].x = x
            /\ TopDragged => windows'["ID_C_SIDE_MAIN_COMP"].y = y
  <1>1. ASSUME IInv PROVE Follows
    <2> SUFFICES ASSUME Fits', NEW y \in Rows, NEW x \in Columns, MouseMove(y, x)
                 PROVE  /\ SideDragged => windows'["ID_E_SIDE_MAIN"].x = x
                        /\ TopDragged => windows'["ID_C_SIDE_MAIN_COMP"].y = y
      OBVIOUS
    <2> DEFINE sw == IF SideDragged THEN x ELSE side_w
               ch == IF TopDragged THEN LINES - y - 1 ELSE composer_h
    <2>1. /\ LINES \in Nat \ {0} /\ COLS \in Nat \ {0} /\ side_w \in Nat /\ composer_h \in Nat
          /\ y \in 0 .. LINES - 1 /\ x \in 0 .. COLS - 1
      BY <1>1, Sizes DEF IInv, Rows, Columns
    <2>2. /\ resize(LINES, COLS, sw, ch) /\ LINES' = LINES /\ COLS' = COLS /\ panels' = panels
      BY DEF MouseMove
    <2>3. panels = Panels /\ side_w' \in 1 .. COLS - 2 /\ composer_h' \in 1 .. LINES - 2
      BY <2>2 DEF Fits
    <2>4. Accepts(LINES, COLS, sw, ch)
      <3> SUFFICES ASSUME ~ Accepts(LINES, COLS, sw, ch) PROVE FALSE
        OBVIOUS
      <3>1. side_w' = side_w /\ composer_h' = composer_h
        BY <2>2 DEF resize, sizes
      <3>2. sw < COLS /\ ch < LINES
        BY <2>1, <2>3, <3>1
      <3> QED BY <3>2 DEF Accepts
    <2>5. side_w' = sw /\ composer_h' = ch /\ windows' = Replaced(Layout(LINES, COLS, sw, ch))
      BY <2>2, <2>4 DEF resize
    <2>6. sw \in 1 .. COLS - 2 /\ ch \in 1 .. LINES - 2
      BY <2>3, <2>5
    <2>7. SideDragged => sw = x
      OBVIOUS
    <2>8. TopDragged => LINES - ch - 1 = y
      BY <2>1
    <2> HIDE DEF sw, ch
    <2>9. /\ windows'["ID_E_SIDE_MAIN"] = Layout(LINES, COLS, sw, ch)["ID_E_SIDE_MAIN"]
          /\ windows'["ID_C_SIDE_MAIN_COMP"] = Layout(LINES, COLS, sw, ch)["ID_C_SIDE_MAIN_COMP"]
      BY <2>3, <2>5 DEF Replaced, Panels
    <2>10. windows'["ID_E_SIDE_MAIN"].x = sw /\ windows'["ID_C_SIDE_MAIN_COMP"].y = LINES - ch - 1
      <3>1. /\ Layout(LINES, COLS, sw, ch)["ID_E_SIDE_MAIN"] = Window(LINES - ch - 1, 1, 0, sw)
            /\ Layout(LINES, COLS, sw, ch)["ID_C_SIDE_MAIN_COMP"] = Window(1, COLS, LINES - ch - 1, 0)
        <4>1. /\ LINES \in Nat /\ COLS \in Nat /\ sw \in Nat /\ ch \in Nat
              /\ sw > 0 /\ sw <= COLS - 2 /\ ch > 0 /\ ch <= LINES - 2
          BY <2>1, <2>6
        <4> QED BY <4>1, FittingLayout
      <3> QED BY <2>9, <3>1 DEF Window
    <2> QED BY <2>7, <2>8, <2>10
  <1> HIDE DEF Follows
  <1>2. IInv /\ [Next]_vars => [Follows]_vars
    BY <1>1
  <1> QED
    BY <1>2, Inductive, PTL DEF Spec, BorderFollowsMouse, Follows
=============================================================================
