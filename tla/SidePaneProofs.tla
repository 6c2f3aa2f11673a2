--------------------------- MODULE SidePaneProofs ---------------------------
(***************************************************************************)
(* For every set of chats and every height of the pane, and however the    *)
(* list changes between the steps of the main thread: the cursor stays on  *)
(* a row and selects the chat that the row shows, and until a chat leaves  *)
(* the list draw_side stays within it and the pane shows exactly the list. *)
(***************************************************************************)
EXTENDS SidePane, FiniteSetTheorems, SequenceFacts

(***************************************************************************)
(* The inductive invariant.                                                *)
(***************************************************************************)
\* The list holds every chat once: its length counts its chats.
ListInv == IsFiniteSet(Listed) /\ Len(list) = Cardinality(Listed)

\* Every row that the list reaches shows its chat once it has been drawn, not
\* only the row of the cursor.
RowsInv ==
    Settled => \A r \in 0 .. rows - 1 :
        scroll + r < Len(list) => screen[r] = list[scroll + r + 1]

\* The offset never exceeds a list that has not become shorter, also while
\* nothing is drawn, and rows below such a list are empty.
GrowingInv ==
    ~ left => /\ scroll <= Len(list)
              /\ \A r \in AllRows : r >= Len(list) => screen[r] = Blank

IInv == TypeOK /\ ListInv /\ RowsInv /\ GrowingInv /\ PaneShowsList
-----------------------------------------------------------------------------
\* A listing of a finite set has its elements and its length.
LEMMA ListingFacts ==
    ASSUME NEW S, IsFiniteSet(S), NEW s \in Listings(S)
    PROVE  /\ s \in Seq(S)
           /\ Len(s) = Cardinality(S)
           /\ {s[i] : i \in DOMAIN s} = S
  <1>1. Cardinality(S) \in Nat
    BY FS_CardinalityType
  <1>2. s \in [1 .. Cardinality(S) -> S] /\ \A x \in S : \E i \in DOMAIN s : s[i] = x
    BY DEF Listings
  <1>3. s \in Seq(S)
    BY <1>1, <1>2, SeqDef
  <1>4. Len(s) = Cardinality(S)
    BY <1>1, <1>2, <1>3, LenProperties
  <1> QED
    BY <1>2, <1>3, <1>4

LEMMA InitIInv == Init => IInv
  <1> SUFFICES ASSUME Init PROVE IInv
    OBVIOUS
  <1>1. list \in Seq(Chats) /\ Len(list) = 0 /\ DOMAIN list = {}
    BY EmptySeq, LenProperties DEF Init
  <1>2. TypeOK
    <2>1. rows \in 1 .. MaxRows /\ cursor \in 0 .. rows - 1 /\ scroll \in Nat
      BY SidePaneAssumption DEF Init
    <2>2. screen \in [AllRows -> Chats \cup {Blank}]
      BY DEF Init
    <2>3. redraw \in BOOLEAN /\ left \in BOOLEAN
      BY DEF Init
    <2> QED
      BY <1>1, <2>1, <2>2, <2>3 DEF Init, TypeOK
  <1>3. ListInv
    <2>1. Listed = {}
      BY <1>1 DEF Listed
    <2> QED
      BY <1>1, <2>1, FS_EmptySet DEF ListInv
  <1>4. RowsInv /\ GrowingInv /\ PaneShowsList
    BY <1>1, SidePaneAssumption DEF Init, RowsInv, GrowingInv, PaneShowsList, AllRows
  <1> QED
    BY <1>2, <1>3, <1>4 DEF IInv
-----------------------------------------------------------------------------
\* The update thread: only the list changes, and a redraw is due.
LEMMA ChangeListIInv == IInv /\ ChangeList => IInv'
  <1> SUFFICES ASSUME IInv, ChangeList PROVE IInv'
    OBVIOUS
  <1>1. PICK c \in Chats :
            \/ list' \in Listings(Listed \cup {c}) /\ left' = left
            \/ c \in Listed /\ list' \in Listings(Listed \ {c}) /\ left' = TRUE
    BY DEF ChangeList
  <1>2. redraw' = TRUE /\ UNCHANGED <<ui, rows, screen, scroll, cursor, input_state>>
    BY DEF ChangeList
  <1>3. IsFiniteSet(Listed) /\ Len(list) = Cardinality(Listed) /\ Len(list) \in Nat
    BY FS_CardinalityType DEF IInv, ListInv
  <1>4. Listed \subseteq Chats
    BY LenProperties, ElementOfSeq DEF IInv, TypeOK, Listed
  <1>5. /\ list' \in Seq(Chats)
        /\ ListInv'
        /\ Len(list') \in Nat
        /\ ~ left' => ~ left /\ Len(list) <= Len(list')
    <2>1. CASE list' \in Listings(Listed \cup {c}) /\ left' = left
      <3> DEFINE S == Listed \cup {c}
      <3>1. IsFiniteSet(S) /\ Cardinality(S) \in Nat /\ Cardinality(S) >= Cardinality(Listed) /\ S \subseteq Chats
        <4>1. IsFiniteSet(S) /\ Cardinality(S) = IF c \in Listed THEN Cardinality(Listed) ELSE Cardinality(Listed) + 1
          BY <1>3, FS_AddElement
        <4>2. S \subseteq Chats
          BY <1>4
        <4> HIDE DEF S
        <4> QED BY <1>3, <4>1, <4>2
      <3>2. list' \in Seq(S) /\ Len(list') = Cardinality(S) /\ {list'[i] : i \in DOMAIN list'} = S
        <4> HIDE DEF S
        <4> QED BY <2>1, <3>1, ListingFacts DEF S
      <3> HIDE DEF S
      <3> QED
        BY <1>3, <2>1, <3>1, <3>2, SeqMonotonic DEF ListInv, Listed
    <2>2. CASE c \in Listed /\ list' \in Listings(Listed \ {c}) /\ left' = TRUE
      <3> DEFINE S == Listed \ {c}
      <3>1. IsFiniteSet(S) /\ Cardinality(S) \in Nat /\ S \subseteq Chats
        BY <1>3, <1>4, FS_RemoveElement, FS_CardinalityType
      <3>2. list' \in Seq(S) /\ Len(list') = Cardinality(S) /\ {list'[i] : i \in DOMAIN list'} = S
        <4> HIDE DEF S
        <4> QED BY <2>2, <3>1, ListingFacts DEF S
      <3> HIDE DEF S
      <3> QED
        BY <2>2, <3>1, <3>2, SeqMonotonic DEF ListInv, Listed
    <2> QED BY <1>1, <2>1, <2>2
  <1>6. TypeOK'
    BY <1>1, <1>2, <1>5 DEF IInv, TypeOK, AllRows
  <1>7. RowsInv' /\ PaneShowsList'
    BY <1>2 DEF RowsInv, PaneShowsList, Settled
  <1>8. GrowingInv'
    BY <1>2, <1>3, <1>5 DEF IInv, TypeOK, GrowingInv, AllRows
  <1> QED
    BY <1>5, <1>6, <1>7, <1>8 DEF IInv

\* A step of the main thread that leaves the list alone and leads to a draw
\* keeps the invariant when it keeps cursor and offset in their ranges.
LEMMA ToDraw ==
    ASSUME IInv, ui' = "draw", UNCHANGED <<list, left>>,
           redraw' \in BOOLEAN,
           rows' \in 1 .. MaxRows,
           screen' \in {screen, [r \in AllRows |-> Blank]},
           scroll' \in Nat, scroll' <= scroll \/ scroll' <= Len(list),
           cursor' \in 0 .. rows' - 1,
           input_state' \in {"S_NONE", "S_KEY_PREF", "S_MOUSE_DRAG"}
    PROVE  IInv'
  <1>0. Len(list) \in Nat
    BY LenProperties DEF IInv, TypeOK
  <1>1. TypeOK'
    BY DEF IInv, TypeOK, AllRows
  <1>2. ListInv'
    BY DEF IInv, ListInv, Listed
  <1>3. RowsInv' /\ PaneShowsList'
    BY DEF RowsInv, PaneShowsList, Settled
  <1>4. GrowingInv'
    <2> SUFFICES ASSUME ~ left PROVE GrowingInv'
      BY DEF GrowingInv
    <2>1. scroll \in Nat /\ scroll <= Len(list) /\ \A r \in AllRows : r >= Len(list) => screen[r] = Blank
      BY DEF IInv, TypeOK, GrowingInv
    <2>2. scroll' <= Len(list)
      BY <1>0, <2>1
    <2>3. \A r \in AllRows : r >= Len(list) => screen'[r] = Blank
      BY <2>1
    <2> QED
      BY <2>2, <2>3 DEF GrowingInv, AllRows
  <1> QED
    BY <1>1, <1>2, <1>3, <1>4 DEF IInv

\* A step that moves the cursor or changes the input state and draws nothing.
LEMMA NoDraw ==
    ASSUME IInv, UNCHANGED <<list, left, redraw, ui, rows, screen, scroll>>,
           cursor' \in 0 .. rows - 1,
           input_state' \in {"S_NONE", "S_KEY_PREF", "S_MOUSE_DRAG"}
    PROVE  IInv'
  BY DEF IInv, TypeOK, AllRows, ListInv, Listed, RowsInv, GrowingInv, PaneShowsList, Settled

\* The largest offset lies within the list.
LEMMA MaxOffsetFacts ==
    ASSUME IInv
    PROVE  Len(list) \in Nat /\ MaxOffset \in Nat /\ MaxOffset <= Len(list)
  <1>1. Len(list) \in Nat
    BY LenProperties DEF IInv, TypeOK
  <1> QED
    BY <1>1, SidePaneAssumption DEF IInv, TypeOK, MaxOffset, Larger

LEMMA KeyIInv ==
    ASSUME IInv, KeyDown \/ KeyUp \/ KeyLast \/ KeyPrefix \/ KeyFirst \/ KeyRedraw \/ MouseButton
    PROVE  IInv'
  <1> USE SidePaneAssumption, MaxOffsetFacts
  <1>0. /\ redraw \in BOOLEAN /\ rows \in 1 .. MaxRows /\ scroll \in Nat /\ cursor \in 0 .. rows - 1
        /\ input_state \in {"S_NONE", "S_KEY_PREF", "S_MOUSE_DRAG"}
    BY DEF IInv, TypeOK
  <1>1. CASE KeyDown
    <2>1. CASE cursor >= rows - 1 /\ cursor' = rows - 1 /\ scroll' = Smaller(MaxOffset, scroll + 1) /\ Poll("draw")
      BY <1>0, <1>1, <2>1, ToDraw DEF KeyDown, Poll, Smaller
    <2>2. CASE cursor < rows - 1 /\ cursor' = cursor + 1 /\ Poll("poll") /\ UNCHANGED scroll
      BY <1>0, <1>1, <2>2, NoDraw DEF KeyDown, Poll
    <2> QED BY <1>1, <2>1, <2>2 DEF KeyDown
  <1>2. CASE KeyUp
    <2>1. CASE cursor = 0 /\ scroll' = Larger(1, scroll) - 1 /\ Poll("draw") /\ UNCHANGED cursor
      BY <1>0, <1>2, <2>1, ToDraw DEF KeyUp, Poll, Larger
    <2>2. CASE cursor > 0 /\ cursor' = cursor - 1 /\ Poll("poll") /\ UNCHANGED scroll
      BY <1>0, <1>2, <2>2, NoDraw DEF KeyUp, Poll
    <2> QED BY <1>2, <2>1, <2>2 DEF KeyUp
  <1>3. CASE KeyLast
    BY <1>0, <1>3, ToDraw DEF KeyLast, Poll
  <1>4. CASE KeyPrefix
    BY <1>0, <1>4, NoDraw DEF KeyPrefix, Poll
  <1>5. CASE KeyFirst
    BY <1>0, <1>5, ToDraw DEF KeyFirst, Poll
  <1>6. CASE KeyRedraw
    BY <1>0, <1>6, ToDraw DEF KeyRedraw, Poll
  <1>7. CASE MouseButton
    BY <1>0, <1>7, NoDraw DEF MouseButton, Poll
  <1> QED
    BY <1>1, <1>2, <1>3, <1>4, <1>5, <1>6, <1>7

LEMMA ResizeIInv ==
    ASSUME IInv, NEW n \in 1 .. MaxRows, Resize(n)
    PROVE  IInv'
  <1>0. redraw \in BOOLEAN /\ rows \in 1 .. MaxRows /\ scroll \in Nat /\ cursor \in 0 .. rows - 1
    BY DEF IInv, TypeOK
  <1>1. cursor' \in 0 .. n - 1
    BY <1>0, SidePaneAssumption DEF Resize, Smaller
  <1>2. input_state' \in {"S_NONE", "S_KEY_PREF", "S_MOUSE_DRAG"}
    BY DEF Resize, IInv, TypeOK
  <1> QED
    BY <1>0, <1>1, <1>2, ToDraw DEF Resize, Poll

LEMMA PopIInv == IInv /\ Pop => IInv'
  <1> SUFFICES ASSUME IInv, Pop PROVE IInv'
    OBVIOUS
  <1>1. rows \in 1 .. MaxRows /\ scroll \in Nat /\ cursor \in 0 .. rows - 1
    BY DEF IInv, TypeOK
  <1>2. input_state' \in {"S_NONE", "S_KEY_PREF", "S_MOUSE_DRAG"}
    BY DEF Pop, IInv, TypeOK
  <1>3. redraw' \in BOOLEAN
    BY DEF Pop
  <1>4. ui' = "draw" /\ UNCHANGED <<list, left, rows, screen, scroll, cursor>>
    BY DEF Pop, Poll
  <1> QED
    BY <1>1, <1>2, <1>3, <1>4, ToDraw

\* draw_side writes every row the list reaches; what is below keeps its text.
LEMMA DrawIInv == IInv /\ draw_side => IInv'
  <1> SUFFICES ASSUME IInv, draw_side PROVE IInv'
    OBVIOUS
  <1> DEFINE drawn == 0 .. Smaller(Len(list), rows) - 1
             row(r) == IF scroll + r < Len(list) THEN list[scroll + r + 1] ELSE Blank
  <1>0. /\ Len(list) \in Nat /\ rows \in 1 .. MaxRows /\ scroll \in Nat /\ MaxRows \in Nat
        /\ DOMAIN list = 1 .. Len(list) /\ \A i \in 1 .. Len(list) : list[i] \in Chats
    BY LenProperties, ElementOfSeq, SidePaneAssumption DEF IInv, TypeOK
  <1>1. ui' = "poll" /\ UNCHANGED <<list, left, redraw, rows, scroll, cursor, input_state>>
    BY DEF draw_side
  <1>2. \/ /\ scroll <= Len(list)
           /\ screen' = [r \in AllRows |-> IF r \in drawn THEN row(r) ELSE screen[r]]
        \/ /\ scroll > Len(list)
           /\ \E f \in [drawn -> Chats \cup {Blank}] :
                screen' = [r \in AllRows |-> IF r \in drawn THEN f[r] ELSE screen[r]]
    BY <1>0 DEF draw_side
  <1>3. screen' \in [AllRows -> Chats \cup {Blank}]
    <2>1. \A r \in drawn : row(r) \in Chats \cup {Blank}
      BY <1>0 DEF Smaller
    <2> HIDE DEF row, drawn
    <2> QED BY <1>2, <2>1 DEF IInv, TypeOK
  <1>4. TypeOK'
    BY <1>1, <1>3 DEF IInv, TypeOK
  <1>5. ListInv'
    BY <1>1 DEF IInv, ListInv, Listed
  <1>6. scroll <= Len(list) => \A r \in AllRows : screen'[r] = IF r \in drawn THEN row(r) ELSE screen[r]
    BY <1>0, <1>2
  <1>7. RowsInv'
    BY <1>0, <1>1, <1>6 DEF RowsInv, AllRows, Smaller
  <1>8. GrowingInv' /\ PaneShowsList'
    <2> SUFFICES ASSUME ~ left PROVE GrowingInv' /\ PaneShowsList'
      BY <1>1 DEF GrowingInv, PaneShowsList
    <2>1. /\ scroll <= Len(list)
          /\ \A r \in AllRows : r >= Len(list) => screen[r] = Blank
      BY DEF IInv, GrowingInv
    <2>2. \A r \in AllRows : r >= Len(list) => screen'[r] = Blank
      BY <1>0, <1>6, <2>1 DEF AllRows, Smaller
    <2>3. \A r \in 0 .. rows - 1 : screen'[r] = row(r)
      BY <1>0, <1>6, <2>1 DEF AllRows, Smaller
    <2> QED
      BY <1>1, <2>1, <2>2, <2>3 DEF GrowingInv, PaneShowsList, AllRows
  <1> QED
    BY <1>4, <1>5, <1>7, <1>8 DEF IInv

LEMMA NextIInv == IInv /\ [Next]_vars => IInv'
  <1> SUFFICES ASSUME IInv, [Next]_vars PROVE IInv'
    OBVIOUS
  <1>1. CASE KeyResize \/ MouseDrag
    BY <1>1, ResizeIInv DEF KeyResize, MouseDrag
  <1>2. CASE UNCHANGED vars
    BY <1>2 DEF vars, IInv, TypeOK, AllRows, ListInv, Listed, RowsInv, GrowingInv, PaneShowsList, Settled
  <1> QED
    BY <1>1, <1>2, ChangeListIInv, PopIInv, DrawIInv, KeyIInv DEF Next

LEMMA Inductive == Spec => []IInv
  BY InitIInv, NextIInv, PTL DEF Spec
-----------------------------------------------------------------------------
\* Every variable keeps its type; in particular the cursor never leaves the
\* pane, whatever is resized or dragged.
THEOREM TypeCorrect == Spec => []TypeOK
  <1>1. IInv => TypeOK
    BY DEF IInv
  <1> QED
    BY <1>1, Inductive, PTL

\* What 'o' opens is the chat on the cursor's row whenever no redraw is due.
THEOREM CursorAlwaysOnItsChat == Spec => []CursorOnItsChat
  <1>1. IInv => CursorOnItsChat
    BY DEF IInv, TypeOK, RowsInv, CursorOnItsChat
  <1> QED
    BY <1>1, Inductive, PTL

\* draw_side never advances its iterator past the end of a list that no chat
\* has left, although the keys measure the list without the mutex.
THEOREM ScrollAlwaysWithinList == Spec => []ScrollWithinList
  <1>1. IInv => ScrollWithinList
    BY DEF IInv, GrowingInv, ScrollWithinList
  <1> QED
    BY <1>1, Inductive, PTL

\* The pane shows the list from the offset on, and nothing else, whenever no
\* redraw is due and no chat has left the list.
THEOREM PaneAlwaysShowsList == Spec => []PaneShowsList
  <1>1. IInv => PaneShowsList
    BY DEF IInv
  <1> QED
    BY <1>1, Inductive, PTL
=============================================================================
