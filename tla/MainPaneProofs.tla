--------------------------- MODULE MainPaneProofs ---------------------------
(***************************************************************************)
(* For any messages, chats, dates and heights of the pane: however answers *)
(* overlap, a chat keeps one message of every second it has received       *)
(* messages of and keeps it for good; draw_main stays within the messages  *)
(* unless 'G' or another chat left it an offset; and the pane shows the    *)
(* history whenever it has been drawn.                                     *)
(***************************************************************************)
EXTENDS MainPane, FiniteSetTheorems, TLAPS

(***************************************************************************)
(* The inductive invariant.                                                *)
(***************************************************************************)
\* The server has finitely many messages, of every chat the oldest ones, and of
\* every second a newest one.
SentInv ==
    /\ IsFiniteSet(sent)
    /\ \A m \in sent : \A n \in Messages : ChatOf[n] = ChatOf[m] /\ n < m => n \in sent
    /\ \A m \in sent : \E top \in sent :
        /\ ChatOf[top] = ChatOf[m] /\ Date[top] = Date[m]
        /\ \A n \in sent : ChatOf[n] = ChatOf[m] /\ Date[n] = Date[m] => n <= top

\* What is stored has been received, under its own chat.
StoredInv == \A c \in Chats : \A m \in messages[c] : m \in received /\ ChatOf[m] = c

\* The offset stays within the messages also while nothing is drawn.
ScrollInv == ~ mismeasured => scroll <= Size

\* Nothing is drawn before a chat is chosen.
BlankInv == chosen = NoChat => screen = BlankScreen

IInv ==
    /\ TypeOK /\ SentInv /\ StoredInv /\ OneMessagePerSecond
    /\ ScrollInv /\ BlankInv /\ PaneShowsHistory
-----------------------------------------------------------------------------
(***************************************************************************)
(* The order of the messages.                                              *)
(***************************************************************************)
\* In a finite set of messages of different seconds there is one that exactly
\* k others are newer than: the iterator of draw_main can be advanced k times.
LEMMA RankExists ==
    ASSUME NEW S, IsFiniteSet(S), NEW D,
           \A m \in S : D[m] \in Nat,
           \A m, n \in S : D[m] = D[n] => m = n,
           NEW k \in Nat, k < Cardinality(S)
    PROVE  \E m \in S : Cardinality({x \in S : D[x] > D[m]}) = k
  <1> DEFINE newer(m) == {x \in S : D[x] > D[m]}
             T == 0 .. Cardinality(S) - 1
             f == [m \in S |-> Cardinality(newer(m))]
  <1>0. Cardinality(S) \in Nat
    BY FS_CardinalityType
  <1>1. \A m \in S : IsFiniteSet(newer(m)) /\ Cardinality(newer(m)) \in Nat
    BY FS_Subset, FS_CardinalityType
  <1>2. ASSUME NEW m \in S, NEW n \in S, D[n] > D[m] PROVE Cardinality(newer(n)) < Cardinality(newer(m))
    <2>1. newer(n) \in SUBSET newer(m)
      BY <1>2
    <2>2. n \in newer(m) /\ n \notin newer(n)
      BY <1>2
    <2> HIDE DEF newer
    <2>3. /\ Cardinality(newer(n)) <= Cardinality(newer(m))
          /\ Cardinality(newer(m)) = Cardinality(newer(n)) => newer(m) = newer(n)
      BY <1>1, <2>1, FS_Subset
    <2> QED
      BY <1>1, <2>2, <2>3
  <1>3. \A m \in S : Cardinality(newer(m)) < Cardinality(S)
    <2> SUFFICES ASSUME NEW m \in S PROVE Cardinality(newer(m)) < Cardinality(S)
      OBVIOUS
    <2>1. newer(m) \in SUBSET S /\ m \notin newer(m)
      OBVIOUS
    <2> HIDE DEF newer
    <2>2. /\ Cardinality(newer(m)) <= Cardinality(S)
          /\ Cardinality(S) = Cardinality(newer(m)) => S = newer(m)
      BY <2>1, FS_Subset
    <2> QED
      BY <1>0, <1>1, <2>1, <2>2
  <1>4. f \in Injection(S, T)
    <2> HIDE DEF newer
    <2>1. f \in [S -> T]
      BY <1>0, <1>1, <1>3
    <2>2. ASSUME NEW m \in S, NEW n \in S, f[m] = f[n] PROVE m = n
      <3>1. D[m] > D[n] \/ D[n] > D[m] \/ D[m] = D[n]
        OBVIOUS
      <3>2. Cardinality(newer(m)) = Cardinality(newer(n))
        BY <2>2
      <3> QED
        BY <1>1, <1>2, <3>1, <3>2
    <2> HIDE DEF T, f
    <2> QED
      BY <2>1, <2>2 DEF Injection, IsInjective
  <1>5. IsFiniteSet(T) /\ Cardinality(T) = Cardinality(S)
    <2>1. 0 \in Int /\ Cardinality(S) - 1 \in Int
      BY <1>0
    <2>2. /\ IsFiniteSet(T)
          /\ Cardinality(T) = IF 0 > Cardinality(S) - 1 THEN 0 ELSE (Cardinality(S) - 1) - 0 + 1
      BY <2>1, FS_Interval
    <2> QED BY <1>0, <2>2
  <1>6. f \in Surjection(S, T)
    <2> HIDE DEF f, T
    <2> QED BY <1>4, <1>5, FS_Injection
  <1>7. \E m \in S : f[m] = k
    <2>1. k \in T
      BY <1>0
    <2> HIDE DEF f, T
    <2> QED BY <1>6, <2>1 DEF Surjection
  <1> QED
    BY <1>7

\* A message that as many are newer than when messages have been added is not
\* older, and it is the same one if only older messages were added.
LEMMA RankGrows ==
    ASSUME NEW S, NEW T, IsFiniteSet(T), S \subseteq T, NEW D,
           \A m \in T : D[m] \in Nat,
           \A m, n \in T : D[m] = D[n] => m = n,
           NEW m \in S, NEW n \in T,
           Cardinality({x \in S : D[x] > D[m]}) = Cardinality({x \in T : D[x] > D[n]})
    PROVE  /\ D[m] <= D[n]
           /\ (\A x \in T \ S : D[x] < D[m]) => n = m
  <1> DEFINE A == {x \in S : D[x] > D[m]}
             B == {x \in T : D[x] > D[n]}
  <1>0. /\ IsFiniteSet(A) /\ Cardinality(A) \in Nat
        /\ IsFiniteSet(B) /\ Cardinality(B) \in Nat
        /\ m \in T /\ D[m] \in Nat /\ D[n] \in Nat
    BY FS_Subset, FS_CardinalityType
  <1>1. Cardinality(A) = Cardinality(B)
    OBVIOUS
  <1>2. ASSUME A \subseteq B \/ B \subseteq A PROVE A = B
    <2> HIDE DEF A, B
    <2>1. CASE A \subseteq B
      BY <1>0, <1>1, <2>1, FS_Subset
    <2>2. CASE B \subseteq A
      BY <1>0, <1>1, <2>2, FS_Subset
    <2> QED BY <1>2, <2>1, <2>2
  <1>3. ASSUME D[n] < D[m] PROVE FALSE
    <2>1. A \subseteq B /\ m \in B /\ m \notin A
      BY <1>0, <1>3
    <2> HIDE DEF A, B
    <2> QED BY <1>2, <2>1
  <1>4. ASSUME \A x \in T \ S : D[x] < D[m], D[n] > D[m] PROVE FALSE
    <2>1. n \in S
      BY <1>0, <1>4
    <2>2. \A x \in B : x \in S
      BY <1>0, <1>4
    <2>3. B \subseteq A /\ n \in A /\ n \notin B
      BY <1>0, <1>4, <2>1, <2>2
    <2> HIDE DEF A, B
    <2> QED BY <1>2, <2>3
  <1> QED
    BY <1>0, <1>3, <1>4

\* Every chat has finitely many messages.
FinitelyStored ==
    /\ \A c \in Chats : IsFiniteSet(messages[c]) /\ Cardinality(messages[c]) \in Nat
    /\ Size \in Nat

\* What the server has sent is finite, and what is stored is part of it.
LEMMA SizeType == TypeOK /\ SentInv /\ StoredInv => FinitelyStored
  <1> SUFFICES ASSUME TypeOK, SentInv, StoredInv PROVE FinitelyStored
    OBVIOUS
  <1>1. \A c \in Chats : messages[c] \in SUBSET sent
    BY DEF TypeOK, StoredInv
  <1>2. \A c \in Chats : IsFiniteSet(messages[c]) /\ Cardinality(messages[c]) \in Nat
    BY <1>1, FS_Subset, FS_CardinalityType DEF SentInv
  <1> QED
    BY <1>2 DEF FinitelyStored, Size, TypeOK

\* How many messages are newer than the one of row r.
Rank(r) == scroll + (rows - 1 - r)

\* A row has a message exactly if the chosen chat has enough of them, and it is
\* the one with as many newer ones as there are rows below and in the offset.
RowsRanked ==
    /\ Size = IF chosen = NoChat THEN 0 ELSE Cardinality(messages[chosen])
    /\ \A r \in AllRows :
        /\ r < rows /\ Rank(r) < Size <=> Row(r) # Blank
        /\ Row(r) # Blank =>
            /\ chosen \in Chats /\ Row(r) \in messages[chosen]
            /\ Cardinality({x \in messages[chosen] : Date[x] > Date[Row(r)]}) = Rank(r)

LEMMA RowFacts == TypeOK /\ SentInv /\ StoredInv /\ OneMessagePerSecond => RowsRanked
  <1> SUFFICES ASSUME TypeOK, SentInv, StoredInv, OneMessagePerSecond PROVE RowsRanked
    OBVIOUS
  <1>1. ASSUME NEW r \in AllRows, r < rows, Rank(r) < Size
        PROVE  /\ chosen \in Chats /\ Row(r) \in messages[chosen] /\ Row(r) # Blank
               /\ Cardinality({x \in messages[chosen] : Date[x] > Date[Row(r)]}) = Rank(r)
    <2>0. rows \in Nat /\ r \in Nat /\ scroll \in Nat /\ Rank(r) \in Nat /\ Size \in Nat
      BY <1>1, MainPaneAssumption, SizeType DEF FinitelyStored, TypeOK, AllRows, Rank
    <2>1. chosen # NoChat
      BY <1>1, <2>0 DEF Size
    <2>2. /\ chosen \in Chats /\ messages[chosen] \subseteq Messages
          /\ Rank(r) < Cardinality(messages[chosen]) /\ IsFiniteSet(messages[chosen])
      BY <1>1, <2>1, SizeType DEF FinitelyStored, TypeOK, Size
    <2>3. /\ \A m \in messages[chosen] : Date[m] \in Nat
          /\ \A m, x \in messages[chosen] : Date[m] = Date[x] => m = x
      BY <2>2, MainPaneAssumption DEF OneMessagePerSecond
    <2>4. PICK m \in messages[chosen] : Cardinality({x \in messages[chosen] : Date[x] > Date[m]}) = Rank(r)
      <3> DEFINE k == Rank(r)
      <3>1. k \in Nat /\ k < Cardinality(messages[chosen])
        BY <2>0, <2>2
      <3> HIDE DEF k
      <3>2. \E m \in messages[chosen] : Cardinality({x \in messages[chosen] : Date[x] > Date[m]}) = k
        BY <2>2, <2>3, <3>1, RankExists
      <3> QED BY <3>2 DEF k
    <2>5. Row(r) = Nth(chosen, Rank(r))
      BY <1>1 DEF Row, Rank
    <2>6. /\ Nth(chosen, Rank(r)) \in messages[chosen]
          /\ Cardinality({x \in messages[chosen] : Date[x] > Date[Nth(chosen, Rank(r))]}) = Rank(r)
      BY <2>4 DEF Nth
    <2> QED
      BY <2>2, <2>5, <2>6, MainPaneAssumption
  <1>2. ASSUME NEW r \in AllRows, ~ (r < rows /\ Rank(r) < Size) PROVE Row(r) = Blank
    BY <1>2 DEF Row, Rank
  <1>3. Size = IF chosen = NoChat THEN 0 ELSE Cardinality(messages[chosen])
    BY DEF Size
  <1> QED
    BY <1>1, <1>2, <1>3 DEF RowsRanked

\* Every row of the pane shows a message of the chosen chat or nothing.
LEMMA RowType ==
    ASSUME TypeOK, SentInv, StoredInv, OneMessagePerSecond, NEW r \in AllRows
    PROVE  Row(r) \in Messages \cup {Blank}
  BY RowFacts DEF RowsRanked, TypeOK

\* The rows to be shown depend on the messages, the chat, the height and the
\* offset only.
LEMMA SameRows ==
    ASSUME messages' = messages, chosen' = chosen, rows' = rows, scroll' = scroll
    PROVE  Size' = Size /\ \A r \in AllRows : Row(r)' = Row(r)
  BY DEF Row, Size, Nth, AllRows
-----------------------------------------------------------------------------
(***************************************************************************)
(* Init and the steps, each for the conjuncts it can disturb.              *)
(***************************************************************************)
LEMMA InitIInv == Init => IInv
  <1> SUFFICES ASSUME Init PROVE IInv
    OBVIOUS
  <1>1. Size = 0 /\ BlankScreen \in [AllRows -> Messages \cup {Blank}]
    BY DEF Init, Size, BlankScreen
  <1>2. TypeOK
    <2>1. redraw \in BOOLEAN /\ prefix \in BOOLEAN /\ undrawn \in BOOLEAN /\ mismeasured \in BOOLEAN
      BY DEF Init
    <2>2. rows \in 1 .. MaxRows /\ cursor \in 0 .. rows - 1 /\ scroll \in Nat
      BY MainPaneAssumption DEF Init
    <2> QED
      BY <1>1, <2>1, <2>2 DEF Init, TypeOK
  <1>3. SentInv
    BY FS_EmptySet DEF Init, SentInv
  <1>4. StoredInv /\ OneMessagePerSecond
    BY DEF Init, StoredInv, OneMessagePerSecond
  <1>5. ScrollInv /\ BlankInv
    BY <1>1 DEF Init, ScrollInv, BlankInv
  <1>6. PaneShowsHistory
    <2> SUFFICES ASSUME NEW r \in AllRows PROVE screen[r] = Row(r)
      BY DEF PaneShowsHistory
    <2>1. screen[r] = Blank
      BY DEF Init, BlankScreen
    <2>2. rows \in Nat /\ r \in Nat /\ scroll = 0
      BY MainPaneAssumption DEF Init, AllRows
    <2> QED
      BY <1>1, <2>1, <2>2 DEF Row
  <1> QED
    BY <1>2, <1>3, <1>4, <1>5, <1>6 DEF IInv

\* A message is sent: it is the newest of its chat.
LEMMA SendMessageIInv == IInv /\ SendMessage => IInv'
  <1> SUFFICES ASSUME IInv, SendMessage PROVE IInv'
    OBVIOUS
  <1> USE DEF SendMessage
  <1>1. PICK m \in Messages \ sent :
            /\ \A n \in Messages : ChatOf[n] = ChatOf[m] /\ n < m => n \in sent
            /\ sent' = sent \cup {m}
    OBVIOUS
  <1>2. TypeOK'
    BY <1>1 DEF IInv, TypeOK, history
  <1>3. SentInv'
    <2>0. sent \subseteq Nat /\ m \in Nat /\ Messages \subseteq Nat
      BY MainPaneAssumption DEF IInv, TypeOK
    <2>1. IsFiniteSet(sent')
      BY <1>1, FS_AddElement DEF IInv, SentInv
    <2>2. \A n \in sent : ChatOf[n] = ChatOf[m] => n < m
      BY <2>0 DEF IInv, SentInv
    <2>3. \A x \in sent' : \A n \in Messages : ChatOf[n] = ChatOf[x] /\ n < x => n \in sent'
      BY <1>1 DEF IInv, SentInv
    <2>4. ASSUME NEW x \in sent'
          PROVE  \E top \in sent' :
                    /\ ChatOf[top] = ChatOf[x] /\ Date[top] = Date[x]
                    /\ \A n \in sent' : ChatOf[n] = ChatOf[x] /\ Date[n] = Date[x] => n <= top
      <3>1. CASE ChatOf[x] = ChatOf[m] /\ Date[x] = Date[m]
        <4>1. m \in sent' /\ \A n \in sent' : ChatOf[n] = ChatOf[x] /\ Date[n] = Date[x] => n <= m
          BY <1>1, <2>0, <2>2, <3>1
        <4> QED BY <3>1, <4>1
      <3>2. CASE ~ (ChatOf[x] = ChatOf[m] /\ Date[x] = Date[m])
        <4>1. x \in sent
          BY <1>1, <3>2
        <4>2. PICK top \in sent : /\ ChatOf[top] = ChatOf[x] /\ Date[top] = Date[x]
                                  /\ \A n \in sent : ChatOf[n] = ChatOf[x] /\ Date[n] = Date[x] => n <= top
          BY <4>1 DEF IInv, SentInv
        <4> QED BY <1>1, <3>2, <4>2
      <3> QED BY <3>1, <3>2
    <2> QED
      BY <2>1, <2>3, <2>4 DEF SentInv
  <1>4. /\ messages' = messages /\ chosen' = chosen /\ rows' = rows /\ scroll' = scroll
        /\ screen' = screen /\ received' = received /\ undrawn' = undrawn
        /\ mismeasured' = mismeasured /\ ui' = ui /\ redraw' = redraw
    BY DEF history
  <1>5. StoredInv' /\ OneMessagePerSecond'
    BY <1>4 DEF IInv, StoredInv, OneMessagePerSecond
  <1>6. ScrollInv' /\ BlankInv' /\ PaneShowsHistory'
    BY <1>4, SameRows DEF IInv, ScrollInv, BlankInv, PaneShowsHistory
  <1> QED
    BY <1>2, <1>3, <1>5, <1>6 DEF IInv

\* An answer fills in the seconds that had no message yet.
LEMMA EmplaceFacts ==
    ASSUME IInv, NEW c \in Chats, NEW new \in Histories(c)
    PROVE  /\ new \subseteq sent
           /\ \A m \in new : ChatOf[m] = c
           /\ messages[c] \subseteq Emplace(messages[c], new)
           /\ Emplace(messages[c], new) \subseteq messages[c] \cup new
           /\ {Date[m] : m \in Emplace(messages[c], new)}
                = {Date[m] : m \in messages[c]} \cup {Date[m] : m \in new}
           /\ \A m, n \in Emplace(messages[c], new) : Date[m] = Date[n] => m = n
  <1>1. PICK first \in sent : new = {m \in sent : ChatOf[m] = c /\ m >= first}
    BY DEF Histories
  <1>2. sent \subseteq Nat /\ sent \subseteq Messages /\ messages[c] \subseteq sent
    BY MainPaneAssumption DEF IInv, TypeOK, StoredInv
  <1>3. ASSUME NEW m \in new PROVE \E n \in Emplace(messages[c], new) : Date[n] = Date[m]
    <2>1. CASE \E n \in messages[c] : Date[n] = Date[m]
      BY <2>1 DEF Emplace
    <2>2. CASE \A n \in messages[c] : Date[n] # Date[m]
      <3>0. m \in sent /\ ChatOf[m] = c /\ m >= first
        BY <1>1
      <3>1. PICK top \in sent : /\ ChatOf[top] = ChatOf[m] /\ Date[top] = Date[m]
                                /\ \A n \in sent : ChatOf[n] = ChatOf[m] /\ Date[n] = Date[m] => n <= top
        BY <3>0 DEF IInv, SentInv
      <3>2. top >= m
        BY <1>2, <3>0, <3>1
      <3>3. top \in new
        BY <1>1, <1>2, <3>0, <3>1, <3>2
      <3>4. \A n \in new : Date[n] = Date[top] => n <= top
        BY <1>1, <3>0, <3>1
      <3>5. top \in Emplace(messages[c], new)
        BY <2>2, <3>1, <3>3, <3>4 DEF Emplace
      <3> QED BY <3>1, <3>5
    <2> QED BY <2>1, <2>2
  <1>4. ASSUME NEW m \in Emplace(messages[c], new), NEW n \in Emplace(messages[c], new),
               Date[m] = Date[n]
        PROVE  m = n
    <2>1. new \subseteq Nat
      BY <1>1, <1>2
    <2>2. \A x, y \in messages[c] : Date[x] = Date[y] => x = y
      BY DEF IInv, OneMessagePerSecond
    <2>3. CASE m \in messages[c] /\ n \in messages[c]
      BY <1>4, <2>2, <2>3
    <2>4. CASE m \notin messages[c] /\ n \notin messages[c]
      <3>1. m \in new /\ n \in new /\ m <= n /\ n <= m
        BY <1>4, <2>4 DEF Emplace
      <3> QED BY <2>1, <3>1
    <2> QED
      BY <1>4, <2>3, <2>4 DEF Emplace
  <1>5. messages[c] \subseteq Emplace(messages[c], new) /\ Emplace(messages[c], new) \subseteq messages[c] \cup new
    BY DEF Emplace
  <1> QED
    BY <1>1, <1>3, <1>4, <1>5

\* A history that is stored, or an answer without effect.
LEMMA AnswerIInv == IInv /\ Answer => IInv'
  <1> SUFFICES ASSUME IInv, Answer PROVE IInv'
    OBVIOUS
  <1>1. PICK c \in asked :
            /\ asked' = asked \ {c}
            /\ \/ \E new \in Histories(c) : process_get_chat_history(c, new)
               \/ UNCHANGED <<messages, received, redraw>>
    BY DEF Answer
  <1>2. /\ sent' = sent /\ ui' = ui /\ chosen' = chosen /\ rows' = rows /\ screen' = screen
        /\ scroll' = scroll /\ cursor' = cursor /\ prefix' = prefix
        /\ undrawn' = undrawn /\ mismeasured' = mismeasured
    BY DEF Answer
  <1>3. c \in Chats /\ asked' \subseteq Chats
    BY <1>1 DEF IInv, TypeOK
  <1>4. SentInv' /\ BlankInv'
    BY <1>2 DEF IInv, SentInv, BlankInv
  <1>5. CASE UNCHANGED <<messages, received, redraw>>
    <2>1. TypeOK'
      BY <1>2, <1>3, <1>5 DEF IInv, TypeOK
    <2>2. StoredInv' /\ OneMessagePerSecond'
      BY <1>5 DEF IInv, StoredInv, OneMessagePerSecond
    <2>3. ScrollInv' /\ PaneShowsHistory'
      BY <1>2, <1>5, SameRows DEF IInv, ScrollInv, PaneShowsHistory
    <2> QED BY <1>4, <2>1, <2>2, <2>3 DEF IInv
  <1>6. ASSUME NEW new \in Histories(c), process_get_chat_history(c, new) PROVE IInv'
    <2> DEFINE kept == Emplace(messages[c], new)
    <2>1. /\ messages' = [messages EXCEPT ![c] = kept]
          /\ received' = received \cup new
          /\ redraw' = TRUE
      BY <1>6 DEF process_get_chat_history
    <2>2. /\ new \subseteq sent
          /\ \A m \in new : ChatOf[m] = c
          /\ messages[c] \subseteq kept
          /\ kept \subseteq messages[c] \cup new
          /\ {Date[m] : m \in kept} = {Date[m] : m \in messages[c]} \cup {Date[m] : m \in new}
          /\ \A m, n \in kept : Date[m] = Date[n] => m = n
      BY <1>3, <1>6, EmplaceFacts
    <2> HIDE DEF kept
    <2>3. messages'[c] = kept /\ \A d \in Chats \ {c} : messages'[d] = messages[d]
      BY <1>3, <2>1 DEF IInv, TypeOK
    <2>4. TypeOK'
      <3>1. messages' \in [Chats -> SUBSET Messages] /\ received' \subseteq sent
        BY <1>3, <2>1, <2>2 DEF IInv, TypeOK
      <3>2. redraw' \in BOOLEAN
        BY <2>1
      <3> QED BY <1>2, <1>3, <3>1, <3>2 DEF IInv, TypeOK
    <2>5. StoredInv'
      BY <2>1, <2>2, <2>3 DEF IInv, StoredInv
    <2>6. OneMessagePerSecond'
      <3>1. \A d \in Chats : \A m, n \in messages'[d] : Date[m] = Date[n] => m = n
        BY <2>2, <2>3 DEF IInv, OneMessagePerSecond
      <3>2. ASSUME NEW d \in Chats
            PROVE  {Date[m] : m \in messages'[d]} = {Date[m] : m \in {x \in received' : ChatOf[x] = d}}
        <4>1. {Date[m] : m \in messages[d]} = {Date[m] : m \in {x \in received : ChatOf[x] = d}}
          BY DEF IInv, OneMessagePerSecond
        <4>2. CASE d # c
          <5>1. {x \in received' : ChatOf[x] = d} = {x \in received : ChatOf[x] = d}
            BY <2>1, <2>2, <4>2
          <5> QED BY <2>3, <4>1, <4>2, <5>1
        <4>3. CASE d = c
          <5>1. {x \in received' : ChatOf[x] = c} = {x \in received : ChatOf[x] = c} \cup new
            BY <2>1, <2>2
          <5>2. {Date[m] : m \in {x \in received : ChatOf[x] = c} \cup new}
                  = {Date[m] : m \in {x \in received : ChatOf[x] = c}} \cup {Date[m] : m \in new}
            OBVIOUS
          <5> QED BY <2>2, <2>3, <4>1, <4>3, <5>1, <5>2
        <4> QED BY <4>2, <4>3
      <3> QED BY <3>1, <3>2 DEF OneMessagePerSecond
    <2>7. ScrollInv'
      <3>0. (TypeOK /\ SentInv /\ StoredInv)' => FinitelyStored'
        BY SizeType, PTL
      <3>1. Size \in Nat /\ Size' \in Nat /\ \A d \in Chats : IsFiniteSet(messages'[d])
        BY <1>4, <2>4, <2>5, <3>0, SizeType DEF IInv, FinitelyStored
      <3>2. Size <= Size'
        <4>1. CASE chosen = NoChat
          BY <1>2, <3>1, <4>1 DEF Size
        <4>2. CASE chosen # NoChat
          <5>1. chosen \in Chats /\ messages[chosen] \in SUBSET messages'[chosen]
            BY <2>2, <2>3, <4>2 DEF IInv, TypeOK
          <5>2. Cardinality(messages[chosen]) <= Cardinality(messages'[chosen])
            BY <3>1, <5>1, FS_Subset
          <5> QED BY <1>2, <4>2, <5>2 DEF Size
        <4> QED BY <4>1, <4>2
      <3> QED BY <1>2, <3>1, <3>2 DEF IInv, TypeOK, ScrollInv
    <2>8. PaneShowsHistory'
      BY <2>1 DEF PaneShowsHistory
    <2> QED BY <1>4, <2>4, <2>5, <2>6, <2>7, <2>8 DEF IInv
  <1> QED
    BY <1>1, <1>5, <1>6

\* What a step that stores nothing keeps: keys, events and drawing leave the
\* server and the messages alone.
LEMMA StoreUnchanged ==
    ASSUME IInv, sent' = sent, messages' = messages, received' = received
    PROVE  SentInv' /\ StoredInv' /\ OneMessagePerSecond'
  BY DEF IInv, SentInv, StoredInv, OneMessagePerSecond

LEMMA PopIInv == IInv /\ Pop => IInv'
  <1> SUFFICES ASSUME IInv, Pop PROVE IInv'
    OBVIOUS
  <1> USE DEF Pop, Poll, server, history
  <1>1. TypeOK'
    <2>1. redraw' \in BOOLEAN
      OBVIOUS
    <2> QED BY <2>1 DEF IInv, TypeOK
  <1>2. SentInv' /\ StoredInv' /\ OneMessagePerSecond'
    BY StoreUnchanged
  <1>3. ScrollInv' /\ BlankInv' /\ PaneShowsHistory'
    BY SameRows DEF IInv, ScrollInv, BlankInv, PaneShowsHistory
  <1> QED BY <1>1, <1>2, <1>3 DEF IInv

\* The values a key computes.
LEMMA Bounds ==
    ASSUME IInv
    PROVE  /\ Size \in Nat /\ rows \in Nat \ {0} /\ rows <= MaxRows
           /\ scroll \in Nat /\ cursor \in Nat /\ cursor <= rows - 1
           /\ MaxRows \in Nat \ {0} /\ NoChat \notin Chats
  BY SizeType, MainPaneAssumption DEF IInv, TypeOK, FinitelyStored, Chats

LEMMA KeyDownIInv == IInv /\ KeyDown => IInv'
  <1> SUFFICES ASSUME IInv, KeyDown PROVE IInv'
    OBVIOUS
  <1> USE DEF KeyDown, KeyFrame, Poll, server
  <1>1. SentInv' /\ StoredInv' /\ OneMessagePerSecond'
    BY StoreUnchanged
  <1>2. scroll' \in Nat /\ scroll' <= scroll /\ cursor' \in 0 .. rows - 1 /\ ui' \in {"poll", "draw"}
    BY Bounds DEF Larger
  <1>3. TypeOK'
    BY <1>2 DEF IInv, TypeOK
  <1>4. Size' = Size
    BY DEF Size
  <1>5. ScrollInv' /\ BlankInv'
    BY <1>2, <1>4, Bounds DEF IInv, ScrollInv, BlankInv
  <1>6. PaneShowsHistory'
    BY SameRows DEF IInv, PaneShowsHistory
  <1> QED BY <1>1, <1>3, <1>5, <1>6 DEF IInv

LEMMA KeyUpIInv == IInv /\ KeyUp => IInv'
  <1> SUFFICES ASSUME IInv, KeyUp PROVE IInv'
    OBVIOUS
  <1> USE DEF KeyUp, KeyFrame, Poll, server
  <1>1. SentInv' /\ StoredInv' /\ OneMessagePerSecond'
    BY StoreUnchanged
  <1>2. Size' = Size
    BY DEF Size
  <1>3. CASE cursor = 0
    <2>1. scroll' \in Nat /\ scroll' <= Size /\ cursor' = cursor /\ ui' = "draw"
      BY <1>3, Bounds DEF Larger, Smaller
    <2>2. mismeasured' \in BOOLEAN
      <3>1. ~ (cursor > 0)
        BY <1>3
      <3> QED BY <3>1
    <2>3. TypeOK'
      BY <2>1, <2>2 DEF IInv, TypeOK
    <2>4. ScrollInv' /\ BlankInv' /\ PaneShowsHistory'
      BY <1>2, <2>1 DEF IInv, ScrollInv, BlankInv, PaneShowsHistory
    <2> QED BY <1>1, <2>3, <2>4 DEF IInv
  <1>4. CASE cursor > 0
    <2>1. /\ cursor' \in 0 .. rows - 1 /\ ui' = "poll" /\ ui = "poll"
          /\ scroll' = scroll /\ mismeasured' = mismeasured
      BY <1>4, Bounds
    <2>2. TypeOK'
      BY <2>1 DEF IInv, TypeOK
    <2>3. ScrollInv' /\ BlankInv' /\ PaneShowsHistory'
      BY <1>2, <2>1, SameRows DEF IInv, ScrollInv, BlankInv, PaneShowsHistory
    <2> QED BY <1>1, <2>2, <2>3 DEF IInv
  <1> QED BY <1>3, <1>4, Bounds

LEMMA KeyLastIInv == IInv /\ KeyLast => IInv'
  <1> SUFFICES ASSUME IInv, KeyLast PROVE IInv'
    OBVIOUS
  <1> USE DEF KeyLast, KeyFrame, Poll, server
  <1>1. SentInv' /\ StoredInv' /\ OneMessagePerSecond'
    BY StoreUnchanged
  <1>2. Size' = Size
    BY DEF Size
  <1>3. scroll' \in Nat /\ cursor' \in 0 .. rows - 1 /\ ui' = "poll" /\ ui = "poll"
    BY Bounds, MainPaneAssumption DEF Larger
  <1>4. undrawn' \in BOOLEAN /\ mismeasured' \in BOOLEAN
    OBVIOUS
  <1>5. TypeOK'
    BY <1>3, <1>4 DEF IInv, TypeOK
  <1>6. ScrollInv' /\ BlankInv'
    <2>1. mismeasured' \/ scroll' = 0
      <3>1. ~ (scroll' > 0) => scroll' = 0
        BY <1>3
      <3> QED BY <3>1
    <2>2. ScrollInv'
      BY <1>2, <2>1, Bounds DEF ScrollInv
    <2>3. BlankInv'
      BY DEF IInv, BlankInv, BlankScreen, AllRows
    <2> QED BY <2>2, <2>3
  <1>7. PaneShowsHistory'
    <2>1. CASE scroll' = scroll
      BY <2>1, SameRows DEF IInv, PaneShowsHistory
    <2>2. CASE scroll' # scroll
      BY <2>2 DEF PaneShowsHistory
    <2> QED BY <2>1, <2>2
  <1> QED BY <1>1, <1>5, <1>6, <1>7 DEF IInv

LEMMA KeyFirstIInv == IInv /\ KeyFirst => IInv'
  <1> SUFFICES ASSUME IInv, KeyFirst PROVE IInv'
    OBVIOUS
  <1> USE DEF KeyFirst, KeyFrame, Poll, server
  <1>1. SentInv' /\ StoredInv' /\ OneMessagePerSecond'
    BY StoreUnchanged
  <1>2. Size' = Size
    BY DEF Size
  <1>3. scroll' = 0 /\ cursor' \in 0 .. rows - 1 /\ ui' = "poll" /\ ui = "poll"
    BY Bounds
  <1>4. undrawn' \in BOOLEAN /\ mismeasured' \in BOOLEAN /\ prefix' \in BOOLEAN
    OBVIOUS
  <1>5. TypeOK'
    BY <1>3, <1>4 DEF IInv, TypeOK
  <1>6. ScrollInv' /\ BlankInv'
    BY <1>2, <1>3, Bounds DEF IInv, ScrollInv, BlankInv
  <1>7. PaneShowsHistory'
    <2>1. CASE scroll = 0
      BY <1>3, <2>1, SameRows DEF IInv, PaneShowsHistory
    <2>2. CASE scroll > 0
      BY <2>2 DEF PaneShowsHistory
    <2> QED BY <2>1, <2>2, Bounds
  <1> QED BY <1>1, <1>5, <1>6, <1>7 DEF IInv

LEMMA KeyPrefixIInv == IInv /\ KeyPrefix => IInv'
  <1> SUFFICES ASSUME IInv, KeyPrefix PROVE IInv'
    OBVIOUS
  <1> USE DEF KeyPrefix, KeyFrame, Poll, server
  <1>1. SentInv' /\ StoredInv' /\ OneMessagePerSecond'
    BY StoreUnchanged
  <1>2. prefix' \in BOOLEAN
    OBVIOUS
  <1>3. TypeOK'
    BY <1>2 DEF IInv, TypeOK
  <1>4. ScrollInv' /\ BlankInv' /\ PaneShowsHistory'
    BY SameRows DEF IInv, ScrollInv, BlankInv, PaneShowsHistory
  <1> QED BY <1>1, <1>3, <1>4 DEF IInv

LEMMA KeyOpenIInv == IInv /\ KeyOpen => IInv'
  <1> SUFFICES ASSUME IInv, KeyOpen PROVE IInv'
    OBVIOUS
  <1> USE DEF KeyOpen, Poll
  <1>1. SentInv' /\ StoredInv' /\ OneMessagePerSecond'
    BY StoreUnchanged
  <1>2. PICK c \in Chats :
            /\ chosen' = c
            /\ asked' = asked \cup {c}
            /\ undrawn' = (undrawn \/ c # chosen)
            /\ mismeasured' = (mismeasured \/ (c # chosen /\ scroll > 0))
    OBVIOUS
  <1>3. undrawn' \in BOOLEAN /\ mismeasured' \in BOOLEAN
    BY <1>2
  <1>4. TypeOK'
    BY <1>2, <1>3 DEF IInv, TypeOK
  <1>5. BlankInv'
    BY <1>2, Bounds DEF BlankInv
  <1>6. CASE c = chosen
    <2>1. ScrollInv' /\ PaneShowsHistory'
      BY <1>2, <1>6, SameRows DEF IInv, ScrollInv, PaneShowsHistory
    <2> QED BY <1>1, <1>4, <1>5, <2>1 DEF IInv
  <1>7. CASE c # chosen
    <2>1. PaneShowsHistory'
      BY <1>2, <1>7 DEF PaneShowsHistory
    <2>2. Size' \in Nat
      <3>1. (TypeOK /\ SentInv /\ StoredInv)' => FinitelyStored'
        BY SizeType, PTL
      <3> QED BY <1>1, <1>4, <3>1 DEF FinitelyStored
    <2>3. ScrollInv'
      <3>1. mismeasured' \/ scroll' = 0
        <4>1. ~ (scroll > 0) => scroll' = 0
          BY Bounds
        <4> QED BY <1>2, <1>7, <4>1
      <3> QED BY <2>2, <3>1, Bounds DEF ScrollInv
    <2> QED BY <1>1, <1>4, <1>5, <2>1, <2>3 DEF IInv
  <1> QED BY <1>6, <1>7

LEMMA ResizeIInv == IInv /\ Resize => IInv'
  <1> SUFFICES ASSUME IInv, Resize PROVE IInv'
    OBVIOUS
  <1> USE DEF Resize, Poll, server, history
  <1>1. SentInv' /\ StoredInv' /\ OneMessagePerSecond'
    BY StoreUnchanged
  <1>2. cursor' \in 0 .. rows' - 1 /\ rows' \in 1 .. MaxRows
    <2>1. rows' \in 1 .. MaxRows
      OBVIOUS
    <2>2. rows' \in Nat \ {0} /\ cursor \in Nat
      BY <2>1, Bounds
    <2>3. ASSUME NEW m \in Nat, NEW n \in Nat \ {0} PROVE Smaller(m, n - 1) \in 0 .. n - 1
      BY DEF Smaller
    <2>4. Smaller(cursor, rows' - 1) \in 0 .. rows' - 1
      BY <2>2, <2>3
    <2> QED BY <2>1, <2>4
  <1>3. TypeOK'
    BY <1>2 DEF IInv, TypeOK, BlankScreen
  <1>4. Size' = Size
    BY DEF Size
  <1>5. ScrollInv' /\ BlankInv' /\ PaneShowsHistory'
    BY <1>4 DEF IInv, ScrollInv, BlankInv, PaneShowsHistory, BlankScreen, AllRows
  <1> QED BY <1>1, <1>3, <1>5 DEF IInv

LEMMA draw_mainIInv == IInv /\ draw_main => IInv'
  <1> SUFFICES ASSUME IInv, draw_main PROVE IInv'
    OBVIOUS
  <1> USE DEF draw_main, server
  <1>1. SentInv' /\ StoredInv' /\ OneMessagePerSecond'
    BY StoreUnchanged
  <1>2. Size' = Size /\ \A r \in AllRows : Row(r)' = Row(r)
    BY SameRows
  <1>3. ScrollInv'
    BY <1>2 DEF IInv, ScrollInv
  <1>4. CASE chosen = NoChat
    <2>1. screen' = screen /\ undrawn' = undrawn /\ screen = BlankScreen /\ Size = 0
      BY <1>4 DEF IInv, BlankInv, Size
    <2>2. TypeOK'
      BY <2>1 DEF IInv, TypeOK
    <2>3. BlankInv'
      BY <2>1 DEF BlankInv, BlankScreen, AllRows
    <2>4. \A r \in AllRows : Row(r) = Blank
      BY <2>1, Bounds DEF Row, AllRows
    <2>5. PaneShowsHistory'
      BY <1>2, <2>1, <2>4 DEF PaneShowsHistory, BlankScreen
    <2> QED BY <1>1, <1>3, <2>2, <2>3, <2>5 DEF IInv
  <1>5. CASE chosen # NoChat
    <2>1. undrawn' \in BOOLEAN
      BY <1>5
    <2>2. chosen \in Chats /\ messages[chosen] \subseteq Messages
      BY <1>5 DEF IInv, TypeOK
    <2>3. BlankInv'
      BY <1>5 DEF BlankInv
    <2>4. CASE scroll <= Size
      <3>1. screen' = [r \in AllRows |-> Row(r)]
        BY <1>5, <2>4
      <3>2. screen' \in [AllRows -> Messages \cup {Blank}]
        BY <3>1, RowType DEF IInv
      <3>3. TypeOK'
        BY <2>1, <3>2 DEF IInv, TypeOK
      <3>4. PaneShowsHistory'
        BY <1>2, <3>1 DEF PaneShowsHistory
      <3> QED BY <1>1, <1>3, <2>3, <3>3, <3>4 DEF IInv
    <2>5. CASE ~ (scroll <= Size)
      <3>1. PICK f \in [0 .. rows - 1 -> messages[chosen] \cup {Blank}] :
                screen' = [r \in AllRows |-> IF r < rows THEN f[r] ELSE Blank]
        BY <1>5, <2>5
      <3>2. screen' \in [AllRows -> Messages \cup {Blank}]
        BY <2>2, <3>1, Bounds DEF AllRows
      <3>3. TypeOK'
        BY <2>1, <3>2 DEF IInv, TypeOK
      <3>4. PaneShowsHistory'
        BY <1>2, <2>5 DEF PaneShowsHistory
      <3> QED BY <1>1, <1>3, <2>3, <3>3, <3>4 DEF IInv
    <2> QED BY <2>4, <2>5
  <1> QED BY <1>4, <1>5

LEMMA StutterIInv == IInv /\ UNCHANGED vars => IInv'
  <1> SUFFICES ASSUME IInv, UNCHANGED vars PROVE IInv'
    OBVIOUS
  <1> USE DEF vars, server, history
  <1>1. SentInv' /\ StoredInv' /\ OneMessagePerSecond'
    BY StoreUnchanged
  <1>2. TypeOK'
    BY DEF IInv, TypeOK
  <1>3. ScrollInv' /\ BlankInv' /\ PaneShowsHistory'
    BY SameRows DEF IInv, ScrollInv, BlankInv, PaneShowsHistory
  <1> QED BY <1>1, <1>2, <1>3 DEF IInv
-----------------------------------------------------------------------------
(***************************************************************************)
(* The theorems.                                                           *)
(***************************************************************************)
LEMMA Inductive == Spec => []IInv
  <1>1. IInv /\ [Next]_vars => IInv'
    BY SendMessageIInv, AnswerIInv, PopIInv, draw_mainIInv, KeyDownIInv, KeyUpIInv,
       KeyLastIInv, KeyFirstIInv, KeyPrefixIInv, KeyOpenIInv, ResizeIInv, StutterIInv DEF Next
  <1> QED
    BY <1>1, InitIInv, PTL DEF Spec

\* The variables have their types, what is received was sent, and the cursor
\* is on a row of the pane whatever keys and resizes come.
THEOREM TypeCorrect == Spec => []TypeOK
  <1>1. IInv => TypeOK
    BY DEF IInv
  <1> QED
    BY <1>1, Inductive, PTL

\* draw_main never advances past the end of the messages, unless 'G' or an
\* offset left from another chat made it.
THEOREM ScrollAlwaysWithinHistory == Spec => []ScrollWithinHistory
  <1>1. IInv => ScrollWithinHistory
    BY DEF IInv, ScrollInv, ScrollWithinHistory
  <1> QED
    BY <1>1, Inductive, PTL

\* Whenever no redraw is due the rows of the pane show the messages of the
\* chosen chat from the offset on.
THEOREM PaneAlwaysShowsHistory == Spec => []PaneShowsHistory
  <1>1. IInv => PaneShowsHistory
    BY DEF IInv
  <1> QED
    BY <1>1, Inductive, PTL

\* However answers repeat and overlap, a chat keeps exactly one message of
\* every second it received messages of.
THEOREM AlwaysOneMessagePerSecond == Spec => []OneMessagePerSecond
  <1>1. IInv => OneMessagePerSecond
    BY DEF IInv
  <1> QED
    BY <1>1, Inductive, PTL

\* No step removes a stored message.
LEMMA MessagesGrow ==
    ASSUME IInv, [Next]_vars
    PROVE  \A c \in Chats : messages[c] \subseteq messages'[c]
  <1>1. CASE Answer
    <2>1. PICK c \in asked :
              \/ \E new \in Histories(c) : process_get_chat_history(c, new)
              \/ UNCHANGED <<messages, received, redraw>>
      BY <1>1 DEF Answer
    <2>2. CASE \E new \in Histories(c) : process_get_chat_history(c, new)
      <3>1. PICK new \in Histories(c) : messages' = [messages EXCEPT ![c] = Emplace(messages[c], new)]
        BY <2>2 DEF process_get_chat_history
      <3>2. c \in Chats /\ messages \in [Chats -> SUBSET Messages]
        BY DEF IInv, TypeOK
      <3>3. messages[c] \subseteq Emplace(messages[c], new)
        BY DEF Emplace
      <3> QED BY <3>1, <3>2, <3>3
    <2> QED BY <2>1, <2>2
  <1>2. CASE messages' = messages
    BY <1>2
  <1>3. CASE SendMessage \/ Pop \/ draw_main \/ Resize \/ UNCHANGED vars
    BY <1>2, <1>3 DEF SendMessage, Pop, draw_main, Resize, vars
  <1>4. CASE KeyDown \/ KeyUp \/ KeyLast \/ KeyFirst \/ KeyPrefix \/ KeyOpen
    BY <1>2, <1>4 DEF KeyDown, KeyUp, KeyLast, KeyFirst, KeyPrefix, KeyOpen, KeyFrame
  <1> QED
    BY <1>1, <1>3, <1>4 DEF Next

\* While the user leaves the view alone, what process_get_chat_history stores
\* never empties a row or puts an older message on it, and older history leaves
\* it as it is.
THEOREM ReaderAlwaysKeepsPlace == Spec => ReaderKeepsPlace
  <1> DEFINE Keeps ==
        UNCHANGED <<chosen, scroll, rows>> =>
            \A r \in AllRows : Row(r) # Blank =>
                /\ Row(r)' # Blank /\ Date[Row(r)] <= Date[Row(r)']
                /\ (\A m \in messages'[chosen] \ messages[chosen] : Date[m] < Date[Row(r)]) =>
                       Row(r)' = Row(r)
  <1>1. ASSUME IInv, IInv', [Next]_vars PROVE Keeps
    <2> SUFFICES ASSUME chosen' = chosen, scroll' = scroll, rows' = rows,
                        NEW r \in AllRows, Row(r) # Blank
                 PROVE  /\ Row(r)' # Blank /\ Date[Row(r)] <= Date[Row(r)']
                        /\ (\A m \in messages'[chosen] \ messages[chosen] : Date[m] < Date[Row(r)]) =>
                               Row(r)' = Row(r)
      OBVIOUS
    <2> DEFINE S == messages[chosen]
               T == messages'[chosen]
    <2>1. RowsRanked /\ FinitelyStored
      BY <1>1, RowFacts, SizeType DEF IInv
    <2>2. RowsRanked' /\ FinitelyStored'
      <3>1. (TypeOK /\ SentInv /\ StoredInv /\ OneMessagePerSecond)' => RowsRanked' /\ FinitelyStored'
        BY RowFacts, SizeType, PTL
      <3> QED BY <1>1, <3>1 DEF IInv
    <2>3. /\ chosen \in Chats /\ r < rows /\ Rank(r) < Size /\ Row(r) \in S
          /\ Cardinality({x \in S : Date[x] > Date[Row(r)]}) = Rank(r)
      BY <2>1 DEF RowsRanked
    <2>4. chosen # NoChat
      BY <2>3, MainPaneAssumption DEF Chats
    <2>5. /\ S \subseteq T /\ IsFiniteSet(T)
          /\ Size = Cardinality(S) /\ Size' = Cardinality(T) /\ Size \in Nat /\ Size' \in Nat
      BY <1>1, <2>1, <2>2, <2>3, <2>4, MessagesGrow DEF RowsRanked, FinitelyStored
    <2>6. Rank(r)' = Rank(r) /\ Rank(r) \in Int
      BY <1>1, MainPaneAssumption DEF Rank, IInv, TypeOK, AllRows
    <2>7. Rank(r) < Size'
      <3>1. Cardinality(S) <= Cardinality(T)
        <4> HIDE DEF S, T
        <4> QED BY <2>5, FS_Subset
      <3> QED BY <2>3, <2>5, <2>6, <3>1
    <2>8. /\ Row(r)' # Blank /\ Row(r)' \in T
          /\ Cardinality({x \in T : Date[x] > Date[Row(r)']}) = Rank(r)
      <3>1. r \in AllRows' /\ (r < rows)' /\ (Rank(r) < Size)'
        BY <2>3, <2>6, <2>7 DEF AllRows
      <3>2. /\ Row(r)' # Blank /\ Row(r)' \in messages'[chosen']
            /\ Cardinality({x \in messages'[chosen'] : Date[x] > Date[Row(r)']}) = Rank(r)'
        BY <2>2, <3>1 DEF RowsRanked
      <3> QED BY <2>6, <3>2
    <2>9. /\ \A m \in T : Date[m] \in Nat
          /\ \A m, n \in T : Date[m] = Date[n] => m = n
      BY <1>1, <2>3, MainPaneAssumption DEF IInv, TypeOK, OneMessagePerSecond
    <2> HIDE DEF S, T
    <2>10. /\ Date[Row(r)] <= Date[Row(r)']
           /\ (\A x \in T \ S : Date[x] < Date[Row(r)]) => Row(r)' = Row(r)
      <3> DEFINE m == Row(r)
                 n == Row(r)'
      <3>1. /\ m \in S /\ n \in T
            /\ Cardinality({x \in S : Date[x] > Date[m]}) = Cardinality({x \in T : Date[x] > Date[n]})
        BY <2>3, <2>8
      <3> HIDE DEF m, n
      <3>2. Date[m] <= Date[n] /\ ((\A x \in T \ S : Date[x] < Date[m]) => n = m)
        BY <2>5, <2>9, <3>1, RankGrows
      <3> QED BY <3>2 DEF m, n
    <2> QED BY <2>8, <2>10 DEF S, T
  <1> HIDE DEF Keeps
  <1>2. IInv /\ IInv' /\ [Next]_vars => [Keeps]_vars
    BY <1>1
  <1> QED
    BY <1>2, Inductive, PTL DEF Spec, ReaderKeepsPlace, Keeps
=============================================================================
