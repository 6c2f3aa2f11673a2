-------------------------- MODULE EventQueueProofs --------------------------
(***************************************************************************)
(* For every set of event types, payloads and pushing threads: the queue   *)
(* and the map of EventQueue stay consistent, pop_and_get never            *)
(* dereferences end(), and push and pop_and_get implement Mailbox.         *)
(***************************************************************************)
EXTENDS EventQueue, SequenceFacts

LEMMA InitIInv == Init => IInv
  <1> SUFFICES ASSUME Init PROVE IInv
    OBVIOUS
  <1>1. queue \in Seq(Types) /\ DOMAIN queue = {}
    BY EmptySeq, LenProperties DEF Init
  <1>2. TypeOK
    BY <1>1, FreeAssumption DEF Init, TypeOK, Mapped, Steps
  <1>3. NoTypeTwice /\ QueueMatchesMap
    BY <1>1, FreeAssumption DEF Init, NoTypeTwice, QueueMatchesMap, InQueue, Mapped, Threads
  <1>4. LockInv /\ WindowInv
    BY FreeAssumption DEF Init, LockInv, WindowInv, Threads
  <1> QED
    BY <1>2, <1>3, <1>4 DEF IInv

\* While one thread is inside a critical section every other thread is idle.
LEMMA OneInside ==
    ASSUME LockInv, NEW t \in Threads, pc[t] # "idle"
    PROVE  /\ q_mutex = t
           /\ \A u \in Threads : u # t => pc[u] = "idle"
  BY DEF LockInv

LEMMA NextIInv == IInv /\ [Next]_vars => IInv'
  <1> SUFFICES ASSUME IInv, [Next]_vars PROVE IInv'
    OBVIOUS
  <1> USE FreeAssumption, NoEventAssumption
  <1>0. Main \in Threads /\ Pushers \subseteq Threads
    BY DEF Threads
  <1>1. ASSUME NEW t \in Pushers, NEW e \in Event, PushLock(t, e) PROVE IInv'
    <2>1. \A u \in Threads : pc[u] = "idle"
      BY <1>1 DEF PushLock, Lock, IInv, LockInv
    <2>2. TypeOK'
      BY <1>0, <1>1 DEF PushLock, Lock, Goto, IInv, TypeOK, Mapped, Steps
    <2>3. NoTypeTwice'
      BY <1>1 DEF PushLock, IInv, NoTypeTwice
    <2>4. LockInv'
      BY <1>0, <1>1, <2>1 DEF PushLock, Lock, Goto, IInv, TypeOK, LockInv
    <2>5. QueueMatchesMap'
      BY <1>0, <1>1, <2>1 DEF PushLock, Lock, Goto, IInv, TypeOK, QueueMatchesMap, InQueue, Mapped
    <2>6. WindowInv'
      BY <1>0, <1>1, <2>1 DEF PushLock, Lock, Goto, IInv, TypeOK, WindowInv, Mapped
    <2> QED
      BY <2>2, <2>3, <2>4, <2>5, <2>6 DEF IInv
  <1>2. ASSUME NEW t \in Pushers, PushFind(t) PROVE IInv'
    <2> DEFINE x == arg[t].type
    <2>0. /\ pc[t] = "push_find"
          /\ arg[t] \in Event
          /\ x \in Types
          /\ \A u \in Threads : u # t => pc[u] = "idle"
      BY <1>0, <1>2, OneInside DEF PushFind, Goto, IInv, WindowInv, Event
    <2>1. /\ pc' = [pc EXCEPT ![t] = "push_store"]
          /\ queue' = IF x \in Mapped THEN queue ELSE Append(queue, x)
          /\ UNCHANGED <<event_map, q_mutex, arg, res>>
      BY <1>2 DEF PushFind, Goto
    <2>2. queue' \in Seq(Types)
      BY <2>0, <2>1, AppendFacts DEF IInv, TypeOK
    <2>3. \A y \in Types : InQueue(y) <=> y \in Mapped
      BY <1>0, <2>0 DEF IInv, QueueMatchesMap
    <2>4. \A y \in Types : InQueue(y)' <=> InQueue(y) \/ y = x
      <3>1. CASE x \in Mapped
        BY <2>0, <2>1, <2>3, <3>1 DEF InQueue
      <3>2. CASE x \notin Mapped
        <4>1. queue' = Append(queue, x)
          BY <2>1, <3>2
        <4> QED
          BY <2>0, <4>1, AppendFacts DEF InQueue, IInv, TypeOK
      <3> QED BY <3>1, <3>2
    <2>5. TypeOK'
      BY <1>0, <2>1, <2>2 DEF IInv, TypeOK, Mapped, Steps
    <2>6. NoTypeTwice'
      <3>1. CASE x \in Mapped
        BY <2>1, <3>1 DEF IInv, NoTypeTwice
      <3>2. CASE x \notin Mapped
        <4>1. queue' = Append(queue, x) /\ ~ InQueue(x)
          BY <2>0, <2>1, <2>3, <3>2
        <4> QED
          BY <2>0, <4>1, AppendFacts DEF InQueue, IInv, TypeOK, NoTypeTwice
      <3> QED BY <3>1, <3>2
    <2>7. LockInv'
      BY <1>0, <2>0, <2>1 DEF IInv, TypeOK, LockInv
    <2>8. QueueMatchesMap'
      BY <1>0, <2>0, <2>1, <2>3, <2>4 DEF IInv, TypeOK, QueueMatchesMap, Mapped
    <2>9. WindowInv'
      BY <1>0, <2>0, <2>1 DEF IInv, TypeOK, WindowInv, Mapped
    <2> QED
      BY <2>5, <2>6, <2>7, <2>8, <2>9 DEF IInv
  <1>3. ASSUME NEW t \in Pushers, PushStore(t) PROVE IInv'
    <2> DEFINE x == arg[t].type
    <2>0. /\ pc[t] = "push_store"
          /\ arg[t] \in Event
          /\ x \in Types
          /\ \A u \in Threads : u # t => pc[u] = "idle"
      BY <1>0, <1>3, OneInside DEF PushStore, Goto, IInv, WindowInv, Event
    <2>1. /\ pc' = [pc EXCEPT ![t] = "unlock"]
          /\ event_map' = [y \in Mapped \cup {x} |-> IF y = x THEN arg[t] ELSE event_map[y]]
          /\ UNCHANGED <<queue, q_mutex, arg, res>>
      BY <1>3 DEF PushStore, Goto
    <2>2. Mapped' = Mapped \cup {x}
      BY <2>1 DEF Mapped
    <2>3. TypeOK'
      BY <1>0, <2>0, <2>1, <2>2 DEF IInv, TypeOK, Steps
    <2>4. NoTypeTwice'
      BY <2>1 DEF IInv, NoTypeTwice
    <2>5. LockInv'
      BY <1>0, <2>0, <2>1 DEF IInv, TypeOK, LockInv
    <2>6. QueueMatchesMap'
      BY <1>0, <2>0, <2>1, <2>2 DEF IInv, TypeOK, QueueMatchesMap, InQueue
    <2>7. WindowInv'
      BY <1>0, <2>0, <2>1, <2>2 DEF IInv, TypeOK, WindowInv
    <2> QED
      BY <2>3, <2>4, <2>5, <2>6, <2>7 DEF IInv
  <1>4. ASSUME PopLock PROVE IInv'
    <2>1. \A u \in Threads : pc[u] = "idle"
      BY <1>4 DEF PopLock, Lock, IInv, LockInv
    <2>2. TypeOK'
      BY <1>0, <1>4 DEF PopLock, Lock, Goto, IInv, TypeOK, Mapped, Steps
    <2>3. NoTypeTwice'
      BY <1>4 DEF PopLock, IInv, NoTypeTwice
    <2>4. LockInv'
      BY <1>0, <1>4, <2>1 DEF PopLock, Lock, Goto, IInv, TypeOK, LockInv
    <2>5. QueueMatchesMap'
      BY <1>0, <1>4, <2>1 DEF PopLock, Lock, Goto, IInv, TypeOK, QueueMatchesMap, InQueue, Mapped
    <2>6. WindowInv'
      BY <1>0, <1>4, <2>1 DEF PopLock, Lock, Goto, IInv, TypeOK, WindowInv, Mapped
    <2> QED
      BY <2>2, <2>3, <2>4, <2>5, <2>6 DEF IInv
  <1>5. ASSUME PopEmpty PROVE IInv'
    <2>1. pc[Main] = "pop_find" /\ \A u \in Threads : u # Main => pc[u] = "idle"
      BY <1>0, <1>5, OneInside DEF PopEmpty, Goto, IInv
    <2>2. TypeOK'
      BY <1>0, <1>5 DEF PopEmpty, Goto, IInv, TypeOK, Mapped, Steps
    <2>3. NoTypeTwice' /\ LockInv'
      BY <1>0, <1>5, <2>1 DEF PopEmpty, Goto, IInv, TypeOK, NoTypeTwice, LockInv
    <2>4. QueueMatchesMap'
      BY <1>0, <1>5, <2>1 DEF PopEmpty, Goto, IInv, TypeOK, QueueMatchesMap, InQueue, Mapped
    <2>5. WindowInv'
      BY <1>0, <1>5, <2>1 DEF PopEmpty, Goto, IInv, TypeOK, WindowInv, Mapped
    <2> QED
      BY <2>2, <2>3, <2>4, <2>5 DEF IInv
  <1>6. ASSUME PopFind PROVE IInv'
    <2>0. /\ pc[Main] = "pop_find"
          /\ queue # <<>>
          /\ \A u \in Threads : u # Main => pc[u] = "idle"
      BY <1>0, <1>6, OneInside DEF PopFind, Goto, IInv
    <2>1. /\ pc' = [pc EXCEPT ![Main] = "pop_queue"]
          /\ res' = event_map[Head(queue)]
          /\ event_map' = [y \in Mapped \ {Head(queue)} |-> event_map[y]]
          /\ UNCHANGED <<queue, q_mutex, arg>>
      BY <1>6 DEF PopFind, Goto
    <2>2. Mapped' = Mapped \ {Head(queue)}
      BY <2>1 DEF Mapped
    <2>3. Head(queue) \in Types /\ InQueue(Head(queue))
      BY <2>0, TailFacts DEF IInv, TypeOK, InQueue
    <2>4. \A y \in Types : InQueue(y) <=> y \in Mapped
      BY <1>0, <2>0 DEF IInv, QueueMatchesMap
    <2>5. TypeOK'
      BY <1>0, <2>1, <2>2, <2>3, <2>4 DEF IInv, TypeOK, Steps
    <2>6. NoTypeTwice' /\ LockInv'
      BY <1>0, <2>0, <2>1 DEF IInv, TypeOK, NoTypeTwice, LockInv
    <2>7. QueueMatchesMap'
      BY <1>0, <2>0, <2>1, <2>2, <2>3, <2>4 DEF IInv, TypeOK, QueueMatchesMap, InQueue
    <2>8. WindowInv'
      BY <1>0, <2>0, <2>1, <2>2 DEF IInv, TypeOK, WindowInv
    <2> QED
      BY <2>5, <2>6, <2>7, <2>8 DEF IInv
  <1>7. ASSUME PopQueue PROVE IInv'
    <2>0. /\ pc[Main] = "pop_queue"
          /\ queue # <<>>
          /\ Head(queue) \notin Mapped
          /\ \A u \in Threads : u # Main => pc[u] = "idle"
      BY <1>0, <1>7, OneInside DEF PopQueue, Goto, IInv, WindowInv
    <2>1. /\ pc' = [pc EXCEPT ![Main] = "unlock"]
          /\ queue' = Tail(queue)
          /\ UNCHANGED <<event_map, q_mutex, arg, res>>
      BY <1>7 DEF PopQueue, Goto
    <2>2. queue \in Seq(Types) /\ queue' \in Seq(Types)
      BY <2>0, <2>1, TailFacts DEF IInv, TypeOK
    <2>3. TypeOK'
      BY <1>0, <2>1, <2>2 DEF IInv, TypeOK, Mapped, Steps
    <2>4. NoTypeTwice'
      BY <2>0, <2>1, <2>2, TailFacts DEF IInv, NoTypeTwice
    <2>5. \A y \in Types : InQueue(y)' <=> InQueue(y) /\ y # Head(queue)
      <3> SUFFICES ASSUME NEW y \in Types
                   PROVE  InQueue(y)' <=> InQueue(y) /\ y # Head(queue)
        OBVIOUS
      <3>1. ASSUME InQueue(y)' PROVE InQueue(y) /\ y # Head(queue)
        BY <2>0, <2>1, <2>2, <3>1, TailFacts DEF InQueue, IInv, NoTypeTwice
      <3>2. ASSUME InQueue(y), y # Head(queue) PROVE InQueue(y)'
        <4>1. PICK i \in DOMAIN queue : queue[i] = y
          BY <3>2 DEF InQueue
        <4>2. i # 1 /\ i - 1 \in 1 .. Len(queue) - 1
          BY <2>0, <2>2, <3>2, <4>1, TailFacts
        <4>3. Tail(queue)[i - 1] = y
          BY <2>0, <2>2, <4>1, <4>2, TailFacts
        <4> QED
          BY <2>0, <2>1, <2>2, <4>2, <4>3, TailFacts DEF InQueue
      <3> QED BY <3>1, <3>2
    <2>6. LockInv'
      BY <1>0, <2>0, <2>1 DEF IInv, TypeOK, LockInv
    <2>7. QueueMatchesMap'
      BY <1>0, <2>0, <2>1, <2>5 DEF IInv, TypeOK, QueueMatchesMap, Mapped
    <2>8. WindowInv'
      BY <1>0, <2>0, <2>1 DEF IInv, TypeOK, WindowInv
    <2> QED
      BY <2>3, <2>4, <2>6, <2>7, <2>8 DEF IInv
  <1>8. ASSUME NEW t \in Threads, Unlock(t) PROVE IInv'
    <2>1. /\ pc[t] = "unlock"
          /\ q_mutex = t
          /\ \A u \in Threads : u # t => pc[u] = "idle"
      BY <1>8, OneInside DEF Unlock, Goto, IInv
    <2>2. TypeOK'
      BY <1>8 DEF Unlock, Goto, IInv, TypeOK, Mapped, Steps
    <2>3. NoTypeTwice' /\ LockInv'
      BY <1>8, <2>1 DEF Unlock, Goto, IInv, TypeOK, NoTypeTwice, LockInv
    <2>4. QueueMatchesMap'
      BY <1>0, <1>8, <2>1 DEF Unlock, Goto, IInv, TypeOK, QueueMatchesMap, InQueue, Mapped
    <2>5. WindowInv'
      BY <1>0, <1>8, <2>1 DEF Unlock, Goto, IInv, TypeOK, WindowInv, Mapped
    <2> QED
      BY <2>2, <2>3, <2>4, <2>5 DEF IInv
  <1>9. CASE UNCHANGED vars
    BY <1>9 DEF vars, IInv, TypeOK, NoTypeTwice, LockInv, QueueMatchesMap, WindowInv, InQueue, Mapped
  <1> QED
    BY <1>1, <1>2, <1>3, <1>4, <1>5, <1>6, <1>7, <1>8, <1>9 DEF Next, Push, PopAndGet
-----------------------------------------------------------------------------
\* The strengthened invariant, on which the theorems below rest.
LEMMA Inductive == Spec => []IInv
  BY InitIInv, NextIInv, PTL DEF Spec

\* Under the mutex the FIFO holds event types only and the map gives each
\* mapped type an event of that very type.
THEOREM TypeCorrect == Spec => []TypeOK
  <1>1. IInv => TypeOK
    BY DEF IInv
  <1> QED
    BY <1>1, Inductive, PTL

\* The iterator that pop_and_get dereferences untested is never end(), for
\* any number of pushing threads.
THEOREM FrontAlwaysMapped == Spec => []FrontIsMapped
  <1>1. IInv => FrontIsMapped
    <2> SUFFICES ASSUME IInv, pc[Main] = "pop_find", queue # <<>>
                 PROVE  Head(queue) \in Mapped
      BY DEF FrontIsMapped
    <2>1. Head(queue) \in Types /\ InQueue(Head(queue))
      BY TailFacts DEF IInv, TypeOK, InQueue
    <2>2. \A u \in Threads : u # Main => pc[u] = "idle"
      BY OneInside DEF IInv, Threads
    <2> QED
      BY <2>1, <2>2 DEF IInv, QueueMatchesMap, Threads
  <1> QED
    BY <1>1, Inductive, PTL

\* push never queues a type that waits already, so the FIFO is bounded by the
\* number of event types whatever the threads push.
THEOREM NeverQueuedTwice == Spec => []NoTypeTwice
  <1>1. IInv => NoTypeTwice
    BY DEF IInv
  <1> QED
    BY <1>1, Inductive, PTL
-----------------------------------------------------------------------------
\* Two sequences with the same domain and the same elements are equal.
LEMMA SeqByElements ==
    ASSUME NEW S, NEW s \in Seq(S), NEW r \in Seq(S), DOMAIN s = DOMAIN r,
           \A i \in DOMAIN s : s[i] = r[i]
    PROVE  s = r
  BY LenProperties, SeqEqual

\* What the abstract line of events is when no push is between its two steps.
LEMMA PendingAtRest ==
    Storing = {} =>
        PendingEvents = [i \in DOMAIN PendingTypes |-> event_map[PendingTypes[i]]]
  BY DEF Storing, PendingEvents, PendingEvent

\* The abstract line of events is a sequence of events.
LEMMA PendingType == IInv => PendingTypes \in Seq(Types) /\ PendingEvents \in Seq(Event)
  <1> SUFFICES ASSUME IInv PROVE PendingTypes \in Seq(Types) /\ PendingEvents \in Seq(Event)
    OBVIOUS
  <1>1. PendingTypes \in Seq(Types)
    BY TailFacts DEF PendingTypes, IInv, TypeOK, WindowInv
  <1>2. \A i \in DOMAIN PendingTypes : PendingEvent(PendingTypes[i]) \in Event
    <2> SUFFICES ASSUME NEW i \in DOMAIN PendingTypes
                 PROVE  PendingEvent(PendingTypes[i]) \in Event
      OBVIOUS
    <2> DEFINE x == PendingTypes[i]
    <2>1. x \in Types
      BY <1>1, ElementOfSeq, LenProperties
    <2>2. CASE \E t \in Storing : arg[t].type = x
      <3> DEFINE u == CHOOSE t \in Storing : arg[t].type = x
      <3>1. u \in Storing
        BY <2>2
      <3>2. arg[u] \in Event
        BY <3>1 DEF Storing, IInv, WindowInv
      <3> QED
        BY <2>2, <3>2 DEF PendingEvent
    <2>3. CASE ~ \E t \in Storing : arg[t].type = x
      <3>1. InQueue(x)
        BY TailFacts DEF InQueue, PendingTypes, IInv, TypeOK, WindowInv
      <3>2. ~ (pc[Main] = "pop_queue" /\ x = Head(queue))
        <4> SUFFICES ASSUME pc[Main] = "pop_queue", x = Head(queue) PROVE FALSE
          OBVIOUS
        <4>1. /\ queue # <<>> /\ queue \in Seq(Types)
              /\ x = Tail(queue)[i] /\ i \in DOMAIN Tail(queue)
          BY DEF IInv, TypeOK, WindowInv, PendingTypes
        <4>2. /\ i \in Nat /\ i + 1 \in DOMAIN queue /\ 1 \in DOMAIN queue
              /\ queue[i + 1] = queue[1] /\ i + 1 # 1
          BY <4>1, TailFacts
        <4> QED
          BY <4>2 DEF IInv, NoTypeTwice
      <3>3. x \in Mapped
        BY <2>1, <2>3, <3>1, <3>2 DEF IInv, QueueMatchesMap, Storing
      <3> QED
        BY <2>3, <3>3 DEF PendingEvent, IInv, TypeOK
    <2> QED
      BY <2>2, <2>3
  <1>3. DOMAIN PendingTypes = 1 .. Len(PendingTypes) /\ Len(PendingTypes) \in Nat
    BY <1>1, LenProperties
  <1>4. PendingEvents \in [1 .. Len(PendingTypes) -> Event]
    BY <1>2, <1>3 DEF PendingEvents
  <1>5. PendingEvents \in Seq(Event)
    BY <1>3, <1>4, SeqDef
  <1> QED
    BY <1>1, <1>5
-----------------------------------------------------------------------------
LEMMA RefineInit == Init => MB!Init
  <1> SUFFICES ASSUME Init PROVE PendingEvents = <<>> /\ res = NoEvent
    BY DEF MB!Init
  <1>1. PendingTypes = <<>> /\ Storing = {}
    BY DEF Init, PendingTypes, Storing, Threads
  <1>2. PendingEvents \in Seq(Event) /\ DOMAIN PendingEvents = {}
    BY <1>1, InitIInv, PendingType, EmptySeq, LenProperties DEF PendingEvents
  <1> QED
    BY <1>2, EmptySeq, LenProperties DEF Init

\* push takes effect where it looks its type up.
LEMMA RefinePushFind ==
    ASSUME IInv, IInv', NEW t \in Pushers, PushFind(t)
    PROVE  MB!Put(arg[t])
  <1> DEFINE x == arg[t].type
  <1>0. /\ t \in Threads /\ Main \in Threads
        /\ pc[t] = "push_find"
        /\ arg[t] \in Event
        /\ x \in Types
        /\ \A u \in Threads : u # t => pc[u] = "idle"
    BY OneInside DEF PushFind, Goto, IInv, WindowInv, Event, Threads
  <1>1. /\ pc' = [pc EXCEPT ![t] = "push_store"]
        /\ queue' = IF x \in Mapped THEN queue ELSE Append(queue, x)
        /\ UNCHANGED <<event_map, q_mutex, arg, res>>
    BY DEF PushFind, Goto
  <1>2. Storing = {} /\ PendingTypes = queue
    BY <1>0 DEF Storing, PendingTypes
  <1>3. Storing' = {t} /\ PendingTypes' = queue'
    BY <1>0, <1>1 DEF Storing, PendingTypes, IInv, TypeOK
  <1>4. PendingEvents = [i \in DOMAIN queue |-> event_map[queue[i]]]
    BY <1>2, PendingAtRest
  <1>5. PendingEvents' =
            [i \in DOMAIN queue' |-> IF queue'[i] = x THEN arg[t] ELSE event_map[queue'[i]]]
    BY <1>1, <1>3 DEF PendingEvents, PendingEvent
  <1>a. (PendingEvents \in Seq(Event))'
    BY PendingType, PTL
  <1>6. /\ PendingEvents \in Seq(Event) /\ PendingEvents' \in Seq(Event)
        /\ queue \in Seq(Types)
    BY <1>a, PendingType DEF IInv, TypeOK, Event
  <1>7. \A i \in DOMAIN queue : queue[i] \in Mapped /\ event_map[queue[i]].type = queue[i]
    <2> TAKE i \in DOMAIN queue
    <2>1. queue[i] \in Types /\ InQueue(queue[i])
      BY <1>6, ElementOfSeq, LenProperties DEF InQueue
    <2>2. queue[i] \in Mapped
      BY <1>0, <2>1 DEF IInv, QueueMatchesMap
    <2> QED
      BY <2>2 DEF IInv, TypeOK
  <1>8. CASE x \in Mapped
    <2>1. InQueue(x)
      BY <1>0, <1>8 DEF IInv, QueueMatchesMap
    <2>2. PICK k \in DOMAIN queue : queue[k] = x
      BY <2>1 DEF InQueue
    <2>3. \A i \in DOMAIN queue : queue[i] = x <=> i = k
      BY <2>2 DEF IInv, NoTypeTwice
    <2>4. PendingEvents' = [PendingEvents EXCEPT ![k] = arg[t]]
      BY <1>1, <1>4, <1>5, <1>8, <2>2, <2>3
    <2>5. k \in DOMAIN PendingEvents /\ PendingEvents[k].type = x
      BY <1>4, <1>7, <2>2
    <2> QED
      BY <1>1, <2>4, <2>5 DEF MB!Put, MB!Replace
  <1>9. CASE x \notin Mapped
    <2>1. queue' = Append(queue, x)
      BY <1>1, <1>9
    <2>2. DOMAIN PendingEvents = DOMAIN queue /\ Len(PendingEvents) = Len(queue)
      BY <1>4, <1>6, LenProperties
    <2>3. \A i \in DOMAIN queue : queue[i] # x
      BY <1>7, <1>9
    <2>4. DOMAIN queue = 1 .. Len(queue) /\ Len(queue) \in Nat
      BY <1>6, LenProperties
    <2>5. DOMAIN PendingEvents' = 1 .. Len(queue) + 1
      BY <1>0, <1>5, <1>6, <2>1, AppendFacts
    <2>6. \A i \in 1 .. Len(queue) : PendingEvents'[i] = PendingEvents[i]
      <3> TAKE i \in 1 .. Len(queue)
      <3>1. queue'[i] = queue[i] /\ i \in DOMAIN queue /\ i \in DOMAIN queue'
        BY <1>0, <1>6, <2>1, <2>4, AppendFacts
      <3> QED
        BY <1>4, <1>5, <2>3, <3>1
    <2>7. PendingEvents'[Len(queue) + 1] = arg[t]
      <3>1. queue'[Len(queue) + 1] = x /\ Len(queue) + 1 \in DOMAIN queue'
        BY <1>0, <1>6, <2>1, AppendFacts
      <3> QED
        BY <1>5, <3>1
    <2>8. PendingEvents' = Append(PendingEvents, arg[t])
      <3> DEFINE s == PendingEvents'
                 r == Append(PendingEvents, arg[t])
      <3>1. r \in Seq(Event) /\ DOMAIN r = 1 .. Len(queue) + 1
        BY <1>0, <1>6, <2>2, AppendFacts
      <3>2. \A i \in 1 .. Len(queue) : r[i] = PendingEvents[i]
        BY <1>0, <1>6, <2>2, AppendFacts
      <3>3. r[Len(queue) + 1] = arg[t]
        BY <1>0, <1>6, <2>2, AppendFacts
      <3>4. \A i \in 1 .. Len(queue) + 1 : s[i] = r[i]
        <4> TAKE i \in 1 .. Len(queue) + 1
        <4>1. i \in 1 .. Len(queue) \/ i = Len(queue) + 1
          BY <2>4
        <4>2. ASSUME i \in 1 .. Len(queue) PROVE s[i] = r[i]
          BY <2>6, <3>2, <4>2
        <4>3. ASSUME i = Len(queue) + 1 PROVE s[i] = r[i]
          BY <2>7, <3>3, <4>3
        <4> QED BY <4>1, <4>2, <4>3
      <3>5. s \in Seq(Event)
        BY <1>6
      <3> HIDE DEF s, r
      <3>6. DOMAIN s = 1 .. Len(queue) + 1
        BY <2>5 DEF s
      <3>7. s = r
        BY <3>1, <3>4, <3>5, <3>6, SeqByElements
      <3> QED
        BY <3>7 DEF s, r
    <2>9. \A i \in DOMAIN PendingEvents : PendingEvents[i].type # x
      BY <1>4, <1>7, <1>9
    <2> QED
      BY <1>1, <2>8, <2>9 DEF MB!Put, MB!Enqueue
  <1> QED
    BY <1>8, <1>9

\* pop_and_get takes effect where it copies the event out of the map.
LEMMA RefinePopFind ==
    ASSUME IInv, IInv', PopFind
    PROVE  MB!Take
  <1>0. /\ Main \in Threads
        /\ pc[Main] = "pop_find"
        /\ queue # <<>>
        /\ \A u \in Threads : u # Main => pc[u] = "idle"
    BY OneInside DEF PopFind, Goto, IInv, Threads
  <1>1. /\ pc' = [pc EXCEPT ![Main] = "pop_queue"]
        /\ res' = event_map[Head(queue)]
        /\ event_map' = [y \in Mapped \ {Head(queue)} |-> event_map[y]]
        /\ UNCHANGED <<queue, q_mutex, arg>>
    BY DEF PopFind, Goto
  <1>2. Storing = {} /\ PendingTypes = queue
    BY <1>0 DEF Storing, PendingTypes
  <1>3. Storing' = {} /\ PendingTypes' = Tail(queue)
    BY <1>0, <1>1 DEF Storing, PendingTypes, IInv, TypeOK
  <1>4. PendingEvents = [i \in DOMAIN queue |-> event_map[queue[i]]]
    BY <1>2, PendingAtRest
  <1>5. PendingEvents' = [i \in DOMAIN Tail(queue) |-> event_map'[Tail(queue)[i]]]
    BY <1>3 DEF PendingEvents, PendingEvent
  <1>a. (PendingEvents \in Seq(Event))'
    BY PendingType, PTL
  <1>6. /\ PendingEvents \in Seq(Event) /\ PendingEvents' \in Seq(Event)
        /\ queue \in Seq(Types)
    BY <1>a, PendingType DEF IInv, TypeOK, Event
  <1>7. DOMAIN PendingEvents = 1 .. Len(queue) /\ Len(queue) \in Nat \ {0}
    BY <1>0, <1>4, <1>6, TailFacts
  <1>8. PendingEvents # <<>> /\ Len(PendingEvents) = Len(queue)
    BY <1>6, <1>7, LenProperties, EmptySeq
  <1>9. Head(PendingEvents) = event_map[Head(queue)]
    BY <1>0, <1>4, <1>6, <1>7, <1>8, TailFacts
  <1>10. DOMAIN Tail(PendingEvents) = DOMAIN PendingEvents'
    BY <1>0, <1>5, <1>6, <1>8, TailFacts
  <1>11. \A i \in DOMAIN PendingEvents' : PendingEvents'[i] = Tail(PendingEvents)[i]
    <2> SUFFICES ASSUME NEW i \in 1 .. Len(queue) - 1
                 PROVE  PendingEvents'[i] = Tail(PendingEvents)[i]
      BY <1>0, <1>5, <1>6, TailFacts
    <2>1. /\ i \in DOMAIN Tail(queue)
          /\ i + 1 \in DOMAIN queue /\ 1 \in DOMAIN queue /\ i + 1 # 1
          /\ Tail(queue)[i] = queue[i + 1]
          /\ Head(queue) = queue[1]
      BY <1>0, <1>6, <1>7, TailFacts
    <2>2. queue[i + 1] # Head(queue) /\ queue[i + 1] \in Types /\ InQueue(queue[i + 1])
      BY <1>6, <2>1, ElementOfSeq, LenProperties DEF IInv, NoTypeTwice, InQueue
    <2>3. queue[i + 1] \in Mapped
      BY <1>0, <2>2 DEF IInv, QueueMatchesMap
    <2>4. PendingEvents'[i] = event_map[queue[i + 1]]
      BY <1>1, <1>5, <2>1, <2>2, <2>3
    <2>5. Tail(PendingEvents)[i] = PendingEvents[i + 1]
      BY <1>6, <1>8, TailFacts
    <2> QED
      BY <1>4, <2>1, <2>4, <2>5
  <1>12. PendingEvents' = Tail(PendingEvents)
    <2> DEFINE s == PendingEvents'
               r == Tail(PendingEvents)
    <2>1. s \in Seq(Event) /\ r \in Seq(Event) /\ DOMAIN s = DOMAIN r
      BY <1>6, <1>8, <1>10, TailFacts
    <2>2. \A i \in DOMAIN s : s[i] = r[i]
      BY <1>11
    <2> HIDE DEF s, r
    <2>3. s = r
      BY <2>1, <2>2, SeqByElements
    <2> QED
      BY <2>3 DEF s, r
  <1> QED
    BY <1>1, <1>8, <1>9, <1>12 DEF MB!Take

\* The other steps of push and pop_and_get leave the abstract line alone.
LEMMA RefineRest ==
    ASSUME IInv, IInv',
           \/ \E t \in Pushers : (\E e \in Event : PushLock(t, e)) \/ PushStore(t)
           \/ PopLock \/ PopQueue
           \/ \E t \in Threads : Unlock(t)
           \/ UNCHANGED vars
    PROVE  UNCHANGED MB!mailboxVars
  <1>0. Main \in Threads /\ Pushers \subseteq Threads
    BY DEF Threads
  <1>1. ASSUME NEW t \in Pushers, NEW e \in Event, PushLock(t, e)
        PROVE  UNCHANGED <<PendingEvents, res>>
    <2>1. \A u \in Threads : pc[u] = "idle"
      BY <1>1, FreeAssumption DEF PushLock, Lock, IInv, LockInv
    <2>2. Storing = {} /\ Storing' = {} /\ UNCHANGED <<PendingTypes, event_map, res>>
      BY <1>0, <1>1, <2>1 DEF PushLock, Lock, Goto, Storing, PendingTypes, IInv, TypeOK
    <2> QED
      BY <2>2 DEF PendingEvents, PendingEvent
  <1>2. ASSUME NEW t \in Pushers, PushStore(t)
        PROVE  UNCHANGED <<PendingEvents, res>>
    <2> DEFINE x == arg[t].type
    <2>1. /\ pc[t] = "push_store"
          /\ \A u \in Threads : u # t => pc[u] = "idle"
      BY <1>0, <1>2, OneInside DEF PushStore, Goto, IInv
    <2>2. /\ pc' = [pc EXCEPT ![t] = "unlock"]
          /\ event_map' = [y \in Mapped \cup {x} |-> IF y = x THEN arg[t] ELSE event_map[y]]
          /\ UNCHANGED <<queue, q_mutex, arg, res>>
      BY <1>2 DEF PushStore, Goto
    <2>3. Storing = {t} /\ Storing' = {} /\ PendingTypes = queue /\ PendingTypes' = queue
      BY <1>0, <2>1, <2>2 DEF Storing, PendingTypes, IInv, TypeOK
    <2>4. \A i \in DOMAIN queue : queue[i] \in Mapped \cup {x}
      <3> TAKE i \in DOMAIN queue
      <3>1. queue[i] \in Types /\ InQueue(queue[i])
        BY ElementOfSeq, LenProperties DEF InQueue, IInv, TypeOK
      <3> QED
        BY <1>0, <2>1, <3>1 DEF IInv, QueueMatchesMap
    <2>5. PendingEvents = [i \in DOMAIN queue |-> IF queue[i] = x THEN arg[t] ELSE event_map[queue[i]]]
      BY <2>3 DEF PendingEvents, PendingEvent
    <2>6. PendingEvents' = [i \in DOMAIN queue |-> event_map'[queue[i]]]
      BY <2>3 DEF PendingEvents, PendingEvent
    <2> QED
      BY <2>2, <2>4, <2>5, <2>6
  <1>3. ASSUME PopLock PROVE UNCHANGED <<PendingEvents, res>>
    <2>1. \A u \in Threads : pc[u] = "idle"
      BY <1>3, FreeAssumption DEF PopLock, Lock, IInv, LockInv
    <2>2. Storing = {} /\ Storing' = {} /\ UNCHANGED <<PendingTypes, event_map, res>>
      BY <1>0, <1>3, <2>1 DEF PopLock, Lock, Goto, Storing, PendingTypes, IInv, TypeOK
    <2> QED
      BY <2>2 DEF PendingEvents, PendingEvent
  <1>4. ASSUME PopQueue PROVE UNCHANGED <<PendingEvents, res>>
    <2>1. \A u \in Threads : u # Main => pc[u] = "idle"
      BY <1>0, <1>4, OneInside DEF PopQueue, Goto, IInv
    <2>2. Storing = {} /\ Storing' = {} /\ UNCHANGED <<PendingTypes, event_map, res>>
      BY <1>0, <1>4, <2>1 DEF PopQueue, Goto, Storing, PendingTypes, IInv, TypeOK
    <2> QED
      BY <2>2 DEF PendingEvents, PendingEvent
  <1>5. ASSUME NEW t \in Threads, Unlock(t) PROVE UNCHANGED <<PendingEvents, res>>
    <2>1. \A u \in Threads : u # t => pc[u] = "idle"
      BY <1>5, OneInside DEF Unlock, Goto, IInv
    <2>2. Storing = {} /\ Storing' = {} /\ UNCHANGED <<PendingTypes, event_map, res>>
      BY <1>0, <1>5, <2>1 DEF Unlock, Goto, Storing, PendingTypes, IInv, TypeOK
    <2> QED
      BY <2>2 DEF PendingEvents, PendingEvent
  <1>6. ASSUME UNCHANGED vars PROVE UNCHANGED <<PendingEvents, res>>
    BY <1>6 DEF vars, PendingEvents, PendingEvent, PendingTypes, Storing
  <1> QED
    BY <1>1, <1>2, <1>3, <1>4, <1>5, <1>6 DEF MB!mailboxVars

LEMMA RefineNext == IInv /\ IInv' /\ [Next]_vars => [MB!Next]_(MB!mailboxVars)
  <1> SUFFICES ASSUME IInv, IInv', [Next]_vars
               PROVE  MB!Next \/ UNCHANGED MB!mailboxVars
    OBVIOUS
  <1>1. ASSUME NEW t \in Pushers, PushFind(t) PROVE MB!Next
    <2>1. arg[t] \in MB!Event
      BY <1>1 DEF PushFind, Goto, IInv, WindowInv, Threads, Event, MB!Event
    <2> QED
      BY <1>1, <2>1, RefinePushFind DEF MB!Next
  <1>2. ASSUME PopFind PROVE MB!Next
    BY <1>2, RefinePopFind DEF MB!Next
  <1>3. ASSUME PopEmpty PROVE MB!Next
    <2>1. \A u \in Threads : u # Main => pc[u] = "idle"
      BY <1>3, OneInside DEF PopEmpty, Goto, IInv, Threads
    <2>2. /\ Storing = {} /\ Storing' = {}
          /\ PendingTypes = <<>> /\ PendingTypes' = <<>>
          /\ event_map' = event_map /\ res' = NoEvent
      BY <1>3, <2>1 DEF PopEmpty, Goto, Storing, PendingTypes, IInv, TypeOK, Threads
    <2>3. PendingEvents' = PendingEvents
      BY <2>2 DEF PendingEvents, PendingEvent
    <2>4. PendingEvents \in Seq(Event) /\ DOMAIN PendingEvents = {}
      BY <2>2, PendingType, EmptySeq, LenProperties DEF PendingEvents
    <2>5. PendingEvents = <<>>
      BY <2>4, EmptySeq, LenProperties
    <2> QED
      BY <2>2, <2>3, <2>5 DEF MB!Next, MB!TakeNothing
  <1> QED
    BY <1>1, <1>2, <1>3, RefineRest DEF Next, Push, PopAndGet

\* push and pop_and_get, as they run under q_mutex, are atomic operations on a
\* line of events with one place per type.
THEOREM Refinement == Spec => ImplementsMailbox
  BY RefineInit, RefineNext, Inductive, PTL DEF Spec, ImplementsMailbox, MB!Spec
=============================================================================
