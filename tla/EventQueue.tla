----------------------------- MODULE EventQueue -----------------------------
(***************************************************************************)
(* event_queue_struct of src/src/global.h and global.cc: the queue through *)
(* which the threads that process Telegram updates ask the main loop to    *)
(* redraw.  A FIFO of event types and a map from a type to the latest      *)
(* event of that type, both behind q_mutex.  push and pop_and_get each run *)
(* in several steps, so that what the mutex is for can be checked.         *)
(***************************************************************************)
EXTENDS Naturals, Sequences

CONSTANTS Types,     \* the ET_ constants of event_types.h
          Payloads,  \* what an event carries beside its type
          NoEvent,   \* the null shared_ptr
          Pushers,   \* the threads that call push
          Main,      \* the thread that calls pop_and_get
          Free       \* q_mutex when no thread holds it

Threads == Pushers \cup {Main}

ASSUME FreeAssumption == Free \notin Threads

Event == [type : Types, data : Payloads]

ASSUME NoEventAssumption == NoEvent \notin Event

VARIABLES queue,      \* std::queue<int>: the pending types
          event_map,  \* std::map<int, shared_ptr<event_base>>
          q_mutex,    \* the thread that holds the mutex, or Free
          pc,         \* where each thread is in push or pop_and_get
          arg,        \* the event each thread is pushing
          res         \* the result pop_and_get hands to the main loop

vars == <<queue, event_map, q_mutex, pc, arg, res>>

Steps == {"idle", "push_find", "push_store", "pop_find", "pop_queue", "unlock"}

Mapped == DOMAIN event_map

InQueue(t) == \E i \in DOMAIN queue : queue[i] = t

Init ==
    /\ queue = <<>>
    /\ event_map = [t \in {} |-> NoEvent]
    /\ q_mutex = Free
    /\ pc = [t \in Threads |-> "idle"]
    /\ arg = [t \in Threads |-> NoEvent]
    /\ res = NoEvent
-----------------------------------------------------------------------------
Goto(t, from, to) ==
    /\ pc[t] = from
    /\ pc' = [pc EXCEPT ![t] = to]

\* q_mutex.lock(): blocks, that is, is not enabled, while the mutex is held.
Lock(t, to) ==
    /\ q_mutex = Free
    /\ Goto(t, "idle", to)
    /\ q_mutex' = t

PushLock(t, e) ==
    /\ Lock(t, "push_find")
    /\ arg' = [arg EXCEPT ![t] = e]
    /\ UNCHANGED <<queue, event_map, res>>

\* Mutant of PushFind: the type is queued without a look at the map.
PushFindAlways(t) ==
    /\ Goto(t, "push_find", "push_store")
    /\ queue' = Append(queue, arg[t].type)
    /\ UNCHANGED <<event_map, q_mutex, arg, res>>

\* A type is queued only when no event of that type is waiting already.
PushFind(t) ==
    /\ Goto(t, "push_find", "push_store")
    /\ queue' = IF arg[t].type \in Mapped THEN queue ELSE Append(queue, arg[t].type)
    /\ UNCHANGED <<event_map, q_mutex, arg, res>>

\* Mutant of PushStore: the event is stored under the type at the front.
PushStoreFront(t) ==
    /\ Goto(t, "push_store", "unlock")
    /\ event_map' = [x \in Mapped \cup {Head(queue)} |->
                        IF x = Head(queue) THEN arg[t] ELSE event_map[x]]
    /\ UNCHANGED <<queue, q_mutex, arg, res>>

PushStore(t) ==
    /\ Goto(t, "push_store", "unlock")
    /\ event_map' = [x \in Mapped \cup {arg[t].type} |->
                        IF x = arg[t].type THEN arg[t] ELSE event_map[x]]
    /\ UNCHANGED <<queue, q_mutex, arg, res>>

PopLock ==
    /\ Lock(Main, "pop_find")
    /\ UNCHANGED <<queue, event_map, arg, res>>

\* Mutant of PopEmpty: the test for an empty queue is off by one.
PopEmptyOffByOne ==
    /\ Len(queue) < 2
    /\ Goto(Main, "pop_find", "unlock")
    /\ res' = NoEvent
    /\ UNCHANGED <<queue, event_map, q_mutex, arg>>

\* Mutant of PopEmpty: the call may return early whatever the queue holds.
PopEmptyEarly ==
    /\ Goto(Main, "pop_find", "unlock")
    /\ UNCHANGED <<queue, event_map, q_mutex, arg, res>>

PopEmpty ==
    /\ queue = <<>>
    /\ Goto(Main, "pop_find", "unlock")
    /\ res' = NoEvent
    /\ UNCHANGED <<queue, event_map, q_mutex, arg>>

\* find(queue.front()), copy the event out and erase it from the map.
PopFind ==
    /\ queue # <<>>
    /\ Goto(Main, "pop_find", "pop_queue")
    /\ res' = event_map[Head(queue)]
    /\ event_map' = [x \in Mapped \ {Head(queue)} |-> event_map[x]]
    /\ UNCHANGED <<queue, q_mutex, arg>>

\* Mutant of PopQueue: the type stays in the queue.
PopQueueForgotten ==
    /\ Goto(Main, "pop_queue", "unlock")
    /\ UNCHANGED <<queue, event_map, q_mutex, arg, res>>

PopQueue ==
    /\ Goto(Main, "pop_queue", "unlock")
    /\ queue' = Tail(queue)
    /\ UNCHANGED <<event_map, q_mutex, arg, res>>

\* The argument of push ends with the call.
Unlock(t) ==
    /\ Goto(t, "unlock", "idle")
    /\ q_mutex' = Free
    /\ arg' = [arg EXCEPT ![t] = NoEvent]
    /\ UNCHANGED <<queue, event_map, res>>

Push(t) ==
    \/ \E e \in Event : PushLock(t, e)
    \/ PushFind(t)
    \/ PushStore(t)

PopAndGet == PopLock \/ PopEmpty \/ PopFind \/ PopQueue

Next ==
    \/ \E t \in Pushers : Push(t)
    \/ PopAndGet
    \/ \E t \in Threads : Unlock(t)

Spec == Init /\ [][Next]_vars

\* No thread stops inside a critical section, and the main loop, which polls
\* without ever blocking elsewhere, is not locked out of the mutex for ever.
Fairness ==
    /\ \A t \in Threads : WF_vars(Unlock(t))
    /\ \A t \in Pushers : WF_vars(PushFind(t) \/ PushStore(t))
    /\ SF_vars(PopLock)
    /\ WF_vars(PopEmpty \/ PopFind \/ PopQueue)

FairSpec == Spec /\ Fairness
-----------------------------------------------------------------------------
\* Types of the variables.
TypeOK ==
    /\ queue \in Seq(Types)
    /\ Mapped \subseteq Types
    /\ event_map \in [Mapped -> Event]
    /\ \A x \in Mapped : event_map[x].type = x
    /\ q_mutex \in Threads \cup {Free}
    /\ pc \in [Threads -> Steps]
    /\ arg \in [Threads -> Event \cup {NoEvent}]
    /\ res \in Event \cup {NoEvent}

\* pop_and_get dereferences the iterator find(queue.front()) without a test:
\* whenever it does, the front type has an event in the map.
FrontIsMapped ==
    pc[Main] = "pop_find" /\ queue # <<>> => Head(queue) \in Mapped

\* However often the other threads push, a type waits at most once, so the
\* queue never holds more entries than there are event types.
NoTypeTwice ==
    \A i, j \in DOMAIN queue : queue[i] = queue[j] => i = j

\* The mutex is held by exactly the thread that is inside push or pop_and_get.
LockInv ==
    \A t \in Threads : pc[t] # "idle" <=> q_mutex = t

\* Outside the windows the mutex protects, the queue and the map agree.
QueueMatchesMap ==
    \A x \in Types :
        InQueue(x) <=> \/ x \in Mapped
                       \/ \E t \in Threads : pc[t] = "push_store" /\ x = arg[t].type
                       \/ pc[Main] = "pop_queue" /\ x = Head(queue)

\* A pusher's event is known, and the front a pop is about to drop is there
\* and is no longer mapped.
WindowInv ==
    /\ \A t \in Threads : pc[t] \in {"push_find", "push_store"} => arg[t] \in Event
    /\ \A t \in Threads : pc[t] \in {"pop_find", "pop_queue"} => t = Main
    /\ pc[Main] = "pop_queue" => queue # <<>> /\ Head(queue) \notin Mapped

IInv == TypeOK /\ NoTypeTwice /\ LockInv /\ QueueMatchesMap /\ WindowInv

\* A queued type is popped, whatever the pushers do meanwhile: a busy pusher
\* of one type cannot starve the redraw another type asked for.
QueuedIsDelivered ==
    \A x \in Types : InQueue(x) ~> (res # NoEvent /\ res.type = x)
-----------------------------------------------------------------------------
(***************************************************************************)
(* The refinement.  push takes effect at PushFind and pop_and_get at       *)
(* PopFind; between there and the end of the window, the abstract line of  *)
(* events is read off the queue with the missing piece supplied.           *)
(***************************************************************************)
Storing == {t \in Threads : pc[t] = "push_store"}

PendingTypes == IF pc[Main] = "pop_queue" THEN Tail(queue) ELSE queue

PendingEvent(x) ==
    IF \E t \in Storing : arg[t].type = x
    THEN arg[CHOOSE t \in Storing : arg[t].type = x]
    ELSE event_map[x]

PendingEvents == [i \in DOMAIN PendingTypes |-> PendingEvent(PendingTypes[i])]

MB == INSTANCE Mailbox WITH pending <- PendingEvents, res <- res

\* push and pop_and_get behave as if each were one atomic step on a line of
\* events with one place per type.
ImplementsMailbox == MB!Spec
=============================================================================
