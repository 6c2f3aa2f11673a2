------------------------------ MODULE Mailbox ------------------------------
(***************************************************************************)
(* What event_queue (src/src/global.h, global.cc) promises its users, with *)
(* no mutex and no split between a FIFO of type numbers and a map of       *)
(* events: a line of events, at most one per type, in the order in which   *)
(* the types were first put, each event replaced in place by a later event *)
(* of its type.  EventQueue is shown to implement this specification.      *)
(***************************************************************************)
EXTENDS Naturals, Sequences

CONSTANTS Types,     \* the ET_ constants of event_types.h
          Payloads,  \* what an event carries beside its type
          NoEvent    \* the null shared_ptr pop_and_get returns when idle

Event == [type : Types, data : Payloads]

VARIABLES pending,   \* the events waiting for the main loop, oldest type first
          res        \* the result of the last pop_and_get

mailboxVars == <<pending, res>>

Init ==
    /\ pending = <<>>
    /\ res = NoEvent

Replace(e) ==
    \E i \in DOMAIN pending :
        /\ pending[i].type = e.type
        /\ pending' = [pending EXCEPT ![i] = e]

Enqueue(e) ==
    /\ \A i \in DOMAIN pending : pending[i].type # e.type
    /\ pending' = Append(pending, e)

Put(e) ==
    /\ Replace(e) \/ Enqueue(e)
    /\ UNCHANGED res

Take ==
    /\ pending # <<>>
    /\ res' = Head(pending)
    /\ pending' = Tail(pending)

TakeNothing ==
    /\ pending = <<>>
    /\ res' = NoEvent
    /\ UNCHANGED pending

Next ==
    \/ \E e \in Event : Put(e)
    \/ Take
    \/ TakeNothing

Spec == Init /\ [][Next]_mailboxVars
=============================================================================
