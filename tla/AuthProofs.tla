----------------------------- MODULE AuthProofs -----------------------------
(***************************************************************************)
(* The login, for any number of errors, late answers and lost sessions:    *)
(* the program takes itself for authorized only on a session that is       *)
(* ready, --logout ends the old session and only that one, and an error    *)
(* that comes late repeats nothing.                                        *)
(***************************************************************************)
EXTENDS Auth, SequenceFacts

(***************************************************************************)
(* The inductive invariant.                                                *)
(***************************************************************************)
\* A session that is ready or past that; TDLib never goes back from there.
EndStates == {"Ready", "LoggingOut", "Closed"}

IsUpdate(i) == inbox[i].kind = "update"
IsError(i) == inbox[i].kind = "error"

\* A query fits the state it was sent in, and logOut is sent in Ready only.
QueryInv ==
    /\ \A q \in queries :
        \/ q.asked \in DOMAIN Asks /\ q.function \in Asks[q.asked]
        \/ q.asked = "Ready" /\ q.function = "logOut"
    /\ \A i \in DOMAIN inbox : IsError(i) => inbox[i].asked \in DOMAIN Asks

\* What auth_query_id_ tells: a query or error with the current number is about
\* the current state.
NumberInv ==
    /\ \A q \in queries : q.id <= auth_query_id_ /\ (q.id = auth_query_id_ => q.asked = auth_state_)
    /\ \A i \in DOMAIN inbox : IsError(i) =>
        inbox[i].id <= auth_query_id_ /\ (inbox[i].id = auth_query_id_ => inbox[i].asked = auth_state_)

\* After an update to Ready, received or on the way, only the end of the
\* session follows.
EndInv ==
    /\ auth_state_ \in EndStates =>
        /\ td_state \in EndStates
        /\ \A i \in DOMAIN inbox : IsUpdate(i) => inbox[i].state \in {"LoggingOut", "Closed"}
    /\ \A i \in DOMAIN inbox : IsUpdate(i) /\ inbox[i].state \in EndStates =>
        /\ td_state \in EndStates
        /\ \A j \in DOMAIN inbox : j > i /\ IsUpdate(j) => inbox[j].state \in {"LoggingOut", "Closed"}

\* A session that is closed, or about to be replaced, has left TDLib's database.
ClosedInv ==
    /\ \/ need_restart_ \/ td_state = "Closed" \/ auth_state_ = "Closed"
       \/ \E i \in DOMAIN inbox : IsUpdate(i) /\ inbox[i].state = "Closed"
       => database = "WaitPhoneNumber"
    /\ database # "Closed"
    /\ need_restart_ => auth_state_ \in EndStates

\* The client itself.
ClientInv ==
    /\ AuthorizedIsReady
    /\ logout_next => option /\ ~ fresh /\ ~ is_auth_
    /\ (\E q \in queries : q.function = "logOut") => auth_state_ \in EndStates /\ ~ fresh

\* Once --logout has been carried out and until the user is asked to log in:
\* either the old session is ending, or a new client finds an empty database.
LogoutInv ==
    option /\ ~ fresh /\ ~ logout_next =>
        /\ phase = "init_auth"
        /\ ~ is_auth_
        /\ \A i \in DOMAIN inbox : IsUpdate(i) => inbox[i].state # "Ready"
        /\ \/ auth_state_ \in EndStates
           \/ /\ database = "WaitPhoneNumber"
              /\ auth_state_ \in {"None", "WaitTdlibParameters"}
              /\ td_state \in {"WaitTdlibParameters", "WaitPhoneNumber", "LoggingOut", "Closed"}
              /\ \A q \in queries : q.asked = "WaitTdlibParameters"
              /\ \A i \in DOMAIN inbox : IsUpdate(i) =>
                    inbox[i].state \in {"WaitTdlibParameters", "WaitPhoneNumber", "LoggingOut", "Closed"}

IInv ==
    /\ TypeOK /\ QueryInv /\ NumberInv /\ EndInv /\ ClosedInv /\ ClientInv /\ LogoutInv
    /\ OldSessionEnded
-----------------------------------------------------------------------------
\* What the tables of queries and outcomes say, state by state.
LEMMA TableFacts ==
    /\ DOMAIN Asks = {"WaitTdlibParameters", "WaitPhoneNumber", "WaitCode", "WaitEmailAddress",
                      "WaitEmailCode", "WaitRegistration"}
    /\ \A s \in DOMAIN Asks : Asks[s] \subseteq DOMAIN Outcomes \ {"logOut"}
    /\ Asks["WaitTdlibParameters"] = {"setTdlibParameters"}
    /\ Prompts = DOMAIN Asks \ {"WaitTdlibParameters"}
  BY DEF Asks, Outcomes, Prompts

LEMMA OutcomeFacts ==
    ASSUME database \in States, NEW f \in DOMAIN Outcomes, NEW s \in Outcomes[f]
    PROVE  /\ s \in States
           /\ database # "Closed" => s # "Closed"
           /\ f = "logOut" => s = "LoggingOut"
           /\ f = "setTdlibParameters" => s = database
           /\ "logOut" \in DOMAIN Outcomes
  BY DEF Outcomes, States, Asks

LEMMA StateFacts ==
    /\ EndStates \subseteq States /\ DOMAIN Asks \subseteq States
    /\ EndStates \cap DOMAIN Asks = {}
    /\ "WaitTdlibParameters" \in States /\ "WaitPhoneNumber" \in States
  BY TableFacts DEF EndStates, States

\* Messages are updates or errors.
LEMMA MessageFacts ==
    /\ \A s \in States : Update(s) \in Message /\ Update(s).kind = "update" /\ Update(s).state = s
    /\ \A q \in Query : /\ Error(q) \in Message /\ Error(q).kind = "error"
                        /\ Error(q).asked = q.asked /\ Error(q).id = q.id
    /\ \A m \in Message : /\ m.kind = "update" => m.state \in States
                          /\ m.kind = "error" => m.asked \in States /\ m.id \in Nat
  BY DEF Update, Error, Message, Query

LEMMA InitIInv == Init => IInv
  <1> SUFFICES ASSUME Init PROVE IInv
    OBVIOUS
  <1> USE TableFacts, StateFacts
  <1>1. /\ inbox \in Seq(Message) /\ DOMAIN inbox = {1} /\ inbox[1] = Update("WaitTdlibParameters")
        /\ inbox[1].kind = "update" /\ inbox[1].state = "WaitTdlibParameters"
    BY MessageFacts DEF Init
  <1>2. TypeOK
    <2>1. database \in States /\ td_state \in States
      BY DEF Init
    <2>2. is_auth_ \in BOOLEAN /\ need_restart_ \in BOOLEAN /\ logout_next \in BOOLEAN
          /\ prompting \in BOOLEAN /\ option \in BOOLEAN /\ fresh \in BOOLEAN /\ ~ prompting
      BY DEF Init
    <2>3. faults \in 0 .. MaxFaults /\ auth_query_id_ \in Nat
      BY AuthAssumption DEF Init
    <2> QED
      BY <1>1, <2>1, <2>2, <2>3 DEF Init, TypeOK
  <1>3. QueryInv /\ NumberInv
    BY <1>1 DEF Init, QueryInv, NumberInv, IsError
  <1>4. EndInv /\ ClosedInv
    BY <1>1 DEF Init, EndInv, ClosedInv, IsUpdate, EndStates
  <1>5. ClientInv /\ LogoutInv /\ OldSessionEnded
    BY DEF Init, ClientInv, AuthorizedIsReady, LogoutInv, OldSessionEnded
  <1> QED
    BY <1>2, <1>3, <1>4, <1>5 DEF IInv
-----------------------------------------------------------------------------
(***************************************************************************)
(* TDLib.                                                                  *)
(***************************************************************************)
\* TDLib goes to state s and says so; the client has not heard of it yet.
LEMMA GotoIInv ==
    ASSUME IInv, NEW s \in States, Goto(s), UNCHANGED <<client, option, fresh>>,
           queries' \subseteq queries,
           faults' \in 0 .. MaxFaults,
           database' \in {database, "WaitPhoneNumber"},
           s = "Closed" => database' = "WaitPhoneNumber",
           td_state \in EndStates => s \in {"LoggingOut", "Closed"},
           database = "WaitPhoneNumber" /\ (\A q \in queries : q.asked = "WaitTdlibParameters")
             /\ td_state \in {"WaitTdlibParameters", "WaitPhoneNumber", "LoggingOut", "Closed"}
             => s \in {"WaitPhoneNumber", "LoggingOut", "Closed"}
    PROVE  IInv'
  <1>1. /\ td_state' = s /\ inbox' = Append(inbox, Update(s))
        /\ Update(s) \in Message /\ Update(s).kind = "update" /\ Update(s).state = s
    BY MessageFacts DEF Goto
  <1>2. /\ inbox' \in Seq(Message) /\ Len(inbox) \in Nat
        /\ DOMAIN inbox = 1 .. Len(inbox) /\ DOMAIN inbox' = 1 .. Len(inbox) + 1
        /\ \A i \in 1 .. Len(inbox) : inbox'[i] = inbox[i]
        /\ inbox'[Len(inbox) + 1] = Update(s)
    BY <1>1, AppendFacts DEF IInv, TypeOK
  <1>3. \A i \in DOMAIN inbox' : \/ i \in DOMAIN inbox /\ inbox'[i] = inbox[i]
                                 \/ i = Len(inbox) + 1 /\ inbox'[i] = Update(s)
    BY <1>2
  <1>4. TypeOK'
    BY <1>1, <1>2, StateFacts DEF IInv, TypeOK, client, Query, Outcomes
  <1>5. QueryInv' /\ NumberInv'
    BY <1>1, <1>3 DEF IInv, QueryInv, NumberInv, IsError, client
  <1>6. EndInv'
    <2>1. auth_state_ \in EndStates =>
            /\ s \in EndStates
            /\ \A i \in DOMAIN inbox' : IsUpdate(i)' => inbox'[i].state \in {"LoggingOut", "Closed"}
      BY <1>1, <1>3 DEF IInv, EndInv, IsUpdate, EndStates
    <2>2. \A i \in DOMAIN inbox' : IsUpdate(i)' /\ inbox'[i].state \in EndStates => s \in EndStates
      BY <1>1, <1>3 DEF IInv, EndInv, IsUpdate, EndStates
    <2>3. ASSUME NEW i \in DOMAIN inbox', IsUpdate(i)', inbox'[i].state \in EndStates,
                 NEW j \in DOMAIN inbox', j > i, IsUpdate(j)'
          PROVE  inbox'[j].state \in {"LoggingOut", "Closed"}
      <3>1. i \in DOMAIN inbox /\ inbox'[i] = inbox[i] /\ IsUpdate(i)
        BY <1>2, <2>3 DEF IsUpdate
      <3>2. CASE j \in DOMAIN inbox
        BY <1>2, <2>3, <3>1, <3>2 DEF IInv, EndInv, IsUpdate
      <3>3. CASE j \notin DOMAIN inbox
        <4>1. inbox'[j].state = s
          BY <1>1, <1>3, <3>3
        <4>2. td_state \in EndStates
          BY <2>3, <3>1 DEF IInv, EndInv
        <4> QED BY <4>1, <4>2
      <3> QED BY <3>2, <3>3
    <2> QED
      BY <1>1, <2>1, <2>2, <2>3 DEF EndInv, client
  <1>7. ClosedInv'
    BY <1>1, <1>3 DEF IInv, ClosedInv, IsUpdate, client
  <1>8. ClientInv' /\ OldSessionEnded'
    BY DEF IInv, ClientInv, AuthorizedIsReady, OldSessionEnded, client
  <1>9. LogoutInv'
    <2> SUFFICES ASSUME option, ~ fresh, ~ logout_next PROVE LogoutInv'
      BY DEF LogoutInv, client
    <2>1. /\ phase = "init_auth" /\ ~ is_auth_
          /\ \A i \in DOMAIN inbox : IsUpdate(i) => inbox[i].state # "Ready"
      BY DEF IInv, LogoutInv
    <2>2. CASE auth_state_ \in EndStates
      <3>1. s # "Ready"
        BY <2>2 DEF IInv, EndInv
      <3>2. \A i \in DOMAIN inbox' : IsUpdate(i)' => inbox'[i].state # "Ready"
        BY <1>1, <1>3, <2>1, <3>1 DEF IsUpdate
      <3> QED BY <2>1, <2>2, <3>2 DEF LogoutInv, client
    <2>3. CASE auth_state_ \notin EndStates
      <3>1. /\ database = "WaitPhoneNumber"
            /\ auth_state_ \in {"None", "WaitTdlibParameters"}
            /\ td_state \in {"WaitTdlibParameters", "WaitPhoneNumber", "LoggingOut", "Closed"}
            /\ \A q \in queries : q.asked = "WaitTdlibParameters"
            /\ \A i \in DOMAIN inbox : IsUpdate(i) =>
                  inbox[i].state \in {"WaitTdlibParameters", "WaitPhoneNumber", "LoggingOut", "Closed"}
        BY <2>3 DEF IInv, LogoutInv
      <3>2. s \in {"WaitPhoneNumber", "LoggingOut", "Closed"}
        BY <3>1
      <3>3. \A i \in DOMAIN inbox' : IsUpdate(i)' =>
                inbox'[i].state \in {"WaitTdlibParameters", "WaitPhoneNumber", "LoggingOut", "Closed"}
        BY <1>1, <1>3, <3>1, <3>2 DEF IsUpdate
      <3>4. database' = "WaitPhoneNumber"
        BY <3>1
      <3>5. \A i \in DOMAIN inbox' : IsUpdate(i)' => inbox'[i].state # "Ready"
        BY <3>3
      <3> QED BY <1>1, <2>1, <3>1, <3>2, <3>3, <3>4, <3>5 DEF LogoutInv, client
    <2> QED BY <2>2, <2>3
  <1> QED
    BY <1>4, <1>5, <1>6, <1>7, <1>8, <1>9 DEF IInv

LEMMA AcceptIInv == IInv /\ Accept => IInv'
  <1> SUFFICES ASSUME IInv, Accept PROVE IInv'
    OBVIOUS
  <1>1. PICK q \in queries :
            /\ q.asked = td_state
            /\ \E s \in Outcomes[q.function] : Goto(s)
            /\ \/ queries' = queries \ {q} /\ UNCHANGED faults
               \/ Fault /\ UNCHANGED queries
    BY DEF Accept
  <1>2. PICK s \in Outcomes[q.function] : Goto(s)
    BY <1>1
  <1>3. q.function \in DOMAIN Outcomes /\ database \in States /\ database # "Closed"
    BY DEF IInv, TypeOK, Query, ClosedInv, Outcomes
  <1>4. /\ s \in States /\ s # "Closed"
        /\ q.function = "logOut" => s = "LoggingOut"
        /\ q.function = "setTdlibParameters" => s = database
    BY <1>3, OutcomeFacts
  <1>5. td_state \in EndStates => s \in {"LoggingOut", "Closed"}
    <2>1. q.asked \in EndStates => q.function = "logOut"
      BY StateFacts DEF IInv, QueryInv
    <2> QED BY <1>1, <1>4, <2>1
  <1>6. q.asked = "WaitTdlibParameters" => s = database
    <2>1. q.asked = "WaitTdlibParameters" => q.function = "setTdlibParameters"
      BY TableFacts DEF IInv, QueryInv
    <2> QED BY <1>4, <2>1
  <1>7. faults' \in 0 .. MaxFaults
    BY <1>1, AuthAssumption DEF IInv, TypeOK, Fault
  <1>8. queries' \subseteq queries /\ database' = database /\ UNCHANGED <<client, option, fresh>>
    BY <1>1 DEF Accept
  <1> QED
    BY <1>2, <1>4, <1>5, <1>6, <1>7, <1>8, GotoIInv

LEMMA RefuseIInv == IInv /\ Refuse => IInv'
  <1> SUFFICES ASSUME IInv, Refuse PROVE IInv'
    OBVIOUS
  <1>1. PICK q \in queries :
            /\ \/ q.asked # td_state /\ UNCHANGED faults
               \/ q.asked = td_state /\ q.function # "logOut" /\ Fault
            /\ inbox' = IF q.function = "logOut" THEN inbox ELSE Append(inbox, Error(q))
            /\ queries' = queries \ {q}
    BY DEF Refuse
  <1>2. /\ q \in Query /\ Error(q) \in Message /\ Error(q).kind = "error"
        /\ Error(q).asked = q.asked /\ Error(q).id = q.id
    BY MessageFacts DEF IInv, TypeOK, Query, Outcomes
  <1>3. /\ inbox' \in Seq(Message)
        /\ \A i \in DOMAIN inbox' :
            \/ i \in DOMAIN inbox /\ inbox'[i] = inbox[i]
            \/ q.function # "logOut" /\ inbox'[i] = Error(q)
    <2>1. CASE q.function = "logOut"
      BY <1>1, <2>1 DEF IInv, TypeOK
    <2>2. CASE q.function # "logOut"
      BY <1>1, <1>2, <2>2, AppendFacts DEF IInv, TypeOK
    <2> QED BY <2>1, <2>2
  <1>4. UNCHANGED <<client, td_state, database, option, fresh>>
    BY DEF Refuse
  <1>5. TypeOK'
    <2>1. faults' \in 0 .. MaxFaults
      BY <1>1, AuthAssumption DEF IInv, TypeOK, Fault
    <2> QED BY <1>1, <1>3, <1>4, <2>1 DEF IInv, TypeOK, client, Query, Outcomes
  <1>6. q.function # "logOut" => q.asked \in DOMAIN Asks
    BY DEF IInv, QueryInv
  <1>7. QueryInv' /\ NumberInv'
    BY <1>1, <1>2, <1>3, <1>4, <1>6 DEF IInv, QueryInv, NumberInv, IsError, client
  <1>8. \A i \in DOMAIN inbox' : IsUpdate(i)' => i \in DOMAIN inbox /\ IsUpdate(i) /\ inbox'[i] = inbox[i]
    BY <1>2, <1>3 DEF IsUpdate
  <1>9. EndInv' /\ ClosedInv'
    BY <1>4, <1>8 DEF IInv, EndInv, ClosedInv, client
  <1>10. ClientInv' /\ OldSessionEnded'
    BY <1>1, <1>4 DEF IInv, ClientInv, AuthorizedIsReady, OldSessionEnded, client
  <1>11. LogoutInv'
    BY <1>1, <1>4, <1>8 DEF IInv, LogoutInv, client
  <1> QED
    BY <1>5, <1>7, <1>9, <1>10, <1>11 DEF IInv

LEMMA TdlibIInv == IInv /\ (ConfirmOther \/ LoseSession \/ Close) => IInv'
  <1> SUFFICES ASSUME IInv, ConfirmOther \/ LoseSession \/ Close PROVE IInv'
    OBVIOUS
  <1>0. /\ {"Ready", "WaitPassword", "WaitOtherDeviceConfirmation", "LoggingOut", "Closed"} \subseteq States
        /\ faults \in 0 .. MaxFaults
        /\ Fault => faults' \in 0 .. MaxFaults
    BY AuthAssumption DEF States, IInv, TypeOK, Fault
  <1>1. CASE ConfirmOther
    <2>1. PICK s \in {"Ready", "WaitPassword", "WaitOtherDeviceConfirmation"} : Goto(s)
      BY <1>1 DEF ConfirmOther
    <2>2. faults' \in 0 .. MaxFaults
      BY <1>0, <1>1 DEF ConfirmOther
    <2> QED
      BY <1>0, <1>1, <2>1, <2>2, GotoIInv DEF ConfirmOther, EndStates
  <1>2. CASE LoseSession
    BY <1>0, <1>2, GotoIInv DEF LoseSession
  <1>3. CASE Close
    BY <1>0, <1>3, GotoIInv DEF Close
  <1> QED
    BY <1>1, <1>2, <1>3
-----------------------------------------------------------------------------
(***************************************************************************)
(* The client.                                                             *)
(***************************************************************************)
\* The first message is taken from the inbox; the others move up.
LEMMA TakeFacts ==
    ASSUME TypeOK, inbox # <<>>, inbox' = Tail(inbox)
    PROVE  /\ inbox' \in Seq(Message)
           /\ 1 \in DOMAIN inbox /\ Head(inbox) = inbox[1] /\ Head(inbox) \in Message
           /\ \A i \in DOMAIN inbox' : i \in Nat /\ i + 1 \in DOMAIN inbox /\ i + 1 > 1 /\ inbox'[i] = inbox[i + 1]
  <1>1. /\ Tail(inbox) \in Seq(Message)
        /\ Len(inbox) \in Nat \ {0}
        /\ DOMAIN inbox = 1 .. Len(inbox)
        /\ DOMAIN Tail(inbox) = 1 .. Len(inbox) - 1
        /\ \A i \in 1 .. Len(inbox) - 1 : Tail(inbox)[i] = inbox[i + 1]
        /\ Head(inbox) = inbox[1]
        /\ Head(inbox) \in Message
    BY TailFacts DEF TypeOK
  <1> QED
    BY <1>1

\* The parts of the invariant that are about what is still in the inbox.
LEMMA TakeInv ==
    ASSUME IInv, inbox # <<>>, inbox' = Tail(inbox), UNCHANGED <<td_state, database>>
    PROVE  /\ \A i \in DOMAIN inbox' : IsError(i)' =>
                /\ inbox'[i].asked \in DOMAIN Asks
                /\ inbox'[i].id \in Nat /\ inbox'[i].id <= auth_query_id_
                /\ inbox'[i].id = auth_query_id_ => inbox'[i].asked = auth_state_
           /\ \A i \in DOMAIN inbox' : IsUpdate(i)' /\ inbox'[i].state \in EndStates =>
                /\ td_state \in EndStates
                /\ \A j \in DOMAIN inbox' : j > i /\ IsUpdate(j)' => inbox'[j].state \in {"LoggingOut", "Closed"}
           /\ auth_state_ \in EndStates \/ (IsUpdate(1) /\ inbox[1].state \in EndStates) =>
                /\ td_state \in EndStates
                /\ \A i \in DOMAIN inbox' : IsUpdate(i)' => inbox'[i].state \in {"LoggingOut", "Closed"}
           /\ (\E i \in DOMAIN inbox' : IsUpdate(i)' /\ inbox'[i].state = "Closed") => database = "WaitPhoneNumber"
           /\ IsUpdate(1) /\ inbox[1].state = "Closed" => database = "WaitPhoneNumber"
  <1>1. /\ 1 \in DOMAIN inbox
        /\ \A i \in DOMAIN inbox' : i \in Nat /\ i + 1 \in DOMAIN inbox /\ i + 1 > 1 /\ inbox'[i] = inbox[i + 1]
    BY TakeFacts DEF IInv
  <1>2. \A i \in DOMAIN inbox : inbox[i] \in Message
    BY LenProperties, ElementOfSeq DEF IInv, TypeOK
  <1>3. \A i \in DOMAIN inbox' : IsError(i)' =>
                /\ inbox'[i].asked \in DOMAIN Asks
                /\ inbox'[i].id \in Nat /\ inbox'[i].id <= auth_query_id_
                /\ inbox'[i].id = auth_query_id_ => inbox'[i].asked = auth_state_
    BY <1>1, <1>2, MessageFacts DEF IInv, QueryInv, NumberInv, IsError
  <1>4. ASSUME NEW i \in DOMAIN inbox', IsUpdate(i)', inbox'[i].state \in EndStates
        PROVE  /\ td_state \in EndStates
               /\ \A j \in DOMAIN inbox' : j > i /\ IsUpdate(j)' => inbox'[j].state \in {"LoggingOut", "Closed"}
    <2>1. i + 1 \in DOMAIN inbox /\ IsUpdate(i + 1) /\ inbox[i + 1].state \in EndStates
      BY <1>1, <1>4 DEF IsUpdate
    <2>2. \A j \in DOMAIN inbox' : j > i => j + 1 > i + 1 /\ j + 1 \in DOMAIN inbox /\ inbox'[j] = inbox[j + 1]
      BY <1>1
    <2> QED
      BY <2>1, <2>2 DEF IInv, EndInv, IsUpdate
  <1>5. auth_state_ \in EndStates \/ (IsUpdate(1) /\ inbox[1].state \in EndStates) =>
                /\ td_state \in EndStates
                /\ \A i \in DOMAIN inbox' : IsUpdate(i)' => inbox'[i].state \in {"LoggingOut", "Closed"}
    BY <1>1 DEF IInv, EndInv, IsUpdate
  <1>6. /\ (\E i \in DOMAIN inbox' : IsUpdate(i)' /\ inbox'[i].state = "Closed") => database = "WaitPhoneNumber"
        /\ IsUpdate(1) /\ inbox[1].state = "Closed" => database = "WaitPhoneNumber"
    BY <1>1 DEF IInv, ClosedInv, IsUpdate
  <1> QED
    BY <1>3, <1>4, <1>5, <1>6

\* process_auth sends at most one query, for the state it handles.
LEMMA SentQuery ==
    ASSUME NEW s, process_auth(s), auth_query_id_ \in Nat
    PROVE  /\ auth_query_id_' = auth_query_id_ + 1
           /\ \/ UNCHANGED queries
              \/ \E f \in DOMAIN Outcomes :
                    /\ queries' = queries \cup {[function |-> f, asked |-> s, id |-> auth_query_id_ + 1]}
                    /\ \/ s = "WaitTdlibParameters" /\ f = "setTdlibParameters"
                       \/ s = "Ready" /\ f = "logOut" /\ logout_next /\ UNCHANGED is_auth_
  <1>1. "setTdlibParameters" \in DOMAIN Outcomes /\ "logOut" \in DOMAIN Outcomes
    BY DEF Outcomes
  <1> QED
    BY <1>1 DEF process_auth, SendParameters, AskUser, ShowQrCode, LogIn, LogOut, IgnoreState, Send

\* The flags stay Booleans, and only a state with a prompt asks the user.
LEMMA ClientTypes ==
    ASSUME TypeOK, NEW s, process_auth(s), ~ prompting
    PROVE  /\ is_auth_' \in BOOLEAN /\ need_restart_' \in BOOLEAN /\ logout_next' \in BOOLEAN
           /\ prompting' \in BOOLEAN /\ fresh' \in BOOLEAN /\ (prompting' => s \in Prompts)
  <1>0. is_auth_ \in BOOLEAN /\ need_restart_ \in BOOLEAN /\ logout_next \in BOOLEAN
        /\ prompting \in BOOLEAN /\ fresh \in BOOLEAN
    BY DEF TypeOK
  <1>1. CASE SendParameters(s) \/ IgnoreState(s)
    BY <1>0, <1>1 DEF SendParameters, IgnoreState
  <1>2. CASE AskUser(s)
    BY <1>0, <1>2 DEF AskUser
  <1>3. CASE ShowQrCode(s)
    BY <1>0, <1>3 DEF ShowQrCode
  <1>4. CASE LogIn(s)
    BY <1>0, <1>4 DEF LogIn
  <1>5. CASE LogOut(s)
    BY <1>0, <1>5 DEF LogOut
  <1> QED
    BY <1>1, <1>2, <1>3, <1>4, <1>5 DEF process_auth

LEMMA ReceiveUpdateIInv == IInv /\ ReceiveUpdate => IInv'
  <1> SUFFICES ASSUME IInv, ReceiveUpdate PROVE IInv'
    OBVIOUS
  <1> DEFINE s == inbox[1].state
  <1>1. /\ inbox # <<>> /\ inbox' = Tail(inbox) /\ Head(inbox).kind = "update"
        /\ auth_state_' = Head(inbox).state /\ process_auth(Head(inbox).state)
        /\ UNCHANGED <<phase, td_state, database, faults, option>>
        /\ ~ prompting
        /\ phase = "init_auth" => ~ need_restart_ /\ ~ is_auth_
    BY DEF ReceiveUpdate, Receiving
  <1>2. /\ inbox' \in Seq(Message) /\ 1 \in DOMAIN inbox /\ IsUpdate(1)
        /\ auth_state_' = s /\ process_auth(s) /\ s \in States
        /\ \A i \in DOMAIN inbox' : i \in Nat /\ i + 1 \in DOMAIN inbox /\ inbox'[i] = inbox[i + 1]
    BY <1>1, TakeFacts, MessageFacts DEF IInv, IsUpdate
  <1> HIDE DEF s
  <1>3. /\ auth_query_id_ \in Nat /\ auth_query_id_' = auth_query_id_ + 1
        /\ \/ UNCHANGED queries
           \/ \E f \in DOMAIN Outcomes :
                /\ queries' = queries \cup {[function |-> f, asked |-> s, id |-> auth_query_id_ + 1]}
                /\ \/ s = "WaitTdlibParameters" /\ f = "setTdlibParameters"
                   \/ s = "Ready" /\ f = "logOut" /\ logout_next /\ UNCHANGED is_auth_
    BY <1>2, SentQuery DEF IInv, TypeOK
  <1>4. \A q \in queries : q \in Query /\ q.id \in Nat /\ q.id <= auth_query_id_
    BY DEF IInv, TypeOK, NumberInv, Query, Outcomes
  <1>5. queries' \subseteq Query'
    <2>1. Query' = Query
      BY DEF Query, Outcomes
    <2>2. \A f \in DOMAIN Outcomes : [function |-> f, asked |-> s, id |-> auth_query_id_ + 1] \in Query
      BY <1>2, <1>3 DEF Query
    <2> QED BY <1>3, <1>4, <2>1, <2>2
  <1>6. is_auth_' \in BOOLEAN /\ need_restart_' \in BOOLEAN /\ logout_next' \in BOOLEAN
        /\ prompting' \in BOOLEAN /\ fresh' \in BOOLEAN /\ (prompting' => s \in Prompts)
    BY <1>1, <1>2, ClientTypes DEF IInv
  <1>7. TypeOK'
    BY <1>1, <1>2, <1>3, <1>5, <1>6 DEF IInv, TypeOK
  <1>8. QueryInv' /\ NumberInv'
    <2>1. \A q \in queries' : \/ q \in queries
                              \/ /\ q.id = auth_query_id_' /\ q.asked = s
                                 /\ \/ s = "WaitTdlibParameters" /\ q.function = "setTdlibParameters"
                                    \/ s = "Ready" /\ q.function = "logOut"
      BY <1>3
    <2>2. \A q \in queries : q.id < auth_query_id_'
      BY <1>3, <1>4
    <2>3. \A i \in DOMAIN inbox' : IsError(i)' => inbox'[i].asked \in DOMAIN Asks /\ inbox'[i].id \in Nat
                                                  /\ inbox'[i].id < auth_query_id_'
      BY <1>1, <1>3, TakeInv
    <2>4. QueryInv'
      BY <2>1, <2>3, TableFacts DEF IInv, QueryInv
    <2>5. NumberInv'
      BY <1>2, <1>3, <1>4, <2>1, <2>2, <2>3 DEF NumberInv
    <2> QED BY <2>4, <2>5
  <1>9. EndInv'
    BY <1>1, <1>2, TakeInv DEF EndInv, s
  <1>10. need_restart_' => need_restart_ \/ s = "Closed"
    BY <1>2 DEF process_auth, SendParameters, AskUser, ShowQrCode, LogIn, LogOut, IgnoreState
  <1>12. auth_state_ \in EndStates => s \in {"LoggingOut", "Closed"}
    BY <1>2 DEF IInv, EndInv, s
  <1>13. /\ phase \in {"init_auth", "running"}
         /\ is_auth_ => auth_state_ = "Ready"
         /\ phase = "running" => auth_state_ \in {"Ready", "LoggingOut", "Closed"}
         /\ logout_next => option /\ ~ fresh /\ ~ is_auth_
         /\ (\E q \in queries : q.function = "logOut") => auth_state_ \in EndStates /\ ~ fresh
         /\ option /\ phase = "running" => fresh
    BY DEF IInv, TypeOK, ClientInv, AuthorizedIsReady, OldSessionEnded
  <1>14. phase = "running" \/ is_auth_ => s \in {"LoggingOut", "Closed"}
    BY <1>12, <1>13 DEF EndStates
  <1>11. ClosedInv'
    <2>1. need_restart_' => s \in EndStates
      BY <1>1, <1>10, <1>13, <1>14 DEF EndStates
    <2>2. need_restart_ \/ s = "Closed" => database = "WaitPhoneNumber"
      BY <1>1, <1>2, TakeInv DEF IInv, ClosedInv, s
    <2> QED
      BY <1>1, <1>2, <1>10, <2>1, <2>2, TakeInv DEF IInv, ClosedInv
  <1>15. option /\ ~ fresh /\ ~ logout_next => s # "Ready"
    BY <1>2 DEF IInv, LogoutInv, s
  <1>16. /\ fresh => fresh'
         /\ fresh' # fresh => ~ logout_next' /\ s \in Prompts \cup {"WaitOtherDeviceConfirmation"}
         /\ logout_next' => logout_next /\ ~ fresh'
         /\ logout_next' # logout_next => fresh' \/ s = "Ready"
         /\ is_auth_' => is_auth_ \/ (s = "Ready" /\ ~ logout_next)
         /\ is_auth_' /\ logout_next' => is_auth_
         /\ s \in {"LoggingOut", "Closed"} => ~ is_auth_'
    <2>1. logout_next => ~ fresh /\ ~ is_auth_
      BY <1>13
    <2>2. "LoggingOut" \notin Prompts /\ "Closed" \notin Prompts
      BY TableFacts
    <2> QED
      BY <1>2, <2>1, <2>2 DEF IInv, TypeOK, process_auth, SendParameters, AskUser, ShowQrCode, LogIn, LogOut, IgnoreState
  <1>17. AuthorizedIsReady'
    <2>1. is_auth_' => s = "Ready"
      BY <1>14, <1>16
    <2>2. phase = "running" => ~ prompting'
      BY <1>2, <1>6, <1>14, TableFacts
    <2> QED
      BY <1>1, <1>2, <1>14, <2>1, <2>2 DEF AuthorizedIsReady
  <1>18. ClientInv'
    <2>1. logout_next' => option' /\ ~ fresh' /\ ~ is_auth_'
      BY <1>1, <1>13, <1>16
    <2>2. ASSUME NEW q \in queries', q.function = "logOut" PROVE s \in EndStates /\ ~ fresh'
      <3>1. CASE q \in queries
        <4>1. s \in {"LoggingOut", "Closed"} /\ ~ fresh
          BY <1>12, <1>13, <2>2, <3>1
        <4> QED BY <1>16, <4>1, TableFacts DEF EndStates
      <3>2. CASE q \notin queries
        <4>1. s = "Ready" /\ logout_next
          BY <1>3, <2>2, <3>2
        <4> QED BY <1>13, <1>16, <4>1, TableFacts DEF EndStates
      <3> QED BY <3>1, <3>2
    <2> QED
      BY <1>2, <1>17, <2>1, <2>2 DEF ClientInv
  <1>19. OldSessionEnded'
    BY <1>1, <1>13, <1>16 DEF OldSessionEnded
  <1>20. LogoutInv'
    <2> SUFFICES ASSUME option, ~ fresh', ~ logout_next' PROVE LogoutInv'
      BY <1>1 DEF LogoutInv
    <2>1. CASE logout_next
      <3>1. s = "Ready" /\ ~ is_auth_' /\ phase = "init_auth"
        BY <1>13, <1>16, <2>1
      <3>2. \A i \in DOMAIN inbox' : IsUpdate(i)' => inbox'[i].state \in {"LoggingOut", "Closed"}
        BY <1>1, <1>2, <3>1, TakeInv DEF EndStates, s
      <3> QED
        BY <1>1, <1>2, <3>1, <3>2 DEF LogoutInv, EndStates
    <2>2. CASE ~ logout_next
      <3>1. /\ phase = "init_auth" /\ ~ is_auth_ /\ s # "Ready"
            /\ \A i \in DOMAIN inbox : IsUpdate(i) => inbox[i].state # "Ready"
        BY <1>15, <1>16, <2>2 DEF IInv, LogoutInv
      <3>2. /\ ~ is_auth_' /\ ~ fresh
            /\ \A i \in DOMAIN inbox' : IsUpdate(i)' => inbox'[i].state # "Ready"
        BY <1>2, <1>16, <3>1 DEF IsUpdate
      <3>3. CASE s \in EndStates
        BY <1>1, <1>2, <3>1, <3>2, <3>3 DEF LogoutInv
      <3>4. CASE s \notin EndStates
        <4>1. auth_state_ \notin EndStates
          BY <1>12, <3>4 DEF EndStates
        <4>2. /\ database = "WaitPhoneNumber"
              /\ td_state \in {"WaitTdlibParameters", "WaitPhoneNumber", "LoggingOut", "Closed"}
              /\ \A q \in queries : q.asked = "WaitTdlibParameters"
              /\ \A i \in DOMAIN inbox : IsUpdate(i) =>
                    inbox[i].state \in {"WaitTdlibParameters", "WaitPhoneNumber", "LoggingOut", "Closed"}
          BY <2>2, <3>2, <4>1 DEF IInv, LogoutInv
        <4>3. s \in {"WaitTdlibParameters", "WaitPhoneNumber"}
          BY <1>2, <3>4, <4>2 DEF s, EndStates
        <4>4. s = "WaitTdlibParameters"
          <5>1. s = "WaitPhoneNumber" => fresh'
            BY <1>2, TableFacts DEF process_auth, SendParameters, AskUser, ShowQrCode, LogIn, LogOut, IgnoreState
          <5> QED BY <4>3, <5>1
        <4>5. \A q \in queries' : q.asked = "WaitTdlibParameters"
          BY <1>3, <4>2, <4>4
        <4>6. \A i \in DOMAIN inbox' : IsUpdate(i)' =>
                inbox'[i].state \in {"WaitTdlibParameters", "WaitPhoneNumber", "LoggingOut", "Closed"}
          BY <1>2, <4>2 DEF IsUpdate
        <4> QED
          BY <1>1, <1>2, <3>1, <3>2, <4>2, <4>4, <4>5, <4>6 DEF LogoutInv
      <3> QED BY <3>3, <3>4
    <2> QED BY <2>1, <2>2
  <1> QED
    BY <1>7, <1>8, <1>9, <1>11, <1>18, <1>19, <1>20 DEF IInv

\* An error repeats a step of process_auth that sends or asks again, never one
\* of a session that is ready or ending.
LEMMA ReceiveErrorIInv == IInv /\ ReceiveError => IInv'
  <1> SUFFICES ASSUME IInv, ReceiveError PROVE IInv'
    OBVIOUS
  <1>1. /\ inbox # <<>> /\ inbox' = Tail(inbox) /\ Head(inbox).kind = "error" /\ ~ prompting
        /\ phase = "init_auth" => ~ need_restart_ /\ ~ is_auth_
        /\ UNCHANGED <<auth_state_, phase, td_state, database, faults, option>>
    BY DEF ReceiveError, Receiving
  <1>2. /\ inbox' \in Seq(Message) /\ 1 \in DOMAIN inbox /\ IsError(1) /\ Head(inbox) = inbox[1]
        /\ \A i \in DOMAIN inbox' : i \in Nat /\ i + 1 \in DOMAIN inbox /\ inbox'[i] = inbox[i + 1]
    BY <1>1, TakeFacts DEF IInv, IsError
  <1>3. \A i \in DOMAIN inbox' : IsUpdate(i)' => i + 1 \in DOMAIN inbox /\ IsUpdate(i + 1) /\ inbox'[i] = inbox[i + 1]
    BY <1>2 DEF IsUpdate
  <1>4. EndInv'
    BY <1>1, TakeInv DEF EndInv
  <1>5. auth_query_id_ \in Nat /\ \A q \in queries : q \in Query /\ q.id \in Nat /\ q.id <= auth_query_id_
    BY DEF IInv, TypeOK, NumberInv, Query, Outcomes
  <1>6. CASE Head(inbox).id = auth_query_id_ /\ process_auth(auth_state_)
    <2> DEFINE s == auth_state_
    <2>1. s \in DOMAIN Asks /\ s \notin EndStates /\ s \in States
      BY <1>2, <1>6, StateFacts DEF IInv, QueryInv, NumberInv
    <2>2. SendParameters(s) \/ AskUser(s)
      BY <1>6, <2>1, TableFacts DEF process_auth, ShowQrCode, LogIn, LogOut, IgnoreState
    <2>3. UNCHANGED <<is_auth_, need_restart_>> /\ ~ is_auth_ /\ ~ need_restart_ /\ phase = "init_auth"
      <3>1. UNCHANGED <<is_auth_, need_restart_>>
        BY <2>2 DEF SendParameters, AskUser
      <3>2. phase = "init_auth"
        BY <2>1 DEF IInv, TypeOK, ClientInv, AuthorizedIsReady, EndStates
      <3> QED BY <1>1, <3>1, <3>2
    <2>4. /\ auth_query_id_' = auth_query_id_ + 1
          /\ \/ UNCHANGED queries
             \/ /\ s = "WaitTdlibParameters"
                /\ queries' = queries \cup {[function |-> "setTdlibParameters", asked |-> s, id |-> auth_query_id_ + 1]}
      BY <1>6, <2>2 DEF process_auth, SendParameters, AskUser, Send
    <2>5. \A q \in queries' : \/ q \in queries
                              \/ /\ q.id = auth_query_id_' /\ q.asked = s /\ s = "WaitTdlibParameters"
                                 /\ q.function = "setTdlibParameters"
      BY <2>4
    <2>6. queries' \subseteq Query'
      <3>1. Query' = Query
        BY DEF Query, Outcomes
      <3>2. [function |-> "setTdlibParameters", asked |-> s, id |-> auth_query_id_ + 1] \in Query
        BY <1>5, <2>1 DEF Query, Outcomes
      <3> QED BY <1>5, <2>4, <3>1, <3>2
    <2>7. TypeOK'
      BY <1>1, <1>2, <1>5, <1>6, <2>4, <2>6, ClientTypes DEF IInv, TypeOK
    <2>8. QueryInv' /\ NumberInv'
      <3>1. \A i \in DOMAIN inbox' : IsError(i)' => inbox'[i].asked \in DOMAIN Asks /\ inbox'[i].id \in Nat
                                                    /\ inbox'[i].id < auth_query_id_'
        BY <1>1, <1>5, <2>4, TakeInv
      <3>2. \A q \in queries : q.id < auth_query_id_'
        BY <1>5, <2>4
      <3>3. QueryInv'
        BY <2>5, <3>1, TableFacts DEF IInv, QueryInv
      <3>4. NumberInv'
        BY <1>1, <1>5, <2>4, <2>5, <3>1, <3>2 DEF NumberInv
      <3> QED BY <3>3, <3>4
    <2>9. ClosedInv'
      BY <1>1, <2>3, TakeInv DEF IInv, ClosedInv
    <2>10. /\ fresh => fresh'
           /\ logout_next' => logout_next /\ fresh' = fresh
           /\ s # "WaitTdlibParameters" => fresh'
           /\ s = "WaitTdlibParameters" => fresh' = fresh /\ logout_next' = logout_next /\ prompting' = prompting
      BY <2>2, TableFacts DEF SendParameters, AskUser
    <2>11. ClientInv'
      <3>1. ~ \E q \in queries' : q.function = "logOut"
        BY <2>1, <2>5 DEF IInv, ClientInv
      <3> QED
        BY <1>1, <2>3, <2>10, <3>1 DEF IInv, ClientInv, AuthorizedIsReady
    <2>12. OldSessionEnded'
      BY <1>1, <2>3 DEF OldSessionEnded
    <2>13. LogoutInv'
      <3> SUFFICES ASSUME option, ~ fresh', ~ logout_next' PROVE LogoutInv'
        BY <1>1 DEF LogoutInv
      <3>1. s = "WaitTdlibParameters" /\ ~ fresh /\ ~ logout_next
        BY <2>10
      <3>2. /\ database = "WaitPhoneNumber"
            /\ td_state \in {"WaitTdlibParameters", "WaitPhoneNumber", "LoggingOut", "Closed"}
            /\ \A q \in queries : q.asked = "WaitTdlibParameters"
            /\ \A i \in DOMAIN inbox : IsUpdate(i) =>
                  inbox[i].state \in {"WaitTdlibParameters", "WaitPhoneNumber", "LoggingOut", "Closed"}
        BY <2>1, <3>1 DEF IInv, LogoutInv
      <3>3. \A q \in queries' : q.asked = "WaitTdlibParameters"
        BY <2>5, <3>2
      <3>4. \A i \in DOMAIN inbox' : IsUpdate(i)' =>
                /\ inbox'[i].state # "Ready"
                /\ inbox'[i].state \in {"WaitTdlibParameters", "WaitPhoneNumber", "LoggingOut", "Closed"}
        BY <1>3, <3>2
      <3> QED
        BY <1>1, <2>3, <3>1, <3>2, <3>3, <3>4 DEF LogoutInv
    <2> QED
      BY <1>4, <2>7, <2>8, <2>9, <2>11, <2>12, <2>13 DEF IInv
  <1>7. CASE UNCHANGED <<is_auth_, need_restart_, auth_query_id_, logout_next, prompting, fresh, queries>>
    <2>1. TypeOK'
      BY <1>1, <1>2, <1>7 DEF IInv, TypeOK, Query, Outcomes
    <2>2. QueryInv' /\ NumberInv'
      BY <1>1, <1>7, TakeInv DEF IInv, QueryInv, NumberInv
    <2>3. ClosedInv'
      BY <1>1, <1>7, TakeInv DEF IInv, ClosedInv
    <2>4. ClientInv' /\ OldSessionEnded'
      BY <1>1, <1>7 DEF IInv, ClientInv, AuthorizedIsReady, OldSessionEnded
    <2>5. LogoutInv'
      BY <1>1, <1>3, <1>7 DEF IInv, LogoutInv
    <2> QED
      BY <1>4, <2>1, <2>2, <2>3, <2>4, <2>5 DEF IInv
  <1> QED
    BY <1>6, <1>7 DEF ReceiveError

LEMMA EnterInputIInv == IInv /\ EnterInput => IInv'
  <1> SUFFICES ASSUME IInv, EnterInput PROVE IInv'
    OBVIOUS
  <1>1. /\ prompting /\ prompting' = FALSE
        /\ UNCHANGED <<auth_state_, is_auth_, need_restart_, auth_query_id_, logout_next, phase,
                       inbox, td_state, database, faults, option, fresh>>
    BY DEF EnterInput
  <1>2. PICK f \in Asks[auth_state_] :
            queries' = queries \cup {[function |-> f, asked |-> auth_state_, id |-> auth_query_id_]}
    BY DEF EnterInput, Send
  <1>3. /\ auth_state_ \in DOMAIN Asks /\ auth_state_ # "WaitTdlibParameters" /\ auth_state_ \notin EndStates
        /\ auth_state_ \in States /\ f \in DOMAIN Outcomes /\ f # "logOut" /\ auth_query_id_ \in Nat
    BY <1>1, TableFacts, StateFacts DEF IInv, TypeOK
  <1>4. TypeOK'
    <2>1. [function |-> f, asked |-> auth_state_, id |-> auth_query_id_] \in Query /\ Query' = Query
      BY <1>3 DEF Query, Outcomes
    <2>2. prompting' \in BOOLEAN /\ ~ prompting'
      BY <1>1
    <2> QED BY <1>1, <1>2, <2>1, <2>2 DEF IInv, TypeOK
  <1>5. \A q \in queries' : \/ q \in queries
                            \/ q.function = f /\ q.asked = auth_state_ /\ q.id = auth_query_id_
    BY <1>2
  <1>6. QueryInv' /\ NumberInv'
    BY <1>1, <1>3, <1>5 DEF IInv, QueryInv, NumberInv, IsError
  <1>7. EndInv' /\ ClosedInv'
    BY <1>1 DEF IInv, EndInv, ClosedInv, IsUpdate
  <1>8. ClientInv' /\ OldSessionEnded'
    BY <1>1, <1>3, <1>5 DEF IInv, ClientInv, AuthorizedIsReady, OldSessionEnded
  <1>9. LogoutInv'
    <2>1. auth_state_ # "None"
      BY <1>3, TableFacts
    <2> QED BY <1>1, <1>3, <2>1 DEF IInv, LogoutInv
  <1> QED
    BY <1>4, <1>6, <1>7, <1>8, <1>9 DEF IInv

LEMMA RestartIInv == IInv /\ Restart => IInv'
  <1> SUFFICES ASSUME IInv, Restart PROVE IInv'
    OBVIOUS
  <1>1. /\ phase = "init_auth" /\ ~ prompting /\ need_restart_
        /\ auth_state_' = "None" /\ is_auth_' = FALSE /\ need_restart_' = FALSE /\ auth_query_id_' = 0
        /\ queries' = {} /\ inbox' = <<Update("WaitTdlibParameters")>>
        /\ td_state' = "WaitTdlibParameters"
        /\ UNCHANGED <<logout_next, phase, prompting, database, faults, option, fresh>>
    BY DEF Restart, NewClient
  <1>2. /\ inbox' \in Seq(Message) /\ DOMAIN inbox' = {1}
        /\ inbox'[1].kind = "update" /\ inbox'[1].state = "WaitTdlibParameters"
    BY <1>1, MessageFacts, StateFacts
  <1>3. TypeOK'
    <2>1. is_auth_' \in BOOLEAN /\ need_restart_' \in BOOLEAN
      BY <1>1
    <2> QED BY <1>1, <1>2, <2>1, StateFacts DEF IInv, TypeOK
  <1>4. QueryInv' /\ NumberInv'
    BY <1>1, <1>2 DEF QueryInv, NumberInv, IsError
  <1>5. EndInv' /\ ClosedInv'
    BY <1>1, <1>2 DEF IInv, EndInv, ClosedInv, IsUpdate, EndStates
  <1>6. ClientInv' /\ OldSessionEnded'
    BY <1>1 DEF IInv, ClientInv, AuthorizedIsReady, OldSessionEnded
  <1>7. LogoutInv'
    BY <1>1, <1>2 DEF IInv, ClosedInv, LogoutInv, IsUpdate
  <1> QED
    BY <1>3, <1>4, <1>5, <1>6, <1>7 DEF IInv

LEMMA InitAuthDoneIInv == IInv /\ InitAuthDone => IInv'
  <1> SUFFICES ASSUME IInv, InitAuthDone PROVE IInv'
    OBVIOUS
  <1>1. /\ ~ prompting /\ is_auth_ /\ phase' = "running"
        /\ UNCHANGED <<auth_state_, is_auth_, need_restart_, auth_query_id_, logout_next, prompting,
                       queries, inbox, td_state, database, faults, option, fresh>>
    BY DEF InitAuthDone, tdlib
  <1>2. auth_state_ = "Ready" /\ ~ logout_next /\ (option => fresh)
    BY <1>1 DEF IInv, ClientInv, AuthorizedIsReady, LogoutInv
  <1>3. TypeOK' /\ QueryInv' /\ NumberInv' /\ EndInv' /\ ClosedInv'
    BY <1>1 DEF IInv, TypeOK, QueryInv, NumberInv, EndInv, ClosedInv, IsError, IsUpdate, Query, Outcomes
  <1>4. ClientInv' /\ OldSessionEnded' /\ LogoutInv'
    BY <1>1, <1>2 DEF IInv, ClientInv, AuthorizedIsReady, OldSessionEnded, LogoutInv
  <1> QED
    BY <1>3, <1>4 DEF IInv

LEMMA NextIInv == IInv /\ [Next]_vars => IInv'
  <1> SUFFICES ASSUME IInv, [Next]_vars PROVE IInv'
    OBVIOUS
  <1>1. CASE UNCHANGED vars
    BY <1>1 DEF vars, client, tdlib, IInv, TypeOK, QueryInv, NumberInv, EndInv, ClosedInv, ClientInv,
                AuthorizedIsReady, LogoutInv, OldSessionEnded, IsError, IsUpdate, Query, Outcomes
  <1>2. CASE ClientStep
    BY <1>1, <1>2, ReceiveUpdateIInv, ReceiveErrorIInv, EnterInputIInv, InitAuthDoneIInv, RestartIInv
       DEF ClientStep, ReceiveNothing
  <1> QED
    BY <1>1, <1>2, AcceptIInv, RefuseIInv, TdlibIInv DEF Next

LEMMA Inductive == Spec => []IInv
  BY InitIInv, NextIInv, PTL DEF Spec
-----------------------------------------------------------------------------
\* Every variable keeps its type, and the program waits for the user only in a
\* state in which it has asked something.
THEOREM TypeCorrect == Spec => []TypeOK
  <1>1. IInv => TypeOK
    BY DEF IInv
  <1> QED
    BY <1>1, Inductive, PTL

\* is_auth_ is set only while the last state heard of is Ready, so the UI
\* starts on a session that is ready, and process_auth never reads std::cin
\* behind the UI.
THEOREM AlwaysAuthorizedWhenReady == Spec => []AuthorizedIsReady
  <1>1. IInv => AuthorizedIsReady
    BY DEF IInv, ClientInv
  <1> QED
    BY <1>1, Inductive, PTL

\* With --logout the UI never starts on the session that was found.
THEOREM OldSessionAlwaysEnded == Spec => []OldSessionEnded
  <1>1. IInv => OldSessionEnded
    BY DEF IInv
  <1> QED
    BY <1>1, Inductive, PTL

\* With --logout no session the user has logged in to is ended.
THEOREM NewSessionAlwaysKept == Spec => []NewSessionKept
  <1>1. IInv => NewSessionKept
    BY DEF IInv, ClientInv, NewSessionKept
  <1> QED
    BY <1>1, Inductive, PTL

\* The comparison with auth_query_id_ in auth_query_handler is enough: the step
\* that an error repeats is always the one whose query failed, also across
\* restarts.
THEOREM ErrorsRepeatTheirStep == Spec => ErrorRepeatsItsStep
  <1>1. ASSUME IInv, [Next]_vars, inbox # <<>>, inbox' = Tail(inbox), Head(inbox).kind = "error",
               auth_query_id_' # auth_query_id_
        PROVE  Head(inbox).asked = auth_state_
    <2>0. /\ 1 \in DOMAIN inbox /\ Head(inbox) = inbox[1]
          /\ \A i \in DOMAIN inbox' : i + 1 \in DOMAIN inbox /\ inbox'[i] = inbox[i + 1]
      BY <1>1, TakeFacts DEF IInv
    <2>1. CASE ReceiveError
      BY <1>1, <2>0, <2>1 DEF ReceiveError, IInv, NumberInv, IsError
    <2>2. CASE Restart
      <3>1. /\ inbox' = <<Update("WaitTdlibParameters")>> /\ auth_state_ \in EndStates
            /\ DOMAIN inbox' = {1}
            /\ inbox'[1].kind = "update" /\ inbox'[1].state = "WaitTdlibParameters"
        <4>1. inbox' = <<Update("WaitTdlibParameters")>> /\ need_restart_
          BY <2>2 DEF Restart, NewClient
        <4>2. auth_state_ \in EndStates
          BY <1>1, <4>1 DEF IInv, ClosedInv
        <4> QED
          BY <4>1, <4>2, MessageFacts, StateFacts
      <3>2. 2 \in DOMAIN inbox /\ IsUpdate(2) /\ inbox[2].state = "WaitTdlibParameters"
        BY <2>0, <3>1 DEF IsUpdate
      <3> QED
        BY <1>1, <3>1, <3>2 DEF IInv, EndInv
    <2>3. CASE ~ ReceiveError /\ ~ Restart
      <3>1. ~ ReceiveUpdate
        BY <1>1 DEF ReceiveUpdate
      <3> QED
        BY <1>1, <2>3, <3>1 DEF Next, ClientStep, ReceiveNothing, EnterInput, InitAuthDone, Accept, Refuse,
            ConfirmOther, LoseSession, Close, vars, client
    <2> QED BY <2>1, <2>2, <2>3
  <1>2. IInv /\ [Next]_vars =>
          [inbox # <<>> /\ inbox' = Tail(inbox) /\ Head(inbox).kind = "error"
             /\ auth_query_id_' # auth_query_id_ => Head(inbox).asked = auth_state_]_vars
    BY <1>1
  <1> QED
    BY <1>2, Inductive, PTL DEF Spec, ErrorRepeatsItsStep
=============================================================================
