-------------------------------- MODULE Auth --------------------------------
(***************************************************************************)
(* The login of chatcurse: init_auth and process_auth of src/src/tg.cc and *)
(* auth_query_handler of src/src/tg.h, against TDLib's authorization       *)
(* states (here without their prefix authorizationState).                  *)
(*                                                                         *)
(* TDLib sends updates and answers in one stream.  A positive answer has   *)
(* no effect in the client and is left out: only errors are answers here.  *)
(***************************************************************************)
EXTENDS Naturals, Sequences, FiniteSets

CONSTANT MaxFaults  \* bound on errors, lost sessions and renewed QR links

ASSUME AuthAssumption == MaxFaults \in Nat

VARIABLES auth_state_,     \* "None" before the first update
          is_auth_, need_restart_, auth_query_id_, logout_next,
          phase,           \* "init_auth", then "running" (set_response_handlers)
          prompting,       \* process_auth waits for std::cin
          queries,         \* authorization queries TDLib has not answered
          inbox,           \* what TDLib has sent and nobody has received
          td_state,        \* TDLib's own authorization state
          database,        \* the state TDLib takes from its database
          faults,          \* of MaxFaults
          option,          \* history: --logout was given
          fresh            \* history: the user was asked to log in

client == <<auth_state_, is_auth_, need_restart_, auth_query_id_, logout_next, phase, prompting>>
tdlib == <<queries, inbox, td_state, database, faults>>
vars == <<client, tdlib, option, fresh>>

\* The queries that process_auth sends in a state.
Asks ==
    [WaitTdlibParameters |-> {"setTdlibParameters"},
     WaitPhoneNumber |-> {"setAuthenticationPhoneNumber", "requestQrCodeAuthentication"},
     WaitCode |-> {"checkAuthenticationCode"},
     WaitEmailAddress |-> {"setAuthenticationEmailAddress"},
     WaitEmailCode |-> {"checkAuthenticationEmailCode"},
     WaitRegistration |-> {"registerUser"}]

\* The states in which process_auth reads std::cin.
Prompts == DOMAIN Asks \ {"WaitTdlibParameters"}

\* The states TDLib may go to when it accepts a query.
Outcomes ==
    [setTdlibParameters |-> {database},
     setAuthenticationPhoneNumber |-> {"WaitCode", "WaitEmailAddress", "WaitEmailCode", "Ready"},
     requestQrCodeAuthentication |-> {"WaitOtherDeviceConfirmation"},
     checkAuthenticationCode |-> {"Ready", "WaitRegistration", "WaitPassword"},
     setAuthenticationEmailAddress |-> {"WaitEmailCode"},
     checkAuthenticationEmailCode |-> {"WaitCode", "Ready", "WaitPassword"},
     registerUser |-> {"Ready"},
     logOut |-> {"LoggingOut"}]

\* Closing, which follows a close or a hangup only, does not occur: the program
\* asks for neither.
States == DOMAIN Asks \cup {"WaitOtherDeviceConfirmation", "WaitPassword", "Ready",
                            "LoggingOut", "Closed"}

Update(s) == [kind |-> "update", state |-> s]
Error(q) == [kind |-> "error", asked |-> q.asked, id |-> q.id]

\* A client that has just been constructed, and the first update TDLib has
\* for it.
NewClient ==
    /\ auth_state_' = "None"
    /\ is_auth_' = FALSE
    /\ need_restart_' = FALSE
    /\ auth_query_id_' = 0
    /\ queries' = {}
    /\ inbox' = <<Update("WaitTdlibParameters")>>
    /\ td_state' = "WaitTdlibParameters"

\* TDLib's database holds a session, an unfinished login or logout, or nothing.
Init ==
    /\ auth_state_ = "None"
    /\ is_auth_ = FALSE
    /\ need_restart_ = FALSE
    /\ auth_query_id_ = 0
    /\ option \in BOOLEAN /\ logout_next = option
    /\ phase = "init_auth"
    /\ prompting = FALSE
    /\ queries = {}
    /\ inbox = <<Update("WaitTdlibParameters")>>
    /\ td_state = "WaitTdlibParameters"
    /\ database \in States \ {"WaitTdlibParameters", "Closed"}
    /\ faults = 0
    /\ fresh = FALSE
-----------------------------------------------------------------------------
Send(f, s, id) == queries' = queries \cup {[function |-> f, asked |-> s, id |-> id]}

SendParameters(s) ==
    /\ s = "WaitTdlibParameters"
    /\ Send("setTdlibParameters", s, auth_query_id_')
    /\ UNCHANGED <<is_auth_, need_restart_, logout_next, prompting, fresh>>

\* Mutant of AskUser: a login in this run is still to be logged out.
AskUserLogoutKept(s) ==
    /\ s \in Prompts
    /\ prompting' = TRUE
    /\ fresh' = TRUE
    /\ UNCHANGED <<is_auth_, need_restart_, logout_next, queries>>

\* The prompt is written; EnterInput is what follows std::cin.
AskUser(s) ==
    /\ s \in Prompts
    /\ logout_next' = FALSE
    /\ prompting' = TRUE
    /\ fresh' = TRUE
    /\ UNCHANGED <<is_auth_, need_restart_, queries>>

ShowQrCode(s) ==
    /\ s = "WaitOtherDeviceConfirmation"
    /\ logout_next' = FALSE
    /\ fresh' = TRUE
    /\ UNCHANGED <<is_auth_, need_restart_, prompting, queries>>

\* Mutant of LogIn: the session is used at once.
LogInAnyway(s) ==
    /\ s = "Ready"
    /\ is_auth_' = TRUE
    /\ UNCHANGED <<queries, need_restart_, logout_next, prompting, fresh>>

\* With --logout the session found is ended, without a handler for the answer.
LogIn(s) ==
    /\ s = "Ready"
    /\ \/ /\ logout_next
          /\ logout_next' = FALSE
          /\ Send("logOut", s, auth_query_id_')
          /\ UNCHANGED is_auth_
       \/ /\ ~ logout_next
          /\ is_auth_' = TRUE
          /\ UNCHANGED <<logout_next, queries>>
    /\ UNCHANGED <<need_restart_, prompting, fresh>>

\* Mutant of LogOut: only the end of the session is noted.
LogOutLate(s) ==
    /\ s \in {"LoggingOut", "Closed"}
    /\ is_auth_' = (is_auth_ /\ s = "LoggingOut")
    /\ need_restart_' = (need_restart_ \/ s = "Closed")
    /\ UNCHANGED <<logout_next, prompting, fresh, queries>>

\* Mutant of LogOut: no new client is asked for.
LogOutForGood(s) ==
    /\ s \in {"LoggingOut", "Closed"}
    /\ is_auth_' = FALSE
    /\ UNCHANGED <<need_restart_, logout_next, prompting, fresh, queries>>

LogOut(s) ==
    /\ s \in {"LoggingOut", "Closed"}
    /\ is_auth_' = FALSE
    /\ need_restart_' = (need_restart_ \/ s = "Closed")
    /\ UNCHANGED <<logout_next, prompting, fresh, queries>>

\* The default of process_auth, which is also where a password is asked for.
IgnoreState(s) ==
    /\ s = "WaitPassword"
    /\ UNCHANGED <<is_auth_, need_restart_, logout_next, prompting, fresh, queries>>

process_auth(s) ==
    /\ auth_query_id_' = auth_query_id_ + 1
    /\ \/ SendParameters(s) \/ AskUser(s) \/ ShowQrCode(s)
       \/ LogIn(s) \/ LogOut(s) \/ IgnoreState(s)
-----------------------------------------------------------------------------
\* Mutant of Receiving: updates are received while the user is asked.
ReceivingWhilePrompting == phase = "init_auth" => ~ need_restart_ /\ ~ is_auth_

\* init_auth receives until the user is authorized, set_response_handlers for
\* ever; neither does while process_auth waits for the user.
Receiving ==
    /\ ~ prompting
    /\ phase = "init_auth" => ~ need_restart_ /\ ~ is_auth_

ReceiveUpdate ==
    /\ Receiving /\ inbox # <<>> /\ Head(inbox).kind = "update"
    /\ inbox' = Tail(inbox)
    /\ auth_state_' = Head(inbox).state
    /\ process_auth(Head(inbox).state)
    /\ UNCHANGED <<phase, td_state, database, faults, option>>

\* Mutant of ReceiveError: the number of the query is not compared.
ReceiveAnyError ==
    /\ Receiving /\ inbox # <<>> /\ Head(inbox).kind = "error"
    /\ inbox' = Tail(inbox)
    /\ process_auth(auth_state_)
    /\ UNCHANGED <<auth_state_, phase, td_state, database, faults, option>>

\* The handler of a query: an error repeats the step, unless the state has
\* changed since the query was sent.
ReceiveError ==
    /\ Receiving /\ inbox # <<>> /\ Head(inbox).kind = "error"
    /\ inbox' = Tail(inbox)
    /\ \/ /\ Head(inbox).id = auth_query_id_
          /\ process_auth(auth_state_)
       \/ /\ Head(inbox).id # auth_query_id_
          /\ UNCHANGED <<is_auth_, need_restart_, auth_query_id_, logout_next, prompting, fresh, queries>>
    /\ UNCHANGED <<auth_state_, phase, td_state, database, faults, option>>

\* receive returned nothing within its time.
ReceiveNothing == Receiving /\ inbox = <<>> /\ UNCHANGED vars

\* The user answers the prompt; "0" for the phone number asks for a QR code.
EnterInput ==
    /\ prompting
    /\ prompting' = FALSE
    /\ \E f \in Asks[auth_state_] : Send(f, auth_state_, auth_query_id_)
    /\ UNCHANGED <<auth_state_, is_auth_, need_restart_, auth_query_id_, logout_next, phase,
                   inbox, td_state, database, faults, option, fresh>>

InitAuthDone ==
    /\ phase = "init_auth" /\ ~ prompting /\ ~ need_restart_ /\ is_auth_
    /\ phase' = "running"
    /\ UNCHANGED <<auth_state_, is_auth_, need_restart_, auth_query_id_, logout_next, prompting,
                   tdlib, option, fresh>>

\* Only init_auth looks at need_restart_.  logout_next is no member of the
\* client and stays.
Restart ==
    /\ phase = "init_auth" /\ ~ prompting /\ need_restart_
    /\ NewClient
    /\ UNCHANGED <<logout_next, phase, prompting, database, faults, option, fresh>>

ClientStep ==
    \/ ReceiveUpdate \/ ReceiveError \/ ReceiveNothing
    \/ EnterInput \/ InitAuthDone \/ Restart
-----------------------------------------------------------------------------
(***************************************************************************)
(* TDLib.                                                                  *)
(***************************************************************************)
Goto(s) == td_state' = s /\ inbox' = Append(inbox, Update(s))

Fault == faults < MaxFaults /\ faults' = faults + 1

\* A query is accepted.  An error may still follow the update it led to.
Accept ==
    /\ \E q \in queries :
        /\ q.asked = td_state
        /\ \E s \in Outcomes[q.function] : Goto(s)
        /\ \/ queries' = queries \ {q} /\ UNCHANGED faults
           \/ Fault /\ UNCHANGED queries
    /\ UNCHANGED <<client, database, option, fresh>>

\* A query is refused: what the user entered is wrong or the query does not
\* fit TDLib's state.  The answer to logOut has no handler.
Refuse ==
    /\ td_state # "Closed"
    /\ \E q \in queries :
        /\ \/ q.asked # td_state /\ UNCHANGED faults
           \/ q.asked = td_state /\ q.function # "logOut" /\ Fault
        /\ inbox' = IF q.function = "logOut" THEN inbox ELSE Append(inbox, Error(q))
        /\ queries' = queries \ {q}
    /\ UNCHANGED <<client, td_state, database, option, fresh>>

\* The QR code is scanned, or replaced by another one.
ConfirmOther ==
    /\ td_state = "WaitOtherDeviceConfirmation"
    /\ \/ Goto("Ready") /\ UNCHANGED faults
       \/ Goto("WaitPassword") /\ UNCHANGED faults
       \/ Goto(td_state) /\ Fault
    /\ UNCHANGED <<client, queries, database, option, fresh>>

\* The session is ended from elsewhere.
LoseSession ==
    /\ td_state \notin {"WaitTdlibParameters", "LoggingOut", "Closed"}
    /\ Fault
    /\ Goto("LoggingOut")
    /\ UNCHANGED <<client, queries, database, option, fresh>>

Close ==
    /\ td_state = "LoggingOut"
    /\ Goto("Closed")
    /\ database' = "WaitPhoneNumber"
    /\ UNCHANGED <<client, queries, faults, option, fresh>>

Next == ClientStep \/ Accept \/ Refuse \/ ConfirmOther \/ LoseSession \/ Close

Spec == Init /\ [][Next]_vars

\* The program runs, the user answers prompts and scans codes, TDLib answers
\* queries and ends a session it is logging out.
Fairness ==
    /\ WF_vars(ClientStep)
    /\ WF_vars(Accept \/ Refuse) /\ WF_vars(ConfirmOther) /\ WF_vars(Close)

FairSpec == Spec /\ Fairness
-----------------------------------------------------------------------------
Query == [function : DOMAIN Outcomes, asked : States, id : Nat]
Message == [kind : {"update"}, state : States] \cup [kind : {"error"}, asked : States, id : Nat]

\* Types of the variables.
TypeOK ==
    /\ auth_state_ \in States \cup {"None"}
    /\ is_auth_ \in BOOLEAN /\ need_restart_ \in BOOLEAN /\ logout_next \in BOOLEAN
    /\ auth_query_id_ \in Nat
    /\ phase \in {"init_auth", "running"}
    /\ prompting \in BOOLEAN /\ (prompting => auth_state_ \in Prompts)
    /\ queries \subseteq Query
    /\ inbox \in Seq(Message)
    /\ td_state \in States /\ database \in States
    /\ faults \in 0 .. MaxFaults
    /\ option \in BOOLEAN /\ fresh \in BOOLEAN

\* The program takes itself for authorized only while the last state it heard
\* of is Ready; in particular the UI starts on a session that is ready, and
\* process_auth never reads std::cin again once the UI has started.
AuthorizedIsReady ==
    /\ is_auth_ => auth_state_ = "Ready"
    /\ phase = "running" => auth_state_ \in {"Ready", "LoggingOut", "Closed"} /\ ~ prompting

\* --logout: the UI never starts on the session that was found; the user has
\* logged in anew, whatever was lost, refused or restarted on the way.
OldSessionEnded == option /\ phase = "running" => fresh

\* --logout ends the session that was found and not the one the user logged in
\* to afterwards.
NewSessionKept == (\E q \in queries : q.function = "logOut") => ~ fresh

\* An error that comes late repeats nothing: the step that process_auth repeats
\* is the one whose query failed.
ErrorRepeatsItsStep ==
    [][inbox # <<>> /\ inbox' = Tail(inbox) /\ Head(inbox).kind = "error"
        /\ auth_query_id_' # auth_query_id_ => Head(inbox).asked = auth_state_]_vars

\* The login ends with the UI, whatever the database holds and whatever fails
\* a bounded number of times, except for an account with a password: no step
\* of process_auth provides it.
LoginCompletes == <>(phase = "running" \/ auth_state_ = "WaitPassword")
=============================================================================
