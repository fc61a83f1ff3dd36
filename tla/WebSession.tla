------------------------------ MODULE WebSession ------------------------------
(***************************************************************************)
(* How a page keeps its session (the additions to jquery-1.10.1.js): a     *)
(* request carries the session's token; one that is refused logs in anew   *)
(* with the stored password and is sent again; when that fails the log-in  *)
(* page is shown.  Requests overlap, their answers come in any order, and  *)
(* one may never come.                                                     *)
(* The server is external: it takes the tokens in `valid' and hands out a  *)
(* new one, up to MaxLogins, to whoever logs in with the right password.   *)
(***************************************************************************)
EXTENDS Naturals, FiniteSets

CONSTANTS Requests, MaxLogins

ASSUME SessionAssumption == MaxLogins \in Nat

VARIABLES
  authStatus, \* authRltObj.authStatus
  code,       \* authRltObj.code: "reset" once the device was reset
  pwd,        \* is a password stored
  session,    \* the token, 0 for none
  logoutHandle,
  login,      \* is the log-in page shown
  flight,     \* [request -> [what, leg, stok]]: the leg its answer is awaited for
  timers,     \* the pending timers of 0 ms, "show" and "fail"
  valid,      \* the tokens the server takes
  issued,     \* how many it has handed out
  lost        \* an answer to a log-in or to a request sent again was lost

pageVars == <<authStatus, code, pwd, session, logoutHandle, login>>
sessionVars == <<pageVars, flight, timers, valid, issued, lost>>

Idle == [what |-> "none", leg |-> "none", stok |-> 0]
Leg(l) == {r \in Requests : flight[r].leg = l}
Awaiting(r, l) == [flight EXCEPT ![r].leg = l]

InitSession ==
  /\ authStatus = TRUE /\ code = "normal" /\ pwd \in BOOLEAN /\ session = 0
  /\ logoutHandle = FALSE /\ login = FALSE
  /\ flight = [r \in Requests |-> Idle]
  /\ timers = {} /\ valid = {} /\ issued = 0 /\ lost = FALSE

\* The page's callback of a request; only logout's matters to the session.
Callback(what) ==
  IF what = "logout"
  THEN session' = 0 /\ pwd' = FALSE /\ code' = "normal" /\ login' = TRUE /\ logoutHandle' = TRUE
  ELSE UNCHANGED <<session, pwd, code, login, logoutHandle>>

\* While the status is false nothing is sent: the callback runs at once, as if
\* after a success.
sendDsReq(r, what) ==
  /\ flight[r] = Idle
  /\ \/ /\ authStatus
        /\ flight' = [flight EXCEPT ![r] = [what |-> what, leg |-> "first", stok |-> session]]
        /\ UNCHANGED pageVars
     \/ /\ ~authStatus
        /\ Callback(what)
        /\ UNCHANGED <<authStatus, flight>>
  /\ UNCHANGED <<timers, valid, issued, lost>>

\* loginErrHandle forgets the password and shows the log-in page.
loginErrHandle == pwd' = FALSE /\ login' = TRUE

\* The server ends the session of a logout it takes.
Accepted(r, l) ==
  /\ flight[r].leg = l /\ flight[r].stok \in valid
  /\ authStatus' = IF l = "again" THEN TRUE ELSE authStatus
  /\ Callback(flight[r].what)
  /\ valid' = IF flight[r].what = "logout" THEN valid \ {flight[r].stok} ELSE valid
  /\ flight' = [flight EXCEPT ![r] = Idle]
  /\ UNCHANGED <<timers, issued, lost>>

\* postDsUnAuthHandle, with the code c of the refusal.
postDsUnAuthHandle(r, c) ==
  /\ flight[r].leg = "first" /\ flight[r].stok \notin valid
  /\ IF logoutHandle
     THEN /\ flight' = [flight EXCEPT ![r] = Idle]
          /\ UNCHANGED <<authStatus, code, logoutHandle, timers>>
     ELSE /\ authStatus' = FALSE /\ code' = c
          /\ IF ~pwd \/ c = "reset"
             THEN /\ timers' = timers \cup {"show"}
                  /\ flight' = [flight EXCEPT ![r] = Idle]
                  /\ UNCHANGED logoutHandle
             ELSE /\ logoutHandle' = FALSE
                  /\ flight' = Awaiting(r, "login")
                  /\ UNCHANGED timers
  /\ UNCHANGED <<pwd, session, login, valid, issued, lost>>

\* auth, answered with a token: earlier tokens stay valid or not.
NewToken ==
  /\ issued < MaxLogins
  /\ issued' = issued + 1
  /\ session' = issued + 1
  /\ valid' \in {valid \cup {issued + 1}, {issued + 1}}
  /\ pwd' = TRUE /\ authStatus' = TRUE

AuthDone(r) ==
  /\ flight[r].leg = "login"
  /\ NewToken
  /\ flight' = [flight EXCEPT ![r].leg = "again", ![r].stok = issued + 1]
  /\ UNCHANGED <<code, logoutHandle, login, timers, lost>>

\* Slip: nothing is done when the stored password is refused.
AuthFailsSilent(r, c) ==
  /\ flight[r].leg = "login"
  /\ authStatus' = FALSE /\ code' = c
  /\ flight' = [flight EXCEPT ![r] = Idle]
  /\ UNCHANGED <<pwd, session, logoutHandle, login, timers, valid, issued, lost>>

AuthFails(r, c) ==
  /\ flight[r].leg = "login"
  /\ authStatus' = FALSE /\ code' = c
  /\ timers' = timers \cup {"fail"}
  /\ flight' = [flight EXCEPT ![r] = Idle]
  /\ UNCHANGED <<pwd, session, logoutHandle, login, valid, issued, lost>>

\* The request sent again is refused too: another log-in has replaced its
\* token, or the session has ended.
AgainRefused(r, c) ==
  /\ flight[r].leg = "again" /\ flight[r].stok \notin valid
  /\ authStatus' = FALSE /\ code' = c
  /\ loginErrHandle
  /\ flight' = [flight EXCEPT ![r] = Idle]
  /\ UNCHANGED <<session, logoutHandle, timers, valid, issued, lost>>

TimerFires(t) ==
  /\ t \in timers
  /\ timers' = timers \ {t}
  /\ authStatus' = IF t = "fail" THEN FALSE ELSE authStatus
  /\ loginErrHandle
  /\ UNCHANGED <<code, session, logoutHandle, flight, valid, issued, lost>>

\* The log-in page (external) sends the typed password with auth, and is
\* unloaded on success.
UserAuth(r) ==
  /\ login /\ Leg("user") = {} /\ flight[r] = Idle
  /\ logoutHandle' = FALSE
  /\ flight' = [flight EXCEPT ![r] = [what |-> "auth", leg |-> "user", stok |-> 0]]
  /\ UNCHANGED <<authStatus, code, pwd, session, login, timers, valid, issued, lost>>
UserAuthDone(r) ==
  /\ flight[r].leg = "user"
  /\ NewToken
  /\ login' = FALSE
  /\ flight' = [flight EXCEPT ![r] = Idle]
  /\ UNCHANGED <<code, logoutHandle, timers, lost>>
UserAuthFails(r, c) ==
  /\ flight[r].leg = "user"
  /\ authStatus' = FALSE /\ code' = c
  /\ flight' = [flight EXCEPT ![r] = Idle]
  /\ UNCHANGED <<pwd, session, logoutHandle, login, timers, valid, issued, lost>>

\* An answer is lost: no callback of the page runs.
LoseAnswer(r) ==
  /\ flight[r] # Idle
  /\ flight' = [flight EXCEPT ![r] = Idle]
  /\ lost' = (lost \/ flight[r].leg \in {"login", "again"})
  /\ UNCHANGED <<pageVars, timers, valid, issued>>

\* The server ends its sessions.
Expire ==
  /\ valid # {}
  /\ valid' = {}
  /\ UNCHANGED <<pageVars, flight, timers, issued, lost>>

\* The user reloads the page: the scripts start anew with the stored password.
Reload ==
  /\ authStatus' = TRUE /\ code' = "normal" /\ session' = 0
  /\ logoutHandle' = FALSE /\ login' = FALSE
  /\ flight' = [r \in Requests |-> Idle]
  /\ timers' = {} /\ lost' = FALSE
  /\ UNCHANGED <<pwd, valid, issued>>

NextSession ==
  \/ \E r \in Requests, what \in {"data", "logout"} : sendDsReq(r, what)
  \/ \E r \in Requests, l \in {"first", "again"} : Accepted(r, l)
  \/ \E r \in Requests, c \in {"normal", "reset"} :
       postDsUnAuthHandle(r, c) \/ AuthFails(r, c) \/ AgainRefused(r, c) \/ UserAuthFails(r, c)
  \/ \E r \in Requests : AuthDone(r) \/ UserAuth(r) \/ UserAuthDone(r) \/ LoseAnswer(r)
  \/ \E t \in timers : TimerFires(t)
  \/ Expire
  \/ Reload

------------------------------------------------------------------------------
\* While the status is false every request of the page is answered with a
\* made-up success and nothing is sent, be it a logout.  The page never stays in that state
\* without the log-in page: it is shown, or it will be when the answer to a
\* log-in or a timer arrives - unless that answer is lost.
NotStranded ==
  ~authStatus /\ ~lost /\ timers = {} /\ Leg("login") \cup Leg("again") = {} => login
==============================================================================
