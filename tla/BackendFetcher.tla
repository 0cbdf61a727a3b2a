---------------------------- MODULE BackendFetcher ----------------------------
(***************************************************************************)
(* The backend clients' `get`, src/secret_source.rs `BwsRest`; the control *)
(* of src/vaultwarden.rs `VaultwardenFetcher` is the same.  One call at a  *)
(* time holds the state mutex, across the credential unlock, the login and *)
(* the fetch; the others wait for it in FIFO order.                        *)
(*                                                                         *)
(* Every login that succeeds makes a bearer of its own, numbered in order; *)
(* `live` are those the server accepts.  `now` is the monotonic clock that *)
(* the login backoff is measured on.                                       *)
(***************************************************************************)
EXTENDS Integers, Sequences

CONSTANTS
    Callers,      \* tasks that call `get`
    Source,       \* where credentials come from: "env" or "keychain"
    Backoff,      \* LOGIN_RETRY_BACKOFF
    MaxTime,      \* bound on the clock
    MaxLogins,    \* bound on the bearers the server hands out
    NoSession, Never

ASSUME FetcherAssumption ==
    /\ Source \in {"env", "keychain"}
    /\ {Backoff, MaxTime, MaxLogins} \subseteq Nat
    /\ NoSession \notin Nat
    /\ Never \notin Nat

VARIABLES
    now,
    live,       \* bearers the server accepts
    issued,     \* how many it has handed out
    stage,      \* of each call: "idle", "queued", "attempt", "unlock",
                \* "read", "login", "fetch" or "done"
    attempt,    \* the attempt, 0 or 1, of the call that holds the mutex
    waiters,    \* holder and waiters of the state mutex
    session,    \* AuthState.session
    failedAt,   \* AuthState.failed_at
    outcome,    \* what the call returned, until its caller takes it
    \* History, read by the properties only:
    logins,     \* logins begun by the call
    refused,    \* the server answered 401 to the call's first fetch
    lastLogin   \* when the last login of any call failed; Never if it did not

vars == <<now, live, issued, stage, attempt, waiters, session, failedAt,
          outcome, logins, refused, lastLogin>>

Bearers == 1..MaxLogins
Stages == {"idle", "queued", "attempt", "unlock", "read", "login", "fetch",
           "done"}

\* The errors `get` returns.  Only `backoff` carries a number: the seconds
\* left, as check_login_backoff puts them in its message.
BackoffError(seconds) == [error |-> "backoff", left |-> seconds]
Error(kind) == [error |-> kind, left |-> 0]
Success == [error |-> "none", left |-> 0]

TypeOK ==
    /\ now \in 0..MaxTime
    /\ live \in SUBSET Bearers
    /\ issued \in 0..MaxLogins
    /\ stage \in [Callers -> Stages]
    /\ attempt \in 0..1
    /\ waiters \in Seq(Callers)
    /\ session \in Bearers \cup {NoSession}
    /\ failedAt \in 0..MaxTime \cup {Never}
    /\ outcome \in [Callers -> [error : {"none", "backoff", "unlock", "read",
                                         "login", "fetch"}, left : 0..Backoff]]
    /\ logins \in [Callers -> 0..2]
    /\ refused \in [Callers -> BOOLEAN]
    /\ lastLogin \in 0..MaxTime \cup {Never}

Init ==
    /\ now = 0 /\ live = {} /\ issued = 0
    /\ stage = [c \in Callers |-> "idle"]
    /\ attempt = 0
    /\ waiters = <<>>
    /\ session = NoSession /\ failedAt = Never
    /\ outcome = [c \in Callers |-> Success]
    /\ logins = [c \in Callers |-> 0]
    /\ refused = [c \in Callers |-> FALSE]
    /\ lastLogin = Never

Move(c, to) == stage' = [stage EXCEPT ![c] = to]

-----------------------------------------------------------------------------
(* The clock, and the server: a bearer expires or is revoked.               *)

Tick ==
    /\ now < MaxTime /\ now' = now + 1
    /\ UNCHANGED <<live, issued, stage, attempt, waiters, session, failedAt,
                   outcome, logins, refused, lastLogin>>

Expire ==
    /\ \E b \in live : live' = live \ {b}
    /\ UNCHANGED <<now, issued, stage, attempt, waiters, session, failedAt,
                   outcome, logins, refused, lastLogin>>

-----------------------------------------------------------------------------
(* `get`.                                                                   *)

\* Fault: a new call overtakes those that wait for the state.
Get_Overtakes(c) ==
    /\ stage[c] = "idle"
    /\ Move(c, "queued")
    /\ waiters' = IF waiters = <<>> THEN <<c>>
                  ELSE <<Head(waiters), c>> \o Tail(waiters)
    /\ UNCHANGED <<now, live, issued, attempt, session, failedAt,
                   outcome, logins, refused, lastLogin>>

Get(c) ==
    /\ stage[c] = "idle"
    /\ Move(c, "queued")
    /\ waiters' = Append(waiters, c)
    /\ UNCHANGED <<now, live, issued, attempt, session, failedAt,
                   outcome, logins, refused, lastLogin>>

\* Fault: the state is not held across the call.
Enter_Unlocked(c) ==
    /\ stage[c] = "queued"
    /\ Move(c, "attempt")
    /\ attempt' = 0
    /\ UNCHANGED <<now, live, issued, waiters, session, failedAt,
                   outcome, logins, refused, lastLogin>>

Enter(c) ==
    /\ stage[c] = "queued"
    /\ Head(waiters) = c
    /\ Move(c, "attempt")
    /\ attempt' = 0
    /\ UNCHANGED <<now, live, issued, waiters, session, failedAt,
                   outcome, logins, refused, lastLogin>>

\* `backoff.saturating_sub(elapsed)`: how long logins still fail fast.
WaitLeft == IF failedAt # Never /\ now - failedAt < Backoff
            THEN Backoff - (now - failedAt) ELSE 0

\* Return `result` and drop the state guard.
Finish(c, result) ==
    /\ Move(c, "done")
    /\ outcome' = [outcome EXCEPT ![c] = result]
    /\ waiters' = Tail(waiters)

\* With a session, fetch; without one, log in, unless a login failed less
\* than the backoff ago.
BeginAttempt(c) ==
    /\ stage[c] = "attempt"
    /\ \/ /\ session # NoSession
          /\ Move(c, "fetch")
          /\ UNCHANGED <<waiters, outcome, logins>>
       \/ /\ session = NoSession /\ WaitLeft > 0
          /\ Finish(c, BackoffError(WaitLeft))
          /\ UNCHANGED logins
       \/ /\ session = NoSession /\ WaitLeft = 0
          /\ Move(c, IF Source = "keychain" THEN "unlock" ELSE "login")
          /\ logins' = [logins EXCEPT ![c] = @ + 1]
          /\ UNCHANGED <<waiters, outcome>>
    /\ UNCHANGED <<now, live, issued, attempt, session, failedAt,
                   refused, lastLogin>>

\* Fault: a failed login is not stamped when no request was made.
LoginFailed_NotStamped(c, kind) ==
    /\ failedAt' = IF kind = "login" THEN now ELSE failedAt
    /\ lastLogin' = now
    /\ Finish(c, Error(kind))

LoginFailed(c, kind) ==
    /\ failedAt' = now
    /\ lastLogin' = now
    /\ Finish(c, Error(kind))

\* The presence gate on the credential unlock: approved, denied or failed.
UnlockVerdict(c) ==
    /\ stage[c] = "unlock"
    /\ \/ /\ Move(c, "read")
          /\ UNCHANGED <<failedAt, lastLogin, outcome, waiters>>
       \/ LoginFailed(c, "unlock")
    /\ UNCHANGED <<now, live, issued, attempt, session, logins, refused>>

\* The keychain entries are there and parse, or not.
ReadKeychain(c) ==
    /\ stage[c] = "read"
    /\ \/ Move(c, "login") /\ UNCHANGED <<failedAt, lastLogin, outcome, waiters>>
       \/ LoginFailed(c, "read")
    /\ UNCHANGED <<now, live, issued, attempt, session, logins, refused>>

\* `authenticate`: the token exchange and the organization or user key.
Authenticate(c) ==
    /\ stage[c] = "login"
    /\ \/ /\ issued < MaxLogins
          /\ issued' = issued + 1
          /\ live' = live \cup {issued + 1}
          /\ session' = issued + 1
          /\ failedAt' = Never
          /\ lastLogin' = Never
          /\ Move(c, "fetch")
          /\ UNCHANGED <<outcome, waiters>>
       \/ LoginFailed(c, "login") /\ UNCHANGED <<live, issued, session>>
    /\ UNCHANGED <<now, attempt, logins, refused>>

\* Fault: any failed fetch drops the session.
FetchAnswered_AlwaysDrops(c) ==
    /\ stage[c] = "fetch"
    /\ \/ session \in live /\ Finish(c, Success) /\ UNCHANGED session
       \/ Finish(c, Error("fetch")) /\ session' = NoSession
    /\ UNCHANGED <<now, live, issued, attempt, failedAt, logins, refused, lastLogin>>

\* Fault: any failed fetch is tried again on a fresh login.
FetchAnswered_RetriesAll(c) ==
    /\ stage[c] = "fetch"
    /\ \/ /\ attempt = 0
          /\ session' = NoSession
          /\ attempt' = 1
          /\ Move(c, "attempt")
          /\ refused' = [refused EXCEPT ![c] = session \notin live]
          /\ UNCHANGED <<outcome, waiters>>
       \/ /\ attempt = 1
          /\ Finish(c, Error("fetch"))
          /\ UNCHANGED <<session, attempt, refused>>
    /\ UNCHANGED <<now, live, issued, failedAt, logins, lastLogin>>

\* Fault: a refused fetch is tried again without end.
FetchAnswered_Endless(c) ==
    /\ stage[c] = "fetch"
    /\ \/ /\ session \notin live
          /\ session' = NoSession
          /\ refused' = [refused EXCEPT ![c] = TRUE]
          /\ Move(c, "attempt")
          /\ UNCHANGED <<outcome, waiters>>
       \/ /\ session \in live
          /\ Finish(c, Success)
          /\ UNCHANGED <<session, refused>>
    /\ UNCHANGED <<now, live, issued, attempt, failedAt, logins,
                   lastLogin>>

\* A 401 on the first attempt drops the session and tries once more; any
\* other answer, or none, ends the call and keeps the session.
FetchAnswered(c) ==
    /\ stage[c] = "fetch"
    /\ \/ /\ session \notin live /\ attempt = 0
          /\ session' = NoSession
          /\ attempt' = 1
          /\ refused' = [refused EXCEPT ![c] = TRUE]
          /\ Move(c, "attempt")
          /\ UNCHANGED <<outcome, waiters>>
       \/ /\ session \notin live /\ attempt = 1
          /\ Finish(c, Error("fetch"))
          /\ UNCHANGED <<session, attempt, refused>>
       \/ /\ session \in live
          /\ Finish(c, Success)
          /\ UNCHANGED <<session, attempt, refused>>
       \/ /\ Finish(c, Error("fetch"))
          /\ UNCHANGED <<session, attempt, refused>>
    /\ UNCHANGED <<now, live, issued, failedAt, logins, lastLogin>>

\* The caller takes the answer, and the call is over.
Take(c) ==
    /\ stage[c] = "done"
    /\ Move(c, "idle")
    /\ outcome' = [outcome EXCEPT ![c] = Success]
    /\ logins' = [logins EXCEPT ![c] = 0]
    /\ refused' = [refused EXCEPT ![c] = FALSE]
    /\ UNCHANGED <<now, live, issued, attempt, waiters, session, failedAt,
                   lastLogin>>

Next ==
    \/ Tick
    \/ Expire
    \/ \E c \in Callers :
          \/ Get(c)
          \/ Enter(c)
          \/ BeginAttempt(c)
          \/ UnlockVerdict(c)
          \/ ReadKeychain(c)
          \/ Authenticate(c)
          \/ FetchAnswered(c)
          \/ Take(c)

Spec == Init /\ [][Next]_vars

\* Tasks run; prompts and HTTP requests end within their time limits.
Fairness == \A c \in Callers :
    /\ WF_vars(Enter(c))
    /\ WF_vars(BeginAttempt(c))
    /\ WF_vars(UnlockVerdict(c))
    /\ WF_vars(ReadKeychain(c))
    /\ WF_vars(Authenticate(c))
    /\ WF_vars(FetchAnswered(c))
    /\ WF_vars(Take(c))

FairSpec == Spec /\ Fairness

-----------------------------------------------------------------------------
(* Properties.                                                              *)

LoginBegins(c) == logins'[c] > logins[c]

(* "How long both fetchers fail fast before trying -- and prompting --      *)
(* again": no caller starts a login, hence raises an unlock prompt, within  *)
(* the backoff of the last login any caller saw fail.                       *)
BackoffRespected == [][\A c \in Callers :
    LoginBegins(c) => lastLogin = Never \/ now - lastLogin >= Backoff]_vars

(* A call whose session was renewed by another call uses it: nobody logs in *)
(* again, and prompts again, while the last bearer handed out still works.  *)
NoNeedlessLogin == [][\A c \in Callers :
    LoginBegins(c) => issued \notin live]_vars

(* "The second runs only after a 401, on a fresh login": a call begins a    *)
(* second login only after the server refused its first fetch.              *)
RetryOnlyAfterRefusal == \A c \in Callers : logins[c] = 2 => refused[c]

(* The call in the middle of a login or a fetch is alone with the session.  *)
OneInside == \A c, d \in Callers :
    /\ stage[c] \notin {"idle", "queued", "done"}
    /\ stage[d] \notin {"idle", "queued", "done"}
    => c = d

(* Every call returns.                                                      *)
GetReturns == \A c \in Callers : stage[c] = "queued" ~> stage[c] = "done"
=============================================================================
