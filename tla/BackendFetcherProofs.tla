------------------------- MODULE BackendFetcherProofs -------------------------
(* Theorems about BackendFetcher, for any callers, either credential source *)
(* and any backoff and bounds.                                              *)
EXTENDS BackendFetcher, SequenceTheorems, TLAPS

\* A call that holds the state mutex.
Inside(c) == stage[c] \in {"attempt", "unlock", "read", "login", "fetch"}

\* The call inside is the head of the queue, and those that wait are in it.
HolderIsHead == \A c \in Callers : Inside(c) => waiters # <<>> /\ Head(waiters) = c

WaitersWait == \A c \in Callers :
    stage[c] = "queued" => \E i \in 1..Len(waiters) : waiters[i] = c

\* Logins begun match the attempt; the second attempt follows a refusal.
LoginsMatch == \A c \in Callers :
    /\ stage[c] \in {"idle", "queued"} => logins[c] = 0
    /\ stage[c] = "attempt" => logins[c] <= attempt
    /\ Inside(c) => logins[c] <= attempt + 1 /\ (attempt = 1 => refused[c])

\* The stamp the backoff is measured from is the last failed login.
StampInv == failedAt = lastLogin

\* No login failed in the future: what is left of a backoff is not longer.
StampPast == failedAt # Never => failedAt <= now

\* The session is the newest bearer; without one the newest is dead.
SessionInv ==
    /\ live \subseteq 1..issued
    /\ session = NoSession => issued \notin live
    /\ session # NoSession => session = issued

IInv ==
    /\ TypeOK
    /\ HolderIsHead
    /\ WaitersWait
    /\ LoginsMatch
    /\ RetryOnlyAfterRefusal
    /\ StampInv
    /\ StampPast
    /\ SessionInv
-----------------------------------------------------------------------------
(* Initial states and the queue.                                            *)

\* What `get` may return.
Answers == [error : {"none", "backoff", "unlock", "read", "login", "fetch"},
            left : 0..Backoff]

\* A success, a failure, and a backoff that is not longer than the backoff.
LEMMA AnswersTyped ==
    /\ Success \in Answers
    /\ \A kind \in {"unlock", "read", "login", "fetch"} : Error(kind) \in Answers
    /\ \A n \in 0..Backoff : BackoffError(n) \in Answers
<1>1. 0 \in 0..Backoff
  BY FetcherAssumption
<1> QED BY <1>1 DEF Answers, Success, Error, BackoffError

\* No call has begun, so the invariant holds.
LEMMA InitIInv == Init => IInv
<1> SUFFICES ASSUME Init PROVE IInv
  OBVIOUS
<1> USE FetcherAssumption DEF Init
<1>1. TypeOK
  BY EmptySeq, AnswersTyped DEF TypeOK, Stages, Bearers, Answers
<1> QED BY <1>1 DEF IInv, HolderIsHead, WaitersWait, Inside, LoginsMatch,
           RetryOnlyAfterRefusal, StampInv, StampPast,
           SessionInv

\* Joining the queue leaves its head, and whoever is in it, where they are.
LEMMA Joined ==
    ASSUME NEW q \in Seq(Callers), NEW c \in Callers
    PROVE  /\ Append(q, c) \in Seq(Callers)
           /\ q # <<>> => Append(q, c) # <<>> /\ Head(Append(q, c)) = Head(q)
           /\ Append(q, c)[Len(Append(q, c))] = c
           /\ \A i \in 1..Len(q) : Append(q, c)[i] = q[i]
           /\ Len(Append(q, c)) = Len(q) + 1
BY AppendProperties, HeadTailAppend

\* Leaving from the head keeps everybody else in the queue.
LEMMA Left ==
    ASSUME NEW q \in Seq(Callers), q # <<>>, NEW d \in Callers, d # Head(q),
           NEW i \in 1..Len(q), q[i] = d
    PROVE  \E j \in 1..Len(Tail(q)) : Tail(q)[j] = d
<1>1. i # 1 /\ i - 1 \in 1..Len(Tail(q)) /\ Tail(q)[i - 1] = q[i]
  BY HeadTailProperties
<1> QED BY <1>1
-----------------------------------------------------------------------------
(* What the actions of a call do to the state that calls share.             *)

\* The holder finishes: it leaves the queue, nobody else does.
LEMMA Finishes ==
    ASSUME IInv, NEW c \in Callers, Inside(c), NEW result, Finish(c, result)
    PROVE  /\ waiters' \in Seq(Callers)
           /\ stage' = [stage EXCEPT ![c] = "done"]
           /\ HolderIsHead'
           /\ WaitersWait'
<1> USE DEF IInv, TypeOK, Finish, Move
<1>1. waiters # <<>> /\ Head(waiters) = c /\ waiters' = Tail(waiters)
  BY DEF HolderIsHead
<1>2. waiters' \in Seq(Callers)
  BY <1>1, HeadTailProperties
<1>3. HolderIsHead'
  BY <1>1 DEF HolderIsHead, Inside
<1>4. ASSUME NEW d \in Callers, stage'[d] = "queued"
      PROVE  \E j \in 1..Len(waiters') : waiters'[j] = d
  <2>1. d # c /\ stage[d] = "queued"
    BY <1>4
  <2>2. PICK i \in 1..Len(waiters) : waiters[i] = d
    BY <2>1 DEF WaitersWait
  <2> QED BY <1>1, <2>1, <2>2, Left
<1> QED BY <1>2, <1>3, <1>4 DEF WaitersWait

\* The holder goes on: the queue is as it was.
LEMMA GoesOn ==
    ASSUME IInv, NEW c \in Callers, Inside(c),
           NEW to \in {"attempt", "unlock", "read", "login", "fetch"},
           Move(c, to), UNCHANGED waiters
    PROVE  HolderIsHead' /\ WaitersWait'
BY DEF IInv, TypeOK, Move, HolderIsHead, WaitersWait, Inside

\* Nobody but the holder is inside.
LEMMA HolderAlone ==
    ASSUME HolderIsHead, NEW c \in Callers, NEW d \in Callers, Inside(c), Inside(d)
    PROVE  c = d
BY DEF HolderIsHead

\* The conjuncts about what each call has done so far.
Record == LoginsMatch /\ RetryOnlyAfterRefusal

\* A failed login.
LEMMA FailedLogin ==
    ASSUME IInv, NEW c \in Callers, stage[c] \in {"unlock", "read", "login"},
           NEW kind \in {"unlock", "read", "login"}, LoginFailed(c, kind),
           UNCHANGED <<now, live, issued, attempt, session, logins, refused>>
    PROVE  IInv'
<1> USE DEF IInv, LoginFailed
<1>1. Inside(c) /\ Finish(c, Error(kind))
  BY DEF Inside
<1>2. /\ waiters' \in Seq(Callers) /\ HolderIsHead' /\ WaitersWait'
      /\ stage' = [stage EXCEPT ![c] = "done"]
  BY <1>1, Finishes
<1>3. TypeOK'
  <2>1. outcome' = [outcome EXCEPT ![c] = Error(kind)] /\ Error(kind) \in Answers
    BY <1>1, AnswersTyped DEF Finish
  <2> QED BY <1>2, <2>1 DEF TypeOK, Stages, Answers
<1>4. Record'
  BY <1>2 DEF Record, LoginsMatch, RetryOnlyAfterRefusal, Inside, TypeOK
<1>5. StampInv' /\ StampPast' /\ SessionInv'
  <2>1. now \in Int
    BY FetcherAssumption DEF TypeOK
  <2> QED BY <2>1 DEF StampInv, StampPast, SessionInv
<1> QED BY <1>2, <1>3, <1>4, <1>5 DEF Record
-----------------------------------------------------------------------------
(* The invariant is preserved.                                              *)

\* A call joins the queue behind the others.
LEMMA GetStep == ASSUME IInv, NEW c \in Callers, Get(c) PROVE IInv'
<1> USE DEF IInv, Get, Move
<1>1. /\ waiters' \in Seq(Callers)
      /\ waiters # <<>> => waiters' # <<>> /\ Head(waiters') = Head(waiters)
      /\ waiters'[Len(waiters')] = c
      /\ \A i \in 1..Len(waiters) : waiters'[i] = waiters[i]
      /\ Len(waiters') = Len(waiters) + 1
      /\ Len(waiters) \in Nat
  BY Joined, LenProperties DEF TypeOK
<1>2. TypeOK'
  BY <1>1 DEF TypeOK, Stages
<1>3. HolderIsHead'
  BY <1>1 DEF HolderIsHead, Inside, TypeOK
<1>4. WaitersWait'
  <2> SUFFICES ASSUME NEW d \in Callers, stage'[d] = "queued"
               PROVE  \E i \in 1..Len(waiters') : waiters'[i] = d
    BY DEF WaitersWait
  <2>1. CASE d = c
    BY <1>1, <2>1
  <2>2. CASE d # c
    BY <1>1, <2>2 DEF WaitersWait, TypeOK
  <2> QED BY <2>1, <2>2
<1>5. Record'
  BY DEF Record, LoginsMatch, RetryOnlyAfterRefusal, Inside, TypeOK
<1> QED BY <1>2, <1>3, <1>4, <1>5 DEF Record, StampInv, StampPast, SessionInv

\* The head of the queue enters: nobody was inside.
LEMMA EnterStep == ASSUME IInv, NEW c \in Callers, Enter(c) PROVE IInv'
<1> USE DEF IInv, Enter, Move
<1>1. waiters # <<>> /\ Head(waiters) = c
  <2>1. PICK i \in 1..Len(waiters) : waiters[i] = c
    BY DEF WaitersWait
  <2> QED BY <2>1
<1>2. \A d \in Callers : ~Inside(d)
  <2> SUFFICES ASSUME NEW d \in Callers, Inside(d) PROVE FALSE
    OBVIOUS
  <2>1. d = c
    BY <1>1 DEF HolderIsHead
  <2> QED BY <2>1 DEF Inside
<1>3. TypeOK'
  BY DEF TypeOK, Stages
<1>4. HolderIsHead' /\ WaitersWait'
  BY <1>1, <1>2 DEF HolderIsHead, WaitersWait, Inside, TypeOK
<1>5. Record'
  BY <1>2 DEF Record, LoginsMatch, RetryOnlyAfterRefusal, Inside, TypeOK
<1> QED BY <1>3, <1>4, <1>5 DEF Record, StampInv, StampPast, SessionInv

\* A call at the start of an attempt goes on, with a login or without one.
LEMMA LoginCounted ==
    ASSUME TypeOK, LoginsMatch, RetryOnlyAfterRefusal,
           NEW c \in Callers, stage[c] = "attempt",
           NEW to \in {"unlock", "login", "fetch"}, Move(c, to),
           logins' = IF to = "fetch" THEN logins ELSE [logins EXCEPT ![c] = @ + 1],
           UNCHANGED <<attempt, refused>>
    PROVE  LoginsMatch' /\ RetryOnlyAfterRefusal'
<1>1. \A d \in Callers : d # c => stage'[d] = stage[d] /\ logins'[d] = logins[d]
  BY DEF TypeOK, Move
<1>2. stage'[c] = to /\ logins'[c] \in {logins[c], logins[c] + 1}
  BY DEF TypeOK, Move
<1>3. /\ logins[c] \in 0..2 /\ attempt \in 0..1 /\ logins[c] <= attempt
      /\ attempt = 1 => refused[c]
  BY DEF LoginsMatch, TypeOK, Inside
<1>4. LoginsMatch'
  BY <1>1, <1>2, <1>3 DEF LoginsMatch, Inside
<1>5. RetryOnlyAfterRefusal'
  BY <1>1, <1>2, <1>3 DEF RetryOnlyAfterRefusal
<1> QED BY <1>4, <1>5

\* The holder fetches, backs off or begins to log in.
LEMMA BeginAttemptStep == ASSUME IInv, NEW c \in Callers, BeginAttempt(c) PROVE IInv'
<1> USE FetcherAssumption DEF IInv, BeginAttempt
<1>1. Inside(c)
  BY DEF Inside
<1>2. \A d \in Callers : Inside(d) => d = c
  BY <1>1, HolderAlone
<1>3. CASE session = NoSession /\ WaitLeft > 0 /\ Finish(c, BackoffError(WaitLeft))
           /\ UNCHANGED logins
  <2>1. /\ waiters' \in Seq(Callers) /\ HolderIsHead' /\ WaitersWait'
        /\ stage' = [stage EXCEPT ![c] = "done"]
    BY <1>1, <1>3, Finishes
  <2>2. WaitLeft \in 0..Backoff
    BY DEF WaitLeft, TypeOK, StampPast
  <2>3. TypeOK'
    BY <1>3, <2>1, <2>2, AnswersTyped DEF TypeOK, Finish, Stages, Answers
  <2>4. Record'
    BY <1>3, <2>1 DEF Record, LoginsMatch, RetryOnlyAfterRefusal,
                      Inside, TypeOK
  <2> QED BY <2>1, <2>3, <2>4 DEF Record, StampInv, StampPast, SessionInv
<1>4. ASSUME NEW to \in {"unlock", "login", "fetch"}, Move(c, to),
             logins' = IF to = "fetch" THEN logins
                                       ELSE [logins EXCEPT ![c] = @ + 1],
             UNCHANGED <<waiters, outcome>>
      PROVE  IInv'
  <2>1. HolderIsHead' /\ WaitersWait'
    BY <1>1, <1>4, GoesOn
  <2>2. logins[c] + 1 \in 0..2
    BY <1>1 DEF LoginsMatch, TypeOK
  <2>3. TypeOK'
    BY <1>4, <2>2 DEF TypeOK, Move, Stages
  <2>4. LoginsMatch' /\ RetryOnlyAfterRefusal'
    BY <1>1, <1>4, LoginCounted
  <2> QED BY <2>1, <2>3, <2>4 DEF StampInv, StampPast, SessionInv
<1> QED BY <1>3, <1>4

\* An unlock is approved, or the login fails there.
LEMMA UnlockVerdictStep == ASSUME IInv, NEW c \in Callers, UnlockVerdict(c) PROVE IInv'
<1> USE DEF IInv, UnlockVerdict
<1>1. Inside(c)
  BY DEF Inside
<1>2. CASE /\ Move(c, "read")
           /\ UNCHANGED <<failedAt, lastLogin, outcome, waiters>>
  <2>1. HolderIsHead' /\ WaitersWait'
    BY <1>1, <1>2, GoesOn
  <2>2. TypeOK'
    BY <1>2 DEF TypeOK, Move, Stages
  <2>3. Record'
    BY <1>2 DEF Record, LoginsMatch, RetryOnlyAfterRefusal, Inside,
                TypeOK, Move
  <2> QED BY <1>2, <2>1, <2>2, <2>3 DEF Record, StampInv, StampPast, SessionInv
<1>3. CASE LoginFailed(c, "unlock")
  BY <1>3, FailedLogin
<1> QED BY <1>2, <1>3

\* The Keychain is read, or the login fails there.
LEMMA ReadKeychainStep == ASSUME IInv, NEW c \in Callers, ReadKeychain(c) PROVE IInv'
<1> USE DEF IInv, ReadKeychain
<1>1. Inside(c)
  BY DEF Inside
<1>2. CASE Move(c, "login") /\ UNCHANGED <<failedAt, lastLogin, outcome, waiters>>
  <2>1. HolderIsHead' /\ WaitersWait'
    BY <1>1, <1>2, GoesOn
  <2>2. TypeOK'
    BY <1>2 DEF TypeOK, Move, Stages
  <2>3. Record'
    BY <1>2 DEF Record, LoginsMatch, RetryOnlyAfterRefusal, Inside,
                TypeOK, Move
  <2> QED BY <1>2, <2>1, <2>2, <2>3 DEF Record, StampInv, StampPast, SessionInv
<1>3. CASE LoginFailed(c, "read")
  BY <1>3, FailedLogin
<1> QED BY <1>2, <1>3

\* A login makes the newest bearer the session, or fails.
LEMMA AuthenticateStep == ASSUME IInv, NEW c \in Callers, Authenticate(c) PROVE IInv'
<1> USE FetcherAssumption DEF IInv, Authenticate
<1>1. Inside(c)
  BY DEF Inside
<1>2. CASE /\ issued < MaxLogins
           /\ issued' = issued + 1
           /\ live' = live \cup {issued + 1}
           /\ session' = issued + 1
           /\ failedAt' = Never
           /\ lastLogin' = Never
           /\ Move(c, "fetch")
           /\ UNCHANGED <<outcome, waiters>>
  <2>1. HolderIsHead' /\ WaitersWait'
    BY <1>1, <1>2, GoesOn
  <2>2. issued \in Nat /\ issued + 1 \in Bearers /\ issued' \in 0..MaxLogins
    BY <1>2 DEF TypeOK, Bearers
  <2>3. TypeOK'
    BY <1>2, <2>2 DEF TypeOK, Move, Stages
  <2>4. Record'
    BY <1>2 DEF Record, LoginsMatch, RetryOnlyAfterRefusal, Inside,
                TypeOK, Move
  <2>5. SessionInv'
    BY <1>2, <2>2 DEF SessionInv
  <2> QED BY <1>2, <2>1, <2>3, <2>4, <2>5 DEF Record, StampInv, StampPast
<1>3. CASE LoginFailed(c, "login") /\ UNCHANGED <<live, issued, session>>
  BY <1>3, FailedLogin
<1> QED BY <1>2, <1>3

\* A fetch ends the call, or is refused for the first time.
LEMMA FetchAnsweredStep == ASSUME IInv, NEW c \in Callers, FetchAnswered(c) PROVE IInv'
<1> USE DEF IInv, FetchAnswered
<1>1. Inside(c)
  BY DEF Inside
<1>2. \A d \in Callers : Inside(d) => d = c
  BY <1>1, HolderAlone
<1>3. CASE /\ session \notin live /\ attempt = 0
           /\ session' = NoSession
           /\ attempt' = 1
           /\ refused' = [refused EXCEPT ![c] = TRUE]
           /\ Move(c, "attempt")
           /\ UNCHANGED <<outcome, waiters>>
  <2>1. HolderIsHead' /\ WaitersWait'
    BY <1>1, <1>3, GoesOn
  <2>2. TypeOK'
    BY <1>3 DEF TypeOK, Move, Stages
  <2>3. /\ \A d \in Callers : d # c => stage'[d] = stage[d] /\ ~Inside(d)
        /\ stage'[c] = "attempt" /\ refused'[c] /\ logins[c] \in 0..1
    BY <1>1, <1>2, <1>3 DEF TypeOK, Move, LoginsMatch
  <2>4. Record'
    BY <1>3, <2>3 DEF Record, LoginsMatch, RetryOnlyAfterRefusal,
                      Inside, TypeOK
  <2>5. SessionInv'
    BY <1>3 DEF SessionInv
  <2> QED BY <2>1, <2>2, <2>4, <2>5 DEF Record, StampInv, StampPast
<1>4. ASSUME NEW result \in {Success, Error("fetch")}, Finish(c, result),
             UNCHANGED <<session, attempt, refused>>
      PROVE  IInv'
  <2>1. /\ waiters' \in Seq(Callers) /\ HolderIsHead' /\ WaitersWait'
        /\ stage' = [stage EXCEPT ![c] = "done"]
    BY <1>1, <1>4, Finishes
  <2>2. TypeOK'
    BY <1>4, <2>1, AnswersTyped DEF TypeOK, Finish, Stages, Answers
  <2>3. Record'
    BY <1>4, <2>1 DEF Record, LoginsMatch, RetryOnlyAfterRefusal,
                      Inside, TypeOK
  <2> QED BY <1>4, <2>1, <2>2, <2>3 DEF Record, StampInv, StampPast, SessionInv
<1> QED BY <1>3, <1>4

\* A call that is over has nothing on record.
LEMMA TakeStep == ASSUME IInv, NEW c \in Callers, Take(c) PROVE IInv'
<1> USE DEF IInv, Take, Move
<1>1. TypeOK'
  <2>1. outcome' \in [Callers -> Answers]
    BY AnswersTyped DEF TypeOK, Answers
  <2> QED BY <2>1 DEF TypeOK, Stages, Answers
<1>2. HolderIsHead' /\ WaitersWait'
  BY DEF HolderIsHead, WaitersWait, Inside, TypeOK
<1>3. Record'
  BY DEF Record, LoginsMatch, RetryOnlyAfterRefusal, Inside, TypeOK
<1> QED BY <1>1, <1>2, <1>3 DEF Record, StampInv, StampPast, SessionInv

\* Time and the server do not touch what the calls hold.
LEMMA ClockStep == ASSUME IInv, Tick \/ Expire PROVE IInv'
<1>1. TypeOK' /\ SessionInv' /\ StampPast'
  <2>1. CASE Tick
    <3>1. MaxTime \in Nat /\ now' \in 0..MaxTime
      BY <2>1, FetcherAssumption DEF IInv, TypeOK, Tick
    <3> QED BY <2>1, <3>1 DEF IInv, TypeOK, Tick, SessionInv, StampPast
  <2>2. CASE Expire
    <3>1. PICK b \in live : live' = live \ {b}
      BY <2>2 DEF Expire
    <3> QED BY <2>2, <3>1 DEF IInv, TypeOK, Expire, SessionInv, StampPast
  <2> QED BY <2>1, <2>2
<1>2. UNCHANGED <<stage, attempt, waiters, failedAt, logins, refused, lastLogin>>
  BY DEF Tick, Expire
<1>3. /\ HolderIsHead' /\ WaitersWait' /\ LoginsMatch' /\ RetryOnlyAfterRefusal'
      /\ StampInv'
  BY <1>2 DEF IInv, HolderIsHead, WaitersWait, Inside, LoginsMatch,
              RetryOnlyAfterRefusal, StampInv
<1> QED BY <1>1, <1>3 DEF IInv

\* Nor does a step that changes nothing.
LEMMA IdleStep == ASSUME IInv, UNCHANGED vars PROVE IInv'
BY DEF IInv, vars, TypeOK, HolderIsHead, WaitersWait, Inside, LoginsMatch,
       RetryOnlyAfterRefusal, StampInv, StampPast,
           SessionInv

\* Every step keeps it.
LEMMA StepIInv == IInv /\ [Next]_vars => IInv'
BY ClockStep, IdleStep, GetStep, EnterStep, BeginAttemptStep, UnlockVerdictStep,
   ReadKeychainStep, AuthenticateStep, FetchAnsweredStep, TakeStep DEF Next

\* The invariant holds of every run of get.
THEOREM Inductive == Spec => []IInv
BY InitIInv, StepIInv, PTL DEF Spec
-----------------------------------------------------------------------------
(* The theorems.                                                            *)

(* The variables of the clients keep their types: attempts are at most two, *)
(* and so are the logins of a call.                                         *)
THEOREM TypeCorrect == Spec => []TypeOK
<1>1. IInv => TypeOK
  BY DEF IInv
<1> QED BY <1>1, Inductive, PTL

(* One call at a time is in a login or a fetch.                             *)
THEOREM CallsExclude == Spec => []OneInside
<1>1. ASSUME IInv PROVE OneInside
  <2>1. \A c \in Callers : stage[c] \notin {"idle", "queued", "done"} => Inside(c)
    BY <1>1 DEF IInv, TypeOK, Stages, Inside
  <2> QED BY <1>1, <2>1, HolderAlone DEF IInv, OneInside
<1> QED BY <1>1, Inductive, PTL

(* A second login of a call follows a 401 to its first fetch.               *)
THEOREM RetriesFollowRefusals == Spec => []RetryOnlyAfterRefusal
<1>1. IInv => RetryOnlyAfterRefusal
  BY DEF IInv
<1> QED BY <1>1, Inductive, PTL

\* What holds when a login begins.
LEMMA LoginCases ==
    ASSUME IInv, [Next]_vars, NEW c \in Callers, LoginBegins(c)
    PROVE  session = NoSession /\ WaitLeft = 0
<1>1. logins[c] \in 0..2 /\ logins' # logins
  BY DEF IInv, TypeOK, LoginBegins
<1>2. CASE Tick \/ Expire \/ UNCHANGED vars
  BY <1>1, <1>2 DEF Tick, Expire, vars
<1>3. ASSUME NEW d \in Callers,
             \/ Get(d) \/ Enter(d) \/ UnlockVerdict(d) \/ ReadKeychain(d)
             \/ Authenticate(d) \/ FetchAnswered(d)
      PROVE  FALSE
  BY <1>1, <1>3 DEF Get, Enter, UnlockVerdict, ReadKeychain, Authenticate, FetchAnswered
<1>4. ASSUME NEW d \in Callers, Take(d) PROVE FALSE
  <2>1. logins' = [logins EXCEPT ![d] = 0]
    BY <1>4 DEF Take
  <2>2. logins'[c] \in {0, logins[c]}
    BY <2>1 DEF IInv, TypeOK
  <2> QED BY <1>1, <2>2 DEF LoginBegins
<1>5. ASSUME NEW d \in Callers, BeginAttempt(d)
      PROVE  session = NoSession /\ WaitLeft = 0
  BY <1>1, <1>5 DEF BeginAttempt
<1> QED BY <1>2, <1>3, <1>4, <1>5 DEF Next

(* No login, and no unlock prompt, within the backoff of one that failed.   *)
THEOREM LoginsBackOff == Spec => BackoffRespected
<1>1. ASSUME IInv, [Next]_vars, NEW c \in Callers, LoginBegins(c)
      PROVE  lastLogin = Never \/ now - lastLogin >= Backoff
  <2>1. WaitLeft = 0 /\ failedAt = lastLogin
    BY <1>1, LoginCases DEF IInv, StampInv
  <2>2. /\ Backoff \in Nat /\ MaxTime \in Nat /\ now \in Int
        /\ failedAt = Never \/ failedAt \in Int
    BY <1>1, FetcherAssumption DEF IInv, TypeOK
  <2> QED BY <2>1, <2>2 DEF WaitLeft
<1>2. IInv /\ [Next]_vars =>
        [\A c \in Callers : LoginBegins(c) =>
            lastLogin = Never \/ now - lastLogin >= Backoff]_vars
  BY <1>1
<1> QED BY Inductive, <1>2, PTL DEF BackoffRespected, Spec

(* No login, and no unlock prompt, while the newest bearer still works.     *)
THEOREM LoginsAreNeeded == Spec => NoNeedlessLogin
<1>1. ASSUME IInv, [Next]_vars, NEW c \in Callers, LoginBegins(c)
      PROVE  issued \notin live
  BY <1>1, LoginCases DEF IInv, SessionInv
<1>2. IInv /\ [Next]_vars =>
        [\A c \in Callers : LoginBegins(c) => issued \notin live]_vars
  BY <1>1
<1> QED BY Inductive, <1>2, PTL DEF NoNeedlessLogin, Spec
=============================================================================
