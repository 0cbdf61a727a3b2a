------------------------------ MODULE AgentProofs ------------------------------
(* Theorems about Agent, for any sessions, configuration, gate and clocks:  *)
(* the composition does to each component only what the component's own     *)
(* module lets it, so what is proved there holds of the agent.              *)
EXTENDS Agent, SequenceTheorems, TLAPS

\* What is proved of the components.
KP == INSTANCE KeyServiceProofs
CP == INSTANCE BackendFetcherProofs WITH
          Callers <- Sessions, now <- Uptime, outcome <- answer
PP == INSTANCE AuthorizerProofs WITH Calls <- Sessions, Fingerprints <- PublicKeys

-----------------------------------------------------------------------------
(* The components as Agent names them are those of the proofs.              *)

\* The key service.
LEMMA SameService ==
    /\ K!Init <=> KP!Init
    /\ [K!Next]_K!vars <=> [KP!Next]_KP!vars
    /\ K!TypeOK <=> KP!TypeOK
<1>1. K!Init <=> KP!Init
  BY DEF K!Init, KP!Init, K!NoReply, KP!NoReply
<1>2. [K!Next]_K!vars <=> [KP!Next]_KP!vars
  BY DEF K!Next, KP!Next, K!vars, KP!vars,
         K!RequestIdentities, K!RequestSign, K!Accept, K!KeyFor, K!StartPass,
         K!GetReturns, K!GetUsable, K!GetUnusable, K!GetFailed, K!Fetching,
         K!LogFailure, K!Note, K!FinishPass, K!Verdict, K!TrySign, K!Served,
         K!Loaded, K!Positions, K!Holder, K!NoReply, K!Answer, K!Identities,
         KP!RequestIdentities, KP!RequestSign, KP!Accept, KP!KeyFor, KP!StartPass,
         KP!GetReturns, KP!GetUsable, KP!GetUnusable, KP!GetFailed, KP!Fetching,
         KP!LogFailure, KP!Note, KP!FinishPass, KP!Verdict, KP!TrySign, KP!Served,
         KP!Loaded, KP!Positions, KP!Holder, KP!NoReply, KP!Answer, KP!Identities
<1>3. K!TypeOK <=> KP!TypeOK
  BY DEF K!TypeOK, KP!TypeOK, K!Replies, KP!Replies, K!Kinds, KP!Kinds,
         K!Positions, KP!Positions
<1> QED BY <1>1, <1>2, <1>3

\* The backend client.
LEMMA SameClient ==
    /\ C!Init <=> CP!Init
    /\ [C!Next]_C!vars <=> [CP!Next]_CP!vars
    /\ C!TypeOK <=> CP!TypeOK
<1>1. C!Init <=> CP!Init
  BY DEF C!Init, CP!Init, C!Success, CP!Success
<1>2. [C!Next]_C!vars <=> [CP!Next]_CP!vars
  BY DEF C!Next, CP!Next, C!vars, CP!vars,
         C!Tick, C!Expire, C!Get, C!Enter, C!BeginAttempt, C!UnlockVerdict,
         C!ReadKeychain, C!Authenticate, C!FetchAnswered, C!Take, C!Move, C!Finish,
         C!LoginFailed, C!WaitLeft, C!Success, C!Error, C!BackoffError,
         CP!Tick, CP!Expire, CP!Get, CP!Enter, CP!BeginAttempt, CP!UnlockVerdict,
         CP!ReadKeychain, CP!Authenticate, CP!FetchAnswered, CP!Take, CP!Move,
         CP!Finish, CP!LoginFailed, CP!WaitLeft, CP!Success, CP!Error,
         CP!BackoffError
<1>3. C!TypeOK <=> CP!TypeOK
  BY DEF C!TypeOK, CP!TypeOK, C!Stages, CP!Stages, C!Bearers, CP!Bearers
<1> QED BY <1>1, <1>2, <1>3

\* The presence gate.
LEMMA SameGate ==
    /\ P!Init <=> PP!Init
    /\ [P!Next]_P!vars <=> [PP!Next]_PP!vars
    /\ P!TypeOK <=> PP!TypeOK
<1>1. P!Init <=> PP!Init
  BY DEF P!Init, PP!Init
<1>2. [P!Next]_P!vars <=> [PP!Next]_PP!vars
  BY DEF P!Next, PP!Next, P!vars, PP!vars, P!clocks, PP!clocks,
         P!Tick, P!Sleep, P!StepWall, P!Clock, P!Approve, P!CheckWindow, P!Raise,
         P!Answer, P!TimeOut, P!LateAnswer, P!Return, P!Take, P!Within, P!Instant,
         P!Wall, P!Contexts, P!Verdicts, P!Unstamped, P!MayPass,
         PP!Tick, PP!Sleep, PP!StepWall, PP!Clock, PP!Approve, PP!CheckWindow,
         PP!Raise, PP!Answer, PP!TimeOut, PP!LateAnswer, PP!Return, PP!Take,
         PP!Within, PP!Instant, PP!Wall, PP!Contexts, PP!Verdicts, PP!Unstamped,
         PP!MayPass
<1>3. P!TypeOK <=> PP!TypeOK
  BY DEF P!TypeOK, PP!TypeOK, P!Contexts, PP!Contexts, P!Verdicts, PP!Verdicts
<1> QED BY <1>1, <1>2, <1>3

-----------------------------------------------------------------------------
(* The invariant.                                                           *)

\* While a fetch is under way its pass is not over.
FetchUnderway == \A s \in Sessions : stage[s] # "idle" => missing # {}

AgentInv == KP!IInv /\ CP!IInv /\ PP!IInv /\ CallsNest /\ FetchUnderway

\* What the constants are assumed to be, each component assumes.
LEMMA ComponentsKeep ==
    /\ KP!IInv /\ [KP!Next]_KP!vars => KP!IInv'
    /\ CP!IInv /\ [CP!Next]_CP!vars => CP!IInv'
    /\ PP!IInv /\ [PP!Next]_PP!vars => PP!IInv'
BY AgentAssumption, KP!StepIInv, CP!StepIInv, PP!StepIInv

\* The types of what the components share.
LEMMA SharedTypes ==
    ASSUME AgentInv
    PROVE  /\ pc \in [Sessions -> {"idle", "lookup", "queued", "pass", "prompt",
                                   "sign"}]
           /\ stage \in [Sessions -> {"idle", "queued", "attempt", "unlock", "read",
                                      "login", "fetch", "done"}]
           /\ phase \in [Sessions -> {"idle", "check", "raise", "waiting",
                                      "returned"}]
           /\ context \in [Sessions -> PublicKeys \cup {Unlock}]
           /\ wanted \in [Sessions -> PublicKeys \cup {Listing}]
           /\ result \in [Sessions -> {"none", "approved", "denied", "error"}]
           /\ now \in 0..MaxTime /\ slept \in 0..MaxSleep /\ Uptime \in 0..MaxTime
BY DEF AgentInv, KP!IInv, KP!TypeOK, CP!IInv, CP!TypeOK, CP!Stages,
       PP!IInv, PP!TypeOK, PP!Contexts

-----------------------------------------------------------------------------
(* Every step is one of each component's, or leaves it where it was.        *)

\* A call that fails is named by an error the service knows.
LEMMA AnswerIsMessage ==
    ASSUME AgentInv, NEW s \in Sessions, answer[s].error # "none"
    PROVE  answer[s] \in Messages
<1>1. answer[s] \in [error : {"none", "backoff", "unlock", "read", "login", "fetch"},
                     left : 0..Backoff]
  BY DEF AgentInv, CP!IInv, CP!TypeOK
<1>2. answer[s] \in FetchErrors
  BY <1>1 DEF FetchErrors
<1> QED BY <1>2 DEF Messages

\* The key service.
LEMMA ServiceSteps ==
    ASSUME AgentInv, [Next]_vars
    PROVE  [K!Next]_K!vars
<1> USE DEF K!Next
<1>1. ASSUME NEW s \in Sessions, \/ Ask(s) \/ Lookup(s) \/ StartPass(s)
                                 \/ FinishPass(s) \/ Verdict(s) \/ TrySign(s)
      PROVE  K!Next
  BY <1>1 DEF Ask, Lookup, StartPass, FinishPass, Verdict, TrySign
<1>2. ASSUME NEW s \in Sessions, GetReturns(s) PROVE K!Next
  <2>1. CASE answer[s].error = "none"
    BY <1>2, <2>1 DEF GetReturns, K!GetReturns, Messages
  <2>2. CASE answer[s].error # "none"
    BY <1>2, <2>2, AnswerIsMessage DEF GetReturns, K!GetReturns
  <2> QED BY <2>1, <2>2
<1>3. ASSUME UNCHANGED service PROVE UNCHANGED K!vars
  BY <1>3 DEF service, K!vars
<1>4. ASSUME NEW s \in Sessions,
             \/ CallGet(s) \/ EnterGet(s) \/ BeginLogin(s) \/ UnlockReturns(s)
             \/ Exchange(s) \/ GateStep(s) \/ User(s) \/ PromptTimesOut(s)
      PROVE  UNCHANGED service
  BY <1>4 DEF CallGet, EnterGet, BeginLogin, UnlockReturns, Exchange, GateStep, User,
              PromptTimesOut, ClientOnly
<1>5. ASSUME Clocks \/ ServerExpires \/ UNCHANGED vars PROVE UNCHANGED service
  BY <1>5 DEF Clocks, ServerExpires, ClientOnly, vars
<1> QED BY <1>1, <1>2, <1>3, <1>4, <1>5 DEF Next

\* The gate.
LEMMA GateSteps ==
    ASSUME [Next]_vars
    PROVE  [P!Next]_P!vars
<1> USE DEF P!Next
<1>1. ASSUME UNCHANGED gate PROVE UNCHANGED P!vars
  BY <1>1 DEF gate, P!vars, P!clocks
<1>2. ASSUME NEW s \in Sessions, \/ UnlockReturns(s) \/ Verdict(s) \/ GateStep(s)
                                 \/ User(s) \/ PromptTimesOut(s)
      PROVE  P!Next
  BY <1>2 DEF UnlockReturns, Verdict, GateStep, User, PromptTimesOut
<1>3. ASSUME NEW s \in Sessions, Lookup(s) \/ FinishPass(s) \/ BeginLogin(s)
      PROVE  P!Next \/ UNCHANGED gate
  BY <1>3 DEF Lookup, FinishPass, BeginLogin, KeyFound, AskGate
<1>4. ASSUME NEW s \in Sessions,
             \/ Ask(s) \/ StartPass(s) \/ CallGet(s) \/ EnterGet(s) \/ Exchange(s)
             \/ GetReturns(s) \/ TrySign(s)
      PROVE  UNCHANGED gate
  BY <1>4 DEF Ask, StartPass, CallGet, EnterGet, Exchange, GetReturns, TrySign,
              ServiceOnly, ClientOnly
<1>5. Clocks => P!Next
  BY DEF Clocks
<1>6. ServerExpires \/ UNCHANGED vars => UNCHANGED gate
  BY DEF ServerExpires, ClientOnly, vars
<1> QED BY <1>1, <1>2, <1>3, <1>4, <1>5, <1>6 DEF Next

\* Asking the gate and taking its result take no time.
LEMMA NoTimePasses ==
    ASSUME NEW s \in Sessions,
           \/ P!Approve(s) \/ P!CheckWindow(s) \/ P!Raise(s) \/ P!Answer(s)
           \/ P!TimeOut(s) \/ P!LateAnswer(s) \/ P!Return(s) \/ P!Take(s)
           \/ UNCHANGED gate
    PROVE  UNCHANGED Uptime
BY DEF P!Approve, P!CheckWindow, P!Raise, P!Answer, P!TimeOut, P!LateAnswer, P!Return,
       P!Take, P!clocks, gate, Uptime

\* The client, whose clock is the one that stops in sleep.
LEMMA ClientSteps ==
    ASSUME AgentInv, [Next]_vars
    PROVE  [C!Next]_C!vars
<1> USE DEF C!Next
<1>1. ASSUME UNCHANGED client, UNCHANGED Uptime PROVE UNCHANGED C!vars
  BY <1>1 DEF client, C!vars
<1>2. ASSUME NEW s \in Sessions,
             \/ CallGet(s) \/ EnterGet(s) \/ BeginLogin(s) \/ UnlockReturns(s)
             \/ Exchange(s) \/ GetReturns(s)
      PROVE  C!Next
  BY <1>2 DEF CallGet, EnterGet, BeginLogin, UnlockReturns, Exchange, GetReturns
<1>3. ASSUME NEW s \in Sessions,
             \/ Ask(s) \/ Lookup(s) \/ StartPass(s) \/ FinishPass(s) \/ Verdict(s)
             \/ TrySign(s) \/ GateStep(s) \/ User(s) \/ PromptTimesOut(s)
      PROVE  UNCHANGED client /\ UNCHANGED Uptime
  BY <1>3, NoTimePasses
     DEF Ask, Lookup, StartPass, FinishPass, Verdict, TrySign, GateStep, User,
         PromptTimesOut, KeyFound, AskGate, ServiceOnly
<1>4. ASSUME Clocks PROVE C!Tick \/ (UNCHANGED client /\ UNCHANGED Uptime)
  <2> USE SharedTypes, AgentAssumption
  <2>1. CASE P!Tick
    <3>1. now < MaxTime /\ now' = now + 1 /\ slept' = slept
      BY <2>1 DEF P!Tick
    <3>2. MaxTime \in Nat /\ MaxSleep \in Nat
      BY DEF AgentAssumption
    <3>3. Uptime < MaxTime /\ Uptime' = Uptime + 1
      <4>1. now \in 0..MaxTime /\ slept \in 0..MaxSleep
        BY SharedTypes
      <4> QED BY <3>1, <3>2, <4>1 DEF Uptime
    <3> QED BY <1>4, <3>3 DEF Clocks, C!Tick, client
  <2>2. CASE P!Sleep
    BY <1>4, <2>2 DEF P!Sleep, Clocks, Uptime
  <2>3. CASE P!StepWall
    BY <1>4, <2>3 DEF P!StepWall, Clocks, Uptime
  <2> QED BY <1>4, <2>1, <2>2, <2>3 DEF Clocks
<1>5. ServerExpires => C!Next
  BY DEF ServerExpires
<1>6. UNCHANGED vars => UNCHANGED client /\ UNCHANGED Uptime
  BY DEF vars, gate, Uptime
<1> QED BY <1>1, <1>2, <1>3, <1>4, <1>5, <1>6 DEF Next

-----------------------------------------------------------------------------
(* Calls nest.                                                              *)

\* CallsNest, of one session.
NestedFor(s) ==
    /\ phase[s] # "idle" <=> pc[s] = "prompt" \/ stage[s] = "unlock"
    /\ pc[s] = "prompt" => context[s] = wanted[s]
    /\ stage[s] = "unlock" => context[s] = Unlock
    /\ stage[s] # "idle" => pc[s] = "pass"

\* A step of one session keeps the calls of that session nested.
LEMMA NestStep ==
    ASSUME AgentInv, [Next]_vars, NEW r \in Sessions
    PROVE  NestedFor(r)'
<1> USE SharedTypes DEF NestedFor
<1>0. NestedFor(r)
  BY DEF AgentInv, CallsNest
<1>1. ASSUME NEW s \in Sessions, Ask(s) PROVE NestedFor(r)'
  BY <1>0, <1>1
     DEF Ask, ServiceOnly, client, gate, K!RequestIdentities, K!RequestSign,
         K!Accept
<1>2. ASSUME NEW s \in Sessions, Lookup(s) PROVE NestedFor(r)'
  BY <1>0, <1>2 DEF Lookup, KeyFound, AskGate, client, gate, K!KeyFor, P!Approve
<1>3. ASSUME NEW s \in Sessions, StartPass(s) PROVE NestedFor(r)'
  BY <1>0, <1>3 DEF StartPass, ServiceOnly, client, gate, K!StartPass
<1>4. ASSUME NEW s \in Sessions, CallGet(s) PROVE NestedFor(r)'
  BY <1>0, <1>4 DEF CallGet, ClientOnly, service, gate, C!Get, C!Move
<1>5. ASSUME NEW s \in Sessions, EnterGet(s) PROVE NestedFor(r)'
  BY <1>0, <1>5 DEF EnterGet, ClientOnly, service, gate, C!Enter, C!Move
<1>6. ASSUME NEW s \in Sessions, BeginLogin(s) PROVE NestedFor(r)'
  BY <1>0, <1>6
     DEF BeginLogin, AskGate, service, gate, C!BeginAttempt, C!Move, C!Finish,
         P!Approve
<1>7. ASSUME NEW s \in Sessions, UnlockReturns(s) PROVE NestedFor(r)'
  BY <1>0, <1>7
     DEF UnlockReturns, service, C!UnlockVerdict, C!LoginFailed, C!Finish, C!Move,
         P!Take
<1>8. ASSUME NEW s \in Sessions, Exchange(s) PROVE NestedFor(r)'
  BY <1>0, <1>8
     DEF Exchange, ClientOnly, service, gate, C!ReadKeychain, C!Authenticate,
         C!FetchAnswered, C!LoginFailed, C!Finish, C!Move
<1>9. ASSUME NEW s \in Sessions, GetReturns(s) PROVE NestedFor(r)'
  BY <1>0, <1>9
     DEF GetReturns, gate, C!Take, C!Move, K!GetUsable, K!GetUnusable, K!GetFailed
<1>10. ASSUME NEW s \in Sessions, FinishPass(s) PROVE NestedFor(r)'
  <2>1. stage[s] = "idle"
    BY <1>10 DEF AgentInv, FetchUnderway, FinishPass, K!FinishPass
  <2> QED BY <1>0, <1>10, <2>1
     DEF FinishPass, KeyFound, AskGate, client, gate, K!FinishPass, P!Approve
<1>11. ASSUME NEW s \in Sessions, Verdict(s) PROVE NestedFor(r)'
  BY <1>0, <1>11 DEF Verdict, client, K!Verdict, P!Take
<1>12. ASSUME NEW s \in Sessions, TrySign(s) PROVE NestedFor(r)'
  BY <1>0, <1>12 DEF TrySign, ServiceOnly, client, gate, K!TrySign
<1>13. ASSUME NEW s \in Sessions, GateStep(s) \/ User(s) \/ PromptTimesOut(s)
       PROVE  NestedFor(r)'
  BY <1>0, <1>13
     DEF GateStep, User, PromptTimesOut, service, client, P!CheckWindow, P!Raise,
         P!Return, P!Answer, P!LateAnswer, P!TimeOut
<1>14. CASE Clocks \/ ServerExpires \/ UNCHANGED vars
  BY <1>0, <1>14
     DEF Clocks, ServerExpires, ClientOnly, vars, service, client, gate, P!Tick,
         P!Sleep, P!StepWall, P!Clock, C!Expire
<1> QED BY <1>1, <1>2, <1>3, <1>4, <1>5, <1>6, <1>7, <1>8, <1>9, <1>10, <1>11,
           <1>12, <1>13, <1>14 DEF Next

\* CallsNest is kept for every session.
LEMMA CallsNestStep == AgentInv /\ [Next]_vars => CallsNest'
<1>1. CallsNest' <=> \A r \in Sessions : NestedFor(r)'
  BY DEF CallsNest, NestedFor
<1> QED BY <1>1, NestStep

-----------------------------------------------------------------------------
(* A fetch belongs to a pass that is not over.                              *)

\* Of two sessions in a pass each holds `loading`, so they are one.
LEMMA OneInPass ==
    ASSUME AgentInv, NEW r \in Sessions, NEW s \in Sessions,
           pc[r] = "pass", pc[s] = "pass"
    PROVE  r = s
BY DEF AgentInv, KP!IInv, KP!PassHolds, KP!Holder

\* The positions a pass has left change when a pass starts or takes an answer.
LEMMA MissingStays ==
    ASSUME AgentInv, [Next]_vars
    PROVE  \/ UNCHANGED missing
           \/ \E s \in Sessions : StartPass(s) \/ GetReturns(s)
<1>1. ASSUME NEW s \in Sessions,
             \/ Ask(s) \/ Lookup(s) \/ FinishPass(s) \/ Verdict(s) \/ TrySign(s)
      PROVE  UNCHANGED missing
  BY <1>1 DEF Ask, Lookup, FinishPass, Verdict, TrySign, K!RequestIdentities,
              K!RequestSign, K!Accept, K!KeyFor, K!FinishPass, K!Verdict, K!TrySign
<1>2. ASSUME NEW s \in Sessions,
             \/ CallGet(s) \/ EnterGet(s) \/ BeginLogin(s) \/ UnlockReturns(s)
             \/ Exchange(s) \/ GateStep(s) \/ User(s) \/ PromptTimesOut(s)
      PROVE  UNCHANGED missing
  BY <1>2 DEF CallGet, EnterGet, BeginLogin, UnlockReturns, Exchange, GateStep, User,
              PromptTimesOut, ClientOnly, service
<1>3. ASSUME Clocks \/ ServerExpires \/ UNCHANGED vars PROVE UNCHANGED missing
  BY <1>3 DEF Clocks, ServerExpires, ClientOnly, vars, service
<1> QED BY <1>1, <1>2, <1>3 DEF Next

\* A fetch that was not under way begins in a pass that has positions left.
LEMMA FetchBegins ==
    ASSUME AgentInv, [Next]_vars, NEW r \in Sessions,
           stage[r] = "idle", stage'[r] # "idle"
    PROVE  missing # {} /\ UNCHANGED missing
<1> USE SharedTypes
<1>1. ASSUME NEW s \in Sessions,
             \/ Ask(s) \/ Lookup(s) \/ StartPass(s) \/ FinishPass(s) \/ Verdict(s)
             \/ TrySign(s) \/ GateStep(s) \/ User(s) \/ PromptTimesOut(s)
      PROVE  UNCHANGED stage
  BY <1>1 DEF Ask, Lookup, StartPass, FinishPass, Verdict, TrySign, GateStep, User,
              PromptTimesOut, KeyFound, ServiceOnly, client
<1>2. ASSUME NEW s \in Sessions,
             EnterGet(s) \/ BeginLogin(s) \/ UnlockReturns(s) \/ Exchange(s)
      PROVE  stage[s] # "idle" /\ stage' = [stage EXCEPT ![s] = stage'[s]]
  BY <1>2 DEF EnterGet, BeginLogin, UnlockReturns, Exchange, C!Enter, C!BeginAttempt,
              C!UnlockVerdict, C!ReadKeychain, C!Authenticate, C!FetchAnswered,
              C!LoginFailed, C!Finish, C!Move
<1>3. ASSUME NEW s \in Sessions, GetReturns(s)
      PROVE  stage' = [stage EXCEPT ![s] = "idle"]
  BY <1>3 DEF GetReturns, C!Take, C!Move
<1>4. ASSUME NEW s \in Sessions, CallGet(s) PROVE missing # {} /\ UNCHANGED missing
  BY <1>4 DEF CallGet, ClientOnly, service
<1>5. ASSUME Clocks \/ ServerExpires \/ UNCHANGED vars PROVE UNCHANGED stage
  BY <1>5 DEF Clocks, ServerExpires, C!Expire, vars, client
<1> QED BY <1>1, <1>2, <1>3, <1>4, <1>5 DEF Next

\* A pass that starts has no fetch under way, one that takes an answer has
\* none left.
LEMMA FetchUnderwayStep == AgentInv /\ [Next]_vars => FetchUnderway'
<1> SUFFICES ASSUME AgentInv, [Next]_vars, NEW r \in Sessions, stage'[r] # "idle"
             PROVE  missing' # {}
  BY DEF FetchUnderway
<1> USE SharedTypes
<1>1. CASE stage[r] = "idle"
  BY <1>1, FetchBegins
<1>2. ASSUME stage[r] # "idle" PROVE missing' # {}
  <2>1. missing # {} /\ pc[r] = "pass"
    BY <1>2 DEF AgentInv, FetchUnderway, CallsNest
  <2>2. ASSUME NEW s \in Sessions, StartPass(s) PROVE FALSE
    \* The session would hold `loading`, which r holds.
    BY <2>1, <2>2
       DEF StartPass, K!StartPass, K!Holder, AgentInv, KP!IInv, KP!PassHolds, KP!Holder
  <2>3. ASSUME NEW s \in Sessions, GetReturns(s) PROVE FALSE
    \* The session in a pass is r, and its fetch is over.
    <3>1. pc[s] = "pass"
      BY <2>3 DEF GetReturns, K!GetUsable, K!GetUnusable, K!GetFailed, K!Fetching
    <3>2. r = s
      BY <2>1, <3>1, OneInPass
    <3> QED BY <1>2, <2>3, <3>2 DEF GetReturns, C!Take, C!Move
  <2> QED BY <2>1, <2>2, <2>3, MissingStays
<1> QED BY <1>1, <1>2
-----------------------------------------------------------------------------
(* The theorems.                                                            *)

\* No request has come, so the invariant holds.
LEMMA InitInv == Init => AgentInv
<1> SUFFICES ASSUME Init PROVE AgentInv
  OBVIOUS
<1>1. KP!Init /\ CP!Init /\ PP!Init
  BY SameService, SameClient, SameGate DEF Init
<1>2. KP!IInv /\ CP!IInv /\ PP!IInv
  BY <1>1, AgentAssumption, KP!InitIInv, CP!InitIInv, PP!InitIInv
<1>3. CallsNest /\ FetchUnderway
  BY DEF Init, K!Init, C!Init, P!Init, CallsNest, FetchUnderway
<1> QED BY <1>2, <1>3 DEF AgentInv

\* Every step keeps it.
LEMMA StepInv == AgentInv /\ [Next]_vars => AgentInv'
<1> SUFFICES ASSUME AgentInv, [Next]_vars PROVE AgentInv'
  OBVIOUS
<1>1. [KP!Next]_KP!vars /\ [CP!Next]_CP!vars /\ [PP!Next]_PP!vars
  BY ServiceSteps, ClientSteps, GateSteps, SameService, SameClient, SameGate
<1>2. KP!IInv' /\ CP!IInv' /\ PP!IInv'
  BY <1>1, ComponentsKeep DEF AgentInv
<1>3. CallsNest' /\ FetchUnderway'
  BY CallsNestStep, FetchUnderwayStep
<1> QED BY <1>2, <1>3 DEF AgentInv

(* The invariant of the agent: those of its components, and how they call   *)
(* one another.                                                             *)
THEOREM Inductive == Spec => []AgentInv
BY InitInv, StepInv, PTL DEF Spec

(* Every reachable state is well typed: a fetch's error is a message the    *)
(* key service knows, and no clock leaves its bounds.                       *)
THEOREM TypeCorrect == Spec => []TypeOK
<1>1. AgentInv => TypeOK
  BY SameService, SameClient, SameGate
     DEF AgentInv, TypeOK, KP!IInv, CP!IInv, PP!IInv
<1> QED BY <1>1, Inductive, PTL

(* A call of the gate belongs to the signature or the login that made it,   *)
(* and is about what that one is about.                                     *)
THEOREM CallsAreNested == Spec => []CallsNest
<1>1. AgentInv => CallsNest
  BY DEF AgentInv
<1> QED BY <1>1, Inductive, PTL

(* `serve` wires the three so that each of them, called as the others call  *)
(* it, does what its own module says.                                       *)
THEOREM ComponentsImplemented == Spec => ImplementsComponents
<1>1. Init => K!Init /\ C!Init /\ P!Init
  BY DEF Init
<1>2. AgentInv /\ [Next]_vars => [K!Next]_K!vars
  BY ServiceSteps
<1>3. AgentInv /\ [Next]_vars => [C!Next]_C!vars
  BY ClientSteps
<1>4. AgentInv /\ [Next]_vars => [P!Next]_P!vars
  BY GateSteps
<1> QED BY <1>1, <1>2, <1>3, <1>4, Inductive, PTL
        DEF Spec, ImplementsComponents, K!Spec, C!Spec, P!Spec

\* A session comes to sign by the verdict on its own request.
LEMMA SignsByVerdict ==
    ASSUME AgentInv, [Next]_vars, NEW r \in Sessions, pc[r] # "sign", pc'[r] = "sign"
    PROVE  Verdict(r)
<1> USE SharedTypes
<1>1. ASSUME NEW s \in Sessions,
             \/ CallGet(s) \/ EnterGet(s) \/ BeginLogin(s) \/ UnlockReturns(s)
             \/ Exchange(s) \/ GateStep(s) \/ User(s) \/ PromptTimesOut(s)
      PROVE  UNCHANGED pc
  BY <1>1 DEF CallGet, EnterGet, BeginLogin, UnlockReturns, Exchange, GateStep, User,
              PromptTimesOut, ClientOnly, service
<1>2. ASSUME NEW s \in Sessions,
             \/ Ask(s) \/ Lookup(s) \/ StartPass(s) \/ GetReturns(s) \/ FinishPass(s)
             \/ TrySign(s)
      PROVE  FALSE
  BY <1>2 DEF Ask, Lookup, StartPass, GetReturns, FinishPass, TrySign,
              K!RequestIdentities, K!RequestSign, K!KeyFor, K!StartPass, K!GetUsable,
              K!GetUnusable, K!GetFailed, K!FinishPass, K!TrySign
<1>3. ASSUME NEW s \in Sessions, Verdict(s) PROVE s = r
  BY <1>3 DEF Verdict, K!Verdict
<1>4. ASSUME Clocks \/ ServerExpires \/ UNCHANGED vars PROVE UNCHANGED pc
  BY <1>4 DEF Clocks, ServerExpires, ClientOnly, vars, service
<1> QED BY <1>1, <1>2, <1>3, <1>4 DEF Next

\* A login comes to read the credentials by the verdict on its own prompt.
LEMMA ReadsByUnlock ==
    ASSUME AgentInv, [Next]_vars, NEW r \in Sessions,
           stage[r] # "read", stage'[r] = "read"
    PROVE  UnlockReturns(r)
<1> USE SharedTypes
<1>1. ASSUME NEW s \in Sessions,
             \/ Ask(s) \/ Lookup(s) \/ StartPass(s) \/ FinishPass(s) \/ Verdict(s)
             \/ TrySign(s) \/ GateStep(s) \/ User(s) \/ PromptTimesOut(s)
      PROVE  UNCHANGED stage
  BY <1>1 DEF Ask, Lookup, StartPass, FinishPass, Verdict, TrySign, GateStep, User,
              PromptTimesOut, KeyFound, ServiceOnly, client
<1>2. ASSUME NEW s \in Sessions,
             CallGet(s) \/ EnterGet(s) \/ BeginLogin(s) \/ Exchange(s) \/ GetReturns(s)
      PROVE  FALSE
  BY <1>2 DEF CallGet, EnterGet, BeginLogin, Exchange, GetReturns, C!Get, C!Enter,
              C!BeginAttempt, C!ReadKeychain, C!Authenticate, C!FetchAnswered,
              C!LoginFailed, C!Finish, C!Take, C!Move
<1>3. ASSUME NEW s \in Sessions, UnlockReturns(s) PROVE s = r
  BY <1>3 DEF UnlockReturns, C!UnlockVerdict, C!LoginFailed, C!Finish, C!Move
<1>4. ASSUME Clocks \/ ServerExpires \/ UNCHANGED vars PROVE UNCHANGED stage
  BY <1>4 DEF Clocks, ServerExpires, C!Expire, vars, client
<1> QED BY <1>1, <1>2, <1>3, <1>4 DEF Next

(* No key is used and no credential read without the approval of that very  *)
(* use: the gate's result of a call reaches the request that made the call, *)
(* and an approval is the user's unless a window of that key was open.      *)
THEOREM UsesHaveConsent == Spec => UseHasConsent
<1>1. ASSUME AgentInv, [Next]_vars, NEW s \in Sessions,
             pc[s] # "sign", pc'[s] = "sign"
      PROVE  context[s] = wanted[s] /\ (Mode = "per_use" => consent[s])
  <2>1. pc[s] = "prompt" /\ result[s] = "approved"
    BY <1>1, SignsByVerdict DEF Verdict, K!Verdict
  <2> QED BY <1>1, <2>1 DEF AgentInv, CallsNest, PP!IInv, PP!ResultInv
<1>2. ASSUME AgentInv, [Next]_vars, NEW s \in Sessions,
             stage[s] # "read", stage'[s] = "read"
      PROVE  context[s] = Unlock /\ consent[s]
  <2>1. stage[s] = "unlock" /\ result[s] = "approved"
    BY <1>2, ReadsByUnlock DEF UnlockReturns, C!UnlockVerdict
  <2> QED BY <1>2, <2>1 DEF AgentInv, CallsNest, PP!IInv, PP!ResultInv
<1>3. AgentInv /\ [Next]_vars =>
        [\A s \in Sessions :
            /\ pc[s] # "sign" /\ pc'[s] = "sign" =>
                  /\ context[s] = wanted[s]
                  /\ Mode = "per_use" => consent[s]
            /\ stage[s] # "read" /\ stage'[s] = "read" =>
                  context[s] = Unlock /\ consent[s]]_vars
  BY <1>1, <1>2
<1> QED BY <1>3, Inductive, PTL DEF UseHasConsent, Spec

-----------------------------------------------------------------------------
(* What is proved of the components, of the agent.                          *)

\* A run of the agent is one of each component.
LEMMA RunsOfComponents == Spec => KP!Spec /\ CP!Spec /\ PP!Spec
<1>1. Init => KP!Init /\ CP!Init /\ PP!Init
  BY SameService, SameClient, SameGate DEF Init
<1>2. AgentInv /\ [Next]_vars => [KP!Next]_KP!vars
  BY ServiceSteps, SameService
<1>3. AgentInv /\ [Next]_vars => [CP!Next]_CP!vars
  BY ClientSteps, SameClient
<1>4. AgentInv /\ [Next]_vars => [PP!Next]_PP!vars
  BY GateSteps, SameGate
<1> QED BY <1>1, <1>2, <1>3, <1>4, Inductive, PTL
        DEF Spec, KP!Spec, CP!Spec, PP!Spec

(* Of the loading passes: they exclude one another, share their fetches,    *)
(* only add to the cache, skip no id silently and log a failure once,       *)
(* however the fetches of the client and the verdicts of the gate interleave. *)
THEOREM ServiceInAgent ==
    Spec => /\ [](KP!OnePass /\ KP!NoRefetch)
            /\ [](KP!NothingSkippedSilently /\ KP!LoggedOnce)
            /\ KP!CacheStable
<1>1. KP!Spec => /\ []KP!OnePass /\ []KP!NoRefetch
                 /\ []KP!NothingSkippedSilently /\ []KP!LoggedOnce
                 /\ KP!CacheStable
  BY AgentAssumption, KP!PassesExclude, KP!FetchesAreShared, KP!AnswersAreComplete,
     KP!FailuresLoggedOnce, KP!CacheOnlyGrows
<1> QED BY <1>1, RunsOfComponents, PTL

(* Of the client: one call is inside, no login within the backoff of one    *)
(* that failed on the clock that stops in sleep, none while the newest      *)
(* bearer works, and a second one only after a refusal.                     *)
THEOREM ClientInAgent ==
    Spec => /\ [](CP!OneInside /\ CP!RetryOnlyAfterRefusal)
            /\ CP!BackoffRespected /\ CP!NoNeedlessLogin
<1>1. CP!Spec => /\ []CP!OneInside /\ []CP!RetryOnlyAfterRefusal
                 /\ CP!BackoffRespected /\ CP!NoNeedlessLogin
  BY AgentAssumption, CP!CallsExclude, CP!RetriesFollowRefusals, CP!LoginsBackOff,
     CP!LoginsAreNeeded
<1> QED BY <1>1, RunsOfComponents, PTL

(* Of the gate: an unlock is approved by its own prompt, and a signature by *)
(* an acceptance no older than the window and its handover to the stamp,    *)
(* when at most one clock is off.                                           *)
THEOREM GateInAgent ==
    Spec => /\ PP!UnlockNeverRides
            /\ PP!OneClockFault => PP!ApprovalHasPresence
<1>1. PP!Spec => PP!UnlockNeverRides
  BY AgentAssumption, PP!UnlocksPrompt
<1>2. PP!OneClockFault => (PP!Spec => PP!ApprovalHasPresence)
  BY AgentAssumption, PP!SignaturesHavePresence
<1> QED BY <1>1, <1>2, RunsOfComponents, PTL

(* To its clients the whole process is the simple agent of the contract,    *)
(* when no id is configured twice: listings and signatures take effect at   *)
(* one moment, on keys that never go away, after a verdict on that request. *)
THEOREM AgentKeepsContract ==
    ASSUME KP!SecretIdsDistinct
    PROVE  Spec => KP!ImplementsContract
<1>1. KP!Spec => KP!ImplementsContract
  BY AgentAssumption, KP!AgentImplementsContract
<1> QED BY <1>1, RunsOfComponents, PTL

-----------------------------------------------------------------------------
(* Who waits for whom.                                                      *)

\* q holds the members of S, each once.
Lists(q, S) ==
    /\ \A i \in 1..Len(q) : q[i] \in S
    /\ \A s \in S : \E i \in 1..Len(q) : q[i] = s
    /\ \A i, j \in 1..Len(q) : q[i] = q[j] => i = j

\* One that joins is one more.
LEMMA Joins ==
    ASSUME NEW T, NEW q \in Seq(T), NEW S, Lists(q, S), NEW s \in T, s \notin S
    PROVE  Lists(Append(q, s), S \cup {s})
<1> DEFINE r == Append(q, s)
<1>1. /\ Len(q) \in Nat /\ Len(r) = Len(q) + 1
      /\ r[Len(q) + 1] = s /\ \A i \in 1..Len(q) : r[i] = q[i]
  BY AppendProperties, LenProperties
<1> HIDE DEF r
<1>2. \A i \in 1..Len(r) : i \in 1..Len(q) \/ i = Len(q) + 1
  BY <1>1
<1>3. \A i \in 1..Len(q) : i \in 1..Len(r) /\ r[i] \in S /\ r[i] # s
  BY <1>1 DEF Lists
<1>4. \A i \in 1..Len(r) : r[i] \in S \cup {s}
  BY <1>1, <1>2, <1>3
<1>5. \A x \in S \cup {s} : \E i \in 1..Len(r) : r[i] = x
  <2>1. Len(q) + 1 \in 1..Len(r)
    BY <1>1
  <2> QED BY <1>1, <1>3, <2>1 DEF Lists
<1>6. ASSUME NEW i \in 1..Len(r), NEW j \in 1..Len(r), r[i] = r[j] PROVE i = j
  <2>1. CASE i \in 1..Len(q) /\ j \in 1..Len(q)
    BY <1>1, <1>6, <2>1 DEF Lists
  <2> QED BY <1>1, <1>2, <1>3, <1>6, <2>1
<1> QED BY <1>4, <1>5, <1>6 DEF Lists, r

\* The first one leaves, and is not in the queue a second time.
LEMMA Leaves ==
    ASSUME NEW T, NEW q \in Seq(T), q # <<>>, NEW S, Lists(q, S)
    PROVE  Lists(Tail(q), S \ {Head(q)})
<1> DEFINE r == Tail(q)
<1>1. /\ Len(q) \in Nat /\ Len(q) # 0 /\ Len(r) = Len(q) - 1 /\ Head(q) = q[1]
      /\ \A i \in 1..Len(r) : r[i] = q[i + 1]
  BY HeadTailProperties, EmptySeq, LenProperties
<1> HIDE DEF r
<1>2. \A i \in 1..Len(r) : i + 1 \in 1..Len(q) /\ i + 1 # 1
  BY <1>1
<1>3. 1 \in 1..Len(q)
  BY <1>1
<1>4. \A i \in 1..Len(r) : r[i] \in S \ {q[1]}
  BY <1>1, <1>2, <1>3 DEF Lists
<1>5. ASSUME NEW x \in S \ {q[1]} PROVE \E i \in 1..Len(r) : r[i] = x
  <2>1. PICK i \in 1..Len(q) : q[i] = x
    BY <1>5 DEF Lists
  <2>2. i # 1 /\ i - 1 \in 1..Len(r) /\ (i - 1) + 1 = i
    BY <1>1, <2>1
  <2> QED BY <1>1, <2>1, <2>2
<1>6. ASSUME NEW i \in 1..Len(r), NEW j \in 1..Len(r), r[i] = r[j] PROVE i = j
  <2>1. i + 1 = j + 1
    BY <1>1, <1>2, <1>6 DEF Lists
  <2> QED BY <2>1
<1> QED BY <1>1, <1>4, <1>5, <1>6 DEF Lists, r

\* The sessions that want `loading`, and those that want the client's state.
AtLoading == {s \in Sessions : pc[s] \in {"queued", "pass"}}
AtClient == {s \in Sessions : stage[s] \notin {"idle", "done"}}

QueuesHoldWaiters == Lists(queue, AtLoading) /\ Lists(waiters, AtClient)

\* A request joins the queue for `loading` once and leaves it after its pass.
LEMMA LoadingQueue ==
    ASSUME AgentInv, Lists(queue, AtLoading), [K!Next]_K!vars
    PROVE  Lists(queue, AtLoading)'
<1> USE SharedTypes
<1>1. queue \in Seq(Sessions)
  BY DEF AgentInv, KP!IInv, KP!TypeOK
<1>2. ASSUME NEW s \in Sessions, pc[s] \notin {"queued", "pass"},
             pc' = [pc EXCEPT ![s] = "queued"], queue' = Append(queue, s)
      PROVE  Lists(queue, AtLoading)'
  <2>1. AtLoading' = AtLoading \cup {s} /\ s \notin AtLoading
    BY <1>2 DEF AtLoading
  <2> QED BY <1>1, <1>2, <2>1, Joins
<1>3. ASSUME NEW s \in Sessions, UNCHANGED queue,
             \/ UNCHANGED pc
             \/ \E to : pc' = [pc EXCEPT ![s] = to]
                        /\ (pc[s] \in {"queued", "pass"} <=> to \in {"queued", "pass"})
      PROVE  Lists(queue, AtLoading)'
  <2>1. AtLoading' = AtLoading
    BY <1>3 DEF AtLoading
  <2> QED BY <1>3, <2>1
<1>4. ASSUME NEW s \in Sessions, K!RequestIdentities(s) PROVE Lists(queue, AtLoading)'
  BY <1>2, <1>4 DEF K!RequestIdentities, K!Accept
<1>5. ASSUME NEW s \in Sessions, K!RequestSign(s) PROVE Lists(queue, AtLoading)'
  <2>1. pc[s] = "idle" /\ pc' = [pc EXCEPT ![s] = "lookup"] /\ UNCHANGED queue
    BY <1>5 DEF K!RequestSign, K!Accept
  <2>2. AtLoading' = AtLoading
    BY <2>1 DEF AtLoading
  <2> QED BY <2>1, <2>2
<1>6. ASSUME NEW s \in Sessions, K!KeyFor(s) PROVE Lists(queue, AtLoading)'
  BY <1>2, <1>3, <1>6 DEF K!KeyFor
<1>7. ASSUME NEW s \in Sessions, K!StartPass(s) PROVE Lists(queue, AtLoading)'
  BY <1>3, <1>7 DEF K!StartPass
<1>8. ASSUME NEW s \in Sessions, K!GetReturns(s) PROVE Lists(queue, AtLoading)'
  BY <1>3, <1>8 DEF K!GetReturns, K!GetUsable, K!GetUnusable, K!GetFailed
<1>9. ASSUME NEW s \in Sessions, K!FinishPass(s) PROVE Lists(queue, AtLoading)'
  <2>1. queue # <<>> /\ Head(queue) = s
    BY <1>9 DEF K!FinishPass, AgentInv, KP!IInv, KP!PassHolds, KP!Holder
  <2>2. queue' = Tail(queue) /\ AtLoading' = AtLoading \ {s}
    BY <1>9 DEF K!FinishPass, AtLoading
  <2> QED BY <1>1, <2>1, <2>2, Leaves
<1>10. ASSUME NEW s \in Sessions, K!Verdict(s) \/ K!TrySign(s)
       PROVE  Lists(queue, AtLoading)'
  BY <1>3, <1>10 DEF K!Verdict, K!TrySign
<1>11. CASE UNCHANGED K!vars
  BY <1>11 DEF K!vars, AtLoading
<1> QED BY <1>4, <1>5, <1>6, <1>7, <1>8, <1>9, <1>10, <1>11 DEF K!Next

\* A fetch joins the queue for the client's state and leaves it with its answer.
LEMMA ClientQueue ==
    ASSUME AgentInv, Lists(waiters, AtClient), [C!Next]_C!vars
    PROVE  Lists(waiters, AtClient)'
<1> USE SharedTypes
<1>1. waiters \in Seq(Sessions)
  BY DEF AgentInv, CP!IInv, CP!TypeOK
<1>2. ASSUME NEW s \in Sessions, NEW to, C!Move(s, to), UNCHANGED waiters,
             stage[s] \in {"idle", "done"} <=> to \in {"idle", "done"}
      PROVE  Lists(waiters, AtClient)'
  <2>1. AtClient' = AtClient
    BY <1>2 DEF AtClient, C!Move
  <2> QED BY <1>2, <2>1
<1>3. ASSUME NEW s \in Sessions, NEW to, C!Finish(s, to), CP!Inside(s)
      PROVE  Lists(waiters, AtClient)'
  <2>1. waiters # <<>> /\ Head(waiters) = s
    BY <1>3 DEF AgentInv, CP!IInv, CP!HolderIsHead
  <2>2. waiters' = Tail(waiters) /\ AtClient' = AtClient \ {s}
    BY <1>3 DEF C!Finish, C!Move, AtClient
  <2> QED BY <1>1, <2>1, <2>2, Leaves
<1>4. ASSUME NEW s \in Sessions, C!Get(s) PROVE Lists(waiters, AtClient)'
  <2>1. AtClient' = AtClient \cup {s} /\ s \notin AtClient /\ waiters' = Append(waiters, s)
    BY <1>4 DEF C!Get, C!Move, AtClient
  <2> QED BY <1>1, <2>1, Joins
<1>5. ASSUME NEW s \in Sessions, C!Enter(s) \/ C!Take(s)
      PROVE  Lists(waiters, AtClient)'
  BY <1>2, <1>5 DEF C!Enter, C!Take
<1>6. ASSUME NEW s \in Sessions,
             C!BeginAttempt(s) \/ C!UnlockVerdict(s) \/ C!ReadKeychain(s)
      PROVE  Lists(waiters, AtClient)'
  BY <1>2, <1>3, <1>6
     DEF C!BeginAttempt, C!UnlockVerdict, C!ReadKeychain, C!LoginFailed, CP!Inside
<1>7. ASSUME NEW s \in Sessions, C!Authenticate(s) \/ C!FetchAnswered(s)
      PROVE  Lists(waiters, AtClient)'
  BY <1>2, <1>3, <1>7
     DEF C!Authenticate, C!FetchAnswered, C!LoginFailed, CP!Inside
<1>8. CASE C!Tick \/ C!Expire \/ UNCHANGED C!vars
  BY <1>8 DEF C!Tick, C!Expire, C!vars, AtClient
<1> QED BY <1>4, <1>5, <1>6, <1>7, <1>8 DEF C!Next

\* Neither mutex loses a waiter or serves one that does not wait.
LEMMA QueuesInductive == Spec => []QueuesHoldWaiters
<1>1. Init => QueuesHoldWaiters
  BY DEF Init, K!Init, C!Init, QueuesHoldWaiters, Lists, AtLoading, AtClient
<1>2. AgentInv /\ QueuesHoldWaiters /\ [Next]_vars => QueuesHoldWaiters'
  BY ServiceSteps, ClientSteps, LoadingQueue, ClientQueue DEF QueuesHoldWaiters
<1> QED BY <1>1, <1>2, Inductive, PTL DEF Spec

\* r waits for a mutex that s holds, or will hold before r does.
First(q, s) == q # <<>> /\ Head(q) = s
WaitsFor(r, s) ==
    /\ r # s
    /\ \/ pc[r] = "queued" /\ First(queue, s)
       \/ stage[r] = "queued" /\ First(waiters, s)

\* Whoever is waited for waits for no session; nobody waits for the client.
WaitsEnd ==
    /\ \A r, s, t \in Sessions : WaitsFor(r, s) => ~WaitsFor(s, t)
    /\ \A r \in Sessions : pc[r] = "queued" => \E s \in AtLoading : First(queue, s)
    /\ \A r \in Sessions : stage[r] = "queued" => First(waiters, r)

(* Two mutexes, and a prompt that nobody need answer, close no circle: a    *)
(* request that is queued for `loading` waits for one that is in its pass,  *)
(* or about to begin it, and waits for no other; and as passes exclude one  *)
(* another, no fetch ever waits for the client's state.                     *)
THEOREM WaitsNeverCircle == Spec => []WaitsEnd
<1>1. ASSUME AgentInv, QueuesHoldWaiters PROVE WaitsEnd
  <2> USE <1>1, SharedTypes
  <2>1. /\ queue \in Seq(Sessions) /\ waiters \in Seq(Sessions)
        /\ Len(queue) \in Nat /\ Len(waiters) \in Nat
    BY DEF AgentInv, KP!IInv, KP!TypeOK, CP!IInv, CP!TypeOK
  <2>2. \A q \in {queue, waiters} : \A i \in 1..Len(q) :
           q # <<>> /\ 1 \in 1..Len(q) /\ Head(q) = q[1]
    BY <2>1, EmptySeq, HeadTailProperties
  <2>3. ASSUME NEW r \in Sessions, stage[r] # "idle" PROVE First(queue, r)
    BY <2>3 DEF AgentInv, CallsNest, KP!IInv, KP!PassHolds, KP!Holder, First
  <2>4. ASSUME NEW r \in Sessions, pc[r] = "queued"
        PROVE  \E s \in AtLoading : First(queue, s)
    <3>1. r \in AtLoading
      BY <2>4 DEF AtLoading
    <3>2. PICK i \in 1..Len(queue) : queue[i] = r
      BY <3>1 DEF QueuesHoldWaiters, Lists
    <3>3. queue # <<>> /\ 1 \in 1..Len(queue) /\ Head(queue) = queue[1]
      BY <2>2
    <3>4. queue[1] \in AtLoading
      BY <3>3 DEF QueuesHoldWaiters, Lists
    <3> QED BY <3>3, <3>4 DEF First
  <2>5. ASSUME NEW r \in Sessions, stage[r] = "queued" PROVE First(waiters, r)
    <3>1. r \in AtClient
      BY <2>5 DEF AtClient
    <3>2. PICK i \in 1..Len(waiters) : waiters[i] = r
      BY <3>1 DEF QueuesHoldWaiters, Lists
    <3>3. waiters # <<>> /\ 1 \in 1..Len(waiters) /\ Head(waiters) = waiters[1]
      BY <2>2
    <3>4. waiters[1] \in AtClient
      BY <3>3 DEF QueuesHoldWaiters, Lists
    <3>5. waiters[1] = r
      BY <2>3, <2>5, <3>4 DEF AtClient, First
    <3> QED BY <3>3, <3>5 DEF First
  <2>6. \A r, s, t \in Sessions : WaitsFor(r, s) => ~WaitsFor(s, t)
    BY <2>5 DEF WaitsFor, First
  <2> QED BY <2>4, <2>5, <2>6 DEF WaitsEnd
<1> QED BY <1>1, Inductive, QueuesInductive, PTL
=============================================================================
