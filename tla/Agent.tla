-------------------------------- MODULE Agent --------------------------------
(***************************************************************************)
(* One agent process: the key service, the backend client it fetches with, *)
(* and the presence gate both of them ask, wired as `serve` in             *)
(* src/agent.rs wires them.  A session that runs a loading pass calls      *)
(* `get`; `get` calls `approve` to unlock the credentials; a signature     *)
(* calls `approve` for its key.  Every action is one of a component, or a  *)
(* call or a return that two of them make together.                        *)
(***************************************************************************)
EXTENDS Integers, Sequences

CONSTANTS
    Sessions, Ids, SecretIds, PublicKeys, Listing, NotLoaded, Unusable,
    NoMessage,
    DecodeErrors,      \* what `decode_key` says of a secret it refuses
    Source, Backoff, MaxLogins, NoSession,
    Unlock, Mode, Factor, Window, Handover,
    ClockFaults, MaxTime, MaxSleep, MaxSkew, Never

\* A failed fetch is named by the error `get` returned, word for word: the
\* seconds left of a backoff are part of the message.
FetchErrors == [error : {"backoff", "unlock", "read", "login", "fetch"},
                left : 0..Backoff]
Messages == DecodeErrors \cup FetchErrors

\* What each component assumes of the constants it shares.
ASSUME AgentAssumption ==
    /\ SecretIds \in Seq(Ids)
    /\ Listing \notin PublicKeys
    /\ NotLoaded \notin PublicKeys
    /\ Unusable \notin PublicKeys \cup {NotLoaded}
    /\ NoMessage \notin Messages
    /\ Source \in {"env", "keychain"}
    /\ {Backoff, MaxLogins} \subseteq Nat
    /\ NoSession \notin Nat
    /\ Unlock \notin PublicKeys
    /\ Mode \in {"per_use", "grace"}
    /\ Factor \in {"touch_id", "yubikey"}
    /\ ClockFaults \subseteq SUBSET {"sleep", "step"}
    /\ {Window, Handover, MaxTime, MaxSleep, MaxSkew} \subseteq Nat
    /\ Never \notin Nat \cup [instant : Int, wall : Int]

VARIABLES
    \* the key service
    pc, wanted, reply, queue, missing, keys, lastErrors, failed, outcome, lines,
    \* the backend client; `answer` is the outcome of its calls
    live, issued, stage, attempt, waiters, session, failedAt, answer,
    logins, refused, lastLogin,
    \* the presence gate
    faults, now, slept, skew, phase, context, channel, result, last, abandoned,
    consent, presence

service == <<pc, wanted, reply, queue, missing, keys, lastErrors, failed,
             outcome, lines>>
client == <<live, issued, stage, attempt, waiters, session, failedAt, answer,
            logins, refused, lastLogin>>
gate == <<faults, now, slept, skew, phase, context, channel, result, last,
          abandoned, consent, presence>>
vars == <<service, client, gate>>

\* `Instant` does not advance while the system sleeps.
Uptime == now - slept

K == INSTANCE KeyService
C == INSTANCE BackendFetcher WITH
         Callers <- Sessions, now <- Uptime, outcome <- answer
P == INSTANCE Authorizer WITH Calls <- Sessions, Fingerprints <- PublicKeys

TypeOK == K!TypeOK /\ C!TypeOK /\ P!TypeOK

Init == P!Init /\ K!Init /\ C!Init

-----------------------------------------------------------------------------
(* Requests, and the loading pass around its fetches.                       *)

ServiceOnly == UNCHANGED <<client, gate>>

Ask(s) == (K!RequestIdentities(s) \/ K!RequestSign(s)) /\ ServiceOnly

\* A session asks the gate for approval in the step that finds its key.
AskGate(s, x) == P!Approve(s) /\ context'[s] = x

KeyFound(s) ==
    /\ UNCHANGED client
    /\ \/ pc'[s] = "prompt" /\ AskGate(s, wanted[s])
       \/ pc'[s] # "prompt" /\ UNCHANGED gate

Lookup(s) == K!KeyFor(s) /\ KeyFound(s)

StartPass(s) == K!StartPass(s) /\ ServiceOnly

FinishPass(s) == K!FinishPass(s) /\ KeyFound(s)

-----------------------------------------------------------------------------
(* A fetch.                                                                 *)

ClientOnly == UNCHANGED <<service, gate>>

CallGet(s) ==
    /\ pc[s] = "pass" /\ missing # {}
    /\ ClientOnly
    /\ C!Get(s)

EnterGet(s) == ClientOnly /\ C!Enter(s)

\* Fault: credentials are unlocked without asking the gate.
BeginLogin_NoGate(s) == ClientOnly /\ C!BeginAttempt(s)

BeginLogin(s) ==
    /\ UNCHANGED service
    /\ \/ AskGate(s, Unlock) /\ C!BeginAttempt(s) /\ stage'[s] = "unlock"
       \/ UNCHANGED gate /\ C!BeginAttempt(s) /\ stage'[s] # "unlock"

UnlockReturns(s) ==
    /\ UNCHANGED service
    /\ P!Take(s)
    /\ C!UnlockVerdict(s)
    /\ stage'[s] = "read" <=> result[s] = "approved"

Exchange(s) ==
    /\ ClientOnly
    /\ C!ReadKeychain(s) \/ C!Authenticate(s) \/ C!FetchAnswered(s)

\* Fault: the seconds left are rounded past the backoff.
GetReturns_RoundsUp(s) ==
    /\ UNCHANGED gate
    /\ C!Take(s)
    /\ IF answer[s].error = "none"
       THEN \E k \in PublicKeys : K!GetUsable(s, k)
       ELSE K!GetFailed(s, [answer[s] EXCEPT !.left = @ + 1])

\* `loaded_keys` takes the answer of `get`: a secret, usable or not, or an
\* error.
GetReturns(s) ==
    /\ UNCHANGED gate
    /\ C!Take(s)
    /\ \/ /\ answer[s].error = "none"
          /\ \/ \E k \in PublicKeys : K!GetUsable(s, k)
             \/ \E message \in DecodeErrors : K!GetUnusable(s, message)
       \/ /\ answer[s].error # "none"
          /\ K!GetFailed(s, answer[s])

-----------------------------------------------------------------------------
(* A signature, and the gate's own steps.                                   *)

Verdict(s) ==
    /\ UNCHANGED client
    /\ P!Take(s)
    /\ K!Verdict(s)
    /\ pc'[s] = "sign" <=> result[s] = "approved"
    /\ pc'[s] = "idle" => reply'[s].kind = result[s]

TrySign(s) == K!TrySign(s) /\ ServiceOnly

GateStep(s) ==
    /\ UNCHANGED <<service, client>>
    /\ P!CheckWindow(s) \/ P!Raise(s) \/ P!Return(s)

User(s) ==
    /\ UNCHANGED <<service, client>>
    /\ P!Answer(s) \/ P!LateAnswer(s)

\* Fault: the request goes on without the call of the gate that timed out.
PromptTimesOut_Frees(s) ==
    /\ UNCHANGED <<service, client, faults, now, slept, skew, context, channel,
                   result, last, abandoned, consent, presence>>
    /\ phase[s] = "waiting" /\ channel[s] = "empty"
    /\ phase' = [phase EXCEPT ![s] = "idle"]

PromptTimesOut(s) == UNCHANGED <<service, client>> /\ P!TimeOut(s)

Clocks ==
    /\ UNCHANGED <<service, client>>
    /\ P!Tick \/ P!Sleep \/ P!StepWall

ServerExpires == ClientOnly /\ C!Expire

Next ==
    \/ Clocks
    \/ ServerExpires
    \/ \E s \in Sessions :
          \/ Ask(s)
          \/ Lookup(s)
          \/ StartPass(s)
          \/ CallGet(s)
          \/ EnterGet(s)
          \/ BeginLogin(s)
          \/ UnlockReturns(s)
          \/ Exchange(s)
          \/ GetReturns(s)
          \/ FinishPass(s)
          \/ Verdict(s)
          \/ TrySign(s)
          \/ GateStep(s)
          \/ User(s)
          \/ PromptTimesOut(s)

Spec == Init /\ [][Next]_vars

\* Tasks run and prompts have their time limit.  Nothing is asked of the user.
Fairness == \A s \in Sessions :
    /\ WF_vars(Lookup(s)) /\ WF_vars(StartPass(s)) /\ WF_vars(FinishPass(s))
    /\ WF_vars(CallGet(s)) /\ WF_vars(EnterGet(s)) /\ WF_vars(BeginLogin(s))
    /\ WF_vars(UnlockReturns(s)) /\ WF_vars(GetReturns(s))
    /\ WF_vars(Verdict(s)) /\ WF_vars(TrySign(s))
    /\ WF_vars(GateStep(s)) /\ WF_vars(PromptTimesOut(s))

\* The Keychain and the server answer, or the HTTP client times out.
ExchangeFairness == \A s \in Sessions : WF_vars(Exchange(s))

FairSpec == Spec /\ Fairness /\ ExchangeFairness

-----------------------------------------------------------------------------
(* Properties.                                                              *)

\* A call of the gate in progress belongs to the signature or the login that
\* made it, and asks approval of what that one is about.
CallsNest == \A s \in Sessions :
    /\ phase[s] # "idle" <=> pc[s] = "prompt" \/ stage[s] = "unlock"
    /\ pc[s] = "prompt" => context[s] = wanted[s]
    /\ stage[s] = "unlock" => context[s] = Unlock
    /\ stage[s] # "idle" => pc[s] = "pass"

(* "Every sign passes through the Authorizer before the key is used", and   *)
(* "the gate must approve BEFORE anything is read from the Keychain": in    *)
(* per_use mode a session signs only after the user accepted a prompt that  *)
(* names the very key it signs with, raised for that very request; and in   *)
(* any mode credentials are read only after the user accepted the prompt of *)
(* that very login, whatever signatures were approved meanwhile.            *)
UseHasConsent == [][\A s \in Sessions :
    /\ pc[s] # "sign" /\ pc'[s] = "sign" =>
          /\ context[s] = wanted[s]
          /\ Mode = "per_use" => consent[s]
    /\ stage[s] # "read" /\ stage'[s] = "read" =>
          context[s] = Unlock /\ consent[s]]_vars

(* Each component, called as the others call it, behaves as its own module  *)
(* says: what is shown of it there holds in the agent.                      *)
ImplementsComponents == K!Spec /\ C!Spec /\ P!Spec

(* Every request is answered though nobody ever answers a prompt: the       *)
(* loading lock, the client's lock and the prompts never wait in a circle.  *)
EveryRequestAnswered == \A s \in Sessions : pc[s] # "idle" ~> pc[s] = "idle"

(* "A key that keeps failing the same way is logged once instead of on      *)
(* every request": two lines in a row about a key name different failures.  *)
SameFailureLoggedOnce == [][\A i \in Ids :
    lastErrors'[i] # lastErrors[i]
        /\ {lastErrors[i], lastErrors'[i]} \subseteq FetchErrors
    => lastErrors'[i].error # lastErrors[i].error]_vars
=============================================================================
