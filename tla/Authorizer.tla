------------------------------ MODULE Authorizer ------------------------------
(***************************************************************************)
(* The presence gate, src/authorizer.rs: concurrent `approve` calls of one *)
(* shared authorizer, the prompt each of them raises, and the grace window *)
(* measured on two clocks.                                                 *)
(*                                                                         *)
(* `now` is real time, which the program cannot read.  Instant stands      *)
(* still while the system sleeps; the wall clock can be stepped.  Prompts  *)
(* are the operating system's: each has a reply channel of its own, and    *)
(* one that timed out may stay on the screen and be answered later.        *)
(***************************************************************************)
EXTENDS Integers

CONSTANTS
    Calls,          \* tasks that may be in `approve` at the same time
    Fingerprints,   \* of the keys signatures are asked of
    Unlock,         \* the context of a credential unlock
    Mode,           \* "per_use" or "grace"
    Factor,         \* "touch_id" or "yubikey"
    Window,         \* grace_seconds
    ClockFaults,    \* what may be wrong with a machine's clocks: sets of
                    \* "sleep" (it suspends) and "step" (the wall clock is set)
    Handover,       \* how long an accepted verdict may take, in real time, from
                    \* the prompt to the stamp; nothing in the program bounds it
    MaxTime,        \* bound on real time
    MaxSleep,       \* bound on the time spent asleep
    MaxSkew,        \* bound on how far the wall clock is stepped
    Never

ASSUME AuthorizerAssumption ==
    /\ Unlock \notin Fingerprints
    /\ Mode \in {"per_use", "grace"}
    /\ Factor \in {"touch_id", "yubikey"}
    /\ ClockFaults \subseteq SUBSET {"sleep", "step"}
    /\ {Window, Handover, MaxTime, MaxSleep, MaxSkew} \subseteq Nat
    /\ Never \notin [instant : Int, wall : Int]

VARIABLES
    faults,            \* those of this machine
    now, slept, skew,   \* real time, total sleep, error of the wall clock
    phase,     \* of each call: "idle", "check", "raise", "waiting" or
               \* "returned", until its caller takes the result
    context,   \* what it asks approval for
    channel,   \* the verdict sent on its prompt's channel
    result,    \* what the call returned
    last,      \* Grace.last: the approval of each key
    abandoned, \* calls a prompt of which is on screen though they gave up on it
    \* History, read by the properties only:
    consent,   \* the user accepted the prompt raised for this very call
    presence   \* when the user last accepted a prompt for a signature of the key

clocks == <<faults, now, slept, skew>>
vars == <<clocks, phase, context, channel, result, last, abandoned,
          consent, presence>>

Contexts == Fingerprints \cup {Unlock}

Instant == now - slept
Wall == now + skew

\* The user, or LocalAuthentication, on a prompt.  YubikeyTouch turns every
\* failure of the assertion into a denial.
Verdicts == IF Factor = "touch_id" THEN {"accepted", "rejected", "failed"}
                                   ELSE {"accepted", "rejected"}

TypeOK ==
    /\ faults \in ClockFaults
    /\ now \in 0..MaxTime /\ slept \in 0..MaxSleep /\ skew \in -MaxSkew..MaxSkew
    /\ phase \in [Calls -> {"idle", "check", "raise", "waiting", "returned"}]
    /\ context \in [Calls -> Contexts]
    /\ channel \in [Calls -> Verdicts \cup {"empty"}]
    /\ result \in [Calls -> {"none", "approved", "denied", "error"}]
    /\ last \in [Fingerprints -> [instant : Int, wall : Int] \cup {Never}]
    /\ abandoned \in SUBSET Calls
    /\ consent \in [Calls -> BOOLEAN]
    /\ presence \in [Fingerprints -> Int]

Init ==
    /\ faults \in ClockFaults
    /\ now = 0 /\ slept = 0 /\ skew = 0
    /\ phase = [c \in Calls |-> "idle"]
    /\ context = [c \in Calls |-> Unlock]
    /\ channel = [c \in Calls |-> "empty"]
    /\ result = [c \in Calls |-> "none"]
    /\ last = [f \in Fingerprints |-> Never]
    /\ abandoned = {}
    /\ consent = [c \in Calls |-> FALSE]
    /\ presence = [f \in Fingerprints |-> -(Window + Handover)]

-----------------------------------------------------------------------------
(* Clocks.                                                                  *)

Clock == UNCHANGED <<faults, phase, context, channel, result, last, abandoned,
                     consent, presence>>

\* An acceptance whose verdict `approve` has yet to read and stamp.
Unstamped(c) == channel[c] = "accepted" /\ context[c] # Unlock

\* The assumption on the handover: real time passes, asleep or awake, only as
\* long as the last acceptance of a key still to be stamped is fresh enough.
MayPass == \A c \in Calls : Unstamped(c) => now - presence[context[c]] < Handover

Tick ==
    /\ now < MaxTime /\ MayPass
    /\ now' = now + 1
    /\ UNCHANGED <<slept, skew>>
    /\ Clock

Sleep ==
    /\ "sleep" \in faults
    /\ now < MaxTime /\ slept < MaxSleep /\ MayPass
    /\ now' = now + 1 /\ slept' = slept + 1
    /\ UNCHANGED skew
    /\ Clock

StepWall ==
    /\ "step" \in faults
    /\ skew' \in -MaxSkew..MaxSkew
    /\ UNCHANGED <<now, slept>>
    /\ Clock

-----------------------------------------------------------------------------
(* Grace.approve.                                                           *)

\* Fault: the window is measured on the clock that stops in sleep.
Within_InstantOnly(approval) ==
    /\ approval # Never
    /\ Instant - approval.instant < Window

\* Half-open on both clocks; a wall clock behind the approval is expired.
Within(approval) ==
    /\ approval # Never
    /\ Instant - approval.instant < Window
    /\ Wall >= approval.wall
    /\ Wall - approval.wall < Window

\* Fault: a credential unlock looks at the window of some key.
Approve_UnlockRides(c) ==
    /\ phase[c] = "idle"
    /\ \E x \in Contexts :
          /\ context' = [context EXCEPT ![c] = x]
          /\ IF x = Unlock /\ \E f \in Fingerprints : Within(last[f])
             THEN /\ phase' = [phase EXCEPT ![c] = "returned"]
                  /\ result' = [result EXCEPT ![c] = "approved"]
             ELSE /\ phase' = [phase EXCEPT ![c] = "raise"]
                  /\ UNCHANGED result
    /\ UNCHANGED <<clocks, channel, last, abandoned, consent, presence>>

\* Only signatures ride the window, and only when the mode is grace.
Approve(c) ==
    /\ phase[c] = "idle"
    /\ \E x \in Contexts :
          /\ context' = [context EXCEPT ![c] = x]
          /\ phase' = [phase EXCEPT ![c] =
                 IF Mode = "grace" /\ x # Unlock THEN "check" ELSE "raise"]
    /\ UNCHANGED <<clocks, channel, result, last, abandoned, consent, presence>>

CheckWindow(c) ==
    /\ phase[c] = "check"
    /\ \/ /\ Within(last[context[c]])
          /\ phase' = [phase EXCEPT ![c] = "returned"]
          /\ result' = [result EXCEPT ![c] = "approved"]
       \/ /\ ~Within(last[context[c]])
          /\ phase' = [phase EXCEPT ![c] = "raise"]
          /\ UNCHANGED result
    /\ UNCHANGED <<clocks, context, channel, last, abandoned, consent, presence>>

-----------------------------------------------------------------------------
(* The inner authorizer.                                                    *)

\* `authenticate` puts the prompt up, or fails at once: no policy, no device.
Raise(c) ==
    /\ phase[c] = "raise"
    /\ \/ /\ phase' = [phase EXCEPT ![c] = "waiting"]
          /\ UNCHANGED result
       \/ /\ phase' = [phase EXCEPT ![c] = "returned"]
          /\ result' = [result EXCEPT ![c] = "error"]
    /\ UNCHANGED <<clocks, context, channel, last, abandoned, consent, presence>>

\* A verdict on the prompt of a call that still waits for it.
Answer(c) ==
    /\ phase[c] = "waiting" /\ channel[c] = "empty"
    /\ \E v \in Verdicts :
          /\ channel' = [channel EXCEPT ![c] = v]
          /\ consent' = [consent EXCEPT ![c] = (v = "accepted")]
          /\ presence' = IF v = "accepted" /\ context[c] # Unlock
                         THEN [presence EXCEPT ![context[c]] = now] ELSE presence
    /\ UNCHANGED <<clocks, phase, context, result, last, abandoned>>

\* Fault: the prompt is waited for without a limit.
TimeOut_Never(c) == FALSE /\ UNCHANGED <<vars, phase[c]>>

\* `await_verdict` gives up; the prompt may stay on the screen.
TimeOut(c) ==
    /\ Factor = "touch_id"
    /\ phase[c] = "waiting" /\ channel[c] = "empty"
    /\ phase' = [phase EXCEPT ![c] = "returned"]
    /\ result' = [result EXCEPT ![c] = "error"]
    /\ abandoned' = abandoned \cup {c}
    /\ UNCHANGED <<clocks, context, channel, last, consent, presence>>

\* Fault: prompts share a channel, so an old prompt answers a new one.
LateAnswer_SharedChannel(c) ==
    /\ c \in abandoned
    /\ abandoned' = abandoned \ {c}
    /\ channel' = IF phase[c] = "waiting" /\ channel[c] = "empty"
                  THEN [channel EXCEPT ![c] = "accepted"] ELSE channel
    /\ UNCHANGED <<clocks, phase, context, result, last, consent, presence>>

\* A verdict on an abandoned prompt: its receiver is gone, `send` fails.
LateAnswer(c) ==
    /\ c \in abandoned
    /\ abandoned' = abandoned \ {c}
    /\ UNCHANGED <<clocks, phase, context, channel, result, last,
                   consent, presence>>

\* Fault: the verdict itself is handed on as the result.
Return_RawVerdict(c) ==
    /\ phase[c] = "waiting" /\ channel[c] # "empty"
    /\ phase' = [phase EXCEPT ![c] = "returned"]
    /\ channel' = [channel EXCEPT ![c] = "empty"]
    /\ result' = [result EXCEPT ![c] = channel[c]]
    /\ UNCHANGED <<clocks, context, last, abandoned, consent, presence>>

\* The verdict comes back through the worker thread, and `approve` returns.
\* An approval of a signature is stamped now, not when the user gave it: the
\* window opens as late as the verdict was in coming back.
Return(c) ==
    /\ phase[c] = "waiting" /\ channel[c] # "empty"
    /\ phase' = [phase EXCEPT ![c] = "returned"]
    /\ channel' = [channel EXCEPT ![c] = "empty"]
    /\ result' = [result EXCEPT ![c] =
           CASE channel[c] = "accepted" -> "approved"
             [] channel[c] = "rejected" -> "denied"
             [] channel[c] = "failed" -> "error"]
    /\ last' = IF Mode = "grace" /\ Unstamped(c)
               THEN [last EXCEPT ![context[c]] = [instant |-> Instant, wall |-> Wall]]
               ELSE last
    /\ UNCHANGED <<clocks, context, abandoned, consent, presence>>

\* The caller takes the result, and the call is over.
Take(c) ==
    /\ phase[c] = "returned"
    /\ phase' = [phase EXCEPT ![c] = "idle"]
    /\ context' = [context EXCEPT ![c] = Unlock]
    /\ result' = [result EXCEPT ![c] = "none"]
    /\ consent' = [consent EXCEPT ![c] = FALSE]
    /\ UNCHANGED <<clocks, channel, last, abandoned, presence>>

Next ==
    \/ Tick
    \/ Sleep
    \/ StepWall
    \/ \E c \in Calls :
          \/ Approve(c)
          \/ CheckWindow(c)
          \/ Raise(c)
          \/ Answer(c)
          \/ TimeOut(c)
          \/ LateAnswer(c)
          \/ Return(c)
          \/ Take(c)

Spec == Init /\ [][Next]_vars

-----------------------------------------------------------------------------
(* Properties.                                                              *)

Granted(c) == result[c] # "approved" /\ result'[c] = "approved"

(* The gate: a signature is approved only because the user accepted the     *)
(* prompt raised for that very call, or because, in grace mode, the user    *)
(* accepted a prompt for the same key so recently in real time that the     *)
(* window, counted from the stamp, is still open: less than the window and  *)
(* the handover of that acceptance to its stamp ago, whether the machine    *)
(* slept, before the stamp or after it, or the wall clock was stepped.  The *)
(* answer to a prompt that timed out, or to another call's prompt, approves *)
(* nothing.                                                                 *)
ApprovalHasPresence == [][\A c \in Calls : Granted(c) /\ context[c] # Unlock =>
    \/ consent[c]
    \/ Mode = "grace" /\ now - presence[context[c]] < Window + Handover]_vars

(* "A credential unlock always reaches the inner prompt and is never        *)
(* cached": an unlock is approved by its own prompt only.                   *)
UnlockNeverRides == [][\A c \in Calls :
    Granted(c) /\ context[c] = Unlock => consent[c]]_vars
=============================================================================
