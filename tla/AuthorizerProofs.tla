--------------------------- MODULE AuthorizerProofs ---------------------------
(* Theorems about Authorizer, for any calls, keys, window and bounds on the *)
(* clocks.                                                                  *)
EXTENDS Authorizer, TLAPS

\* At most one of the two clocks is off: no sleep, or no wall clock step.
OneClockFault == \A f \in ClockFaults : f # {"sleep", "step"}

\* A verdict is in a channel only while its call waits, and an acceptance
\* there is the user's answer to that call.
ChannelInv == \A c \in Calls :
    /\ phase[c] # "waiting" => channel[c] = "empty"
    /\ channel[c] = "accepted" => consent[c]

\* Only signatures in grace mode look at the window.
CheckInv == \A c \in Calls :
    phase[c] = "check" => context[c] # Unlock /\ Mode = "grace"

\* A clock without its fault runs true.
ClockInv ==
    /\ "sleep" \notin faults => slept = 0
    /\ "step" \notin faults => skew = 0

\* A key's last acceptance is in the past, and one still to be stamped is no
\* older than the handover.
PendingInv ==
    /\ \A f \in Fingerprints : presence[f] <= now
    /\ \A c \in Calls : Unstamped(c) => now - presence[context[c]] <= Handover

\* On the clock that runs true, a stamp is at most the handover later than the
\* key's last acceptance.
StampInv == \A f \in Fingerprints : last[f] # Never =>
    /\ Mode = "grace"
    /\ "sleep" \notin faults => last[f].instant <= presence[f] + Handover
    /\ "step" \notin faults => last[f].wall <= presence[f] + Handover

\* A result is there for the caller that has yet to take it; an approval
\* among them is the user's, or that of a window.
ResultInv == \A c \in Calls :
    /\ phase[c] # "returned" => result[c] = "none"
    /\ result[c] = "approved" =>
           consent[c] \/ (Mode = "grace" /\ context[c] # Unlock)

IInv == /\ TypeOK /\ ClockInv /\ ChannelInv /\ CheckInv
        /\ PendingInv /\ StampInv /\ ResultInv

\* Types, at first.
LEMMA TypeInit == Init => TypeOK
BY AuthorizerAssumption DEF Init, TypeOK, Contexts

\* Types, at every step.
LEMMA TypeStep == TypeOK /\ [Next]_vars => TypeOK'
<1> SUFFICES ASSUME TypeOK, [Next]_vars PROVE TypeOK'
  OBVIOUS
<1> USE AuthorizerAssumption DEF TypeOK
<1>1. CASE Tick \/ Sleep \/ StepWall
  BY <1>1 DEF Tick, Sleep, StepWall, Clock
<1>2. ASSUME NEW c \in Calls, Approve(c) PROVE TypeOK'
  BY <1>2 DEF Approve, clocks
<1>3. ASSUME NEW c \in Calls, CheckWindow(c) PROVE TypeOK'
  BY <1>3 DEF CheckWindow, clocks
<1>4. ASSUME NEW c \in Calls, Raise(c) PROVE TypeOK'
  BY <1>4 DEF Raise, clocks
<1>5. ASSUME NEW c \in Calls, Answer(c) PROVE TypeOK'
  <2>1. presence' \in [Fingerprints -> Int]
    BY <1>5 DEF Answer, Contexts
  <2> QED BY <1>5, <2>1 DEF Answer, clocks
<1>6. ASSUME NEW c \in Calls, TimeOut(c) \/ LateAnswer(c) \/ Take(c)
      PROVE  TypeOK'
  <2>1. CASE TimeOut(c) \/ LateAnswer(c)
    BY <2>1 DEF TimeOut, LateAnswer, clocks
  <2>2. CASE Take(c)
    BY <2>2 DEF Take, Contexts, clocks
  <2> QED BY <1>6, <2>1, <2>2
<1>7. ASSUME NEW c \in Calls, Return(c) PROVE TypeOK'
  <2>1. result' \in [Calls -> {"none", "approved", "denied", "error"}]
    BY <1>7 DEF Return, Verdicts
  <2>2. last' \in [Fingerprints -> [instant : Int, wall : Int] \cup {Never}]
    <3>1. Instant \in Int /\ Wall \in Int
      BY DEF Instant, Wall
    <3> QED BY <1>7, <3>1 DEF Return, Unstamped, Contexts
  <2> QED BY <1>7, <2>1, <2>2 DEF Return, clocks
<1>8. CASE UNCHANGED vars
  BY <1>8 DEF vars, clocks
<1> QED BY <1>1, <1>2, <1>3, <1>4, <1>5, <1>6, <1>7, <1>8 DEF Next

\* No step puts into a channel what its prompt did not say.
LEMMA ChannelStep == TypeOK /\ ChannelInv /\ [Next]_vars => ChannelInv'
<1> SUFFICES ASSUME TypeOK, ChannelInv, [Next]_vars PROVE ChannelInv'
  OBVIOUS
<1> USE DEF TypeOK, ChannelInv
<1>1. CASE Tick \/ Sleep \/ StepWall
  BY <1>1 DEF Tick, Sleep, StepWall, Clock
<1>2. ASSUME NEW c \in Calls, Approve(c) \/ CheckWindow(c) \/ Raise(c)
      PROVE  ChannelInv'
  BY <1>2 DEF Approve, CheckWindow, Raise
<1>3. ASSUME NEW c \in Calls, Answer(c) PROVE ChannelInv'
  BY <1>3 DEF Answer
<1>4. ASSUME NEW c \in Calls, TimeOut(c) \/ LateAnswer(c) \/ Return(c) \/ Take(c)
      PROVE  ChannelInv'
  BY <1>4 DEF TimeOut, LateAnswer, Return, Take
<1>5. CASE UNCHANGED vars
  BY <1>5 DEF vars
<1> QED BY <1>1, <1>2, <1>3, <1>4, <1>5 DEF Next

\* No step sends an unlock to the window check.
LEMMA CheckStep == TypeOK /\ CheckInv /\ [Next]_vars => CheckInv'
<1> SUFFICES ASSUME TypeOK, CheckInv, [Next]_vars PROVE CheckInv'
  OBVIOUS
<1> USE DEF TypeOK, CheckInv
<1>1. CASE Tick \/ Sleep \/ StepWall
  BY <1>1 DEF Tick, Sleep, StepWall, Clock
<1>2. ASSUME NEW c \in Calls, Approve(c) PROVE CheckInv'
  BY <1>2 DEF Approve
<1>3. ASSUME NEW c \in Calls,
             \/ CheckWindow(c) \/ Raise(c) \/ Answer(c)
             \/ TimeOut(c) \/ LateAnswer(c) \/ Return(c) \/ Take(c)
      PROVE  CheckInv'
  BY <1>3 DEF CheckWindow, Raise, Answer, TimeOut, LateAnswer, Return, Take
<1>4. CASE UNCHANGED vars
  BY <1>4 DEF vars
<1> QED BY <1>1, <1>2, <1>3, <1>4 DEF Next

\* No step approves on anything else, or hands on an old approval.
LEMMA ResultStep ==
    TypeOK /\ ChannelInv /\ CheckInv /\ ResultInv /\ [Next]_vars => ResultInv'
<1> SUFFICES ASSUME TypeOK, ChannelInv, CheckInv, ResultInv, [Next]_vars
             PROVE  ResultInv'
  OBVIOUS
<1> USE DEF TypeOK, ResultInv
<1>1. CASE Tick \/ Sleep \/ StepWall
  BY <1>1 DEF Tick, Sleep, StepWall, Clock
<1>2. ASSUME NEW c \in Calls, Approve(c) \/ Answer(c) \/ LateAnswer(c) \/ Take(c)
      PROVE  ResultInv'
  BY <1>2 DEF Approve, Answer, LateAnswer, Take
<1>3. ASSUME NEW c \in Calls, CheckWindow(c) PROVE ResultInv'
  BY <1>3 DEF CheckWindow, CheckInv
<1>4. ASSUME NEW c \in Calls, Raise(c) \/ TimeOut(c) PROVE ResultInv'
  BY <1>4 DEF Raise, TimeOut
<1>5. ASSUME NEW c \in Calls, Return(c) PROVE ResultInv'
  <2>1. channel[c] \in {"accepted", "rejected", "failed"}
    BY <1>5 DEF Return, Verdicts
  <2>2. result'[c] = "approved" => consent[c]
    BY <1>5, <2>1 DEF Return, ChannelInv
  <2> QED BY <1>5, <2>2 DEF Return
<1>6. CASE UNCHANGED vars
  BY <1>6 DEF vars
<1> QED BY <1>1, <1>2, <1>3, <1>4, <1>5, <1>6 DEF Next

\* A clock without its fault goes on running true.
LEMMA ClockStep == ClockInv /\ [Next]_vars => ClockInv'
<1> SUFFICES ASSUME ClockInv, [Next]_vars PROVE ClockInv'
  OBVIOUS
<1> USE DEF ClockInv
<1>1. CASE Tick \/ Sleep \/ StepWall
  BY <1>1 DEF Tick, Sleep, StepWall, Clock
<1>2. ASSUME NEW c \in Calls,
             \/ Approve(c) \/ CheckWindow(c) \/ Raise(c) \/ Answer(c)
             \/ TimeOut(c) \/ LateAnswer(c) \/ Return(c) \/ Take(c)
      PROVE  ClockInv'
  BY <1>2 DEF Approve, CheckWindow, Raise, Answer, TimeOut, LateAnswer, Return, Take,
              clocks
<1>3. CASE UNCHANGED vars
  BY <1>3 DEF vars, clocks
<1> QED BY <1>1, <1>2, <1>3 DEF Next

\* Time passes only while the last acceptance to be stamped is fresh enough.
LEMMA PendingStep ==
    TypeOK /\ ChannelInv /\ PendingInv /\ [Next]_vars => PendingInv'
<1> SUFFICES ASSUME TypeOK, ChannelInv, PendingInv, [Next]_vars PROVE PendingInv'
  OBVIOUS
<1> USE AuthorizerAssumption DEF TypeOK, PendingInv, Unstamped, Contexts
<1>1. CASE Tick \/ Sleep
  <2>1. /\ MayPass /\ now' = now + 1
        /\ presence' = presence /\ channel' = channel /\ context' = context
    BY <1>1 DEF Tick, Sleep, Clock
  <2> QED BY <2>1 DEF MayPass
<1>2. CASE StepWall
  BY <1>2 DEF StepWall, Clock
<1>3. ASSUME NEW c \in Calls, Approve(c) \/ CheckWindow(c) \/ Raise(c) \/ Take(c)
      PROVE  PendingInv'
  BY <1>3 DEF Approve, CheckWindow, Raise, Take, ChannelInv, clocks
<1>4. ASSUME NEW c \in Calls, TimeOut(c) \/ LateAnswer(c) \/ Return(c)
      PROVE  PendingInv'
  BY <1>4 DEF TimeOut, LateAnswer, Return, clocks
<1>5. ASSUME NEW c \in Calls, Answer(c) PROVE PendingInv'
  <2>1. \A f \in Fingerprints :
            presence'[f] = now \/ presence'[f] = presence[f]
    BY <1>5 DEF Answer
  <2>2. now' = now /\ context' = context
    BY <1>5 DEF Answer, clocks
  <2>3. \A d \in Calls : Unstamped(d)' =>
            Unstamped(d) \/ (context[d] \in Fingerprints
                             /\ presence'[context[d]] = now)
    BY <1>5 DEF Answer
  <2> QED BY <2>1, <2>2, <2>3
<1>6. CASE UNCHANGED vars
  BY <1>6 DEF vars, clocks
<1> QED BY <1>1, <1>2, <1>3, <1>4, <1>5, <1>6 DEF Next

\* A stamp that was in time stays in time: a later acceptance is no earlier.
LEMMA StampStep ==
    TypeOK /\ ClockInv /\ PendingInv /\ StampInv /\ [Next]_vars => StampInv'
<1> SUFFICES ASSUME TypeOK, ClockInv, PendingInv, StampInv, [Next]_vars
             PROVE  StampInv'
  OBVIOUS
<1> USE AuthorizerAssumption DEF TypeOK, StampInv
<1>1. CASE Tick \/ Sleep \/ StepWall
  BY <1>1 DEF Tick, Sleep, StepWall, Clock
<1>2. ASSUME NEW c \in Calls,
             \/ Approve(c) \/ CheckWindow(c) \/ Raise(c)
             \/ TimeOut(c) \/ LateAnswer(c) \/ Take(c)
      PROVE  StampInv'
  BY <1>2 DEF Approve, CheckWindow, Raise, TimeOut, LateAnswer, Take, clocks
<1>3. ASSUME NEW c \in Calls, Answer(c) PROVE StampInv'
  <2>1. last' = last /\ faults' = faults
    BY <1>3 DEF Answer, clocks
  <2>2. \A f \in Fingerprints : presence[f] <= presence'[f] /\ presence'[f] \in Int
    BY <1>3 DEF Answer, PendingInv
  <2>3. ASSUME NEW f \in Fingerprints, last[f] # Never
        PROVE  last[f].instant \in Int /\ last[f].wall \in Int
    BY <2>3
  <2> QED BY <2>1, <2>2, <2>3
<1>4. ASSUME NEW c \in Calls, Return(c) PROVE StampInv'
  <2>1. CASE channel[c] = "accepted" /\ context[c] # Unlock /\ Mode = "grace"
    <3>1. /\ last' = [last EXCEPT ![context[c]] =
                          [instant |-> Instant, wall |-> Wall]]
          /\ presence' = presence
      BY <1>4, <2>1 DEF Return, Unstamped
    <3>2. /\ "sleep" \notin faults => Instant = now
          /\ "step" \notin faults => Wall = now
      BY DEF Instant, Wall, ClockInv
    <3>3. context[c] \in Fingerprints
      BY <2>1 DEF Contexts
    <3>4. last'[context[c]] = [instant |-> Instant, wall |-> Wall]
      BY <3>1, <3>3
    <3>5. now <= presence[context[c]] + Handover
      BY <2>1, <3>3 DEF PendingInv, Unstamped
    <3>6. \A f \in Fingerprints : f # context[c] => last'[f] = last[f]
      BY <3>1
    <3>7. faults' = faults
      BY <1>4 DEF Return, clocks
    <3> QED BY <2>1, <3>1, <3>2, <3>3, <3>4, <3>5, <3>6, <3>7
  <2>2. CASE ~(channel[c] = "accepted" /\ context[c] # Unlock)
    BY <1>4, <2>2 DEF Return, Unstamped, clocks
  <2>3. CASE channel[c] = "accepted" /\ context[c] # Unlock /\ Mode # "grace"
    \* In per_use mode nothing is ever stamped.
    BY <1>4, <2>3 DEF Return, clocks
  <2> QED BY <2>1, <2>2, <2>3
<1>5. CASE UNCHANGED vars
  BY <1>5 DEF vars, clocks
<1> QED BY <1>1, <1>2, <1>4, <1>5, <1>3 DEF Next
-----------------------------------------------------------------------------
(* The theorems.                                                            *)

\* No call has begun, so the invariant holds.
LEMMA InitIInv == Init => IInv
<1> SUFFICES ASSUME Init PROVE IInv
  OBVIOUS
<1>1. TypeOK /\ ClockInv /\ ChannelInv /\ CheckInv /\ StampInv /\ ResultInv
  BY TypeInit DEF Init, ClockInv, ChannelInv, CheckInv, StampInv, ResultInv
<1>2. PendingInv
  BY AuthorizerAssumption DEF Init, PendingInv, Unstamped
<1> QED BY <1>1, <1>2 DEF IInv

\* Every step keeps it.
LEMMA StepIInv == IInv /\ [Next]_vars => IInv'
BY TypeStep, ClockStep, ChannelStep, CheckStep, PendingStep, StampStep, ResultStep
   DEF IInv

\* The invariant holds of every run of approve.
THEOREM Inductive == Spec => []IInv
BY InitIInv, StepIInv, PTL DEF Spec

(* Every reachable state is well typed.                                     *)
THEOREM TypeCorrect == Spec => []TypeOK
<1>1. IInv => TypeOK
  BY DEF IInv
<1> QED BY <1>1, Inductive, PTL

\* An approval comes from an open window or from the call's own prompt.
LEMMA GrantCases ==
    ASSUME IInv, [Next]_vars, NEW c \in Calls, Granted(c)
    PROVE  \/ /\ phase[c] = "check"
              /\ Within(last[context[c]])
           \/ consent[c]
<1> USE DEF IInv, TypeOK, Granted
<1>1. CASE Tick \/ Sleep \/ StepWall
  BY <1>1 DEF Tick, Sleep, StepWall, Clock
<1>2. ASSUME NEW d \in Calls,
             \/ Approve(d) \/ Raise(d) \/ Answer(d)
             \/ TimeOut(d) \/ LateAnswer(d) \/ Take(d)
      PROVE  FALSE
  BY <1>2 DEF Approve, Raise, Answer, TimeOut, LateAnswer, Take
<1>3. ASSUME NEW d \in Calls, CheckWindow(d)
      PROVE  phase[c] = "check" /\ Within(last[context[c]])
  BY <1>3 DEF CheckWindow
<1>4. ASSUME NEW d \in Calls, Return(d) PROVE consent[c]
  <2>1. d = c /\ channel[c] = "accepted"
    BY <1>4 DEF Return, Verdicts
  <2> QED BY <2>1 DEF ChannelInv
<1>5. CASE UNCHANGED vars
  BY <1>5 DEF vars
<1> QED BY <1>1, <1>2, <1>3, <1>4, <1>5 DEF Next

(* A credential unlock is approved by its own prompt only.                  *)
THEOREM UnlocksPrompt == Spec => UnlockNeverRides
<1>1. IInv /\ [Next]_vars =>
        [\A c \in Calls : Granted(c) /\ context[c] = Unlock => consent[c]]_vars
  BY GrantCases DEF IInv, CheckInv
<1> QED BY <1>1, Inductive, PTL DEF UnlockNeverRides, Spec

\* An open window means an acceptance less than the window and the handover
\* ago in real time.
LEMMA WindowIsRecent ==
    ASSUME OneClockFault, IInv, NEW f \in Fingerprints, Within(last[f])
    PROVE  Mode = "grace" /\ now - presence[f] < Window + Handover
<1> USE AuthorizerAssumption DEF IInv, TypeOK
<1>1. last[f] \in [instant : Int, wall : Int] /\ Mode = "grace"
  BY DEF Within, StampInv
<1>2. CASE "sleep" \notin faults
  <2>1. slept = 0 /\ last[f].instant <= presence[f] + Handover
    BY <1>2 DEF Within, StampInv, ClockInv
  <2> QED BY <1>1, <2>1 DEF Within, Instant
<1>3. CASE "step" \notin faults
  <2>1. skew = 0 /\ last[f].wall <= presence[f] + Handover
    BY <1>3 DEF Within, StampInv, ClockInv
  <2> QED BY <1>1, <2>1 DEF Within, Wall
<1>4. "sleep" \notin faults \/ "step" \notin faults
  <2>1. faults \in SUBSET {"sleep", "step"} /\ faults # {"sleep", "step"}
    BY DEF OneClockFault
  <2> QED BY <2>1
<1> QED BY <1>2, <1>3, <1>4

(* The gate holds in real time, counted from the user's acceptance, as long *)
(* as at most one clock is off.                                             *)
THEOREM SignaturesHavePresence ==
    ASSUME OneClockFault
    PROVE  Spec => ApprovalHasPresence
<1>1. ASSUME IInv, [Next]_vars, NEW c \in Calls, Granted(c), context[c] # Unlock
      PROVE  \/ consent[c]
             \/ Mode = "grace" /\ now - presence[context[c]] < Window + Handover
  <2>1. context[c] \in Fingerprints
    BY <1>1 DEF IInv, TypeOK, Contexts
  <2> QED BY <1>1, <2>1, GrantCases, WindowIsRecent
<1>2. IInv /\ [Next]_vars =>
        [\A c \in Calls : Granted(c) /\ context[c] # Unlock =>
            \/ consent[c]
            \/ Mode = "grace" /\ now - presence[context[c]] < Window + Handover]_vars
  BY <1>1
<1> QED BY <1>2, Inductive, PTL DEF ApprovalHasPresence, Spec
=============================================================================
