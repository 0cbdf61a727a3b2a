-------------------------- MODULE AgentSocketProofs --------------------------
(* Theorems about AgentSocket, for any instances that start one at a time   *)
(* and never while another is stopping.                                     *)
EXTENDS AgentSocket, TLAPS

\* What the theorems assume of the environment.
Serial == ~ClaimsOverlap /\ ~StopOverlapsStart

\* At most one instance is past its start and short of serving.
OneStarting == \A i, j \in Instances :
    step[i] \in Starting /\ step[j] \in Starting => i = j

\* Once the probe has found nobody, nobody serves until the claim is over.
ClaimAlone == \A i, j \in Instances :
    step[i] \in {"clear", "bind"} => step[j] # "serving"

\* The path stays cleared until it is bound.
ClaimClear == \A i \in Instances : step[i] = "bind" => path = NoSocket

\* An instance that stops is the last: nobody starts or serves.
StopAlone == \A i, j \in Instances :
    step[i] = "release" => step[j] \notin Starting \cup {"serving"}

IInv ==
    /\ TypeOK
    /\ OneStarting
    /\ ClaimAlone
    /\ ClaimClear
    /\ StopAlone
    /\ ServerIsReachable

\* Nobody runs at first, so the invariant holds.
LEMMA InitIInv == Init => IInv
BY SocketAssumption DEF Init, IInv, TypeOK, OneStarting, ClaimAlone, ClaimClear,
    StopAlone, ServerIsReachable, IOErrors, Starting

\* Every step keeps the invariant, when instances do not overlap.
LEMMA Step ==
    ASSUME Serial, IInv, [Next]_vars
    PROVE  IInv'
<1> USE SocketAssumption DEF IInv, TypeOK, OneStarting, ClaimAlone, ClaimClear,
        StopAlone, ServerIsReachable, IOErrors, Starting, Go, Exit
<1>1. ASSUME NEW i \in Instances, Start(i) PROVE IInv'
  BY <1>1 DEF Start, MayStart, Serial
<1>2. ASSUME NEW i \in Instances, Connect(i) PROVE IInv'
  BY <1>2 DEF Connect, Answering
<1>3. ASSUME NEW i \in Instances, Clear(i) PROVE IInv'
  BY <1>3 DEF Clear
<1>4. ASSUME NEW i \in Instances, Bind(i) PROVE IInv'
  BY <1>4 DEF Bind
<1>5. ASSUME NEW i \in Instances, Stop(i) PROVE IInv'
  BY <1>5 DEF Stop, MayStop, Serial
<1>6. ASSUME NEW i \in Instances, Release(i) PROVE IInv'
  BY <1>6 DEF Release
<1>7. ASSUME NEW i \in Instances, Kill(i) PROVE IInv'
  BY <1>7 DEF Kill
<1>8. CASE UNCHANGED vars
  BY <1>8 DEF vars
<1> QED BY <1>1, <1>2, <1>3, <1>4, <1>5, <1>6, <1>7, <1>8 DEF Next

\* The invariant holds of every run of claim_socket, serve and release_socket.
THEOREM Inductive ==
    ASSUME Serial
    PROVE  Spec => []IInv
<1>1. IInv /\ [Next]_vars => IInv'
  BY Step
<1> QED BY InitIInv, <1>1, PTL DEF Spec

(* An instance that serves is the one clients reach, whatever instances were *)
(* killed before it, at whatever step of their claims.                       *)
THEOREM ServersAreReachable ==
    ASSUME Serial
    PROVE  Spec => []ServerIsReachable
<1>1. IInv => ServerIsReachable
  BY DEF IInv
<1> QED BY <1>1, Inductive, PTL

(* Unless the file system refuses, a start is refused only while somebody    *)
(* serves: the socket that an instance left behind keeps nobody out.         *)
THEOREM StaleSocketsAreCleared ==
    ASSUME Serial
    PROVE  Spec => RefusedOnlyWhileServed
<1>1. ASSUME IInv, [Next]_vars, NEW i \in Instances,
             step[i] \in Starting, step'[i] = "down",
             exit' \notin {"killed"} \cup IOErrors
      PROVE  \E j \in Instances : step[j] = "serving" /\ path = j
  <2> USE <1>1, SocketAssumption DEF IInv, TypeOK, IOErrors, Starting, Go, Exit
  <2>1. PICK k \in Instances :
           \/ Start(k) \/ Connect(k) \/ Clear(k) \/ Bind(k)
           \/ Stop(k) \/ Release(k) \/ Kill(k)
    BY DEF Next, vars
  <2>2. CASE Start(k) \/ Clear(k) \/ Stop(k) \/ Release(k) \/ Kill(k)
    BY <2>2 DEF Start, Clear, Stop, Release, Kill
  <2>3. CASE Connect(k)
    BY <2>3 DEF Connect, Answering
  <2>4. CASE Bind(k)
    BY <2>4 DEF Bind, ClaimClear
  <2> QED BY <2>1, <2>2, <2>3, <2>4
<1>2. IInv /\ [Next]_vars =>
        [\A i \in Instances :
            /\ step[i] \in Starting /\ step'[i] = "down"
            /\ exit' \notin {"killed"} \cup IOErrors
            => \E j \in Instances : step[j] = "serving" /\ path = j]_vars
  BY <1>1
<1> QED BY Inductive, <1>2, PTL DEF RefusedOnlyWhileServed, Spec
=============================================================================
