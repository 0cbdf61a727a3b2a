----------------------------- MODULE AgentSocket -----------------------------
(***************************************************************************)
(* The agent's socket path, src/agent.rs `serve`, `claim_socket` and       *)
(* `release_socket`, shared by every instance that is started: the one     *)
(* launchd keeps, one run in a terminal.  An instance may be killed at any *)
(* step, which leaves the path as it is.                                   *)
(*                                                                         *)
(* `path` is the instance that bound the socket file there, or NoSocket.   *)
(* The kernel answers a connect if and only if that instance still has its *)
(* listener.                                                               *)
(***************************************************************************)
EXTENDS Naturals

CONSTANTS
    Instances,
    NoSocket,
    ClaimsOverlap,     \* two instances may be starting at the same time
    StopOverlapsStart  \* one may be starting while another is stopping

ASSUME SocketAssumption ==
    /\ NoSocket \notin Instances
    /\ {ClaimsOverlap, StopOverlapsStart} \subseteq BOOLEAN

VARIABLES
    step,   \* of each instance: "down", "connect", "clear", "bind",
            \* "serving" or "release"
    path,
    exit    \* why the last one to go down since the last start did

vars == <<step, path, exit>>

Starting == {"connect", "clear", "bind"}

\* What the file system may refuse: the removal at the path, or the bind there,
\* for any reason but that the path exists.
IOErrors == {"uncleared", "unbound"}

TypeOK ==
    /\ step \in [Instances -> Starting \cup {"down", "serving", "release"}]
    /\ path \in Instances \cup {NoSocket}
    /\ exit \in {"none", "occupied", "in use", "stopped", "killed"} \cup IOErrors

Init ==
    /\ step = [i \in Instances |-> "down"]
    /\ path = NoSocket
    /\ exit = "none"

Go(i, to) == step' = [step EXCEPT ![i] = to]

Exit(i, why) == Go(i, "down") /\ exit' = why

\* The environment: what may be under way when an instance starts or stops.
MayStart ==
    /\ ClaimsOverlap \/ \A j \in Instances : step[j] \notin Starting
    /\ StopOverlapsStart \/ \A j \in Instances : step[j] # "release"

MayStop == StopOverlapsStart \/ \A j \in Instances : step[j] \notin Starting

Start(i) ==
    /\ step[i] = "down"
    /\ MayStart
    /\ Go(i, "connect")
    /\ exit' = "none"
    /\ UNCHANGED path

Answering == path # NoSocket /\ step[path] = "serving"

\* An answer means a live instance: an error.  Any failure means none.
Connect(i) ==
    /\ step[i] = "connect"
    /\ \/ Answering /\ Exit(i, "occupied")
       \/ ~Answering /\ Go(i, "clear") /\ UNCHANGED exit
    /\ UNCHANGED path

\* Fault: a stale socket file is left for bind(2) to trip over.
Clear_Skipped(i) == step[i] = "clear" /\ Go(i, "bind") /\ UNCHANGED <<path, exit>>

\* Remove whatever is at the path; nothing there is success.  What cannot be
\* removed ends the claim and stays.
Clear(i) ==
    /\ step[i] = "clear"
    /\ \/ /\ Go(i, "bind")
          /\ path' = NoSocket
          /\ UNCHANGED exit
       \/ Exit(i, "uncleared") /\ UNCHANGED path

\* bind(2) refuses a path that exists, and may fail for other reasons.
Bind(i) ==
    /\ step[i] = "bind"
    /\ \/ /\ path = NoSocket
          /\ Go(i, "serving")
          /\ path' = i
          /\ UNCHANGED exit
       \/ path # NoSocket /\ Exit(i, "in use") /\ UNCHANGED path
       \/ Exit(i, "unbound") /\ UNCHANGED path

\* Fault: connections are drained before the path is released.
Stop_Drains(i) ==
    /\ step[i] = "serving"
    /\ MayStop
    /\ Go(i, "drain")
    /\ UNCHANGED <<path, exit>>

\* A signal, or `listen` failing, ends the select and drops the listener.
Stop(i) ==
    /\ step[i] = "serving"
    /\ MayStop
    /\ Go(i, "release")
    /\ UNCHANGED <<path, exit>>

\* Only then is the path removed, whatever is there by now.  A failure is
\* printed, and changes nothing else.
Release(i) ==
    /\ step[i] = "release"
    /\ Exit(i, "stopped")
    /\ path' \in {NoSocket, path}

Kill(i) ==
    /\ step[i] # "down"
    /\ Exit(i, "killed")
    /\ UNCHANGED path

Next == \E i \in Instances :
    \/ Start(i)
    \/ Connect(i)
    \/ Clear(i)
    \/ Bind(i)
    \/ Stop(i)
    \/ Release(i)
    \/ Kill(i)

Spec == Init /\ [][Next]_vars

-----------------------------------------------------------------------------
(* Properties.                                                              *)

(* Whoever serves is the one clients reach: no other instance removed or    *)
(* replaced its socket, and there is only one.                              *)
ServerIsReachable == \A i \in Instances : step[i] = "serving" => path = i

(* "Never hijacks a live instance": the socket file of an instance that is  *)
(* serving stays at the path while it serves.                               *)
NeverHijacks == [][\A i \in Instances :
    step[i] = "serving" /\ path = i /\ step'[i] = "serving" => path' = i]_vars

(* A socket left behind, by an instance that was killed or that could not   *)
(* remove it, keeps no other from starting: unless the file system refuses  *)
(* the removal or the bind, a claim ends in an error only while somebody    *)
(* serves.                                                                  *)
RefusedOnlyWhileServed == [][\A i \in Instances :
    /\ step[i] \in Starting /\ step'[i] = "down"
    /\ exit' \notin {"killed"} \cup IOErrors
    => \E j \in Instances : step[j] = "serving" /\ path = j]_vars
=============================================================================
