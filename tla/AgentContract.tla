---------------------------- MODULE AgentContract ----------------------------
(***************************************************************************)
(* What a client of the agent may rely on, with nothing said of locks,     *)
(* passes or fetches.  Keys become available one after another and stay;   *)
(* a listing shows exactly the keys available when it is answered; a       *)
(* signature is refused without a prompt only when its key is unavailable  *)
(* at that moment, and given only after a verdict approved that very       *)
(* request, of a key available when the verdict was asked for.             *)
(***************************************************************************)
EXTENDS Naturals, Sequences

CONSTANTS Sessions, Ids, SecretIds, PublicKeys, Listing, NotLoaded, Unusable

VARIABLES phase, wanted, reply, served

contractVars == <<phase, wanted, reply, served>>

Slots == 1..Len(SecretIds)

Shown == {pk \in Slots \X PublicKeys : served[SecretIds[pk[1]]] = pk[2]}

Available == {k \in PublicKeys : \E i \in Ids : served[i] = k}

Init ==
    /\ phase = [s \in Sessions |-> "idle"]
    /\ wanted = [s \in Sessions |-> Listing]
    /\ reply = [s \in Sessions |-> [kind |-> "none", listed |-> {}]]
    /\ served = [i \in Ids |-> NotLoaded]

Ask(s) ==
    /\ phase[s] = "idle"
    /\ phase' = [phase EXCEPT ![s] = "asked"]
    /\ \E w \in PublicKeys \cup {Listing} : wanted' = [wanted EXCEPT ![s] = w]
    /\ reply' = [reply EXCEPT ![s] = [kind |-> "none", listed |-> {}]]
    /\ UNCHANGED served

\* A secret settles, once, as a key or as no usable key.
Learn(i) ==
    /\ served[i] = NotLoaded
    /\ \E v \in PublicKeys \cup {Unusable} : served' = [served EXCEPT ![i] = v]
    /\ UNCHANGED <<phase, wanted, reply>>

Reply(s, from, kind, listed) ==
    /\ phase[s] = from
    /\ phase' = [phase EXCEPT ![s] = "idle"]
    /\ reply' = [reply EXCEPT ![s] = [kind |-> kind, listed |-> listed]]
    /\ UNCHANGED <<wanted, served>>

AnswerListing(s) == wanted[s] = Listing /\ Reply(s, "asked", "identities", Shown)

Refuse(s) ==
    wanted[s] \in PublicKeys \ Available /\ Reply(s, "asked", "no_key", {})

Deny(s) ==
    /\ wanted[s] \in Available
    /\ \E kind \in {"denied", "error"} : Reply(s, "asked", kind, {})

Approve(s) ==
    /\ phase[s] = "asked"
    /\ wanted[s] \in Available
    /\ phase' = [phase EXCEPT ![s] = "approved"]
    /\ UNCHANGED <<wanted, reply, served>>

Sign(s) == Reply(s, "approved", "signature", {})

Next ==
    \/ \E i \in Ids : Learn(i)
    \/ \E s \in Sessions :
          \/ Ask(s)
          \/ AnswerListing(s)
          \/ Refuse(s)
          \/ Deny(s)
          \/ Approve(s)
          \/ Sign(s)

Spec == Init /\ [][Next]_contractVars
=============================================================================
