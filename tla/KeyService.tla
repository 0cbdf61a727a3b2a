------------------------------ MODULE KeyService ------------------------------
(***************************************************************************)
(* The shared state of the agent, src/agent.rs `KeyService`, and the       *)
(* requests that use it.  One session per client connection; a session has *)
(* at most one request in hand, and the requests of different sessions     *)
(* interleave at every `.await`.                                           *)
(*                                                                         *)
(* `loading` is a FIFO mutex held across a whole loading pass: `queue` is  *)
(* the order of its holder (the head) and its waiters.  `keys` is a mutex  *)
(* whose sections never await, so each of them is one step here.           *)
(*                                                                         *)
(* A secret that fetched and decoded is represented by its public key, one *)
(* that fetched but is no usable key by Unusable.  The backend may answer  *)
(* differently each time it is asked.                                      *)
(***************************************************************************)
EXTENDS Naturals, Sequences

CONSTANTS
    Sessions,     \* client connections
    Ids,          \* secret ids
    SecretIds,    \* the configured ids, in config order; `validate` lets an
                  \* id occur twice
    PublicKeys,   \* public halves of the keys the secrets may hold
    Messages,     \* texts of fetch and decode errors
    Listing,      \* what a session wants when it asks for the identities
    NotLoaded, Unusable, NoMessage

ASSUME SecretIdsAssumption == SecretIds \in Seq(Ids)
ASSUME ValuesAssumption ==
    /\ Listing \notin PublicKeys
    /\ NotLoaded \notin PublicKeys
    /\ Unusable \notin PublicKeys \cup {NotLoaded}
    /\ NoMessage \notin Messages

VARIABLES
    pc,          \* where each session's request stands
    wanted,      \* the key it asks a signature of, or Listing
    reply,       \* the last answer it was given
    queue,       \* holder and waiters of the `loading` mutex
    missing,     \* positions of SecretIds the running pass has yet to fetch
    keys,        \* the cache: NotLoaded is an absent entry, Unusable a None
    lastErrors,  \* the last error logged per id
    \* History, read by the properties only:
    failed,      \* ids whose fetch failed during the session's request
    outcome,     \* the last outcome per id: NoMessage for a usable key
    lines        \* lines logged since that outcome last changed

vars == <<pc, wanted, reply, queue, missing, keys, lastErrors,
          failed, outcome, lines>>

Positions == 1..Len(SecretIds)

\* The positions of SecretIds that hold a usable key, with the key.
Loaded == {pk \in Positions \X PublicKeys : keys[SecretIds[pk[1]]] = pk[2]}

\* What `find` searches: the keys some cache entry holds.
Served == {k \in PublicKeys : \E i \in Ids : keys[i] = k}

Kinds == {"none", "identities", "no_key", "denied", "error", "signature"}
Replies == [kind : Kinds, listed : SUBSET (Positions \X PublicKeys)]

NoReply == [kind |-> "none", listed |-> {}]
Answer(kind) == [kind |-> kind, listed |-> {}]
Identities == [kind |-> "identities", listed |-> Loaded]

\* Fault: passes do not take `loading`.
Holder_Unlocked(s) == TRUE

Holder(s) == queue # <<>> /\ Head(queue) = s

TypeOK ==
    /\ pc \in [Sessions -> {"idle", "lookup", "queued", "pass", "prompt",
                            "sign"}]
    /\ wanted \in [Sessions -> PublicKeys \cup {Listing}]
    /\ reply \in [Sessions -> Replies]
    /\ queue \in Seq(Sessions)
    /\ missing \in SUBSET Positions
    /\ keys \in [Ids -> PublicKeys \cup {NotLoaded, Unusable}]
    /\ lastErrors \in [Ids -> Messages \cup {NoMessage}]
    /\ failed \in [Sessions -> SUBSET Ids]
    /\ outcome \in [Ids -> Messages \cup {NoMessage}]
    /\ lines \in [Ids -> 0..2]

Init ==
    /\ pc = [s \in Sessions |-> "idle"]
    /\ wanted = [s \in Sessions |-> Listing]
    /\ reply = [s \in Sessions |-> NoReply]
    /\ queue = <<>>
    /\ missing = {}
    /\ keys = [i \in Ids |-> NotLoaded]
    /\ lastErrors = [i \in Ids |-> NoMessage]
    /\ failed = [s \in Sessions |-> {}]
    /\ outcome = [i \in Ids |-> NoMessage]
    /\ lines = [i \in Ids |-> 0]

-----------------------------------------------------------------------------
(* Requests.  A connection serves one request at a time.                    *)

Accept(s, w) ==
    /\ pc[s] = "idle"
    /\ wanted' = [wanted EXCEPT ![s] = w]
    /\ reply' = [reply EXCEPT ![s] = NoReply]
    /\ failed' = [failed EXCEPT ![s] = {}]
    /\ UNCHANGED <<missing, keys, lastErrors, outcome, lines>>

\* Fault: a listing overtakes the sessions that wait for `loading`.
RequestIdentities_Overtakes(s) ==
    /\ Accept(s, Listing)
    /\ pc' = [pc EXCEPT ![s] = "queued"]
    /\ queue' = IF queue = <<>> THEN <<s>>
                  ELSE <<Head(queue), s>> \o Tail(queue)

\* `identities` goes straight to `loaded_keys`, whose first await is the lock.
RequestIdentities(s) ==
    /\ Accept(s, Listing)
    /\ pc' = [pc EXCEPT ![s] = "queued"]
    /\ queue' = Append(queue, s)

RequestSign(s) ==
    /\ \E k \in PublicKeys : Accept(s, k)
    /\ pc' = [pc EXCEPT ![s] = "lookup"]
    /\ UNCHANGED queue

\* Fault: every signature goes through a loading pass.
KeyFor_AlwaysLoads(s) ==
    /\ pc[s] = "lookup"
    /\ pc' = [pc EXCEPT ![s] = "queued"]
    /\ queue' = Append(queue, s)
    /\ UNCHANGED <<wanted, reply, missing, keys, lastErrors,
                   failed, outcome, lines>>

\* `key_for`: the cache first; only a miss queues for a loading pass.
KeyFor(s) ==
    /\ pc[s] = "lookup"
    /\ \/ /\ wanted[s] \in Served
          /\ pc' = [pc EXCEPT ![s] = "prompt"]
          /\ UNCHANGED queue
       \/ /\ wanted[s] \notin Served
          /\ pc' = [pc EXCEPT ![s] = "queued"]
          /\ queue' = Append(queue, s)
    /\ UNCHANGED <<wanted, reply, missing, keys, lastErrors,
                   failed, outcome, lines>>

-----------------------------------------------------------------------------
(* A loading pass, `loaded_keys`.                                           *)

\* Fault: the pass does not look what is cached already.
StartPass_EveryId(s) ==
    /\ pc[s] = "queued"
    /\ Holder(s)
    /\ pc' = [pc EXCEPT ![s] = "pass"]
    /\ missing' = Positions
    /\ UNCHANGED <<wanted, reply, queue, keys, lastErrors,
                   failed, outcome, lines>>

\* Fault: an id that failed once is not tried again.
StartPass_SkipsFailed(s) ==
    /\ pc[s] = "queued"
    /\ Holder(s)
    /\ pc' = [pc EXCEPT ![s] = "pass"]
    /\ missing' = {p \in Positions : /\ keys[SecretIds[p]] = NotLoaded
                                     /\ lastErrors[SecretIds[p]] = NoMessage}
    /\ UNCHANGED <<wanted, reply, queue, keys, lastErrors,
                   failed, outcome, lines>>

\* What the pass will fetch is decided once, with the lock in hand.
StartPass(s) ==
    /\ pc[s] = "queued"
    /\ Holder(s)
    /\ pc' = [pc EXCEPT ![s] = "pass"]
    /\ missing' = {p \in Positions : keys[SecretIds[p]] = NotLoaded}
    /\ UNCHANGED <<wanted, reply, queue, keys, lastErrors,
                   failed, outcome, lines>>

\* The fetch in hand is that of the first position left.
Fetching(s, p) ==
    /\ pc[s] = "pass"
    /\ p \in missing
    /\ \A q \in missing : p <= q

\* History of the log: `printed` is 1 when the pass wrote a line.
Note(i, result, printed) ==
    /\ outcome' = [outcome EXCEPT ![i] = result]
    /\ lines' = [lines EXCEPT ![i] =
           IF outcome[i] # result THEN printed
           ELSE IF lines[i] + printed > 2 THEN 2 ELSE lines[i] + printed]

\* Fault: every failure is logged.
LogFailure_Always(i, message) ==
    /\ lastErrors' = [lastErrors EXCEPT ![i] = message]
    /\ Note(i, message, 1)

\* A failure is logged unless it is the one logged last for this id.
LogFailure(i, message) ==
    /\ lastErrors' = [lastErrors EXCEPT ![i] = message]
    /\ Note(i, message, IF lastErrors[i] = message THEN 0 ELSE 1)

\* The fetch succeeded and the secret decodes.
GetUsable(s, k) ==
    \E p \in Positions :
        /\ Fetching(s, p)
        /\ missing' = missing \ {p}
        /\ keys' = [keys EXCEPT ![SecretIds[p]] = k]
        /\ lastErrors' = [lastErrors EXCEPT ![SecretIds[p]] = NoMessage]
        /\ Note(SecretIds[p], NoMessage, 0)
        /\ UNCHANGED <<pc, wanted, reply, queue, failed>>

\* The fetch succeeded but `decode_key` refuses the secret: remembered.
GetUnusable(s, message) ==
    \E p \in Positions :
        /\ Fetching(s, p)
        /\ missing' = missing \ {p}
        /\ keys' = [keys EXCEPT ![SecretIds[p]] = Unusable]
        /\ LogFailure(SecretIds[p], message)
        /\ UNCHANGED <<pc, wanted, reply, queue, failed>>

\* Fault: a failed fetch is cached, as its error.
GetFailed_Cached(s, message) ==
    \E p \in Positions :
        /\ Fetching(s, p)
        /\ missing' = missing \ {p}
        /\ keys' = [keys EXCEPT ![SecretIds[p]] = message]
        /\ LogFailure(SecretIds[p], message)
        /\ UNCHANGED <<pc, wanted, reply, queue, failed>>

\* The fetch failed: nothing is cached, so a later pass tries again.
GetFailed(s, message) ==
    \E p \in Positions :
        /\ Fetching(s, p)
        /\ missing' = missing \ {p}
        /\ LogFailure(SecretIds[p], message)
        /\ failed' = [failed EXCEPT ![s] = @ \cup {SecretIds[p]}]
        /\ UNCHANGED <<pc, wanted, reply, queue, keys>>

GetReturns(s) ==
    \/ \E k \in PublicKeys : GetUsable(s, k)
    \/ \E message \in Messages : GetUnusable(s, message)
    \/ \E message \in Messages : GetFailed(s, message)

\* Fault: after a pass the key is not looked up again.
FinishPass_NoLookup(s) ==
    /\ pc[s] = "pass"
    /\ missing = {}
    /\ queue' = Tail(queue)
    /\ \/ /\ wanted[s] = Listing
          /\ pc' = [pc EXCEPT ![s] = "idle"]
          /\ reply' = [reply EXCEPT ![s] = Identities]
       \/ /\ wanted[s] # Listing
          /\ pc' = [pc EXCEPT ![s] = "prompt"]
          /\ UNCHANGED reply
    /\ UNCHANGED <<wanted, missing, keys, lastErrors, failed, outcome, lines>>

\* `keys` is locked before `loading` is released and read before it is, so
\* the answer is computed in the step that hands `loading` over.
FinishPass(s) ==
    /\ pc[s] = "pass"
    /\ missing = {}
    /\ queue' = Tail(queue)
    /\ \/ /\ wanted[s] = Listing
          /\ pc' = [pc EXCEPT ![s] = "idle"]
          /\ reply' = [reply EXCEPT ![s] = Identities]
       \/ /\ wanted[s] \in Served
          /\ pc' = [pc EXCEPT ![s] = "prompt"]
          /\ UNCHANGED reply
       \/ /\ wanted[s] \in PublicKeys \ Served
          /\ pc' = [pc EXCEPT ![s] = "idle"]
          /\ reply' = [reply EXCEPT ![s] = Answer("no_key")]
    /\ UNCHANGED <<wanted, missing, keys, lastErrors, failed, outcome, lines>>

-----------------------------------------------------------------------------
(* Signing.  "no_key" and "denied" are both SSH_AGENT_FAILURE to the client. *)

\* `approve` returns.
Verdict(s) ==
    /\ pc[s] = "prompt"
    /\ \/ /\ pc' = [pc EXCEPT ![s] = "sign"]
          /\ UNCHANGED reply
       \/ \E kind \in {"denied", "error"} :
              /\ pc' = [pc EXCEPT ![s] = "idle"]
              /\ reply' = [reply EXCEPT ![s] = Answer(kind)]
    /\ UNCHANGED <<wanted, queue, missing, keys, lastErrors,
                   failed, outcome, lines>>

\* `try_sign` cannot fail here: `decode_key` let in unencrypted Ed25519 only.
TrySign(s) ==
    /\ pc[s] = "sign"
    /\ pc' = [pc EXCEPT ![s] = "idle"]
    /\ reply' = [reply EXCEPT ![s] = Answer("signature")]
    /\ UNCHANGED <<wanted, queue, missing, keys, lastErrors,
                   failed, outcome, lines>>

Next == \E s \in Sessions :
    \/ RequestIdentities(s)
    \/ RequestSign(s)
    \/ KeyFor(s)
    \/ StartPass(s)
    \/ GetReturns(s)
    \/ FinishPass(s)
    \/ Verdict(s)
    \/ TrySign(s)

Spec == Init /\ [][Next]_vars

\* Every task the runtime holds gets to run.
RuntimeFairness == \A s \in Sessions :
    /\ WF_vars(KeyFor(s))
    /\ WF_vars(StartPass(s))
    /\ WF_vars(FinishPass(s))
    /\ WF_vars(TrySign(s))

\* A prompt ends, by the user or by its own 120 s limit.
PromptFairness == \A s \in Sessions : WF_vars(Verdict(s))

\* A fetch ends, by an answer or by the HTTP client's timeouts.
BackendFairness == \A s \in Sessions : WF_vars(GetReturns(s))

\* Nothing is assumed of the backend: it may hang for good.
FairSpec == Spec /\ RuntimeFairness /\ PromptFairness
-----------------------------------------------------------------------------
(* Properties.                                                              *)

\* Positions whose id occurs once in the configuration.
Single == {p \in Positions : \A q \in Positions :
               SecretIds[q] = SecretIds[p] => q = p}

SecretIdsDistinct == Single = Positions

(* "Held across a loading pass": two sessions are never both in a pass, and *)
(* the session in a pass is the one that holds `loading`.                   *)
OnePass == \A s \in Sessions : pc[s] = "pass" =>
    /\ Holder(s)
    /\ \A r \in Sessions : pc[r] = "pass" => r = s

(* "Concurrent listings share one fetch per key": while a pass runs, no id  *)
(* it still means to fetch is in the cache, so a session that waited for    *)
(* the lock never fetches what the pass before it brought in.  An id listed *)
(* twice is the exception: the pass that first loads it fetches it twice.   *)
NoRefetch == \A s \in Sessions : pc[s] = "pass" =>
    \A p \in missing \cap Single : keys[SecretIds[p]] = NotLoaded

(* A cached entry, usable or not, stays as it is until the agent exits:     *)
(* what a listing showed a client is what a later signature uses.           *)
CacheStable == [][\A p \in Single : keys[SecretIds[p]] # NotLoaded =>
                      keys'[SecretIds[p]] = keys[SecretIds[p]]]_vars

(* A key left out of a listing, or a signature refused without a prompt, is *)
(* never the effect of someone else's failed fetch or of an old failure:    *)
(* every id that did not contribute holds something else for good, or was   *)
(* tried again, and failed, during this very request.                       *)
NothingSkippedSilently == \A s \in Sessions : \A p \in Positions :
    SecretIds[p] \in failed[s] \/
        /\ reply[s].kind = "identities" =>
              (\E k \in PublicKeys : <<p, k>> \in reply[s].listed)
                  \/ keys[SecretIds[p]] = Unusable
        /\ reply[s].kind = "no_key" =>
              keys[SecretIds[p]] \notin {NotLoaded, wanted[s]}

(* "The last error logged per id, so a repeating failure is logged once":   *)
(* whatever sessions ran the passes, a run of equal failures of an id has   *)
(* put exactly one line in the log.                                         *)
LoggedOnce == \A i \in Ids : outcome[i] \in Messages => lines[i] = 1

(* Every request is answered as long as fetches end: `loading` is handed on *)
(* in FIFO order, so no session is passed over by those that come later.    *)
EveryRequestAnswered == BackendFairness =>
    \A s \in Sessions : pc[s] # "idle" ~> pc[s] = "idle"

(* "A client whose key is already loaded must not queue behind it": with a  *)
(* pass stuck on a backend that never answers, a signature with a cached    *)
(* key is still answered.                                                   *)
LoadedKeyNeverWaits == \A s \in Sessions :
    pc[s] = "lookup" /\ wanted[s] \in Served ~> pc[s] = "idle"

(* The agent implements its contract, provided no id is configured twice: a *)
(* session is approved between its verdict and its signature, and asking    *)
(* from its request to then.                                                *)
Contract == INSTANCE AgentContract WITH
    phase <- [s \in Sessions |->
                 IF pc[s] = "idle" THEN "idle"
                 ELSE IF pc[s] = "sign" THEN "approved" ELSE "asked"],
    served <- keys

ImplementsContract == Contract!Spec
=============================================================================
