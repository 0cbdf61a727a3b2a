--------------------------- MODULE KeyServiceProofs ---------------------------
(* Theorems about KeyService, for any sessions, ids, configuration order    *)
(* and keys.  The inductive invariant strengthens what TLC checks with      *)
(* who holds `loading` and what a pass has covered so far.                  *)
EXTENDS KeyService, SequenceTheorems, TLAPS

\* The session in a pass holds `loading`.
PassHolds == \A s \in Sessions : pc[s] = "pass" => Holder(s)

\* Outside a pass nothing is left to fetch.
NoPassNothingMissing ==
    missing # {} => \E s \in Sessions : pc[s] = "pass"

\* What a pass no longer means to fetch is cached or failed for its session.
PassCovers == \A s \in Sessions : pc[s] = "pass" =>
    \A p \in Positions : \/ p \in missing
                         \/ SecretIds[p] \in failed[s]
                         \/ keys[SecretIds[p]] # NotLoaded

\* Cached, and no pass is going to fetch it again.
Settled(i) == keys[i] # NotLoaded /\ \A q \in missing : SecretIds[q] # i

\* After an answer that left ids out, those that did not fail are settled.
AnswersSettled == \A s \in Sessions :
    reply[s].kind \in {"identities", "no_key"} =>
        \A p \in Positions : SecretIds[p] \in failed[s] \/ Settled(SecretIds[p])

\* `lastErrors` is the last outcome, which was logged once if a failure.
LogInv == \A i \in Ids : /\ lastErrors[i] = outcome[i]
                         /\ outcome[i] \in Messages => lines[i] = 1

IInv ==
    /\ TypeOK
    /\ PassHolds
    /\ NoPassNothingMissing
    /\ NoRefetch
    /\ PassCovers
    /\ AnswersSettled
    /\ NothingSkippedSilently
    /\ LogInv
-----------------------------------------------------------------------------
(* Type correctness.                                                        *)

\* Every position of the configuration holds an id.
LEMMA PositionIsId == \A p \in Positions : SecretIds[p] \in Ids
BY SecretIdsAssumption DEF Positions

\* What the agent answers is a reply.
LEMMA RepliesTyped ==
    /\ NoReply \in Replies
    /\ Identities \in Replies
    /\ \A kind \in Kinds : Answer(kind) \in Replies
    /\ \A k \in {"no_key", "denied", "error", "signature"} : k \in Kinds
<1>1. Loaded \in SUBSET (Positions \X PublicKeys)
  BY DEF Loaded
<1> QED BY <1>1 DEF NoReply, Replies, Identities, Answer, Kinds

\* A note on an id that failed keeps the types.
LEMMA NoteType ==
    ASSUME TypeOK, NEW i \in Ids, NEW result \in Messages \cup {NoMessage},
           NEW printed \in {0, 1}, Note(i, result, printed)
    PROVE  /\ outcome' \in [Ids -> Messages \cup {NoMessage}]
           /\ lines' \in [Ids -> 0..2]
BY DEF TypeOK, Note

\* log_failure keeps the types.
LEMMA LogFailureType ==
    ASSUME TypeOK, NEW i \in Ids, NEW m \in Messages, LogFailure(i, m)
    PROVE  /\ lastErrors' \in [Ids -> Messages \cup {NoMessage}]
           /\ outcome' \in [Ids -> Messages \cup {NoMessage}]
           /\ lines' \in [Ids -> 0..2]
BY NoteType DEF TypeOK, LogFailure

(* Every reachable state is well typed.                                     *)
LEMMA TypeStep == TypeOK /\ PassHolds /\ [Next]_vars => TypeOK'
<1> SUFFICES ASSUME TypeOK, PassHolds, [Next]_vars PROVE TypeOK'
  OBVIOUS
<1>1. ASSUME NEW s \in Sessions, RequestIdentities(s) PROVE TypeOK'
  BY <1>1, RepliesTyped DEF TypeOK, RequestIdentities, Accept
<1>2. ASSUME NEW s \in Sessions, RequestSign(s) PROVE TypeOK'
  BY <1>2, RepliesTyped DEF TypeOK, RequestSign, Accept
<1>3. ASSUME NEW s \in Sessions, KeyFor(s) PROVE TypeOK'
  <2>1. CASE wanted[s] \in Served
    BY <1>3, <2>1 DEF TypeOK, KeyFor
  <2>2. CASE wanted[s] \notin Served
    <3>1. queue' = Append(queue, s) /\ pc' = [pc EXCEPT ![s] = "queued"]
      BY <1>3, <2>2 DEF KeyFor
    <3>2. queue' \in Seq(Sessions)
      BY <3>1, AppendProperties DEF TypeOK
    <3> QED BY <1>3, <3>1, <3>2 DEF TypeOK, KeyFor
  <2> QED BY <2>1, <2>2
<1>4. ASSUME NEW s \in Sessions, StartPass(s) PROVE TypeOK'
  BY <1>4 DEF TypeOK, StartPass
<1>5. ASSUME NEW s \in Sessions, NEW k \in PublicKeys, GetUsable(s, k)
      PROVE  TypeOK'
  <2>1. PICK p \in Positions :
            /\ missing' = missing \ {p}
            /\ keys' = [keys EXCEPT ![SecretIds[p]] = k]
            /\ lastErrors' = [lastErrors EXCEPT ![SecretIds[p]] = NoMessage]
            /\ Note(SecretIds[p], NoMessage, 0)
    BY <1>5 DEF GetUsable
  <2>2. /\ outcome' \in [Ids -> Messages \cup {NoMessage}]
        /\ lines' \in [Ids -> 0..2]
    BY <2>1, PositionIsId, NoteType
  <2> QED BY <1>5, <2>1, <2>2 DEF TypeOK, GetUsable
<1>6. ASSUME NEW s \in Sessions, NEW m \in Messages, GetUnusable(s, m)
      PROVE  TypeOK'
  <2>1. PICK p \in Positions :
            /\ missing' = missing \ {p}
            /\ keys' = [keys EXCEPT ![SecretIds[p]] = Unusable]
            /\ LogFailure(SecretIds[p], m)
    BY <1>6 DEF GetUnusable
  <2> QED BY <1>6, <2>1, PositionIsId, LogFailureType DEF TypeOK, GetUnusable
<1>7. ASSUME NEW s \in Sessions, NEW m \in Messages, GetFailed(s, m)
      PROVE  TypeOK'
  <2>1. PICK p \in Positions :
            /\ missing' = missing \ {p}
            /\ LogFailure(SecretIds[p], m)
            /\ failed' = [failed EXCEPT ![s] = @ \cup {SecretIds[p]}]
    BY <1>7 DEF GetFailed
  <2> QED BY <1>7, <2>1, PositionIsId, LogFailureType DEF TypeOK, GetFailed
<1>8. ASSUME NEW s \in Sessions, FinishPass(s) PROVE TypeOK'
  <2>1. queue' \in Seq(Sessions)
    BY <1>8, HeadTailProperties DEF TypeOK, PassHolds, FinishPass, Holder
  <2>2. reply' \in [Sessions -> Replies]
    BY <1>8, RepliesTyped DEF TypeOK, FinishPass
  <2>3. pc' = [pc EXCEPT ![s] = "idle"] \/ pc' = [pc EXCEPT ![s] = "prompt"]
    BY <1>8 DEF FinishPass
  <2> QED BY <1>8, <2>1, <2>2, <2>3 DEF TypeOK, FinishPass
<1>9. ASSUME NEW s \in Sessions, Verdict(s) PROVE TypeOK'
  <2>1. pc' = [pc EXCEPT ![s] = "sign"] \/ pc' = [pc EXCEPT ![s] = "idle"]
    BY <1>9 DEF Verdict
  <2>2. reply' \in [Sessions -> Replies]
    BY <1>9, RepliesTyped DEF TypeOK, Verdict
  <2> QED BY <1>9, <2>1, <2>2 DEF TypeOK, Verdict
<1>10. ASSUME NEW s \in Sessions, TrySign(s) PROVE TypeOK'
  BY <1>10, RepliesTyped DEF TypeOK, TrySign
<1>11. CASE UNCHANGED vars
  BY <1>11 DEF TypeOK, vars
<1> QED BY <1>1, <1>2, <1>3, <1>4, <1>5, <1>6, <1>7, <1>8, <1>9, <1>10, <1>11
       DEF Next, GetReturns

-----------------------------------------------------------------------------
(* Who holds `loading`.                                                     *)

\* Joining a queue leaves its head alone.
LEMMA HeadOfAppend ==
    ASSUME NEW q \in Seq(Sessions), NEW s \in Sessions, q # <<>>
    PROVE  Append(q, s) # <<>> /\ Head(Append(q, s)) = Head(q)
BY HeadTailAppend, AppendProperties

\* The head of the queue is one session.
LEMMA OnePassHolder == PassHolds => OnePass
BY DEF PassHolds, OnePass, Holder

(* A session enters a pass as the holder, newcomers queue behind it, and    *)
(* only its own last step hands the lock on.                                *)
LEMMA PassHoldsStep == TypeOK /\ PassHolds /\ [Next]_vars => PassHolds'
<1> SUFFICES ASSUME TypeOK, PassHolds, [Next]_vars,
                    NEW r \in Sessions, pc'[r] = "pass"
             PROVE  Holder(r)'
  BY DEF PassHolds
<1> USE DEF TypeOK, PassHolds, Holder
<1>1. ASSUME NEW s \in Sessions, RequestIdentities(s) PROVE Holder(r)'
  BY <1>1, HeadOfAppend DEF RequestIdentities
<1>2. ASSUME NEW s \in Sessions, KeyFor(s) PROVE Holder(r)'
  BY <1>2, HeadOfAppend DEF KeyFor
<1>3. ASSUME NEW s \in Sessions, StartPass(s) PROVE Holder(r)'
  BY <1>3 DEF StartPass
<1>4. ASSUME NEW s \in Sessions, FinishPass(s) PROVE Holder(r)'
  BY <1>4 DEF FinishPass
<1>5. ASSUME NEW s \in Sessions,
             RequestSign(s) \/ GetReturns(s) \/ Verdict(s) \/ TrySign(s)
      PROVE  Holder(r)'
  BY <1>5 DEF RequestSign, GetReturns, GetUsable, GetUnusable, GetFailed,
              Verdict, TrySign
<1>6. CASE UNCHANGED vars
  BY <1>6 DEF vars
<1> QED BY <1>1, <1>2, <1>3, <1>4, <1>5, <1>6 DEF Next
-----------------------------------------------------------------------------
(* The steps of a pass.                                                     *)

\* What every outcome of a fetch does to the pass and to the cache.
GetEffect(s, p) ==
    /\ Fetching(s, p)
    /\ missing' = missing \ {p}
    /\ \A i \in Ids : i # SecretIds[p] => keys'[i] = keys[i]
    /\ \/ keys'[SecretIds[p]] # NotLoaded
       \/ keys' = keys /\ SecretIds[p] \in failed'[s]
    /\ \A r \in Sessions : failed[r] \subseteq failed'[r]
    /\ UNCHANGED <<pc, wanted, reply, queue>>

\* A fetch that returns takes one position off the pass: cached or failed.
LEMMA GetHasEffect ==
    ASSUME TypeOK, NEW s \in Sessions, GetReturns(s)
    PROVE  \E p \in Positions : GetEffect(s, p)
<1> USE PositionIsId, ValuesAssumption DEF TypeOK, GetEffect
<1>1. ASSUME NEW k \in PublicKeys, GetUsable(s, k)
      PROVE  \E p \in Positions : GetEffect(s, p)
  <2>1. PICK p \in Positions :
            /\ Fetching(s, p)
            /\ missing' = missing \ {p}
            /\ keys' = [keys EXCEPT ![SecretIds[p]] = k]
            /\ UNCHANGED <<pc, wanted, reply, queue, failed>>
    BY <1>1 DEF GetUsable
  <2> QED BY <2>1
<1>2. ASSUME NEW m \in Messages, GetUnusable(s, m)
      PROVE  \E p \in Positions : GetEffect(s, p)
  <2>1. PICK p \in Positions :
            /\ Fetching(s, p)
            /\ missing' = missing \ {p}
            /\ keys' = [keys EXCEPT ![SecretIds[p]] = Unusable]
            /\ UNCHANGED <<pc, wanted, reply, queue, failed>>
    BY <1>2 DEF GetUnusable
  <2> QED BY <2>1
<1>3. ASSUME NEW m \in Messages, GetFailed(s, m)
      PROVE  \E p \in Positions : GetEffect(s, p)
  <2>1. PICK p \in Positions :
            /\ Fetching(s, p)
            /\ missing' = missing \ {p}
            /\ failed' = [failed EXCEPT ![s] = @ \cup {SecretIds[p]}]
            /\ UNCHANGED <<pc, wanted, reply, queue, keys>>
    BY <1>3 DEF GetFailed
  <2>2. SecretIds[p] \in failed'[s]
    BY <2>1
  <2>3. \A r \in Sessions : failed[r] \subseteq failed'[r]
    BY <2>1
  <2> QED BY <2>1, <2>2, <2>3
<1> QED BY <1>1, <1>2, <1>3 DEF GetReturns

\* Steps that leave the pass and the cache alone.
AsideStep(s) == RequestIdentities(s) \/ RequestSign(s) \/ KeyFor(s)
                    \/ Verdict(s) \/ TrySign(s)

\* Session r still has the answer, and the request, it had.
KeepsAnswer(r) == /\ reply'[r] = reply[r]
                  /\ failed'[r] = failed[r]
                  /\ wanted'[r] = wanted[r]

\* The kinds of answers that may leave an id out.
Partial == {"identities", "no_key"}

\* Outside a pass, a step touches neither the cache nor the log.
LEMMA AsideEffect ==
    ASSUME TypeOK, NEW s \in Sessions, AsideStep(s)
    PROVE  /\ UNCHANGED <<missing, keys, lastErrors, outcome, lines>>
           /\ \A r \in Sessions : pc[r] = "pass" <=> pc'[r] = "pass"
           /\ \A r \in Sessions : r # s => failed'[r] = failed[r]
           /\ pc[s] # "pass"
           /\ \A r \in Sessions : KeepsAnswer(r) \/ reply'[r].kind \notin Partial
<1> USE DEF TypeOK, KeepsAnswer, Partial
<1>1. CASE RequestIdentities(s)
  BY <1>1 DEF RequestIdentities, Accept, NoReply
<1>2. CASE RequestSign(s)
  <2>1. PICK k \in PublicKeys : Accept(s, k)
    BY <1>2 DEF RequestSign
  <2> QED BY <1>2, <2>1 DEF RequestSign, Accept, NoReply
<1>3. CASE KeyFor(s)
  BY <1>3 DEF KeyFor
<1>4. CASE Verdict(s)
  BY <1>4 DEF Verdict, Answer
<1>5. CASE TrySign(s)
  BY <1>5 DEF TrySign, Answer
<1> QED BY <1>1, <1>2, <1>3, <1>4, <1>5 DEF AsideStep

\* The kinds of step, by their effect on the pass.
LEMMA NextCases ==
    ASSUME TypeOK, [Next]_vars
    PROVE  \/ UNCHANGED vars
           \/ \E s \in Sessions : \/ AsideStep(s)
                                  \/ StartPass(s)
                                  \/ \E p \in Positions : GetEffect(s, p)
                                  \/ FinishPass(s)
BY GetHasEffect DEF Next, AsideStep

\* A pass ends with nothing left to fetch.
LEMMA NoPassNothingMissingStep ==
    ASSUME TypeOK, NoPassNothingMissing, [Next]_vars
    PROVE  NoPassNothingMissing'
<1> USE DEF NoPassNothingMissing, TypeOK
<1>1. ASSUME NEW s \in Sessions, AsideStep(s) PROVE NoPassNothingMissing'
  BY <1>1, AsideEffect
<1>2. ASSUME NEW s \in Sessions, StartPass(s) PROVE NoPassNothingMissing'
  BY <1>2 DEF StartPass
<1>3. ASSUME NEW s \in Sessions, NEW p \in Positions, GetEffect(s, p)
      PROVE  NoPassNothingMissing'
  BY <1>3 DEF GetEffect, Fetching
<1>4. ASSUME NEW s \in Sessions, FinishPass(s) PROVE NoPassNothingMissing'
  BY <1>4 DEF FinishPass
<1>5. CASE UNCHANGED vars
  BY <1>5 DEF vars
<1> QED BY <1>1, <1>2, <1>3, <1>4, <1>5, NextCases

(* Whether a pass wants an id is decided with `loading` in hand, and while  *)
(* it is held only the fetches of that pass write the cache.                *)
LEMMA NoRefetchStep ==
    ASSUME TypeOK, PassHolds, NoRefetch, [Next]_vars
    PROVE  NoRefetch'
<1> USE DEF NoRefetch, TypeOK
<1>1. ASSUME NEW s \in Sessions, AsideStep(s) PROVE NoRefetch'
  BY <1>1, AsideEffect
<1>2. ASSUME NEW s \in Sessions, StartPass(s) PROVE NoRefetch'
  BY <1>2 DEF StartPass
<1>3. ASSUME NEW s \in Sessions, NEW p \in Positions, GetEffect(s, p)
      PROVE  NoRefetch'
  <2> SUFFICES ASSUME NEW r \in Sessions, pc'[r] = "pass",
                      NEW q \in missing' \cap Single
               PROVE  keys'[SecretIds[q]] = NotLoaded
    OBVIOUS
  <2>1. pc[r] = "pass" /\ q \in missing \cap Single /\ q # p
    BY <1>3 DEF GetEffect
  <2>2. SecretIds[q] # SecretIds[p]
    BY <2>1 DEF Single
  <2>3. q \in Positions
    BY <2>1 DEF Single
  <2> QED BY <1>3, <2>1, <2>2, <2>3, PositionIsId DEF GetEffect
<1>4. ASSUME NEW s \in Sessions, FinishPass(s) PROVE NoRefetch'
  BY <1>4 DEF FinishPass
<1>5. CASE UNCHANGED vars
  BY <1>5 DEF vars
<1> QED BY <1>1, <1>2, <1>3, <1>4, <1>5, NextCases

\* A pass strikes off only what it has cached or seen fail.
LEMMA PassCoversStep ==
    ASSUME TypeOK, PassHolds, PassCovers, [Next]_vars
    PROVE  PassCovers'
<1> USE DEF PassCovers, TypeOK
<1>1. ASSUME NEW s \in Sessions, AsideStep(s) PROVE PassCovers'
  BY <1>1, AsideEffect
<1>2. ASSUME NEW s \in Sessions, StartPass(s) PROVE PassCovers'
  <2> SUFFICES ASSUME NEW r \in Sessions, pc'[r] = "pass",
                      NEW p \in Positions, p \notin missing'
               PROVE  keys'[SecretIds[p]] # NotLoaded
    OBVIOUS
  <2> QED BY <1>2 DEF StartPass
<1>3. ASSUME NEW s \in Sessions, NEW p \in Positions, GetEffect(s, p)
      PROVE  PassCovers'
  <2> SUFFICES ASSUME NEW r \in Sessions, pc'[r] = "pass",
                      NEW q \in Positions, q \notin missing',
                      keys'[SecretIds[q]] = NotLoaded
               PROVE  SecretIds[q] \in failed'[r]
    OBVIOUS
  <2>1. pc[r] = "pass" /\ r = s
    BY <1>3 DEF GetEffect, Fetching, PassHolds, Holder
  <2>2. CASE SecretIds[q] = SecretIds[p]
    BY <1>3, <2>1, <2>2 DEF GetEffect
  <2>3. CASE SecretIds[q] # SecretIds[p]
    <3>1. q \notin missing /\ keys[SecretIds[q]] = NotLoaded
      BY <1>3, <2>3, PositionIsId DEF GetEffect
    <3> QED BY <1>3, <2>1, <3>1 DEF GetEffect
  <2> QED BY <2>2, <2>3
<1>4. ASSUME NEW s \in Sessions, FinishPass(s) PROVE PassCovers'
  BY <1>4 DEF FinishPass
<1>5. CASE UNCHANGED vars
  BY <1>5 DEF vars
<1> QED BY <1>1, <1>2, <1>3, <1>4, <1>5, NextCases
-----------------------------------------------------------------------------
(* What answers leave out.                                                  *)

\* A settled id stays as it is.
LEMMA SettledStays ==
    ASSUME TypeOK, [Next]_vars, NEW i \in Ids, Settled(i)
    PROVE  Settled(i)' /\ keys'[i] = keys[i]
<1> USE DEF TypeOK, Settled
<1>1. ASSUME NEW s \in Sessions, AsideStep(s)
      PROVE  Settled(i)' /\ keys'[i] = keys[i]
  BY <1>1, AsideEffect
<1>2. ASSUME NEW s \in Sessions, StartPass(s)
      PROVE  Settled(i)' /\ keys'[i] = keys[i]
  BY <1>2 DEF StartPass
<1>3. ASSUME NEW s \in Sessions, NEW p \in Positions, GetEffect(s, p)
      PROVE  Settled(i)' /\ keys'[i] = keys[i]
  BY <1>3 DEF GetEffect, Fetching
<1>4. ASSUME NEW s \in Sessions, FinishPass(s)
      PROVE  Settled(i)' /\ keys'[i] = keys[i]
  BY <1>4 DEF FinishPass
<1>5. CASE UNCHANGED vars
  BY <1>5 DEF vars
<1> QED BY <1>1, <1>2, <1>3, <1>4, <1>5, NextCases

\* An answer that may leave ids out is one given in this step by FinishPass,
\* or one given before.
LEMMA PartialAnswers ==
    ASSUME TypeOK, [Next]_vars, NEW r \in Sessions, reply'[r].kind \in Partial
    PROVE  \/ /\ reply'[r] = reply[r]
              /\ wanted'[r] = wanted[r]
              /\ failed[r] \subseteq failed'[r]
           \/ FinishPass(r)
<1> USE DEF TypeOK
<1> DEFINE Kept == /\ reply'[r] = reply[r]
                   /\ wanted'[r] = wanted[r]
                   /\ failed[r] \subseteq failed'[r]
<1>1. ASSUME NEW s \in Sessions, AsideStep(s) PROVE Kept
  BY <1>1, AsideEffect DEF KeepsAnswer
<1>2. ASSUME NEW s \in Sessions, StartPass(s) PROVE Kept
  BY <1>2 DEF StartPass
<1>3. ASSUME NEW s \in Sessions, NEW p \in Positions, GetEffect(s, p) PROVE Kept
  BY <1>3 DEF GetEffect
<1>4. ASSUME NEW s \in Sessions, FinishPass(s), s # r PROVE Kept
  BY <1>4 DEF FinishPass
<1>5. CASE UNCHANGED vars
  BY <1>5 DEF vars
<1> QED BY <1>1, <1>2, <1>3, <1>4, <1>5, NextCases

\* What an answer relied on as settled stays settled.
LEMMA AnswersSettledStep ==
    ASSUME TypeOK, PassCovers, AnswersSettled, [Next]_vars
    PROVE  AnswersSettled'
<1> SUFFICES ASSUME NEW r \in Sessions, reply'[r].kind \in Partial,
                    NEW p \in Positions, SecretIds[p] \notin failed'[r]
             PROVE  Settled(SecretIds[p])'
  BY DEF AnswersSettled, Partial
<1>1. CASE FinishPass(r)
  BY <1>1 DEF FinishPass, PassCovers, Settled
<1>2. CASE /\ reply'[r] = reply[r]
           /\ failed[r] \subseteq failed'[r]
  <2>1. Settled(SecretIds[p])
    BY <1>2 DEF AnswersSettled, Partial
  <2> QED BY <2>1, SettledStays, PositionIsId
<1> QED BY <1>1, <1>2, PartialAnswers

\* An answer that left an id out was, and stays, entitled to.
LEMMA NothingSkippedStep ==
    ASSUME TypeOK, PassCovers, AnswersSettled, NothingSkippedSilently,
           [Next]_vars
    PROVE  NothingSkippedSilently'
<1> DEFINE Included(r, p) ==
        /\ reply[r].kind = "identities" =>
              (\E k \in PublicKeys : <<p, k>> \in reply[r].listed)
                  \/ keys[SecretIds[p]] = Unusable
        /\ reply[r].kind = "no_key" =>
              keys[SecretIds[p]] \notin {NotLoaded, wanted[r]}
<1> SUFFICES ASSUME NEW r \in Sessions, NEW p \in Positions,
                    SecretIds[p] \notin failed'[r]
             PROVE  Included(r, p)'
  BY DEF NothingSkippedSilently
<1>1. CASE reply'[r].kind \notin Partial
  BY <1>1 DEF Partial
<1>2. CASE FinishPass(r)
  <2>1. keys' = keys /\ wanted' = wanted /\ pc[r] = "pass" /\ missing = {}
    BY <1>2 DEF FinishPass
  <2>2. keys[SecretIds[p]] \in PublicKeys \cup {Unusable}
    BY <1>2, <2>1, PositionIsId DEF PassCovers, FinishPass, TypeOK
  <2>3. CASE reply'[r].kind = "identities" /\ reply'[r] = Identities
    <3>1. keys[SecretIds[p]] \in PublicKeys =>
              <<p, keys[SecretIds[p]]>> \in reply'[r].listed
      BY <2>3 DEF Identities, Loaded
    <3> QED BY <2>1, <2>2, <2>3, <3>1
  <2>4. CASE reply'[r] = Answer("no_key") /\ wanted[r] \in PublicKeys \ Served
    <3>1. keys[SecretIds[p]] # wanted[r]
      BY <2>4, PositionIsId DEF Served
    <3>2. reply'[r].kind = "no_key"
      BY <2>4 DEF Answer
    <3> QED BY <2>1, <2>2, <3>1, <3>2, ValuesAssumption
  <2>5. CASE reply'[r] = reply[r] /\ wanted[r] \in Served
    BY <1>2, <2>1, <2>5 DEF FinishPass, NothingSkippedSilently
  <2>6. \/ reply'[r] = Identities
        \/ reply'[r] = reply[r] /\ wanted[r] \in Served
        \/ reply'[r] = Answer("no_key") /\ wanted[r] \in PublicKeys \ Served
    BY <1>2 DEF FinishPass, TypeOK
  <2> QED BY <2>3, <2>4, <2>5, <2>6 DEF Identities
<1>3. CASE /\ reply'[r].kind \in Partial
           /\ reply'[r] = reply[r]
           /\ wanted'[r] = wanted[r]
           /\ failed[r] \subseteq failed'[r]
  <2>1. SecretIds[p] \notin failed[r]
    BY <1>3
  <2>2. keys'[SecretIds[p]] = keys[SecretIds[p]]
    BY <1>3, <2>1, SettledStays, PositionIsId DEF AnswersSettled, Partial
  <2> QED BY <1>3, <2>1, <2>2 DEF NothingSkippedSilently
<1> QED BY <1>1, <1>2, <1>3, PartialAnswers
-----------------------------------------------------------------------------
(* The log.                                                                 *)

\* log_failure writes a line only for a failure that is news.
LEMMA LogFailureOnce ==
    ASSUME TypeOK, LogInv, NEW i \in Ids, NEW m \in Messages, LogFailure(i, m)
    PROVE  LogInv'
<1> SUFFICES ASSUME NEW j \in Ids
             PROVE  /\ lastErrors'[j] = outcome'[j]
                    /\ outcome'[j] \in Messages => lines'[j] = 1
  BY DEF LogInv
<1>1. CASE j # i
  BY <1>1 DEF LogFailure, Note, LogInv, TypeOK
<1>2. CASE j = i
  BY <1>2 DEF LogFailure, Note, LogInv, TypeOK
<1> QED BY <1>1, <1>2

\* Every step keeps the log and what is compared with it together.
LEMMA LogStep ==
    ASSUME TypeOK, LogInv, [Next]_vars
    PROVE  LogInv'
<1>1. ASSUME NEW s \in Sessions, AsideStep(s) PROVE LogInv'
  BY <1>1, AsideEffect DEF LogInv
<1>2. ASSUME NEW s \in Sessions, StartPass(s) \/ FinishPass(s) PROVE LogInv'
  BY <1>2 DEF StartPass, FinishPass, LogInv
<1>3. ASSUME NEW s \in Sessions, NEW k \in PublicKeys, GetUsable(s, k)
      PROVE  LogInv'
  <2>1. PICK p \in Positions :
            /\ lastErrors' = [lastErrors EXCEPT ![SecretIds[p]] = NoMessage]
            /\ Note(SecretIds[p], NoMessage, 0)
    BY <1>3 DEF GetUsable
  <2>2. outcome' = [outcome EXCEPT ![SecretIds[p]] = NoMessage]
    BY <2>1 DEF Note
  <2>3. \A i \in Ids : i # SecretIds[p] => lines'[i] = lines[i]
    BY <2>1, PositionIsId DEF Note, TypeOK
  <2> QED BY <2>1, <2>2, <2>3, PositionIsId, ValuesAssumption DEF LogInv, TypeOK
<1>4. ASSUME NEW s \in Sessions, NEW m \in Messages,
             GetUnusable(s, m) \/ GetFailed(s, m)
      PROVE  LogInv'
  <2>1. PICK p \in Positions : LogFailure(SecretIds[p], m)
    BY <1>4 DEF GetUnusable, GetFailed
  <2> QED BY <2>1, PositionIsId, LogFailureOnce
<1>5. CASE UNCHANGED vars
  BY <1>5 DEF vars, LogInv
<1> QED BY <1>1, <1>2, <1>3, <1>4, <1>5 DEF Next, AsideStep, GetReturns

-----------------------------------------------------------------------------
(* The theorems.                                                            *)

\* No request has come, so the invariant holds.
LEMMA InitIInv == Init => IInv
<1> SUFFICES ASSUME Init PROVE IInv
  OBVIOUS
<1>1. TypeOK
  BY RepliesTyped DEF Init, TypeOK
<1>2. PassHolds /\ NoPassNothingMissing /\ NoRefetch /\ PassCovers
  BY DEF Init, PassHolds, NoPassNothingMissing, NoRefetch, PassCovers
<1>3. AnswersSettled /\ NothingSkippedSilently
  BY DEF Init, NoReply, AnswersSettled, NothingSkippedSilently
<1>4. LogInv
  BY ValuesAssumption DEF Init, LogInv
<1> QED BY <1>1, <1>2, <1>3, <1>4 DEF IInv

\* Every step keeps it.
LEMMA StepIInv == IInv /\ [Next]_vars => IInv'
BY TypeStep, PassHoldsStep, NoPassNothingMissingStep, NoRefetchStep,
   PassCoversStep, AnswersSettledStep, NothingSkippedStep, LogStep DEF IInv

(* The invariant every other theorem rests on.                              *)
THEOREM Inductive == Spec => []IInv
BY InitIInv, StepIInv, PTL DEF Spec

(* Every reachable state is well typed: no answer lists a position or key   *)
(* that is not configured, and no waiter of `loading` is lost.              *)
THEOREM TypeCorrect == Spec => []TypeOK
<1>1. IInv => TypeOK
  BY DEF IInv
<1> QED BY <1>1, Inductive, PTL

(* `loaded_keys` passes exclude one another, for any number of sessions.    *)
THEOREM PassesExclude == Spec => []OnePass
<1>1. IInv => OnePass
  BY OnePassHolder DEF IInv
<1> QED BY <1>1, Inductive, PTL

(* Concurrent listings share one fetch per key.                             *)
THEOREM FetchesAreShared == Spec => []NoRefetch
<1>1. IInv => NoRefetch
  BY DEF IInv
<1> QED BY <1>1, Inductive, PTL

(* No id is missing from an answer for a reason older than the request.     *)
THEOREM AnswersAreComplete == Spec => []NothingSkippedSilently
<1>1. IInv => NothingSkippedSilently
  BY DEF IInv
<1> QED BY <1>1, Inductive, PTL

(* A run of equal failures puts one line in the log.                        *)
THEOREM FailuresLoggedOnce == Spec => []LoggedOnce
<1>1. IInv => LoggedOnce
  BY DEF IInv, LogInv, LoggedOnce
<1> QED BY <1>1, Inductive, PTL

\* A cached id that is listed once keeps its entry.
LEMMA CachedStays ==
    ASSUME IInv, [Next]_vars, NEW p \in Single, keys[SecretIds[p]] # NotLoaded
    PROVE  keys'[SecretIds[p]] = keys[SecretIds[p]]
<1> USE DEF IInv, TypeOK
<1>1. p \in Positions /\ SecretIds[p] \in Ids
  BY PositionIsId DEF Single
<1>2. p \notin missing
  BY DEF NoRefetch, NoPassNothingMissing
<1>3. \A q \in missing : SecretIds[q] # SecretIds[p]
  BY <1>2 DEF Single
<1> QED BY <1>1, <1>3, SettledStays DEF Settled

(* The cache only grows.                                                    *)
THEOREM CacheOnlyGrows == Spec => CacheStable
<1>1. IInv /\ [Next]_vars =>
        [\A p \in Single : keys[SecretIds[p]] # NotLoaded =>
             keys'[SecretIds[p]] = keys[SecretIds[p]]]_vars
  BY CachedStays
<1> QED BY <1>1, Inductive, PTL DEF CacheStable, Spec
-----------------------------------------------------------------------------
(* KeyService implements AgentContract when no id is configured twice.      *)

\* Whoever is prompted is prompted about a key the cache still holds.
PromptServed == \A s \in Sessions : pc[s] = "prompt" => wanted[s] \in Served

\* With distinct ids, every cached id keeps its entry.
LEMMA DistinctStays ==
    ASSUME SecretIdsDistinct, IInv, [Next]_vars, NEW i \in Ids,
           keys[i] # NotLoaded
    PROVE  Settled(i) /\ keys'[i] = keys[i]
<1>1. ASSUME NEW q \in missing PROVE SecretIds[q] # i
  <2>1. q \in Single
    BY <1>1 DEF IInv, TypeOK, SecretIdsDistinct
  <2>2. PICK s \in Sessions : pc[s] = "pass"
    BY <1>1 DEF IInv, NoPassNothingMissing
  <2> QED BY <1>1, <2>1, <2>2 DEF IInv, NoRefetch
<1> QED BY <1>1, SettledStays DEF Settled, IInv

\* So a key that is served goes on being served,
LEMMA ServedStays ==
    ASSUME SecretIdsDistinct, IInv, [Next]_vars, NEW k \in Served
    PROVE  k \in Served'
<1>1. PICK i \in Ids : keys[i] = k
  BY DEF Served
<1>2. k # NotLoaded /\ k \in PublicKeys
  BY ValuesAssumption DEF Served
<1>3. keys'[i] = k
  BY <1>1, <1>2, DistinctStays
<1> QED BY <1>1, <1>2, <1>3 DEF Served

\* and a prompt that is up asks for a served key.
LEMMA PromptServedStep ==
    ASSUME SecretIdsDistinct, IInv, PromptServed, [Next]_vars
    PROVE  PromptServed'
<1> SUFFICES ASSUME NEW r \in Sessions, pc'[r] = "prompt"
             PROVE  wanted'[r] \in Served'
  BY DEF PromptServed
<1> USE DEF IInv, TypeOK
<1>1. wanted'[r] = wanted[r] /\ wanted[r] \in Served
  <2>1. ASSUME NEW s \in Sessions, RequestIdentities(s) \/ RequestSign(s)
        PROVE  wanted'[r] = wanted[r] /\ wanted[r] \in Served
    BY <2>1 DEF RequestIdentities, RequestSign, Accept, PromptServed
  <2>2. ASSUME NEW s \in Sessions, KeyFor(s)
        PROVE  wanted'[r] = wanted[r] /\ wanted[r] \in Served
    BY <2>2 DEF KeyFor, PromptServed
  <2>3. ASSUME NEW s \in Sessions, StartPass(s) \/ Verdict(s) \/ TrySign(s)
        PROVE  wanted'[r] = wanted[r] /\ wanted[r] \in Served
    BY <2>3 DEF StartPass, Verdict, TrySign, PromptServed
  <2>4. ASSUME NEW s \in Sessions, NEW p \in Positions, GetEffect(s, p)
        PROVE  wanted'[r] = wanted[r] /\ wanted[r] \in Served
    BY <2>4 DEF GetEffect, PromptServed
  <2>5. ASSUME NEW s \in Sessions, FinishPass(s)
        PROVE  wanted'[r] = wanted[r] /\ wanted[r] \in Served
    BY <2>5 DEF FinishPass, PromptServed
  <2>6. CASE UNCHANGED vars
    BY <2>6 DEF vars, PromptServed
  <2> QED BY <2>1, <2>2, <2>3, <2>4, <2>5, <2>6, NextCases DEF AsideStep
<1> QED BY <1>1, ServedStays

\* Equal by definition: the contract names the same things itself.
LEMMA SameViews ==
    /\ Contract!Shown = Loaded
    /\ Contract!Available = Served
BY DEF Contract!Shown, Contract!Slots, Contract!Available, Loaded, Positions,
       Served

\* The initial state is one of the contract.
LEMMA ContractInit == Init => Contract!Init
BY DEF Init, Contract!Init, NoReply

\* Every step is a step of the contract, or leaves its state alone.
LEMMA ContractStep ==
    ASSUME SecretIdsDistinct, IInv, PromptServed, [Next]_vars
    PROVE  [Contract!Next]_(Contract!contractVars)
<1> DEFINE phase == [s \in Sessions |->
                 IF pc[s] = "idle" THEN "idle"
                 ELSE IF pc[s] = "sign" THEN "approved" ELSE "asked"]
           Stutter == /\ phase' = phase
                      /\ UNCHANGED <<wanted, reply, keys>>
<1> USE DEF IInv, TypeOK
<1>s. Stutter => UNCHANGED Contract!contractVars
  BY DEF Contract!contractVars
<1>1. ASSUME NEW s \in Sessions, RequestIdentities(s) PROVE Contract!Ask(s)
  BY <1>1 DEF RequestIdentities, Accept, NoReply, Contract!Ask
<1>2. ASSUME NEW s \in Sessions, RequestSign(s) PROVE Contract!Ask(s)
  <2>1. PICK k \in PublicKeys : Accept(s, k)
    BY <1>2 DEF RequestSign
  <2> QED BY <1>2, <2>1 DEF RequestSign, Accept, NoReply, Contract!Ask
<1>3. ASSUME NEW s \in Sessions, KeyFor(s) PROVE Stutter
  BY <1>3 DEF KeyFor
<1>4. ASSUME NEW s \in Sessions, StartPass(s) PROVE Stutter
  BY <1>4 DEF StartPass
<1>5. ASSUME NEW s \in Sessions, GetReturns(s)
      PROVE  Stutter \/ \E i \in Ids : Contract!Learn(i)
  <2>1. ASSUME \/ \E k \in PublicKeys : GetUsable(s, k)
               \/ \E m \in Messages : GetUnusable(s, m)
        PROVE  \E i \in Ids : Contract!Learn(i)
    <3>1. PICK p \in Positions, v \in PublicKeys \cup {Unusable} :
              /\ Fetching(s, p)
              /\ keys' = [keys EXCEPT ![SecretIds[p]] = v]
              /\ UNCHANGED <<pc, wanted, reply>>
      BY <2>1 DEF GetUsable, GetUnusable
    <3>2. keys[SecretIds[p]] = NotLoaded
      BY <3>1 DEF Fetching, NoRefetch, SecretIdsDistinct
    <3>3. Contract!Learn(SecretIds[p])
      BY <3>1, <3>2, PositionIsId DEF Contract!Learn
    <3> QED BY <3>3, PositionIsId
  <2>2. ASSUME NEW m \in Messages, GetFailed(s, m) PROVE Stutter
    BY <2>2 DEF GetFailed
  <2> QED BY <1>5, <2>1, <2>2 DEF GetReturns
<1>6. ASSUME NEW s \in Sessions, FinishPass(s)
      PROVE  Stutter \/ Contract!AnswerListing(s) \/ Contract!Refuse(s)
  <2>1. pc[s] = "pass" /\ UNCHANGED <<wanted, keys>>
    BY <1>6 DEF FinishPass
  <2>2. CASE /\ wanted[s] = Listing
             /\ pc' = [pc EXCEPT ![s] = "idle"]
             /\ reply' = [reply EXCEPT ![s] = Identities]
    BY <2>1, <2>2, SameViews
       DEF Identities, Contract!AnswerListing, Contract!Reply
  <2>3. CASE pc' = [pc EXCEPT ![s] = "prompt"] /\ reply' = reply
    BY <2>1, <2>3
  <2>4. CASE /\ wanted[s] \in PublicKeys \ Served
             /\ pc' = [pc EXCEPT ![s] = "idle"]
             /\ reply' = [reply EXCEPT ![s] = Answer("no_key")]
    BY <2>1, <2>4, SameViews DEF Answer, Contract!Refuse, Contract!Reply
  <2> QED BY <1>6, <2>2, <2>3, <2>4 DEF FinishPass
<1>7. ASSUME NEW s \in Sessions, Verdict(s)
      PROVE  Contract!Approve(s) \/ Contract!Deny(s)
  <2>1. /\ pc[s] = "prompt"
        /\ wanted[s] \in Contract!Available
        /\ UNCHANGED <<wanted, keys>>
    BY <1>7, SameViews DEF Verdict, PromptServed
  <2>2. CASE pc' = [pc EXCEPT ![s] = "sign"] /\ reply' = reply
    BY <2>1, <2>2 DEF Contract!Approve
  <2>3. ASSUME NEW kind \in {"denied", "error"},
               pc' = [pc EXCEPT ![s] = "idle"],
               reply' = [reply EXCEPT ![s] = Answer(kind)]
        PROVE  Contract!Deny(s)
    <3>1. Contract!Reply(s, "asked", kind, {})
      BY <2>1, <2>3 DEF Answer, Contract!Reply
    <3> QED BY <2>1, <3>1 DEF Contract!Deny
  <2> QED BY <1>7, <2>2, <2>3 DEF Verdict
<1>8. ASSUME NEW s \in Sessions, TrySign(s) PROVE Contract!Sign(s)
  BY <1>8 DEF TrySign, Answer, Contract!Sign, Contract!Reply
<1>9. CASE UNCHANGED vars
  BY <1>9 DEF vars, Contract!contractVars
<1> QED BY <1>s, <1>1, <1>2, <1>3, <1>4, <1>5, <1>6, <1>7, <1>8, <1>9
        DEF Next, Contract!Next

(* The agent, with its locks, passes and failing fetches, is the simple     *)
(* agent of the contract to its clients: listings and signatures take       *)
(* effect at one moment, on keys that never go away, and no signature is    *)
(* given without a verdict on that request.                                 *)
THEOREM AgentImplementsContract ==
    ASSUME SecretIdsDistinct
    PROVE  Spec => ImplementsContract
<1>1. Init => PromptServed
  BY DEF Init, PromptServed
<1>2. IInv /\ PromptServed /\ [Next]_vars => PromptServed'
  BY PromptServedStep
<1>3. IInv /\ PromptServed /\ [Next]_vars =>
          [Contract!Next]_(Contract!contractVars)
  BY ContractStep
<1> QED BY <1>1, <1>2, <1>3, ContractInit, Inductive, PTL
        DEF Spec, ImplementsContract, Contract!Spec
=============================================================================
