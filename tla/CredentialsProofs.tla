--------------------------- MODULE CredentialsProofs ---------------------------
(* Theorems about Setup and Doctor: the wizard, and the processes that read *)
(* what it writes while it does, for any accounts, vaults, servers and      *)
(* environments and any number of runs.                                     *)
EXTENDS Doctor, FiniteSetTheorems, FunctionTheorems, SequenceTheorems, TLAPS

-----------------------------------------------------------------------------
(* Sequences that pick from another.                                        *)

\* Positions are ranked from one on, without a gap.
LEMMA Ranks ==
    ASSUME NEW m \in Nat, NEW P \in SUBSET (1..m)
    PROVE  /\ Cardinality(P) \in Nat
           /\ \A n \in 1..Cardinality(P) :
                 /\ Nth(P, n) \in P
                 /\ Cardinality({q \in P : q <= Nth(P, n)}) = n
<1> DEFINE UpTo(p) == {q \in P : q <= p}
           size == Cardinality(P)
           rank == [p \in P |-> Cardinality(UpTo(p))]
<1>1. IsFiniteSet(P) /\ size \in Nat
  <2>1. IsFiniteSet(1..m)
    BY FS_Interval
  <2> QED BY <2>1, FS_Subset, FS_CardinalityType
<1>2. \A p \in P : /\ IsFiniteSet(UpTo(p)) /\ Cardinality(UpTo(p)) \in Nat
                   /\ Cardinality(UpTo(p)) <= size
  <2> TAKE p \in P
  <2>1. UpTo(p) \in SUBSET P
    OBVIOUS
  <2> QED BY <1>1, <2>1, FS_Subset, FS_CardinalityType
<1>3. rank \in [P -> 1..size]
  <2> SUFFICES ASSUME NEW p \in P PROVE Cardinality(UpTo(p)) \in 1..size
    OBVIOUS
  <2>1. UpTo(p) # {}
    OBVIOUS
  <2>2. Cardinality(UpTo(p)) # 0
    BY <1>2, <2>1, FS_EmptySet
  <2> HIDE DEF UpTo
  <2> QED BY <1>1, <1>2, <2>2
<1>4. \A p, r \in P : p < r => rank[p] # rank[r]
  <2> SUFFICES ASSUME NEW p \in P, NEW r \in P, p < r, rank[p] = rank[r] PROVE FALSE
    OBVIOUS
  <2>1. /\ \A q \in P : q <= p => q <= r
        /\ r <= r /\ ~(r <= p)
    OBVIOUS
  <2>2. UpTo(p) \in SUBSET UpTo(r) /\ r \in UpTo(r) /\ r \notin UpTo(p)
    BY <2>1, Zenon
  <2>3. Cardinality(UpTo(p)) = Cardinality(UpTo(r))
    OBVIOUS
  <2> HIDE DEF UpTo
  <2> QED BY <1>2, <2>2, <2>3, FS_Subset
<1>5. rank \in Injection(P, 1..size)
  <2>1. \A p, r \in P : rank[p] = rank[r] => p = r
    BY <1>4
  <2> HIDE DEF rank
  <2> QED BY <1>3, <2>1, Fun_IsInj
<1>6. rank \in Surjection(P, 1..size)
  <2>1. IsFiniteSet(1..size) /\ Cardinality(1..size) = size
    BY <1>1, FS_Interval
  <2> HIDE DEF rank
  <2> QED BY <1>5, <2>1, FS_Injection
<1>7. \A n \in 1..size : \E p \in P : Cardinality(UpTo(p)) = n
  <2>1. \A n \in 1..size : \E p \in P : rank[p] = n
    <3> HIDE DEF rank
    <3> QED BY <1>6, Fun_SurjectionProperties
  <2>2. \A p \in P : rank[p] = Cardinality(UpTo(p))
    OBVIOUS
  <2> HIDE DEF rank, UpTo
  <2> QED BY <2>1, <2>2
<1> QED BY <1>1, <1>7 DEF Nth

\* A sequence is a function on the first numbers.
LEMMA SequenceIsFunction ==
    ASSUME NEW s, IsSequence(s)
    PROVE  Len(s) \in Nat /\ DOMAIN s = 1..Len(s)
BY DEF IsSequence

\* And the other way round.
LEMMA FunctionIsSequence ==
    ASSUME NEW n \in Nat, NEW s, DOMAIN s = 1..n, s = [i \in 1..n |-> s[i]]
    PROVE  IsSequence(s) /\ Len(s) = n
<1>1. s \in [1..n -> {s[i] : i \in DOMAIN s}]
  OBVIOUS
<1>2. s \in Seq({s[i] : i \in DOMAIN s})
  BY <1>1, SeqDef
<1> QED BY <1>2, LenProperties DEF IsSequence

\* What is picked is a sequence of things at the positions, each taken once.
LEMMA PickedAreThere ==
    ASSUME NEW s, IsSequence(s), NEW P \in SUBSET DOMAIN s
    PROVE  /\ IsSequence(Picked(s, P))
           /\ \A n \in DOMAIN Picked(s, P) : \E p \in P : Picked(s, P)[n] = s[p]
           /\ (\A i, j \in P : s[i] = s[j] => i = j) =>
                 \A m, n \in DOMAIN Picked(s, P) :
                    Picked(s, P)[m] = Picked(s, P)[n] => m = n
<1>1. /\ Cardinality(P) \in Nat
      /\ \A n \in 1..Cardinality(P) :
            /\ Nth(P, n) \in P
            /\ Cardinality({q \in P : q <= Nth(P, n)}) = n
  BY SequenceIsFunction, Ranks
<1>2. /\ DOMAIN Picked(s, P) = 1..Cardinality(P)
      /\ \A n \in 1..Cardinality(P) : Picked(s, P)[n] = s[Nth(P, n)]
      /\ Picked(s, P) = [n \in 1..Cardinality(P) |-> Picked(s, P)[n]]
  BY DEF Picked
<1>3. IsSequence(Picked(s, P))
  BY <1>1, <1>2, FunctionIsSequence
<1>4. ASSUME \A i, j \in P : s[i] = s[j] => i = j,
             NEW m \in 1..Cardinality(P), NEW n \in 1..Cardinality(P),
             Picked(s, P)[m] = Picked(s, P)[n]
      PROVE  m = n
  <2>1. Nth(P, m) = Nth(P, n)
    BY <1>1, <1>2, <1>4
  <2> QED BY <1>1, <2>1
<1>5. \A n \in DOMAIN Picked(s, P) : \E p \in P : Picked(s, P)[n] = s[p]
  BY <1>1, <1>2
<1> QED BY <1>2, <1>3, <1>4, <1>5

-----------------------------------------------------------------------------
(* What the wizard lets a user choose.                                      *)

\* An item of the account that the wizard offers: its name opens.
Offered(a, n) == /\ Listable(Vault[a][n])
                 /\ ItemName(Vault[a][n], UserKey(a)) # Absent

\* A sequence of ids of different offered items of a.
ListsOffered(s, a) ==
    /\ IsSequence(s)
    /\ \A i \in DOMAIN s : \E n \in DOMAIN Vault[a] :
          s[i] = Vault[a][n].id /\ Offered(a, n)
    /\ \A i, j \in DOMAIN s : s[i] = s[j] => i = j

\* The listing: the items that can be used, each once.
LEMMA ListingIsOffered ==
    ASSUME NEW a \in Accounts
    PROVE  ListsOffered(SshKeyItems(Vault[a], UserKey(a)), a)
<1> DEFINE listed == {i \in DOMAIN Vault[a] : Listable(Vault[a][i])}
           ssh == Picked(Vault[a], listed)
           items == [i \in DOMAIN ssh |-> ssh[i].id]
<1>1. /\ IsSequence(Vault[a])
      /\ \A i, j \in DOMAIN Vault[a] : Vault[a][i].id = Vault[a][j].id => i = j
  BY VaultAssumption
<1>2. listed \in SUBSET DOMAIN Vault[a]
  OBVIOUS
<1>3. /\ IsSequence(ssh)
      /\ \A n \in DOMAIN ssh : \E p \in listed : ssh[n] = Vault[a][p]
      /\ \A m, n \in DOMAIN ssh : ssh[m] = ssh[n] => m = n
  BY <1>1, <1>2, PickedAreThere
<1>4. CASE \E i \in DOMAIN ssh : ItemName(ssh[i], UserKey(a)) = Absent
  <2>1. SshKeyItems(Vault[a], UserKey(a)) = <<>>
    BY <1>4 DEF SshKeyItems
  <2>2. IsSequence(<<>>) /\ DOMAIN <<>> = {}
    BY EmptySeq DEF IsSequence
  <2> QED BY <2>1, <2>2 DEF ListsOffered
<1>5. CASE \A i \in DOMAIN ssh : ItemName(ssh[i], UserKey(a)) # Absent
  <2>1. SshKeyItems(Vault[a], UserKey(a)) = items
    BY <1>5 DEF SshKeyItems
  <2>2. Len(ssh) \in Nat /\ DOMAIN ssh = 1..Len(ssh)
    BY <1>3, SequenceIsFunction
  <2> HIDE DEF ssh
  <2>3. IsSequence(items)
    BY <2>2, FunctionIsSequence
  <2>4. \A i \in DOMAIN items : \E n \in listed :
           ssh[i] = Vault[a][n] /\ items[i] = Vault[a][n].id
    BY <1>3
  <2>5. \A i \in DOMAIN items : \E n \in DOMAIN Vault[a] :
           items[i] = Vault[a][n].id /\ Offered(a, n)
    BY <1>5, <2>4 DEF Offered
  <2>6. \A i, j \in DOMAIN items : items[i] = items[j] => i = j
    BY <1>1, <1>3, <2>4
  <2> HIDE DEF items
  <2> QED BY <2>1, <2>3, <2>5, <2>6 DEF ListsOffered
<1> QED BY <1>4, <1>5

\* The selection: numbers that were offered, each once.
LEMMA SelectionInRange ==
    ASSUME NEW picks \in Seq(Nat), NEW len \in Nat
    PROVE  /\ IsSequence(SelectIndices(picks, len))
           /\ \A i \in DOMAIN SelectIndices(picks, len) :
                 SelectIndices(picks, len)[i] \in 1..len
           /\ \A i, j \in DOMAIN SelectIndices(picks, len) :
                 SelectIndices(picks, len)[i] = SelectIndices(picks, len)[j] => i = j
<1>1. CASE picks = <<>>
  <2> DEFINE all == [i \in 1..len |-> i]
  <2>1. SelectIndices(picks, len) = all
    BY <1>1 DEF SelectIndices
  <2>2. IsSequence(all)
    BY FunctionIsSequence
  <2> QED BY <2>1, <2>2
<1>2. CASE picks # <<>> /\ \E i \in DOMAIN picks : picks[i] \notin 1..len
  <2>1. SelectIndices(picks, len) = <<>>
    BY <1>2 DEF SelectIndices
  <2>2. IsSequence(<<>>) /\ DOMAIN <<>> = {}
    BY EmptySeq DEF IsSequence
  <2> QED BY <2>1, <2>2
<1>3. CASE picks # <<>> /\ \A i \in DOMAIN picks : picks[i] \in 1..len
  <2> DEFINE first == {i \in DOMAIN picks : \A j \in 1..(i - 1) : picks[j] # picks[i]}
  <2>1. SelectIndices(picks, len) = Picked(picks, first)
    BY <1>3 DEF SelectIndices
  <2>2. IsSequence(picks)
    <3>1. picks \in [1..Len(picks) -> {picks[i] : i \in DOMAIN picks}]
      OBVIOUS
    <3> QED BY <3>1, SeqDef, LenProperties DEF IsSequence
  <2>3. \A i, j \in first : picks[i] = picks[j] => i = j
    <3> SUFFICES ASSUME NEW i \in first, NEW j \in first, picks[i] = picks[j]
                 PROVE  ~(i < j)
      BY LenProperties
    <3>1. i \in 1..Len(picks) /\ j \in 1..Len(picks)
      BY LenProperties
    <3> QED BY <3>1
  <2>4. first \in SUBSET DOMAIN picks
    OBVIOUS
  <2>5. \A i \in first : picks[i] \in 1..len
    BY <1>3
  <2> HIDE DEF first
  <2> QED BY <2>1, <2>2, <2>3, <2>4, <2>5, PickedAreThere
<1> QED BY <1>1, <1>2, <1>3

\* So are the keys chosen.
LEMMA ChosenAreOffered ==
    ASSUME NEW a \in Accounts, NEW picks \in Answers
    PROVE  ListsOffered(Chosen(a, picks), a)
<1> DEFINE items == SshKeyItems(Vault[a], UserKey(a))
           picked == SelectIndices(picks, Len(items))
           chosenKeys == [i \in DOMAIN picked |-> items[picked[i]]]
<1>1. ListsOffered(items, a)
  BY ListingIsOffered
<1>2. Len(items) \in Nat /\ DOMAIN items = 1..Len(items)
  BY <1>1, SequenceIsFunction DEF ListsOffered
<1>3. picks \in Seq(Nat)
  BY SetupAssumption
<1>4. /\ IsSequence(picked)
      /\ \A i \in DOMAIN picked : picked[i] \in DOMAIN items
      /\ \A i, j \in DOMAIN picked : picked[i] = picked[j] => i = j
  <2> HIDE DEF items
  <2> QED BY <1>2, <1>3, SelectionInRange
<1>5. Len(picked) \in Nat /\ DOMAIN picked = 1..Len(picked)
  BY <1>4, SequenceIsFunction
<1>6. Chosen(a, picks) = chosenKeys
  BY DEF Chosen
<1> HIDE DEF items, picked
<1>7. IsSequence(chosenKeys)
  BY <1>5, FunctionIsSequence
<1>8. \A i \in DOMAIN chosenKeys : \E n \in DOMAIN Vault[a] :
         chosenKeys[i] = Vault[a][n].id /\ Offered(a, n)
  BY <1>1, <1>4 DEF ListsOffered
<1>9. \A i, j \in DOMAIN chosenKeys : chosenKeys[i] = chosenKeys[j] => i = j
  BY <1>1, <1>4 DEF ListsOffered
<1> HIDE DEF chosenKeys
<1> QED BY <1>6, <1>7, <1>8, <1>9 DEF ListsOffered

\* What is offered can be fetched, unless the server has no key data of it.
LEMMA OfferedOpens ==
    ASSUME NEW a \in Accounts, NEW n \in DOMAIN Vault[a], Offered(a, n),
           Vault[a][n].sshKey # Absent
    PROVE  ExtractSecret(Vault[a][n], UserKey(a)) # Absent
BY VaultAssumption DEF Offered, ItemName, ExtractSecret, Decrypt

-----------------------------------------------------------------------------
(* The wizard.                                                              *)

\* A run under way has its answers.
Underway == step # "idle" => url \in Urls /\ {account, typed} \subseteq Accounts

\* Past the login, the password typed is known to be that of the account.
Verified == step \notin {"idle", "login", "totp"} => typed = account

\* Nothing has changed, or begun to, until the overwrite question is answered.
AskedFirst == step \in Asking \cup {"confirm"} =>
    keychain = before.keychain /\ config = before.config /\ entry = 1

\* The entries before the current one hold this account's credentials.
StoredSoFar == step \in {"delete", "store"} =>
    /\ source = "keychain"
    /\ \A e \in Entries : e < entry => keychain[e] = account

\* The config is not touched before all of them do.
StoredAll == step \in {"render", "open", "write"} /\ source = "keychain" =>
    \A e \in Entries : keychain[e] = account

\* Between runs nothing is left of the last one.
Forgotten == step = "idle" => entry = 1

IInv ==
    /\ TypeOK
    /\ Underway
    /\ Verified
    /\ AskedFirst
    /\ StoredSoFar
    /\ StoredAll
    /\ Forgotten

\* The configs there can be are configs, and no choice of keys is a choice.
LEMMA ConfigTypes ==
    /\ NoConfig \in Configs
    /\ Garbled \in Configs
    /\ \A c \in HandWritten : c \in Configs
    /\ \A u \in Urls, a \in Accounts, ids \in Selections, s \in Sources :
          RenderConfig(u, a, ids, s) \in Configs
    /\ <<>> \in Selections
    /\ \A a \in Accounts, p \in Answers : Chosen(a, p) \in Selections
    /\ Unasked \in [keychain : [Entries -> Accounts \cup {Absent}], config : Configs]
<1>1. NoConfig \in Configs /\ Garbled \in Configs /\ HandWritten \subseteq Configs
  BY DEF Configs
<1>2. \A u \in Urls, a \in Accounts, ids \in Selections, s \in Sources :
         RenderConfig(u, a, ids, s) \in Configs
  BY DEF Configs
<1>3. /\ <<>> \in Selections
      /\ \A a \in Accounts, p \in Answers : Chosen(a, p) \in Selections
  BY DEF Selections
<1>4. Unasked \in [keychain : [Entries -> Accounts \cup {Absent}], config : Configs]
  BY <1>1 DEF Unasked
<1> QED BY <1>1, <1>2, <1>3, <1>4

\* A password opens the user key of its own account only.
LEMMA OpensOwn ==
    ASSUME NEW a \in Accounts, NEW p, NEW k,
           UnlockedKey(WrappedKey(a, AccountKdf), p, a, k) = UserKey(a)
    PROVE  p = a
BY CiphersAssumption DEF UnlockedKey, WrappedKey, UserKey, MasterKey, Decrypt, Encrypted

\* The wizard has not begun, so the invariant holds.
LEMMA InitIInv == Init => IInv
BY ConfigTypes
   DEF Init, IInv, TypeOK, Underway, Verified, AskedFirst, StoredSoFar, StoredAll,
       Forgotten, Sources, Entries, Asking

\* The end of a run leaves the invariant true, whatever is on disk.
LEMMA ReturnIInv ==
    ASSUME IInv, Return, keychain' \in [Entries -> Accounts \cup {Absent}],
           config' \in Configs
    PROVE  IInv'
BY ConfigTypes
   DEF Return, Go, IInv, TypeOK, Underway, Verified, AskedFirst, StoredSoFar,
       StoredAll, Forgotten, Sources, Entries, Asking

\* Storing an entry keeps the invariant.
LEMMA StoreIInv ==
    ASSUME IInv, Store
    PROVE  IInv'
<1>1. CASE Return /\ UNCHANGED keychain /\ UNCHANGED config
  BY <1>1, ReturnIInv DEF IInv, TypeOK
<1>2. CASE /\ keychain' = [keychain EXCEPT ![entry] = Credential(entry)]
           /\ IF entry < 3 THEN entry' = entry + 1 /\ Go("delete")
                           ELSE Go("render") /\ UNCHANGED entry
           /\ UNCHANGED <<typed, account, url, source, chosen, before>>
           /\ UNCHANGED config
  <2> USE <1>2 DEF IInv, TypeOK, Entries
  <2>1. step = "store" /\ typed = account /\ account \in Accounts
    BY DEF Store, Verified, Underway
  <2>2. Credential(entry) = account
    BY <2>1 DEF Credential
  <2>3. \A e \in Entries : e < entry \/ e = entry => keychain'[e] = account
    BY <2>1, <2>2 DEF StoredSoFar
  <2>4. keychain' \in [Entries -> Accounts \cup {Absent}]
    BY <2>1, <2>2
  <2>5. entry' \in Entries /\ step' \in {"delete", "render"}
    BY DEF Go
  <2>6. TypeOK'
    BY <2>4, <2>5 DEF Replacing
  <2>7. Underway' /\ Verified' /\ AskedFirst' /\ Forgotten'
    BY <2>1, <2>5 DEF Underway, Verified, AskedFirst, Forgotten, Asking
  <2>8. StoredSoFar'
    BY <2>1, <2>3 DEF StoredSoFar, Go
  <2>9. StoredAll'
    BY <2>1, <2>3 DEF StoredAll, Go
  <2> QED BY <2>6, <2>7, <2>8, <2>9
<1> QED BY <1>1, <1>2 DEF Store

\* Every step of the wizard keeps the invariant.
LEMMA Step ==
    ASSUME IInv, [Next]_vars
    PROVE  IInv'
<1> USE DEF Go, Asking, Replacing
<1>1. CASE Begin
  BY <1>1 DEF Begin, IInv, TypeOK, Underway, Verified, AskedFirst, StoredSoFar,
              StoredAll, Forgotten
<1>2. CASE PasswordLogin
  <2>1. step' \in {"where", "totp"} /\ UNCHANGED <<keychain, config, answers, before>>
    BY <1>2 DEF PasswordLogin
  <2>2. step \in {"login", "totp"}
    BY <1>2 DEF PasswordLogin
  <2>3. step' = "where" => typed = account
    <3>1. account \in Accounts
      BY <2>2 DEF IInv, Underway
    <3> QED BY <1>2, <3>1, OpensOwn DEF PasswordLogin
  <2> QED BY <2>1, <2>2, <2>3
          DEF IInv, TypeOK, Underway, Verified, AskedFirst, StoredSoFar, StoredAll,
              Forgotten, answers
<1>3. CASE Where
  BY <1>3 DEF Where, IInv, TypeOK, Underway, Verified, AskedFirst, StoredSoFar,
              StoredAll, Forgotten
<1>4. CASE Sync
  <2>1. chosen' \in Selections
    BY <1>4, ConfigTypes DEF Sync, IInv, Underway
  <2> QED BY <1>4, <2>1
          DEF Sync, IInv, TypeOK, Underway, Verified, AskedFirst, StoredSoFar,
              StoredAll, Forgotten
<1>5. CASE Refuse
  BY <1>5, ReturnIInv DEF Refuse, IInv, TypeOK
<1>6. CASE Confirm
  <2>1. CASE Return /\ UNCHANGED <<keychain, config>>
    BY <2>1, ReturnIInv DEF IInv, TypeOK
  <2>2. CASE /\ Go(IF source = "keychain" THEN "delete" ELSE "render")
             /\ before' = Unasked
             /\ UNCHANGED answers
             /\ UNCHANGED <<keychain, config>>
    <3>1. entry = 1 /\ before' \in [keychain : [Entries -> Accounts \cup {Absent}],
                                   config : Configs]
      BY <1>6, <2>2, ConfigTypes DEF Confirm, IInv, AskedFirst
    <3>2. TypeOK'
      BY <2>2, <3>1 DEF IInv, TypeOK, answers
    <3> QED BY <1>6, <2>2, <3>1, <3>2
            DEF Confirm, IInv, TypeOK, Underway, Verified, AskedFirst, StoredSoFar,
                StoredAll, Forgotten, answers, Entries
  <2> QED BY <1>6, <2>1, <2>2 DEF Confirm
<1>7. CASE Delete
  <2>1. keychain' \in [Entries -> Accounts \cup {Absent}]
    BY <1>7 DEF Delete, IInv, TypeOK
  <2>2. \A e \in Entries : e < entry => keychain'[e] = keychain[e]
    BY <1>7 DEF Delete, IInv, TypeOK, Entries
  <2>3. UNCHANGED <<config, answers, before>> /\ step = "delete" /\ step' = "store"
    BY <1>7 DEF Delete
  <2> QED BY <2>1, <2>2, <2>3
          DEF IInv, TypeOK, Underway, Verified, AskedFirst, StoredSoFar, StoredAll,
              Forgotten, answers
<1>8. CASE Store
  BY <1>8, StoreIInv
<1>9. CASE Render
  <2>1. CASE Return
    BY <1>9, <2>1, ReturnIInv DEF Render, IInv, TypeOK
  <2>2. CASE Go("open") /\ UNCHANGED <<answers, before>>
    BY <1>9, <2>2 DEF Render, IInv, TypeOK, Underway, Verified, AskedFirst,
                      StoredSoFar, StoredAll, Forgotten, answers
  <2> QED BY <1>9, <2>1, <2>2 DEF Render
<1>10. CASE OpenConfig
  <2>1. CASE Return /\ UNCHANGED <<config, keychain>>
    BY <2>1, ReturnIInv DEF IInv, TypeOK
  <2>2. CASE /\ Go("write") /\ config' = Garbled
             /\ UNCHANGED <<answers, before, keychain>>
    BY <1>10, <2>2, ConfigTypes
       DEF OpenConfig, IInv, TypeOK, Underway, Verified, AskedFirst, StoredSoFar,
           StoredAll, Forgotten, answers
  <2> QED BY <1>10, <2>1, <2>2 DEF OpenConfig
<1>11. CASE WriteConfig
  <2>1. config' \in Configs
    BY <1>11, ConfigTypes DEF WriteConfig, IInv, TypeOK, Underway
  <2> QED BY <1>11, <2>1, ReturnIInv DEF WriteConfig, IInv, TypeOK
<1>12. CASE Interrupt
  BY <1>12, ReturnIInv DEF Interrupt, IInv, TypeOK
<1>13. CASE UNCHANGED vars
  BY <1>13 DEF vars, answers, IInv, TypeOK, Underway, Verified, AskedFirst,
               StoredSoFar, StoredAll, Forgotten
<1> QED BY <1>1, <1>2, <1>3, <1>4, <1>5, <1>6, <1>7, <1>8, <1>9, <1>10, <1>11,
           <1>12, <1>13 DEF Next

\* The invariant holds of every run of the wizard.
THEOREM Inductive == Spec => []IInv
<1>1. IInv /\ [Next]_vars => IInv'
  BY Step
<1> QED BY InitIInv, <1>1, PTL DEF Spec

(* A run that ends at the overwrite question has changed nothing.           *)
THEOREM DecliningChangesNothing == Spec => DeclineLeavesPair
<1>1. ASSUME IInv, [Next]_vars, step = "confirm", step' = "idle"
      PROVE  keychain' = before.keychain /\ config' = before.config
  BY <1>1 DEF Next, vars, IInv, AskedFirst, Go, Begin, PasswordLogin, Where, Sync,
              Refuse, Asking, Confirm, Delete, Store, Render, OpenConfig, WriteConfig,
              Interrupt
<1>2. IInv /\ [Next]_vars =>
        [step = "confirm" /\ step' = "idle" =>
            keychain' = before.keychain /\ config' = before.config]_vars
  BY <1>1
<1> QED BY Inductive, <1>2, PTL DEF DeclineLeavesPair, Spec

(* A config is written only over a Keychain that holds every credential of  *)
(* its account, whatever failed or was interrupted in runs before.          *)
THEOREM WrittenOverOwnCredentials == Spec => WrittenConfigIsPaired
<1>1. ASSUME IInv, [Next]_vars, config' # config
      PROVE  Paired(config', keychain')
  <2>1. CASE OpenConfig
    BY <1>1, <2>1 DEF OpenConfig, Garbled, Paired
  <2>2. CASE WriteConfig
    BY <1>1, <2>2 DEF WriteConfig, RenderConfig, Paired, IInv, StoredAll
  <2> QED BY <1>1, <2>1, <2>2
          DEF Next, vars, Begin, PasswordLogin, Where, Sync, Refuse, Confirm, Delete,
              Store, Render, Interrupt
<1>2. IInv /\ [Next]_vars =>
        [config' # config => Paired(config', keychain')]_vars
  BY <1>1
<1> QED BY Inductive, <1>2, PTL DEF WrittenConfigIsPaired, Spec

\* What a run will write: a server that may be used, and keys that were chosen
\* among those of the account.
Selected ==
    /\ step # "idle" => ValidBaseUrl(url)
    /\ step \in {"confirm"} \cup Replacing =>
          chosen # <<>> /\ \E picks \in Answers : chosen = Chosen(account, picks)

\* Answers are taken once, and kept to the end of the run.
LEMMA SelectedStep ==
    ASSUME Selected, [Next]_vars
    PROVE  Selected'
<1> USE DEF Selected, Go, Asking, Replacing
<1>1. CASE Begin
  BY <1>1 DEF Begin
<1>2. CASE PasswordLogin
  BY <1>2 DEF PasswordLogin, answers
<1>3. CASE Where
  BY <1>3 DEF Where
<1>4. CASE Sync
  BY <1>4 DEF Sync
<1>5. CASE Confirm
  BY <1>5 DEF Confirm, Return, answers
<1>6. CASE Delete
  BY <1>6 DEF Delete, answers
<1>7. CASE Store
  BY <1>7 DEF Store, Return
<1>8. CASE Render
  BY <1>8 DEF Render, Return, answers
<1>9. CASE OpenConfig
  BY <1>9 DEF OpenConfig, Return, answers
<1>10. CASE Refuse \/ WriteConfig \/ Interrupt
  BY <1>10 DEF Refuse, WriteConfig, Interrupt, Return
<1>11. CASE UNCHANGED vars
  BY <1>11 DEF vars, answers
<1> QED BY <1>1, <1>2, <1>3, <1>4, <1>5, <1>6, <1>7, <1>8, <1>9, <1>10, <1>11 DEF Next

\* A config rendered from such answers loads as it stands, and builds under
\* launchd unless its credentials are those of an environment.
LEMMA RenderedLoads ==
    ASSUME NEW u \in Urls, ValidBaseUrl(u), NEW a \in Accounts,
           NEW ids, ListsOffered(ids, a), ids # <<>>, NEW from \in Sources
    PROVE  LET c == RenderConfig(u, a, ids, from)
           IN  /\ Load("default", c, NoEnvironment) = c
               /\ Builds(c, NoEnvironment) <=> ~UsesEnvCredentials(c)
<1> DEFINE c == RenderConfig(u, a, ids, from)
<1>1. /\ c.form = "yaml" /\ c.backend = "vaultwarden" /\ c.factor = "touch_id"
      /\ c.ids = ids /\ c.vw = [url |-> u, email |-> a, credentials |-> from]
  BY DEF RenderConfig
<1>2. c.vw # Absent
  BY <1>1, SetupAssumption DEF Sources
<1>3. \A i \in DOMAIN ids : ids[i] # Absent
  BY VaultAssumption DEF ListsOffered
<1>4. \E e \in 1..3 : NoEnvironment.vw[e] = Absent
  BY DEF NoEnvironment
<1> HIDE DEF c
<1>5. Valid(c)
  BY <1>1, <1>2, <1>3 DEF Valid
<1>6. Load("default", c, NoEnvironment) = c
  BY <1>1, <1>5 DEF Load, Read
<1>7. CredentialsSet(c, NoEnvironment) <=> from # "env"
  BY <1>1, <1>4 DEF CredentialsSet
<1>8. Builds(c, NoEnvironment) <=> ~UsesEnvCredentials(c)
  BY <1>1, <1>2, <1>7 DEF Builds, UsesEnvCredentials
<1> QED BY <1>6, <1>8 DEF c

(* What the wizard writes works: it loads as it is, builds under launchd if *)
(* its credentials are in the Keychain, and names keys of the account, each *)
(* once, that the account's own key opens.                                  *)
THEOREM WrittenConfigsServe == Spec => WrittenConfigServes
<1> DEFINE Serves(c) ==
        /\ Load("default", c, NoEnvironment) = c
        /\ Builds(c, NoEnvironment) <=> ~UsesEnvCredentials(c)
        /\ \A i, j \in DOMAIN c.ids : c.ids[i] = c.ids[j] => i = j
        /\ \A i \in DOMAIN c.ids : \E n \in DOMAIN Vault[c.vw.email] :
              LET item == Vault[c.vw.email][n]
              IN  /\ item.id = c.ids[i]
                  /\ item.sshKey # Absent =>
                        ExtractSecret(item, UserKey(c.vw.email)) # Absent
<1>1. ASSUME IInv, Selected, [Next]_vars, config' # config, config'.form = "yaml"
      PROVE  Serves(config')
  <2>1. ~OpenConfig
    BY <1>1 DEF OpenConfig, Garbled
  <2>2. WriteConfig
    BY <1>1, <2>1 DEF Next, vars, Begin, PasswordLogin, Where, Sync, Refuse, Confirm,
                      Delete, Store, Render, Interrupt
  <2>3. step = "write" /\ config' = RenderConfig(url, account, chosen, source)
    BY <1>1, <2>2 DEF WriteConfig
  <2>4. /\ url \in Urls /\ ValidBaseUrl(url) /\ account \in Accounts /\ source \in Sources
        /\ chosen # <<>>
    BY <1>1, <2>3 DEF IInv, TypeOK, Underway, Selected, Replacing
  <2>5. ListsOffered(chosen, account)
    BY <1>1, <2>3, <2>4, ChosenAreOffered DEF Selected, Replacing
  <2>6. config'.ids = chosen /\ config'.vw.email = account
    BY <2>3 DEF RenderConfig
  <2>7. /\ Load("default", config', NoEnvironment) = config'
        /\ Builds(config', NoEnvironment) <=> ~UsesEnvCredentials(config')
    BY <2>3, <2>4, <2>5, RenderedLoads
  <2>8. \A i \in DOMAIN chosen : \E n \in DOMAIN Vault[account] :
           /\ Vault[account][n].id = chosen[i]
           /\ Vault[account][n].sshKey # Absent =>
                 ExtractSecret(Vault[account][n], UserKey(account)) # Absent
    BY <2>4, <2>5, OfferedOpens DEF ListsOffered
  <2> QED BY <2>5, <2>6, <2>7, <2>8 DEF ListsOffered
<1>2. ASSUME IInv, Selected, [Next]_vars, config' # config, config'.form = "yaml"
      PROVE  LET c == Load("default", config', NoEnvironment)
                 vault == Vault[config'.vw.email]
                 key == UserKey(config'.vw.email)
             IN  /\ c = config'
                 /\ Builds(c, NoEnvironment) <=> ~UsesEnvCredentials(c)
                 /\ \A i, j \in DOMAIN c.ids : c.ids[i] = c.ids[j] => i = j
                 /\ \A i \in DOMAIN c.ids : \E n \in DOMAIN vault :
                       /\ vault[n].id = c.ids[i]
                       /\ vault[n].sshKey # Absent =>
                             ExtractSecret(vault[n], key) # Absent
  BY <1>1, <1>2
<1>3. Init => Selected
  BY DEF Init, Selected, Replacing
<1>4. Selected /\ [Next]_vars => Selected'
  BY SelectedStep
<1>5. IInv /\ Selected /\ [Next]_vars =>
        [config' # config /\ config'.form = "yaml" =>
            LET c == Load("default", config', NoEnvironment)
                vault == Vault[config'.vw.email]
                key == UserKey(config'.vw.email)
            IN  /\ c = config'
                /\ Builds(c, NoEnvironment) <=> ~UsesEnvCredentials(c)
                /\ \A i, j \in DOMAIN c.ids : c.ids[i] = c.ids[j] => i = j
                /\ \A i \in DOMAIN c.ids : \E n \in DOMAIN vault :
                      /\ vault[n].id = c.ids[i]
                      /\ vault[n].sshKey # Absent =>
                            ExtractSecret(vault[n], key) # Absent]_vars
  BY <1>2
<1> QED BY <1>3, <1>4, <1>5, Inductive, PTL DEF WrittenConfigServes, Spec

-----------------------------------------------------------------------------
(* Readers leave the wizard alone.                                          *)

\* A step of the composition is one of the wizard's or leaves it where it was.
LEMMA WizardOrStutter == [SystemNext]_systemVars => [Next]_vars
BY DEF SystemNext, systemVars, Wizard, Agent, Reader, Doctor, ReaderEnds

(* The composition implements the wizard: what is proved of Setup holds with *)
(* agents and doctors beside it.                                            *)
THEOREM ImplementsSetup == SystemSpec => Spec
<1>1. SystemInit => Init
  BY DEF SystemInit
<1> QED BY <1>1, WizardOrStutter, PTL DEF SystemSpec, Spec

(* With readers beside it, too, the wizard writes a config only over the    *)
(* credentials of its account, writes one that works, and declining changes *)
(* nothing.                                                                 *)
THEOREM WizardUnaffected ==
    SystemSpec => WrittenConfigIsPaired /\ WrittenConfigServes /\ DeclineLeavesPair
BY ImplementsSetup, WrittenOverOwnCredentials, WrittenConfigsServe,
   DecliningChangesNothing, PTL

-----------------------------------------------------------------------------
(* Whose session it is.                                                     *)

\* A session ends with its process.
NoProcessNoSession ==
    /\ reader = "none" <=> at = "exited"
    /\ reader = "none" => session = Absent

SessionIInv == NoProcessNoSession /\ SessionOfConfig

\* Whoever the bearer belongs to, a user key that opens is that of the
\* account of the email, of the password and of the bearer alike.
LEMMA OpensOneAccount ==
    ASSUME NEW a, NEW p, NEW email, NEW k,
           UnlockedKey(WrappedKey(a, AccountKdf), p, email, k) # Absent
    PROVE  /\ a = email
           /\ UnlockedKey(WrappedKey(a, AccountKdf), p, email, k) = UserKey(email)
BY DEF UnlockedKey, WrappedKey, MasterKey, Decrypt, Encrypted

\* A pass begins or resumes at one of three places.
LEMMA Resumes == \A c : Unlocking(c) \in {"fetch", "unlock", "exchange"}
BY DEF Unlocking

\* Logging in and fetching keep it.
LEMMA LoginSession ==
    ASSUME SessionIInv, LoginStep
    PROVE  SessionIInv'
<1> USE DEF SessionIInv, NoProcessNoSession, SessionOfConfig, At
<1>1. CASE Unlock
  BY <1>1 DEF Unlock, LoginFails
<1>2. CASE ReadEntry
  <2>1. PICK e \in Entries :
           /\ at = Reading[e]
           /\ IF keychain[e] = Absent
              THEN LoginFails
              ELSE /\ read' = [read EXCEPT ![e] = keychain[e]]
                   /\ At(IF e < 3 THEN Reading[e + 1] ELSE "exchange")
                   /\ UNCHANGED <<session, results>>
    BY <1>2 DEF ReadEntry
  <2>2. at # "exited"
    BY <2>1 DEF Reading, Entries
  <2>3. at' # "exited"
    BY <2>1 DEF Reading, Entries, LoginFails
  <2>4. UNCHANGED <<reader, loaded>> /\ session' \in {session, Absent}
    BY <1>2, <2>1 DEF ReadEntry, LoginFails
  <2> QED BY <2>2, <2>3, <2>4
<1>3. CASE Authenticate
  <2>1. at = "exchange" /\ at' \in {"fetch", "done"} /\ UNCHANGED <<reader, loaded>>
    BY <1>3 DEF Authenticate, LoginFails
  <2>2. ASSUME session' # Absent
        PROVE  session' = OwnSession(loaded.vw.email)
    <3>1. PICK k \in Kdfs : session' =
             [bearer |-> read[1],
              key |-> UnlockedKey(WrappedKey(read[1], AccountKdf), read[3],
                                  loaded.vw.email, k)]
      BY <1>3, <2>2 DEF Authenticate, LoginFails
    <3>2. session'.key # Absent
      BY <1>3, <2>2 DEF Authenticate, LoginFails
    <3> QED BY <3>1, <3>2, OpensOneAccount DEF OwnSession
  <2> QED BY <2>1, <2>2
<1>4. CASE Fetch
  BY <1>4, Resumes DEF Fetch
<1> QED BY <1>1, <1>2, <1>3, <1>4 DEF LoginStep

\* So does every other step.
LEMMA SessionStep ==
    ASSUME SessionIInv, [SystemNext]_systemVars
    PROVE  SessionIInv'
<1> USE DEF SessionIInv, NoProcessNoSession, SessionOfConfig
<1>1. CASE Wizard
  BY <1>1 DEF Wizard, readerVars
<1>2. CASE Agent
  BY <1>2, Resumes DEF Agent, Open, AnotherPass, At
<1>3. CASE Reader
  BY <1>3, LoginSession DEF Reader
<1>4. CASE Doctor
  BY <1>4, Resumes DEF Doctor, CheckConfig, CheckLocally, Probe, Verdict, Exit, At
<1>5. CASE ReaderEnds
  BY <1>5 DEF ReaderEnds, Exit
<1>6. CASE UNCHANGED systemVars
  BY <1>6 DEF systemVars, readerVars
<1> QED BY <1>1, <1>2, <1>3, <1>4, <1>5, <1>6 DEF SystemNext

(* However the reads of the Keychain interleave with runs of the wizard, a  *)
(* session is that of the account its config names, bearer and key both.    *)
THEOREM SessionsAreOfTheConfig == SystemSpec => []SessionOfConfig
<1>1. SystemInit => SessionIInv
  BY DEF SystemInit, LoginInit, SessionIInv, NoProcessNoSession, SessionOfConfig
<1>2. SessionIInv /\ [SystemNext]_systemVars => SessionIInv'
  BY SessionStep
<1>3. SessionIInv => SessionOfConfig
  BY DEF SessionIInv
<1> QED BY <1>1, <1>2, <1>3, PTL DEF SystemSpec

-----------------------------------------------------------------------------
(* Which config it is.                                                      *)

\* What is on disk is a file that is missing, or one that is not.
LEMMA ConfigForms ==
    \A c \in Configs : c # NoConfig => c.form \in {"garbled", "yaml"}
BY SetupAssumption DEF Configs, RenderConfig, Garbled

\* Wherever a process finds a file, it loads that file or nothing.
LEMMA LoadsTheFile ==
    ASSUME NEW c \in Configs, c # NoConfig, NEW flag, NEW env
    PROVE  Load(flag, c, env) \in {c, Refused}
BY ConfigForms DEF Load, Read, Refused

\* The wizard never removes the config.
LEMMA ConfigStays ==
    ASSUME [Next]_vars, config # NoConfig
    PROVE  config' # NoConfig
BY DEF Next, vars, Begin, PasswordLogin, Where, Sync, Refuse, Confirm, Delete, Store,
       Render, OpenConfig, WriteConfig, Interrupt, RenderConfig, Garbled, NoConfig

(* A config that is there is never silently replaced by the environment,    *)
(* whatever state an interrupted run of the wizard left it in.              *)
THEOREM NeverSwitchesSilently == SystemSpec => NoSilentSwitch
<1>1. ASSUME IInv, SessionIInv, [SystemNext]_systemVars, config # NoConfig
      PROVE  /\ config' # NoConfig
             /\ at = "exited" /\ at' # "exited" => loaded' \in {config, Refused}
  <2>1. config' # NoConfig
    BY <1>1, WizardOrStutter, ConfigStays
  <2>2. ASSUME at = "exited", at' # "exited"
        PROVE  loaded' \in {config, Refused}
    <3>1. config \in Configs
      BY <1>1 DEF IInv, TypeOK
    <3>2. reader = "none"
      BY <1>1, <2>2 DEF SessionIInv, NoProcessNoSession
    <3>3. CASE Open
      BY <1>1, <3>1, <3>3, LoadsTheFile DEF Open
    <3>4. CASE CheckConfig
      BY <1>1, <3>1, <3>4, LoadsTheFile DEF CheckConfig
    <3>5. ~LoginStep
      BY <2>2 DEF LoginStep, Unlock, ReadEntry, Authenticate, Fetch, Reading, Entries
    <3> QED BY <1>1, <2>2, <3>2, <3>3, <3>4, <3>5
            DEF SystemNext, systemVars, readerVars, Wizard, Agent, Reader, Doctor,
                ReaderEnds, AnotherPass, CheckLocally, Probe, Verdict, Exit
  <2> QED BY <2>1, <2>2
<1>2. IInv /\ SessionIInv /\ [SystemNext]_systemVars =>
        [config # NoConfig =>
            /\ config' # NoConfig
            /\ at = "exited" /\ at' # "exited" =>
                  loaded' \in {config, Refused}]_systemVars
  BY <1>1
<1>3. SystemSpec => []IInv
  BY ImplementsSetup, Inductive, PTL
<1>4. SystemSpec => []SessionIInv
  <2>1. SystemInit => SessionIInv
    BY DEF SystemInit, LoginInit, SessionIInv, NoProcessNoSession, SessionOfConfig
  <2>2. SessionIInv /\ [SystemNext]_systemVars => SessionIInv'
    BY SessionStep
  <2> QED BY <2>1, <2>2, PTL DEF SystemSpec
<1> QED BY <1>2, <1>3, <1>4, PTL DEF NoSilentSwitch, SystemSpec

-----------------------------------------------------------------------------
(* What the readers have at hand.                                           *)

\* Where a pass over the keys goes on.
Pass == {"unlock", "id", "secret", "password", "exchange", "fetch"}
PassUnderway == at \in Pass \/ reader = "agent"

\* A config that can be worked with.
Usable(c) ==
    /\ c.form = "yaml"
    /\ IsSequence(c.ids)
    /\ c.backend \in {"bws", "vaultwarden"}
    /\ c.backend = "vaultwarden" => c.vw.credentials \in Sources

LoadedUsable ==
    /\ loaded # Refused => Usable(loaded)
    /\ PassUnderway => loaded # Refused

\* The id of an environment lasts as long as its process.
EnvironmentKept ==
    PassUnderway /\ loaded.backend = "vaultwarden" /\ loaded.vw.credentials = "env"
        => read[1] \in Accounts

\* The id is read first.
IdIsRead == at \in {"secret", "password", "exchange"} => read[1] \in Accounts

ReaderIInv ==
    /\ LoginTypeOK
    /\ LoadedUsable
    /\ EnvironmentKept
    /\ IdIsRead

\* What loads can be worked with, whichever file and environment it is of.
LEMMA LoadedIsUsable ==
    ASSUME NEW c \in Configs, NEW flag, NEW env \in Environments \cup {NoEnvironment}
    PROVE  LET d == Load(flag, c, env)
           IN  /\ d \in Configs \cup {Refused}
                            \cup {FromEnv(e) : e \in Environments \cup {NoEnvironment}}
               /\ d # Refused => Usable(d)
<1>1. \A u \in Urls, a \in Accounts, ids \in Selections, s \in Sources :
         Usable(RenderConfig(u, a, ids, s))
  <2> TAKE u \in Urls, a \in Accounts, ids \in Selections, s \in Sources
  <2>1. IsSequence(ids)
    <3>1. CASE ids = <<>>
      BY <3>1, EmptySeq DEF IsSequence
    <3>2. CASE ids # <<>>
      <4>1. PICK b \in Accounts, p \in Answers : ids = Chosen(b, p)
        BY <3>2 DEF Selections
      <4> QED BY <4>1, ChosenAreOffered DEF ListsOffered
    <3> QED BY <3>1, <3>2
  <2> QED BY <2>1 DEF Usable, RenderConfig
<1>2. c.form = "yaml" => Usable(c)
  <2>1. CASE c \in {NoConfig, Garbled}
    BY <2>1 DEF NoConfig, Garbled
  <2>2. CASE c \in HandWritten
    BY <2>2, SetupAssumption DEF Usable, Sources
  <2> QED BY <1>1, <2>1, <2>2 DEF Configs
<1>3. FromEnv(env).form = "yaml" /\ Usable(FromEnv(env))
  <2>1. IsSequence(<<>>)
    BY EmptySeq DEF IsSequence
  <2>2. IsSequence(env.ids)
    <3>1. CASE env \in Environments
      BY <3>1, LoginAssumption
    <3>2. CASE env = NoEnvironment
      <4>1. env.ids = <<>>
        BY <3>2 DEF NoEnvironment
      <4> QED BY <2>1, <4>1
    <3> QED BY <3>1, <3>2
  <2> QED BY <2>2 DEF FromEnv, Usable
<1>4. Load(flag, c, env) = Refused
         \/ (Load(flag, c, env) = c /\ c.form = "yaml")
         \/ Load(flag, c, env) = FromEnv(env)
  BY DEF Load, Read
<1> QED BY <1>2, <1>3, <1>4

\* What is captured of an environment that a config builds with.
LEMMA CapturedAtHand ==
    ASSUME NEW c, Usable(c), NEW env \in Environments \cup {NoEnvironment},
           Builds(c, env)
    PROVE  /\ Captured(c, env) \in [Entries -> Accounts \cup {Absent}]
           /\ c.backend = "vaultwarden" /\ c.vw.credentials = "env" =>
                 Captured(c, env)[1] \in Accounts
           /\ Unlocking(c) = "exchange" =>
                 c.backend = "vaultwarden" /\ c.vw.credentials = "env"
<1>1. env.vw \in [Entries -> Accounts \cup {Absent}]
  BY LoginAssumption DEF NoEnvironment, Entries
<1>2. Unread \in [Entries -> Accounts \cup {Absent}]
  BY DEF Unread
<1>3. Captured(c, env) \in {env.vw, Unread}
  BY DEF Captured
<1>4. c.backend = "vaultwarden" /\ c.vw.credentials = "env" =>
         Captured(c, env)[1] \in Accounts
  BY DEF Captured, Builds
<1>5. Unlocking(c) = "exchange" =>
         c.backend = "vaultwarden" /\ c.vw.credentials = "env"
  BY DEF Unlocking, Usable, Sources
<1> QED BY <1>1, <1>2, <1>3, <1>4, <1>5

\* A pass without a session leaves a result for every key: those it has.
LEMMA FailedPass ==
    ASSUME ReaderIInv, loaded # Refused, LoginFails
    PROVE  /\ results' \in Seq(BOOLEAN)
           /\ Len(results') = Len(loaded.ids)
           /\ \A i \in DOMAIN results' :
                 results'[i] => i \in DOMAIN results /\ results[i]
<1> DEFINE marks == [i \in DOMAIN loaded.ids |-> i <= Len(results) /\ results[i]]
<1>1. Len(loaded.ids) \in Nat /\ DOMAIN loaded.ids = 1..Len(loaded.ids)
  BY SequenceIsFunction DEF ReaderIInv, LoadedUsable, Usable
<1>2. results' = marks
  BY DEF LoginFails
<1>3. marks \in [1..Len(loaded.ids) -> BOOLEAN]
  BY <1>1
<1>4. marks \in Seq(BOOLEAN) /\ Len(marks) = Len(loaded.ids)
  <2> HIDE DEF marks
  <2>1. marks \in Seq(BOOLEAN)
    BY <1>1, <1>3, SeqDef
  <2> QED BY <1>1, <1>3, <2>1, LenProperties
<1>5. results \in Seq(BOOLEAN)
  BY DEF ReaderIInv, LoginTypeOK
<1>6. \A i \in DOMAIN marks : marks[i] => i \in DOMAIN results /\ results[i]
  <2> SUFFICES ASSUME NEW i \in 1..Len(loaded.ids), marks[i]
               PROVE  i \in DOMAIN results /\ results[i]
    BY <1>1
  <2>1. i \in DOMAIN loaded.ids
    BY <1>1
  <2>2. marks[i] <=> i <= Len(results) /\ results[i]
    BY <2>1, Zenon
  <2>3. DOMAIN results = 1..Len(results) /\ Len(results) \in Nat
    BY <1>5, LenProperties
  <2> HIDE DEF marks
  <2>4. i <= Len(results) /\ results[i]
    BY <2>2
  <2> QED BY <1>1, <2>3, <2>4
<1>7. /\ results' \in Seq(BOOLEAN)
      /\ Len(results') = Len(loaded.ids)
  BY <1>2, <1>4
<1>8. \A i \in DOMAIN results' : results'[i] => i \in DOMAIN results /\ results[i]
  <2> HIDE DEF marks
  <2> QED BY <1>2, <1>6, Zenon
<1> QED BY <1>7, <1>8

\* Logging in and fetching keep it.
LEMMA LoginTyped ==
    ASSUME TypeOK, SessionIInv, ReaderIInv, LoginStep
    PROVE  ReaderIInv'
<1> USE DEF Pass, PassUnderway, At
<1>1. UNCHANGED <<reader, loaded>> /\ at \in Pass
  BY DEF LoginStep, Unlock, ReadEntry, Authenticate, Fetch, Reading, Entries
<1>2. loaded # Refused /\ Usable(loaded)
  BY <1>1 DEF ReaderIInv, LoadedUsable
<1>3. LoadedUsable'
  BY <1>1, <1>2 DEF LoadedUsable
<1>4. /\ Unread \in [Entries -> Accounts \cup {Absent}]
      /\ read \in [Entries -> Accounts \cup {Absent}]
  BY DEF Unread, ReaderIInv, LoginTypeOK
<1>5. CASE LoginFails
  <2>1. /\ results' \in Seq(BOOLEAN) /\ at' = "done" /\ session' = Absent
        /\ read' \in {read, Unread}
        /\ loaded.vw.credentials = "env" => read' = read
    BY <1>2, <1>5, FailedPass DEF LoginFails, FromKeychain
  <2>2. LoginTypeOK'
    BY <1>1, <1>4, <2>1 DEF ReaderIInv, LoginTypeOK
  <2>3. EnvironmentKept' /\ IdIsRead'
    BY <1>1, <2>1 DEF ReaderIInv, EnvironmentKept, IdIsRead
  <2> QED BY <1>3, <2>2, <2>3 DEF ReaderIInv
<1>6. CASE Unlock /\ ~LoginFails
  <2>1. at' = "id" /\ UNCHANGED <<read, session, results>>
    BY <1>6 DEF Unlock
  <2> QED BY <1>1, <1>3, <2>1
          DEF ReaderIInv, LoginTypeOK, EnvironmentKept, IdIsRead
<1>7. CASE ReadEntry /\ ~LoginFails
  <2>1. PICK e \in Entries :
           /\ at = Reading[e] /\ keychain[e] # Absent
           /\ read' = [read EXCEPT ![e] = keychain[e]]
           /\ at' = IF e < 3 THEN Reading[e + 1] ELSE "exchange"
           /\ UNCHANGED <<session, results>>
    BY <1>7 DEF ReadEntry
  <2>2. keychain[e] \in Accounts
    BY <2>1 DEF TypeOK
  <2>3. /\ read' \in [Entries -> Accounts \cup {Absent}]
        /\ e = 1 => read'[1] \in Accounts
        /\ e # 1 => read'[1] = read[1]
    BY <1>4, <2>1, <2>2 DEF Entries
  <2>4. /\ e = 1 => at = "id" /\ at' = "secret"
        /\ e = 2 => at = "secret" /\ at' = "password"
        /\ e = 3 => at = "password" /\ at' = "exchange"
        /\ e \in {1, 2, 3}
    BY <2>1 DEF Reading, Entries
  <2>5. read'[1] \in Accounts
    BY <2>3, <2>4 DEF ReaderIInv, IdIsRead
  <2> QED BY <1>1, <1>3, <2>1, <2>3, <2>4, <2>5
          DEF ReaderIInv, LoginTypeOK, EnvironmentKept, IdIsRead
<1>8. CASE Authenticate /\ ~LoginFails
  <2>1. PICK k \in Kdfs :
           /\ session' =
                [bearer |-> read[1],
                 key |-> UnlockedKey(WrappedKey(read[1], AccountKdf), read[3],
                                     loaded.vw.email, k)]
           /\ session'.key # Absent
           /\ at = "exchange" /\ at' = "fetch" /\ UNCHANGED results
           /\ read' = IF FromKeychain THEN Unread ELSE read
    BY <1>8 DEF Authenticate
  <2>2. read[1] \in Accounts
    BY <2>1 DEF ReaderIInv, IdIsRead
  <2>3. session' = OwnSession(read[1])
    BY <2>1, OpensOneAccount DEF OwnSession
  <2>4. session' \in [bearer : Accounts, key : {UserKey(a) : a \in Accounts}]
    BY <2>2, <2>3 DEF OwnSession
  <2>5. read' \in {read, Unread} /\ (loaded.vw.credentials = "env" => read' = read)
    BY <2>1 DEF FromKeychain
  <2> QED BY <1>1, <1>3, <1>4, <2>1, <2>4, <2>5
          DEF ReaderIInv, LoginTypeOK, EnvironmentKept, IdIsRead
<1>9. CASE Fetch
  <2>1. UNCHANGED <<reader, loaded, read>> /\ session' \in {session, Absent}
    BY <1>9 DEF Fetch
  <2>2. results \in Seq(BOOLEAN) /\ results' \in Seq(BOOLEAN)
    BY <1>9, AppendProperties DEF Fetch, ReaderIInv, LoginTypeOK
  <2>3. /\ at' \in {"done", "fetch", "unlock", "exchange"}
        /\ at' = "exchange" => Unlocking(loaded) = "exchange"
    BY <1>9, Resumes DEF Fetch
  <2>4. at' = "exchange" => read[1] \in Accounts
    BY <1>1, <1>2, <2>3
       DEF Unlocking, Usable, Sources, ReaderIInv, EnvironmentKept
  <2> QED BY <1>1, <1>3, <2>1, <2>2, <2>3, <2>4
          DEF ReaderIInv, LoginTypeOK, EnvironmentKept, IdIsRead
<1> QED BY <1>5, <1>6, <1>7, <1>8, <1>9 DEF LoginStep

\* So does every other step.
LEMMA ReaderStep ==
    ASSUME SystemTypeOK, SessionIInv, ReaderIInv, [SystemNext]_systemVars
    PROVE  ReaderIInv'
<1> USE DEF Pass, PassUnderway, At
<1>1. CASE Wizard \/ UNCHANGED systemVars
  BY <1>1 DEF Wizard, systemVars, readerVars, ReaderIInv, LoginTypeOK, LoadedUsable,
              EnvironmentKept, IdIsRead
<1>2. CASE Reader
  BY <1>2, LoginTyped DEF Reader, SystemTypeOK
<1>3. CASE Open
  <2>1. PICK flag \in {"default", "explicit"}, env \in Environments :
           /\ loaded' = Load(flag, config, env)
           /\ loaded' # Refused /\ Builds(loaded', env)
           /\ read' = Captured(loaded', env)
           /\ at' = Unlocking(loaded')
    BY <1>3 DEF Open
  <2>2. reader' = "agent" /\ session' = Absent /\ results' = <<>>
    BY <1>3 DEF Open
  <2>3. /\ loaded' \in Configs \cup {Refused}
                   \cup {FromEnv(e) : e \in Environments \cup {NoEnvironment}}
        /\ Usable(loaded')
    BY <2>1, LoadedIsUsable DEF SystemTypeOK, TypeOK
  <2> QED BY <2>1, <2>2, <2>3, CapturedAtHand, Resumes, EmptySeq
          DEF ReaderIInv, LoginTypeOK, LoadedUsable, EnvironmentKept, IdIsRead
<1>4. CASE AnotherPass
  <2>1. /\ reader = "agent" /\ UNCHANGED <<reader, loaded, read, session>>
        /\ results' = <<>>
        /\ at' \in {"fetch", "unlock", "exchange"}
        /\ at' = "exchange" => Unlocking(loaded) = "exchange"
    BY <1>4, Resumes DEF AnotherPass
  <2>2. loaded # Refused /\ Usable(loaded)
    BY <2>1 DEF ReaderIInv, LoadedUsable
  <2>3. at' = "exchange" => read[1] \in Accounts
    BY <2>1, <2>2 DEF Unlocking, Usable, Sources, ReaderIInv, EnvironmentKept
  <2> QED BY <2>1, <2>2, <2>3, EmptySeq
          DEF ReaderIInv, LoginTypeOK, LoadedUsable, EnvironmentKept, IdIsRead
<1>5. CASE CheckConfig
  <2>1. PICK flag \in {"default", "explicit"} : loaded' = Load(flag, config, shell')
    BY <1>5 DEF CheckConfig
  <2>2. /\ shell' \in Environments /\ reader' = "doctor" /\ at' = "local"
        /\ UNCHANGED <<read, session, results>>
    BY <1>5 DEF CheckConfig
  <2>3. /\ loaded' \in Configs \cup {Refused}
                   \cup {FromEnv(e) : e \in Environments \cup {NoEnvironment}}
        /\ loaded' # Refused => Usable(loaded')
    BY <2>1, <2>2, LoadedIsUsable DEF SystemTypeOK, TypeOK
  <2> QED BY <2>2, <2>3
          DEF ReaderIInv, LoginTypeOK, LoadedUsable, EnvironmentKept, IdIsRead
<1>6. CASE CheckLocally
  BY <1>6 DEF CheckLocally, ReaderIInv, LoginTypeOK, LoadedUsable, EnvironmentKept,
              IdIsRead
<1>7. CASE Probe
  <2>1. reader = "doctor" /\ UNCHANGED <<reader, loaded, session, results>>
    BY <1>7 DEF Probe
  <2>2. CASE at' = "done" /\ UNCHANGED read
    BY <2>1, <2>2 DEF ReaderIInv, LoginTypeOK, LoadedUsable, EnvironmentKept, IdIsRead
  <2>3. CASE /\ loaded # Refused /\ Builds(loaded, shell)
             /\ at' = Unlocking(loaded) /\ read' = Captured(loaded, shell)
    <3>1. Usable(loaded) /\ shell \in Environments \cup {NoEnvironment}
      BY <2>3 DEF ReaderIInv, LoadedUsable, SystemTypeOK
    <3> QED BY <2>1, <2>3, <3>1, CapturedAtHand, Resumes
            DEF ReaderIInv, LoginTypeOK, LoadedUsable, EnvironmentKept, IdIsRead
  <2> QED BY <1>7, <2>2, <2>3 DEF Probe
<1>8. CASE Exit
  <2>1. Unread \in [Entries -> Accounts \cup {Absent}]
    BY DEF Unread
  <2> QED BY <1>8, <2>1, EmptySeq
          DEF Exit, ReaderIInv, LoginTypeOK, LoadedUsable, EnvironmentKept, IdIsRead
<1> QED BY <1>1, <1>2, <1>3, <1>4, <1>5, <1>6, <1>7, <1>8
        DEF SystemNext, Agent, Doctor, Verdict, ReaderEnds

\* All that is known of the system, whoever takes a step.
SystemIInv == SystemTypeOK /\ SessionIInv /\ ReaderIInv

\* It holds throughout.
LEMMA SystemInductive == SystemSpec => []SystemIInv
<1>1. SystemInit /\ IInv => SystemIInv
  <2>1. Unread \in [Entries -> Accounts \cup {Absent}]
    BY DEF Unread
  <2> QED BY <2>1, EmptySeq
          DEF SystemInit, LoginInit, SystemTypeOK, LoginTypeOK, IInv, SessionIInv,
              NoProcessNoSession, SessionOfConfig, ReaderIInv, LoadedUsable,
              EnvironmentKept, IdIsRead, PassUnderway, Pass, Statuses, SystemIInv
<1>2. IInv' /\ SystemIInv /\ [SystemNext]_systemVars => SystemIInv'
  <2> SUFFICES ASSUME IInv', SystemIInv, [SystemNext]_systemVars PROVE SystemIInv'
    OBVIOUS
  <2>1. SessionIInv' /\ ReaderIInv'
    BY SessionStep, ReaderStep DEF SystemIInv
  <2>2. TypeOK' /\ LoginTypeOK'
    BY <2>1 DEF IInv, ReaderIInv
  <2>3. /\ shell' \in Environments \cup {NoEnvironment}
        /\ checkBackend' \in BOOLEAN
        /\ worst' \in Statuses
    <3>1. \A s, t \in Statuses : Worse(s, t) \in Statuses
      BY DEF Worse, Statuses
    <3>2. {"ok", "warn", "fail"} \subseteq Statuses /\ SystemLines \subseteq Statuses
      BY DoctorAssumption DEF Statuses
    <3>3. CredentialsLine \in Statuses /\ KeyLines \in Statuses
      BY DEF CredentialsLine, KeyLines, Statuses
    <3> QED BY <3>1, <3>2, <3>3
            DEF SystemIInv, SystemTypeOK, SystemNext, systemVars, doctorVars, Wizard,
                Agent, Reader, Doctor, CheckConfig, CheckLocally, Probe, Verdict,
                ReaderEnds
  <2> QED BY <2>1, <2>2, <2>3 DEF SystemIInv, SystemTypeOK
<1>3. SystemSpec => []IInv
  BY ImplementsSetup, Inductive, PTL
<1> QED BY <1>1, <1>2, <1>3, PTL DEF SystemSpec

(* The state of the wizard and of any reader beside it has its type.        *)
THEOREM SystemTyped == SystemSpec => []SystemTypeOK
<1>1. SystemIInv => SystemTypeOK
  BY DEF SystemIInv
<1> QED BY <1>1, SystemInductive, PTL

-----------------------------------------------------------------------------
(* What doctor says of the backend.                                         *)

\* A key that the account of c can fetch, with the key that opens its items.
Opens(c, id) == \E n \in DOMAIN Vault[c.vw.email] :
    LET item == Vault[c.vw.email][n]
    IN  item.id = id /\ ExtractSecret(item, UserKey(c.vw.email)) # Absent

\* With Vaultwarden nothing is fetched without a session.
FetchHasSession == at = "fetch" /\ loaded.backend = "vaultwarden" => session # Absent

\* A key that was fetched is one of the account the config names.
ResultsAreTrue ==
    /\ reader = "none" => results = <<>>
    /\ loaded # Refused /\ loaded.backend = "vaultwarden" =>
          \A i \in DOMAIN results : results[i] => Opens(loaded, loaded.ids[i])

\* No config is a failure already.
RefusedFails ==
    /\ checkBackend => reader = "doctor"
    /\ reader = "doctor" /\ loaded = Refused => worst = "fail"

\* A pass that has ended left a result for every key.
ResultForEach ==
    at = "done" /\ checkBackend /\ worst # "fail" => Len(results) = Len(loaded.ids)

DoctorIInv ==
    /\ FetchHasSession
    /\ ResultsAreTrue
    /\ RefusedFails
    /\ ResultForEach

\* Logging in and fetching keep it.
LEMMA LoginProbed ==
    ASSUME SystemIInv, DoctorIInv, Reader
    PROVE  DoctorIInv'
<1> USE DEF At
<1>1. UNCHANGED <<reader, loaded, worst, checkBackend>> /\ at \in Pass
  BY DEF Reader, doctorVars, LoginStep, Unlock, ReadEntry, Authenticate, Fetch,
         Reading, Entries, Pass
<1>2. loaded # Refused /\ Usable(loaded) /\ reader # "none"
  BY <1>1 DEF SystemIInv, ReaderIInv, LoadedUsable, PassUnderway, SessionIInv,
              NoProcessNoSession, Pass
<1>3. RefusedFails'
  BY <1>1 DEF DoctorIInv, RefusedFails
<1>4. CASE LoginFails
  <2>1. at' = "done" /\ Len(results') = Len(loaded.ids)
    BY <1>2, <1>4, FailedPass DEF LoginFails, SystemIInv
  <2>2. \A i \in DOMAIN results' : results'[i] => i \in DOMAIN results /\ results[i]
    BY <1>2, <1>4, FailedPass DEF SystemIInv
  <2>3. loaded.backend = "vaultwarden" =>
           \A i \in DOMAIN results' : results'[i] => Opens(loaded, loaded.ids[i])
    BY <1>2, <2>2, Zenon DEF DoctorIInv, ResultsAreTrue
  <2>4. ResultsAreTrue'
    BY <1>1, <1>2, <2>3 DEF ResultsAreTrue, Opens
  <2> QED BY <1>1, <1>3, <2>1, <2>4 DEF DoctorIInv, FetchHasSession, ResultForEach
<1>5. CASE UNCHANGED results /\ at' # "done" /\ (at' = "fetch" => session' # Absent)
  <2>1. ResultsAreTrue'
    BY <1>1, <1>5 DEF DoctorIInv, ResultsAreTrue, Opens
  <2> QED BY <1>1, <1>3, <1>5, <2>1 DEF DoctorIInv, FetchHasSession, ResultForEach
<1>6. CASE Unlock
  BY <1>4, <1>5, <1>6 DEF Unlock
<1>7. CASE ReadEntry
  BY <1>4, <1>5, <1>7 DEF ReadEntry, Reading, Entries
<1>8. CASE Authenticate
  <2>1. CASE ~LoginFails
    <3>1. PICK k \in Kdfs :
             /\ session' =
                  [bearer |-> read[1],
                   key |-> UnlockedKey(WrappedKey(read[1], AccountKdf), read[3],
                                       loaded.vw.email, k)]
             /\ session'.key # Absent
             /\ at = "exchange" /\ at' = "fetch" /\ UNCHANGED results
      BY <1>8, <2>1 DEF Authenticate
    <3>2. read[1] \in Accounts
      BY <3>1 DEF SystemIInv, ReaderIInv, IdIsRead
    <3>3. session' = [bearer |-> read[1], key |-> UserKey(read[1])]
      BY <3>1, OpensOneAccount
    <3> QED BY <1>5, <3>1, <3>2, <3>3, LoginAssumption
  <2> QED BY <1>4, <2>1
<1>9. CASE Fetch
  <2>1. CASE session' = Absent /\ at' = Unlocking(loaded) /\ UNCHANGED results
    <3>1. at' # "done" /\ (at' = "fetch" => loaded.backend = "bws")
      BY <2>1 DEF Unlocking
    <3>2. ResultsAreTrue'
      BY <1>1, <2>1 DEF DoctorIInv, ResultsAreTrue, Opens
    <3> QED BY <1>1, <1>3, <3>1, <3>2 DEF DoctorIInv, FetchHasSession, ResultForEach
  <2>2. CASE /\ Len(results) < Len(loaded.ids)
             /\ \E ok \in BOOLEAN :
                   /\ ok => Fetchable(loaded.ids[Len(results) + 1])
                   /\ results' = Append(results, ok)
             /\ at' = IF Len(results) + 1 = Len(loaded.ids) THEN "done" ELSE "fetch"
             /\ UNCHANGED session
    <3>1. PICK ok \in BOOLEAN :
             /\ ok => Fetchable(loaded.ids[Len(results) + 1])
             /\ results' = Append(results, ok)
      BY <2>2
    <3>2. results \in Seq(BOOLEAN)
      BY DEF SystemIInv, ReaderIInv, LoginTypeOK
    <3>3. /\ Len(results) \in Nat
          /\ Len(results') = Len(results) + 1
          /\ DOMAIN results' = 1..(Len(results) + 1)
          /\ results'[Len(results) + 1] = ok
          /\ \A i \in 1..Len(results) : i \in DOMAIN results /\ results'[i] = results[i]
      BY <3>1, <3>2, AppendProperties, LenProperties
    <3>4. loaded.backend = "vaultwarden" /\ ok =>
             Opens(loaded, loaded.ids[Len(results) + 1])
      <4> SUFFICES ASSUME loaded.backend = "vaultwarden", ok
                   PROVE  Opens(loaded, loaded.ids[Len(results) + 1])
        OBVIOUS
      <4>1. session # Absent
        BY <1>9 DEF DoctorIInv, FetchHasSession, Fetch
      <4>2. session.bearer = loaded.vw.email /\ session.key = UserKey(loaded.vw.email)
        BY <4>1 DEF SystemIInv, SessionIInv, SessionOfConfig, OwnSession
      <4> QED BY <3>1, <4>2 DEF Fetchable, Opens
    <3>5. loaded.backend = "vaultwarden" =>
             \A i \in DOMAIN results' : results'[i] => Opens(loaded, loaded.ids[i])
      <4> SUFFICES ASSUME loaded.backend = "vaultwarden",
                          NEW i \in 1..(Len(results) + 1), results'[i]
                   PROVE  Opens(loaded, loaded.ids[i])
        BY <3>3
      <4>1. CASE i = Len(results) + 1
        BY <3>3, <3>4, <4>1
      <4>2. CASE i \in 1..Len(results)
        BY <1>2, <3>3, <4>2 DEF DoctorIInv, ResultsAreTrue
      <4> QED BY <3>3, <4>1, <4>2
    <3>6. ResultsAreTrue'
      BY <1>1, <1>2, <3>5 DEF ResultsAreTrue, Opens
    <3>7. FetchHasSession'
      BY <1>1, <1>9, <2>2 DEF DoctorIInv, FetchHasSession, Fetch
    <3>8. ResultForEach'
      BY <1>1, <2>2, <3>3 DEF ResultForEach
    <3> QED BY <1>3, <3>6, <3>7, <3>8 DEF DoctorIInv
  <2> QED BY <1>9, <2>1, <2>2 DEF Fetch
<1> QED BY <1>6, <1>7, <1>8, <1>9 DEF Reader, LoginStep

\* So does every other step.
LEMMA DoctorStep ==
    ASSUME SystemIInv, DoctorIInv, [SystemNext]_systemVars
    PROVE  DoctorIInv'
<1> USE DEF DoctorIInv, FetchHasSession, ResultsAreTrue, RefusedFails, ResultForEach,
            Opens, At
<1>1. CASE Wizard \/ UNCHANGED systemVars
  BY <1>1 DEF Wizard, systemVars, readerVars, doctorVars
<1>2. CASE Reader
  BY <1>2, LoginProbed
<1>3. CASE Open /\ UNCHANGED checkBackend
  <2>1. /\ reader = "none" /\ reader' = "agent" /\ results' = <<>>
        /\ at' = Unlocking(loaded')
    BY <1>3 DEF Open
  <2> QED BY <1>3, <2>1 DEF Unlocking
<1>4. CASE AnotherPass /\ UNCHANGED checkBackend
  <2>1. /\ reader = "agent" /\ UNCHANGED <<reader, loaded, read, session>>
        /\ results' = <<>>
        /\ at' = IF session = Absent THEN Unlocking(loaded) ELSE "fetch"
    BY <1>4 DEF AnotherPass
  <2> QED BY <1>4, <2>1 DEF Unlocking
<1>5. CASE CheckConfig
  BY <1>5 DEF CheckConfig
<1>6. CASE CheckLocally
  BY <1>6 DEF CheckLocally, Worse
<1>7. CASE Probe
  BY <1>7 DEF Probe, Unlocking, Worse
<1>8. CASE Exit /\ checkBackend' = FALSE
  BY <1>8 DEF Exit, Refused
<1> QED BY <1>1, <1>2, <1>3, <1>4, <1>5, <1>6, <1>7, <1>8
        DEF SystemNext, Agent, Doctor, Verdict, ReaderEnds

(* A doctor that exits with success after --check-backend has seen every key *)
(* of its config fetched, by the account and with the key that config names. *)
THEOREM SuccessMeansFetched == SystemSpec => DoctorVouches
<1>1. ASSUME SystemIInv, DoctorIInv, [SystemNext]_systemVars,
             checkBackend, reader' = "none", worst' # "fail"
      PROVE  /\ loaded # Refused
             /\ Len(results) = Len(loaded.ids)
             /\ loaded.backend = "vaultwarden" =>
                   \A i \in DOMAIN loaded.ids : Opens(loaded, loaded.ids[i])
  <2>1. reader = "doctor"
    BY <1>1 DEF DoctorIInv, RefusedFails
  <2>2. Verdict
    BY <1>1, <2>1
       DEF SystemNext, systemVars, readerVars, Wizard, Agent, Open, AnotherPass, Reader,
           LoginStep, Unlock, ReadEntry, Authenticate, Fetch, Doctor, CheckConfig,
           CheckLocally, Probe, ReaderEnds
  <2>3. at = "done" /\ worst # "fail" /\ KeyLines # "fail"
    BY <1>1, <2>2 DEF Verdict, Worse
  <2>4. loaded # Refused /\ Len(results) = Len(loaded.ids)
    BY <1>1, <2>1, <2>3 DEF DoctorIInv, RefusedFails, ResultForEach
  <2>5. DOMAIN results = DOMAIN loaded.ids
    <3>1. results \in Seq(BOOLEAN) /\ IsSequence(loaded.ids)
      BY <1>1, <2>4 DEF SystemIInv, ReaderIInv, LoginTypeOK, LoadedUsable, Usable
    <3> QED BY <2>4, <3>1, SequenceIsFunction, LenProperties
  <2>6. \A i \in DOMAIN results : results[i]
    BY <2>3 DEF KeyLines
  <2> QED BY <1>1, <2>4, <2>5, <2>6 DEF DoctorIInv, ResultsAreTrue
<1>2. SystemIInv /\ DoctorIInv /\ [SystemNext]_systemVars =>
        [checkBackend /\ reader' = "none" /\ worst' # "fail" =>
            /\ loaded # Refused
            /\ Len(results) = Len(loaded.ids)
            /\ loaded.backend = "vaultwarden" =>
                  \A i \in DOMAIN loaded.ids : \E j \in DOMAIN Vault[loaded.vw.email] :
                     LET item == Vault[loaded.vw.email][j]
                     IN  /\ item.id = loaded.ids[i]
                         /\ ExtractSecret(item, UserKey(loaded.vw.email)) # Absent
        ]_systemVars
  BY <1>1 DEF Opens
<1>3. SystemInit => DoctorIInv
  BY DEF SystemInit, LoginInit, DoctorIInv, FetchHasSession, ResultsAreTrue,
         RefusedFails, ResultForEach
<1>4. SystemIInv /\ DoctorIInv /\ [SystemNext]_systemVars => DoctorIInv'
  BY DoctorStep
<1> QED BY <1>2, <1>3, <1>4, SystemInductive, PTL DEF DoctorVouches, SystemSpec
================================================================================
