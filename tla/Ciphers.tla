------------------------------- MODULE Ciphers -------------------------------
(***************************************************************************)
(* What the cryptography of src/secret_source.rs and src/vaultwarden.rs    *)
(* promises, symbolically: a ciphertext is the key it was made under and   *)
(* what it holds, and a key is what it was derived from.  Absent stands    *)
(* for anything that does not parse or does not decrypt.                   *)
(***************************************************************************)
EXTENDS Naturals, Sequences, FiniteSets

CONSTANTS
    Accounts,
    Absent

\* Absent is neither an account nor a key.
ASSUME CiphersAssumption ==
    /\ Absent \notin Accounts
    /\ \A a \in Accounts : Absent # [account |-> a, item |-> 0]

Encrypted(key, value) == [under |-> key, holds |-> value]

\* Fault: the MAC is not verified before the ciphertext is opened.
Decrypt_NoMac(enc, key) == enc.holds

\* The MAC fails under every key but the one the ciphertext was made under.
Decrypt(enc, key) == IF enc.under = key THEN enc.holds ELSE Absent

-----------------------------------------------------------------------------
(* Keys of an account.                                                      *)

Pbkdf2(n) == [kdf |-> 0, iterations |-> n, memory |-> 0, parallelism |-> 0]

Argon2id(n, mib, lanes) ==
    [kdf |-> 1, iterations |-> n, memory |-> mib, parallelism |-> lanes]

\* Neither a downgrade nor a denial of service.  0 is a parameter left out.
KdfAccepted(k) ==
    \/ k.kdf = 0 /\ k.iterations \in 5000..10000000
    \/ /\ k.kdf = 1
       /\ k.iterations \in 1..100
       /\ k.memory \in 8..2048
       /\ k.parallelism \in 1..16

\* Of the account whose password it is, salted with the email of another.
MasterKey(password, email, k) ==
    [password |-> password, email |-> email, kdf |-> k]

UserKey(a) == [account |-> a, item |-> 0]
ItemKey(a, n) == [account |-> a, item |-> n]

\* The `Key` of a token response: the user key under the master key.
WrappedKey(a, k) == Encrypted(MasterKey(a, a, k), UserKey(a))

\* What a login with this password and email makes of it.
UnlockedKey(wrapped, password, email, k) ==
    IF KdfAccepted(k) THEN Decrypt(wrapped, MasterKey(password, email, k)) ELSE Absent

-----------------------------------------------------------------------------
(* Vault items.                                                             *)

SshKeyType == 5

\* An item may have a key of its own, wrapped by the user key.
ResolveCipherKey(item, userKey) ==
    IF item.key = Absent THEN userKey ELSE Decrypt(item.key, userKey)

ItemName(item, userKey) ==
    LET key == ResolveCipherKey(item, userKey)
    IN  IF key = Absent THEN Absent ELSE Decrypt(item.name, key)

Listable(item) == item.type = SshKeyType /\ ~item.organization

\* `extract_secret`: the private key, under the same key as the name.
ExtractSecret(item, userKey) ==
    LET key == ResolveCipherKey(item, userKey)
    IN  IF Listable(item) /\ item.sshKey # Absent /\ ItemName(item, userKey) # Absent
        THEN Decrypt(item.sshKey, key) ELSE Absent

IsSequence(s) == s \in Seq({s[i] : i \in DOMAIN s})

\* The position in P that is the n-th of them.
Nth(P, n) == CHOOSE p \in P : Cardinality({q \in P : q <= p}) = n

\* What s holds at the positions in P, in its order.
Picked(s, P) == [n \in 1..Cardinality(P) |-> s[Nth(P, n)]]

\* One name that does not decrypt fails the listing, which is then empty.
SshKeyItems(ciphers, userKey) ==
    LET ssh == Picked(ciphers, {i \in DOMAIN ciphers : Listable(ciphers[i])})
    IN  IF \E i \in DOMAIN ssh : ItemName(ssh[i], userKey) = Absent
        THEN <<>> ELSE [i \in DOMAIN ssh |-> ssh[i].id]

\* Fault: a number given twice is selected twice.
SelectIndices_Repeats(picks, len) ==
    IF picks = <<>> THEN [i \in 1..len |-> i]
    ELSE IF \E i \in DOMAIN picks : picks[i] \notin 1..len THEN <<>>
    ELSE picks

\* No picks select everything, a number out of range selects nothing, a
\* number given twice counts once.
SelectIndices(picks, len) ==
    IF picks = <<>> THEN [i \in 1..len |-> i]
    ELSE IF \E i \in DOMAIN picks : picks[i] \notin 1..len THEN <<>>
    ELSE Picked(picks, {i \in DOMAIN picks : \A j \in 1..(i - 1) : picks[j] # picks[i]})

-----------------------------------------------------------------------------
(* Machine access tokens.                                                   *)

\* `0.<client uuid>.<secret>:<16-byte seed>`
ValidAccessToken(t) ==
    t.parts = 3 /\ t.version = 0 /\ t.clientId = "uuid" /\ t.seedBytes = 16
=============================================================================
