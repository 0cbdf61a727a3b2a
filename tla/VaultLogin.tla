------------------------------ MODULE VaultLogin ------------------------------
(***************************************************************************)
(* A process that opens the config and fetches the keys it names from      *)
(* Vaultwarden, while the wizard of Setup may be replacing the config and  *)
(* the three Keychain entries: an agent, which keeps its session and makes *)
(* a pass over the keys every time one is missing, or `doctor              *)
(* --check-backend` of Doctor, which makes one pass.                       *)
(*                                                                         *)
(* src/vaultwarden.rs `acquire_credentials`, `authenticate` and `get`,     *)
(* with what BackendFetcher leaves out: whose credentials were read, whose *)
(* bearer and user key the session holds, and whose items it opens.        *)
(* Backoff, the lock and the bounded retry are BackendFetcher's.           *)
(***************************************************************************)
EXTENDS Setup

CONSTANT
    Environments   \* what a process may be started with

ASSUME LoginAssumption ==
    /\ \A env \in Environments :
          IsSequence(env.ids) /\ env.vw \in [Entries -> Accounts \cup {Absent}]
    /\ \A a \in Accounts : [bearer |-> a, key |-> UserKey(a)] # Absent

VARIABLES
    reader,   \* "none", "agent" or "doctor"
    at,       \* where it is, "exited" when there is none
    loaded,   \* the config it was started with
    read,     \* the credentials it has read and not dropped yet
    session,  \* the bearer's account and the user key, or Absent
    results   \* of the pass: which keys could be fetched so far

readerVars == <<reader, at, loaded, read, session, results>>

Reading == <<"id", "secret", "password">>
Unread == [e \in Entries |-> Absent]
OwnSession(a) == [bearer |-> a, key |-> UserKey(a)]

LoginTypeOK ==
    /\ reader \in {"none", "agent", "doctor"}
    /\ at \in {"exited", "unlock", "id", "secret", "password", "exchange", "fetch",
               "done", "local", "probe"}
    /\ loaded \in Configs \cup {Refused}
                      \cup {FromEnv(env) : env \in Environments \cup {NoEnvironment}}
    /\ read \in [Entries -> Accounts \cup {Absent}]
    /\ session \in [bearer : Accounts, key : {UserKey(a) : a \in Accounts}]
                       \cup {Absent}
    /\ results \in Seq(BOOLEAN)

LoginInit ==
    /\ reader = "none"
    /\ at = "exited"
    /\ loaded = Refused
    /\ read = Unread
    /\ session = Absent
    /\ results = <<>>

At(to) == at' = to

\* Credentials of the environment are kept, those of the Keychain are not.
FromKeychain == loaded.vw.credentials = "keychain"

-----------------------------------------------------------------------------
(* Logging in.                                                              *)

\* Where a pass begins, or resumes when its session has expired.
Unlocking(c) ==
    CASE c.backend = "bws" -> "fetch"
      [] c.backend # "bws" /\ c.vw.credentials = "keychain" -> "unlock"
      [] OTHER -> "exchange"

\* What `build_fetcher` keeps of the environment.
Captured(c, env) ==
    IF c.backend = "vaultwarden" /\ c.vw.credentials = "env" THEN env.vw ELSE Unread

\* `start --fg`: what does not load or does not build ends the process.
Open ==
    /\ reader = "none"
    /\ \E flag \in {"default", "explicit"}, env \in Environments :
          LET c == Load(flag, config, env)
          IN  /\ c # Refused /\ Builds(c, env)
              /\ loaded' = c
              /\ read' = Captured(c, env)
              /\ At(Unlocking(c))
    /\ reader' = "agent"
    /\ session' = Absent /\ results' = <<>>

\* No session: every key left of this pass fails, most of them in backoff.
LoginFails ==
    /\ results' = [i \in DOMAIN loaded.ids |-> i <= Len(results) /\ results[i]]
    /\ At("done")
    /\ read' = IF FromKeychain THEN Unread ELSE read
    /\ session' = Absent

\* The gate's verdict; only then is the Keychain read.
Unlock ==
    /\ at = "unlock"
    /\ \/ At("id") /\ UNCHANGED <<read, session, results>>
       \/ LoginFails
    /\ UNCHANGED <<reader, loaded>>

\* One entry at a time.
ReadEntry ==
    /\ \E e \in Entries :
          /\ at = Reading[e]
          /\ IF keychain[e] = Absent
             THEN LoginFails
             ELSE /\ read' = [read EXCEPT ![e] = keychain[e]]
                  /\ At(IF e < 3 THEN Reading[e + 1] ELSE "exchange")
                  /\ UNCHANGED <<session, results>>
    /\ UNCHANGED <<reader, loaded>>

\* Fault: a user key that does not open is left for the fetch to notice.
Authenticate_Unopened ==
    /\ at = "exchange"
    /\ \/ /\ read[1] = read[2]
          /\ \E k \in Kdfs : session' =
                [bearer |-> read[1],
                 key |-> UnlockedKey(WrappedKey(read[1], AccountKdf), read[3],
                                     loaded.vw.email, k)]
          /\ At("fetch")
          /\ read' = IF FromKeychain THEN Unread ELSE read
          /\ UNCHANGED results
       \/ LoginFails
    /\ UNCHANGED <<reader, loaded>>

\* The server knows the account by the id and its secret, and reports a key
\* derivation; its user key opens under the password that was read and the
\* email of the config.
Authenticate ==
    /\ at = "exchange"
    /\ \/ /\ read[1] = read[2]
          /\ \E k \in Kdfs : session' =
                [bearer |-> read[1],
                 key |-> UnlockedKey(WrappedKey(read[1], AccountKdf), read[3],
                                     loaded.vw.email, k)]
          /\ session'.key # Absent
          /\ At("fetch")
          /\ read' = IF FromKeychain THEN Unread ELSE read
          /\ UNCHANGED results
       \/ LoginFails
    /\ UNCHANGED <<reader, loaded>>

-----------------------------------------------------------------------------
(* Fetching.                                                                *)

\* The bearer's account sees its own items.
Fetchable(id) == loaded.backend = "vaultwarden" =>
    \E i \in DOMAIN Vault[session.bearer] :
       LET item == Vault[session.bearer][i]
       IN  item.id = id /\ ExtractSecret(item, session.key) # Absent

\* The next key; the request may fail, and the bearer may have expired.
Fetch ==
    /\ at = "fetch"
    /\ \/ /\ Len(results) < Len(loaded.ids)
          /\ \E ok \in BOOLEAN :
                /\ ok => Fetchable(loaded.ids[Len(results) + 1])
                /\ results' = Append(results, ok)
          /\ At(IF Len(results) + 1 = Len(loaded.ids) THEN "done" ELSE "fetch")
          /\ UNCHANGED session
       \/ /\ session # Absent
          /\ session' = Absent
          /\ At(Unlocking(loaded))
          /\ UNCHANGED results
    /\ UNCHANGED <<reader, loaded, read>>

\* An agent starts over when a key is asked for that it lacks.
AnotherPass ==
    /\ reader = "agent" /\ at = "done"
    /\ results' = <<>>
    /\ At(IF session = Absent THEN Unlocking(loaded) ELSE "fetch")
    /\ UNCHANGED <<reader, loaded, read, session>>

Exit ==
    /\ reader # "none"
    /\ reader' = "none" /\ at' = "exited" /\ loaded' = Refused
    /\ read' = Unread /\ session' = Absent /\ results' = <<>>

LoginStep == Unlock \/ ReadEntry \/ Authenticate \/ Fetch

-----------------------------------------------------------------------------
(* Properties.                                                              *)

(* Three reads while the wizard replaces what they read: whatever mixture   *)
(* of two accounts they saw, a session is only ever that of the account the *)
(* config names, bearer and user key both.                                  *)
SessionOfConfig == session # Absent => session = OwnSession(loaded.vw.email)
=============================================================================
