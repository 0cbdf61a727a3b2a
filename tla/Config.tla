-------------------------------- MODULE Config --------------------------------
(***************************************************************************)
(* The configuration, src/config.rs: what `Config::load` makes of a file   *)
(* and of the environment, and what `build_authorizer` and `build_fetcher` *)
(* of src/agent.rs still refuse.                                           *)
(*                                                                         *)
(* A file is missing, garbled (unreadable, no YAML, a field of the wrong   *)
(* type or missing, truncated) or the fields that were read from it.  An   *)
(* environment holds what the variables are set to, Absent when unset.     *)
(***************************************************************************)
EXTENDS Ciphers

NoConfig == [form |-> "missing"]
Garbled == [form |-> "garbled"]

\* Of one setting that is refused: no configuration.
Refused == [form |-> "refused"]

NoEnvironment == [ids |-> <<>>, endpoint |-> Absent, token |-> Absent,
                  vw |-> <<Absent, Absent, Absent>>]

-----------------------------------------------------------------------------
(* Addresses of a backend: `extras` are userinfo, a query or a fragment.    *)

\* https, or http to this very machine.
ValidBaseUrl(u) ==
    /\ u.host
    /\ ~u.extras
    /\ u.scheme = "https" \/ (u.scheme = "http" /\ u.loopback)

\* Unset, a full base URL or a bare host.
ValidEndpoint(e) ==
    e # Absent =>
        IF e.scheme = Absent THEN e.host /\ ~e.path /\ ~e.extras ELSE ValidBaseUrl(e)

-----------------------------------------------------------------------------
(* Loading.                                                                 *)

\* The registered security key: an id and a public key of its algorithm.
Verifies(yubikey) ==
    /\ yubikey.credentialId = "base64"
    /\ yubikey.publicKey # Absent
    /\ yubikey.publicKey.bytes = yubikey.publicKey.algorithm

Valid(c) ==
    /\ c.ids # <<>>
    /\ \A i \in DOMAIN c.ids : c.ids[i] # Absent    \* not a UUID
    /\ c.backend = "vaultwarden" => c.vw # Absent /\ ValidBaseUrl(c.vw.url)
    /\ c.backend = "bws" => ValidEndpoint(c.endpoint)
    /\ c.factor = "yubikey" => c.yubikey # Absent /\ Verifies(c.yubikey)

\* Everything but the secret ids and the endpoint takes its default.
FromEnv(env) ==
    [form |-> "yaml", backend |-> "bws", credentials |-> "env",
     ids |-> env.ids, endpoint |-> env.endpoint, vw |-> Absent,
     factor |-> "touch_id", yubikey |-> Absent]

\* Fault: a file that does not parse is taken for a missing one.
Read_Lenient(flag, file, env) ==
    CASE file.form = "yaml" -> file
      [] flag = "explicit" /\ file.form = "missing" -> Refused
      [] OTHER -> FromEnv(env)

\* The environment stands in for a missing default file and for nothing else.
Read(flag, file, env) ==
    CASE file.form = "yaml" -> file
      [] file.form = "garbled" -> Refused
      [] flag = "explicit" /\ file.form = "missing" -> Refused
      [] OTHER -> FromEnv(env)

\* `load`
Load(flag, file, env) ==
    LET c == Read(flag, file, env)
    IN  IF c.form = "yaml" /\ Valid(c) THEN c ELSE Refused

-----------------------------------------------------------------------------
(* Using it.                                                                *)

\* What a LaunchAgent cannot have.
UsesEnvCredentials(c) ==
    IF c.backend = "bws" THEN c.credentials = "env"
    ELSE c.vw = Absent \/ c.vw.credentials = "env"

\* The variables a configuration names are set.
CredentialsSet(c, env) ==
    /\ c.backend = "bws" /\ c.credentials = "env" => env.token # Absent
    /\ c.backend = "vaultwarden" /\ c.vw.credentials = "env" =>
           \A e \in 1..3 : env.vw[e] # Absent

\* `build_authorizer` and `build_fetcher`: credentials of the environment
\* are looked at here, those of the Keychain at the first login.
Builds(c, env) ==
    /\ c.factor = "yubikey" => c.yubikey # Absent /\ Verifies(c.yubikey)
    /\ CredentialsSet(c, env)
    /\ c.backend = "bws" =>
           /\ c.credentials = "env" => ValidAccessToken(env.token)
           /\ ValidEndpoint(c.endpoint)
    /\ c.backend = "vaultwarden" =>
           /\ ValidBaseUrl(c.vw.url)
           /\ c.vw.credentials = "env" => env.vw[1] \in Accounts   \* user.<uuid>
===============================================================================
