-------------------------------- MODULE Setup --------------------------------
(***************************************************************************)
(* `tapwarden setup`, src/setup.rs `run`: the questions and the login,     *)
(* which change nothing, then three Keychain entries and the config file   *)
(* that are replaced one after another.  Any step may fail, and the wizard *)
(* may be interrupted between any two.  It may be run again, for the same  *)
(* account or for another.                                                 *)
(*                                                                         *)
(* A credential is represented by the account it belongs to, and so is an  *)
(* email address.                                                          *)
(***************************************************************************)
EXTENDS Config

CONSTANTS
    Urls,         \* server URLs a user may type
    Vault,        \* of each account: the items it can see
    AccountKdf,   \* the key derivation every account uses
    Kdfs,         \* what a server may report instead
    Answers,      \* answers to "Keys tapwarden should serve"
    HandWritten   \* configs that were there before the first run

ASSUME SetupAssumption ==
    /\ DOMAIN Vault = Accounts
    /\ AccountKdf \in Kdfs
    /\ Answers \subseteq Seq(Nat)
    /\ \A c \in HandWritten :
          /\ c.form = "yaml" /\ IsSequence(c.ids)
          /\ c.backend = "bws"
                \/ (c.backend = "vaultwarden" /\ c.vw.credentials = "env")
    /\ \A u \in Urls, a \in Accounts, s \in {"keychain", "env"} :
          [url |-> u, email |-> a, credentials |-> s] # Absent

\* What a server and the clients that fill its vaults keep to: an id is that
\* of one item, and one key encrypts all there is of an item.
ASSUME VaultAssumption == \A a \in Accounts :
    /\ IsSequence(Vault[a])
    /\ \A i, j \in DOMAIN Vault[a] : Vault[a][i].id = Vault[a][j].id => i = j
    /\ \A i \in DOMAIN Vault[a] :
          LET item == Vault[a][i]
          IN  /\ item.id # Absent
              /\ item.sshKey # Absent =>
                    item.sshKey.under = item.name.under /\ item.sshKey.holds # Absent

VARIABLES
    keychain,  \* of each entry: the account whose credential it holds
    config,    \* the config file on disk
    step,      \* where the wizard is, "idle" between runs
    entry,     \* the entry being replaced
    typed,     \* the account whose master password was typed
    account,   \* the account whose email was
    url,       \* the server URL
    source,    \* where the credentials are to be kept
    chosen,    \* the ids of the keys to serve
    \* History: what was on disk when the run began, until it is to change.
    before

answers == <<entry, typed, account, url, source, chosen>>
vars == <<keychain, config, step, answers, before>>

\* vw_client_id, vw_client_secret and vw_master_password, in this order.
Entries == 1..3

Asking == {"login", "totp", "where", "sync"}
Replacing == {"delete", "store", "render", "open", "write"}

RenderConfig(u, a, ids, from) ==
    [form |-> "yaml", backend |-> "vaultwarden", credentials |-> "env", ids |-> ids,
     endpoint |-> Absent, vw |-> [url |-> u, email |-> a, credentials |-> from],
     factor |-> "touch_id", yubikey |-> Absent]

\* Characters that cannot stand between double quotes.
Quotable(u) == ~u.quoted

Chosen(a, picks) ==
    LET items == SshKeyItems(Vault[a], UserKey(a))
        picked == SelectIndices(picks, Len(items))
    IN  [i \in DOMAIN picked |-> items[picked[i]]]

Selections == {Chosen(a, p) : a \in Accounts, p \in Answers} \cup {<<>>}
Sources == {"keychain", "env"}

Unasked == [keychain |-> [e \in Entries |-> Absent], config |-> NoConfig]

Configs ==
    {NoConfig, Garbled} \cup HandWritten
        \cup {RenderConfig(u, a, ids, s) :
                 u \in Urls, a \in Accounts, ids \in Selections, s \in Sources}

TypeOK ==
    /\ keychain \in [Entries -> Accounts \cup {Absent}]
    /\ config \in Configs
    /\ step \in {"idle", "confirm"} \cup Asking \cup Replacing
    /\ entry \in Entries
    /\ typed \in Accounts \cup {Absent} /\ account \in Accounts \cup {Absent}
    /\ url \in Urls \cup {Absent}
    /\ source \in Sources
    /\ chosen \in Selections
    /\ before \in [keychain : [Entries -> Accounts \cup {Absent}],
                   config : Configs]

Init ==
    /\ keychain = [e \in Entries |-> Absent]
    /\ config \in {NoConfig} \cup HandWritten
    /\ step = "idle"
    /\ entry = 1 /\ typed = Absent /\ account = Absent /\ url = Absent
    /\ source = "env" /\ chosen = <<>>
    /\ before = Unasked

-----------------------------------------------------------------------------
(* Questions and answers.                                                   *)

Go(to) == step' = to

\* The run is over, and what it knew is gone.
Return ==
    /\ Go("idle")
    /\ entry' = 1 /\ typed' = Absent /\ account' = Absent /\ url' = Absent
    /\ source' = "env" /\ chosen' = <<>>
    /\ before' = Unasked

\* A URL that is no base URL, or an email that is none, ends the run here.
Begin ==
    /\ step = "idle"
    /\ account' \in Accounts /\ typed' \in Accounts
    /\ url' \in {u \in Urls : ValidBaseUrl(u)}
    /\ before' = [keychain |-> keychain, config |-> config]
    /\ Go("login")
    /\ UNCHANGED <<keychain, config, entry, source, chosen>>

\* The key derivation the server reports, a login with it, and one more with
\* a code if the account has a second factor.  The user key opens under this
\* password and this email only; the API key and the profile then give the
\* client id and secret.
PasswordLogin ==
    /\ step \in {"login", "totp"}
    /\ \/ /\ \E k \in Kdfs :
                UnlockedKey(WrappedKey(account, AccountKdf), typed, account, k)
                    = UserKey(account)
          /\ Go("where")
       \/ step = "login" /\ Go("totp")
    /\ UNCHANGED <<keychain, config, answers, before>>

Where ==
    /\ step = "where"
    /\ source' \in Sources
    /\ Go("sync")
    /\ UNCHANGED <<keychain, config, entry, typed, account, url, chosen, before>>

\* No items, or an answer that selects none, end the run.
Sync ==
    /\ step = "sync"
    /\ \E picks \in Answers : chosen' = Chosen(account, picks)
    /\ chosen' # <<>>
    /\ Go("confirm")
    /\ UNCHANGED <<keychain, config, entry, typed, account, url, source, before>>

\* A request fails, or an answer is refused, before anything was changed.
Refuse ==
    /\ step \in Asking
    /\ Return
    /\ UNCHANGED <<keychain, config>>

-----------------------------------------------------------------------------
(* Replacing what is stored.                                                *)

\* The password kept is the one that was typed.
Credential(e) == IF e = 3 THEN typed ELSE account

\* Fault: the overwrite question comes once the credentials are stored.
Confirm_AfterStore ==
    /\ step = "confirm"
    /\ \/ /\ source = "keychain"
          /\ keychain' = [e \in Entries |-> Credential(e)]
       \/ source = "env" /\ UNCHANGED keychain
    /\ \/ Go("render") /\ before' = Unasked /\ UNCHANGED answers
       \/ config # NoConfig /\ Return
    /\ UNCHANGED config

\* An existing config is overwritten only if the user says so.
Confirm ==
    /\ step = "confirm"
    /\ \/ /\ Go(IF source = "keychain" THEN "delete" ELSE "render")
          /\ before' = Unasked
          /\ UNCHANGED answers
       \/ config # NoConfig /\ Return
    /\ UNCHANGED <<keychain, config>>

\* Best effort: an entry that cannot be removed stays.
Delete ==
    /\ step = "delete"
    /\ keychain' \in {keychain, [keychain EXCEPT ![entry] = Absent]}
    /\ Go("store")
    /\ UNCHANGED <<config, answers, before>>

\* Fault: a failed store does not end the run.
Store_Ignored ==
    /\ step = "store"
    /\ keychain' \in {keychain, [keychain EXCEPT ![entry] = Credential(entry)]}
    /\ IF entry < 3 THEN entry' = entry + 1 /\ Go("delete")
                    ELSE Go("render") /\ UNCHANGED entry
    /\ UNCHANGED <<config, typed, account, url, source, chosen, before>>

\* A failed store ends the run.
Store ==
    /\ step = "store"
    /\ \/ /\ keychain' = [keychain EXCEPT ![entry] = Credential(entry)]
          /\ IF entry < 3 THEN entry' = entry + 1 /\ Go("delete")
                          ELSE Go("render") /\ UNCHANGED entry
          /\ UNCHANGED <<typed, account, url, source, chosen, before>>
       \/ Return /\ UNCHANGED keychain
    /\ UNCHANGED config

\* Only now: a value that cannot be written to the config ends the run.
Render ==
    /\ step = "render"
    /\ IF Quotable(url) THEN Go("open") /\ UNCHANGED <<answers, before>> ELSE Return
    /\ UNCHANGED <<keychain, config>>

\* `truncate(true)`; a planted symlink or an error ends the run before it.
OpenConfig ==
    /\ step = "open"
    /\ \/ Go("write") /\ config' = Garbled /\ UNCHANGED <<answers, before>>
       \/ Return /\ UNCHANGED config
    /\ UNCHANGED keychain

\* Written whole, the permissions set; or not at all.
WriteConfig ==
    /\ step = "write"
    /\ Return
    /\ config' \in {config, RenderConfig(url, account, chosen, source)}
    /\ UNCHANGED keychain

\* The user interrupts the wizard, or the machine goes down.
Interrupt ==
    /\ step # "idle"
    /\ Return
    /\ UNCHANGED <<keychain, config>>

Next ==
    \/ Begin \/ PasswordLogin \/ Where \/ Sync \/ Refuse
    \/ Confirm \/ Delete \/ Store \/ Render \/ OpenConfig \/ WriteConfig
    \/ Interrupt

Spec == Init /\ [][Next]_vars

-----------------------------------------------------------------------------
(* Properties.                                                              *)

Paired(c, k) ==
    c.form = "yaml" /\ c.backend = "vaultwarden" /\ c.vw.credentials = "keychain"
        => \A e \in Entries : k[e] = c.vw.email

(* "Declining must leave the old config paired with its own credentials": a *)
(* run that ends at the question leaves the disk and the Keychain as they   *)
(* were before it was asked.                                                *)
DeclineLeavesPair == [][step = "confirm" /\ step' = "idle" =>
    keychain' = before.keychain /\ config' = before.config]_vars

(* A config is written only over a Keychain that holds every credential of  *)
(* its account, whatever earlier runs for other accounts left there.        *)
WrittenConfigIsPaired == [][config' # config => Paired(config', keychain')]_vars

(* "A mid-loop failure must not leave a config on disk that points at       *)
(* keychain entries that were never stored": whenever no wizard runs, the   *)
(* config on disk has its credentials in the Keychain.                      *)
ConfigIsPaired == step = "idle" => Paired(config, keychain)

(* A config the wizard writes loads and, if it keeps its credentials in the *)
(* Keychain, builds under launchd; it names each key once, and every key is *)
(* an item of its account that the account's own key opens, unless the      *)
(* server holds no usable key data for it.                                  *)
WrittenConfigServes == [][config' # config /\ config'.form = "yaml" =>
    LET c == Load("default", config', NoEnvironment)
        vault == Vault[config'.vw.email]
        key == UserKey(config'.vw.email)
    IN  /\ c = config'
        /\ Builds(c, NoEnvironment) <=> ~UsesEnvCredentials(c)
        /\ \A i, j \in DOMAIN c.ids : c.ids[i] = c.ids[j] => i = j
        /\ \A i \in DOMAIN c.ids : \E n \in DOMAIN vault :
              /\ vault[n].id = c.ids[i]
              /\ vault[n].sshKey # Absent => ExtractSecret(vault[n], key) # Absent]_vars
=============================================================================
