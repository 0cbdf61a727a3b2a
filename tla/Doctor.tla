-------------------------------- MODULE Doctor --------------------------------
(***************************************************************************)
(* `tapwarden doctor`, src/doctor.rs, run beside the wizard: its checks,   *)
(* the pass over the keys that --check-backend makes with the client and   *)
(* the gate of the agent (`probe_keys`), and its verdict.  The config is   *)
(* loaded once, at the start; the Keychain is read much later.             *)
(***************************************************************************)
EXTENDS VaultLogin

CONSTANT
    SystemLines   \* what the checks of this machine may come to

VARIABLES
    shell,         \* the environment it was started in, until it is captured
    checkBackend,  \* --check-backend, once that matters
    worst          \* the worst status of its lines so far, and its verdict

doctorVars == <<shell, checkBackend, worst>>
systemVars == <<vars, readerVars, doctorVars>>

Statuses == {"ok", "warn", "fail"}

ASSUME DoctorAssumption == SystemLines \subseteq Statuses

SystemTypeOK ==
    /\ TypeOK
    /\ LoginTypeOK
    /\ shell \in Environments \cup {NoEnvironment}
    /\ checkBackend \in BOOLEAN
    /\ worst \in Statuses

SystemInit ==
    /\ Init
    /\ LoginInit
    /\ shell = NoEnvironment
    /\ checkBackend = FALSE
    /\ worst = "fail"

\* The worse of two lines of a `Report`.
Worse(s, t) ==
    IF "fail" \in {s, t} THEN "fail" ELSE IF "warn" \in {s, t} THEN "warn" ELSE "ok"

\* `check_config`
CheckConfig ==
    /\ reader = "none"
    /\ reader' = "doctor"
    /\ shell' \in Environments
    /\ \E flag \in {"default", "explicit"} : loaded' = Load(flag, config, shell')
    /\ worst' = IF loaded' = Refused THEN "fail" ELSE "ok"
    /\ At("local")
    /\ UNCHANGED <<read, session, results, checkBackend>>

\* `check_credentials`: what is not set in this shell may not be needed.
CredentialsLine ==
    IF loaded # Refused /\ ~CredentialsSet(loaded, shell) THEN "warn" ELSE "ok"

\* A config that others can read, no presence factor, launchd, a socket that
\* is not there or that nobody answers, and the wiring of ssh are warnings; a
\* runtime directory that is not ours is a failure.
CheckLocally ==
    /\ reader = "doctor" /\ at = "local"
    /\ \E line \in SystemLines : worst' = Worse(worst, Worse(line, CredentialsLine))
    /\ \/ checkBackend' = TRUE /\ At("probe") /\ UNCHANGED shell
       \/ checkBackend' = FALSE /\ At("done") /\ shell' = NoEnvironment
    /\ UNCHANGED <<reader, loaded, read, session, results>>

\* Fault: a backend that cannot be probed is skipped.
Probe_Skips ==
    /\ reader = "doctor" /\ at = "probe"
    /\ IF loaded = Refused \/ ~Builds(loaded, shell)
       THEN At("done") /\ worst' = Worse(worst, "warn") /\ UNCHANGED read
       ELSE /\ At(Unlocking(loaded))
            /\ read' = Captured(loaded, shell)
            /\ UNCHANGED worst
    /\ shell' = NoEnvironment
    /\ UNCHANGED <<reader, loaded, session, results, checkBackend>>

\* `check_backend_keys` and `probe_keys`: skipped without a config.
Probe ==
    /\ reader = "doctor" /\ at = "probe"
    /\ \/ /\ loaded = Refused
          /\ At("done") /\ worst' = Worse(worst, "warn")
          /\ UNCHANGED read
       \/ /\ loaded # Refused /\ ~Builds(loaded, shell)
          /\ At("done") /\ worst' = Worse(worst, "fail")
          /\ UNCHANGED read
       \/ /\ loaded # Refused /\ Builds(loaded, shell)
          /\ At(Unlocking(loaded))
          /\ read' = Captured(loaded, shell)
          /\ UNCHANGED worst
    /\ shell' = NoEnvironment
    /\ UNCHANGED <<reader, loaded, session, results, checkBackend>>

\* A line for each key, and one for all of them.
KeyLines == IF \A i \in DOMAIN results : results[i] THEN "ok" ELSE "fail"

\* `verdict`: with a failure among its lines, `doctor` exits non-zero.
Verdict ==
    /\ reader = "doctor" /\ at = "done"
    /\ worst' = Worse(worst, KeyLines)
    /\ checkBackend' = FALSE
    /\ Exit
    /\ UNCHANGED shell

-----------------------------------------------------------------------------
(* The wizard, and one process at a time that reads what it writes: readers *)
(* change nothing that another one sees.                                    *)

Wizard == Next /\ UNCHANGED <<readerVars, doctorVars>>

Agent ==
    /\ Open \/ AnotherPass
    /\ worst' = "fail"      \* whatever an earlier doctor said
    /\ UNCHANGED <<vars, shell, checkBackend>>

Reader == LoginStep /\ UNCHANGED <<vars, doctorVars>>

Doctor == (CheckConfig \/ CheckLocally \/ Probe \/ Verdict) /\ UNCHANGED vars

\* Interrupted, and no verdict then.
ReaderEnds ==
    /\ Exit
    /\ shell' = NoEnvironment /\ checkBackend' = FALSE /\ worst' = "fail"
    /\ UNCHANGED vars

SystemNext == Wizard \/ Agent \/ Reader \/ Doctor \/ ReaderEnds

SystemSpec == SystemInit /\ [][SystemNext]_systemVars

-----------------------------------------------------------------------------
(* Properties.                                                              *)

(* "Never a silent switch to a different configuration": once there is a    *)
(* config on disk, be it one an interrupted wizard left truncated, there    *)
(* stays one, and a process works with that one or with none.               *)
NoSilentSwitch == [][config # NoConfig =>
    /\ config' # NoConfig
    /\ at = "exited" /\ at' # "exited" => loaded' \in {config, Refused}]_systemVars

(* `doctor --check-backend` exits with success only after one pass in which *)
(* every key of the config it loaded was fetched; with Vaultwarden, by the  *)
(* account of that config, with the key that opens its items.               *)
DoctorVouches == [][checkBackend /\ reader' = "none" /\ worst' # "fail" =>
    /\ loaded # Refused
    /\ Len(results) = Len(loaded.ids)
    /\ loaded.backend = "vaultwarden" =>
          \A i \in DOMAIN loaded.ids : \E j \in DOMAIN Vault[loaded.vw.email] :
             LET item == Vault[loaded.vw.email][j]
             IN  /\ item.id = loaded.ids[i]
                 /\ ExtractSecret(item, UserKey(loaded.vw.email)) # Absent]_systemVars
===============================================================================
