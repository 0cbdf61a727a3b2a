# Verification of tapwarden

tapwarden is an SSH agent whose keys live in a Bitwarden account and whose
every signature passes a presence check (Touch ID or a YubiKey touch).  This
directory holds TLA+ models of its concurrent and failure-prone parts, the TLC
runs that check them on small instances, and theorems proved with TLAPS for
every value of the constants.  Source lines below are those of `src/src/`.

## The system

| component | state | operations | talks to |
|---|---|---|---|
| Key service (`agent.rs`, `KeyService`) | the cache `keys`, the `loading` mutex with the last error logged per id | list the identities, sign; a loading pass fetches what is missing | fetcher (`get`), authorizer (`approve`), the log |
| Backend clients (`secret_source.rs` `BwsRest`, `vaultwarden.rs` `VaultwardenFetcher`) | one mutex over session and `failed_at` | `get`: log in when there is no session, fetch, renew once after a 401, back off after a failed login | authorizer (credential unlock), Keychain, HTTP server |
| Presence gate (`authorizer.rs`) | `Grace.last`, an approval per key stamped on two clocks | `approve`: window check, prompt, wait with a time limit | the user, through LocalAuthentication or FIDO2 |
| Agent socket (`agent.rs`, `serve`, `claim_socket`, `release_socket`) | the socket file | probe, clear, bind, serve, release | other instances on the path |
| Lifecycle commands (`daemon.rs`) | the plist, launchd's service | start, stop, uninstall | launchd through `launchctl`; other terminals |
| Setup wizard (`setup.rs`, `keychain.rs`) | three Keychain entries, the config file | log in, ask, replace the entries, write the config | the user, Keychain, file system, HTTP server |
| Configuration (`config.rs`) | none after start | load, validate, fall back to the environment | read by all of the above, each for itself |
| Doctor (`doctor.rs`, `agent.rs` `probe_keys`) | a report | check config, credentials, machine; fetch every key; judge | configuration, a client and a gate of its own |
| Ciphers (`secret_source.rs`, `vaultwarden.rs`) | none | derive, decrypt, list and select items | the clients, the wizard |
| Peer names, runtime paths, argument parser | none | texts, paths | |

In one agent process, sessions (one per connection) run concurrently and
interleave at every `.await`.  A request may wait, in this order, for the
`loading` mutex, for the client's state mutex, and for a prompt; a signature
waits for a prompt of its own while it holds neither.  The hard behaviours:

- several sessions in and around one loading pass, with fetches that fail;
- prompts nobody answers, which time out and may be answered afterwards;
- approvals that age on a clock that stops in sleep and on one that is stepped;
- bearers that expire at any moment, logins that fail at every stage;
- instances that share a path, or are killed between two steps on it;
- a launchd that finishes a removal some time after it said it began;
- a wizard that fails or is interrupted between two of its five writes, and
  processes that read config and credentials one by one while it replaces them;
- a config checked in a shell, loaded again by launchd at any later time without
  that shell, and edited in between;
- a launchd that restarts what fails, kicks what runs and ends what it removes.

What makes each component correct is stated by the properties below;
`PROJECT.json` lists the hazards each property is there for, line by line.

## Modules

**KeyService** models every request of `KeyService`.  `pc` says where a
session's request stands: "lookup" (about to search the cache), "queued" (for
`loading`), "pass", "prompt", "sign", "idle".  `queue` is tokio's FIFO mutex,
head first.  `keys` is a mutex whose sections do not await, so each section is
one step.  A secret is represented by the public key it decodes to, or by
Unusable.  The missing positions are fetched in the order of the config.  The
secret ids are a sequence that may repeat an id, because `Config::validate`
lets it; the pass that first loads a repeated id fetches it twice, and the
second answer replaces the first. Properties about refetching and cache
stability therefore speak of ids listed once, and the contract assumes distinct
ids.

**AgentContract** is what a client may rely on, without locks, passes or
fetches: keys become available and stay, a listing shows those available when
it is answered, a signature follows a verdict on that very request.
KeyService implements it (`ImplementsContract`).

**Authorizer** models `approve` of `Grace`, `Biometric` and `YubikeyTouch` as
phases of a call: window check, raising the prompt, waiting, returned. Real
time is `now`; `Instant` is `now - slept`, the wall clock `now + skew`. Each
prompt has its own channel. A timed-out prompt is in `abandoned` and its later
answer goes nowhere. `consent` and `presence` are history variables, set by
`Answer`, where the user accepts.  `Return` is the program's side: it reads the
verdict, and stamps the approval only then (`authorizer.rs:381-386`).  Real time
may pass in between, asleep or awake, so the window opens later than the user
accepted.  Nothing in the code bounds that handover; the constant `Handover` does,
as an assumption on the clock (`MayPass`), and `ApprovalHasPresence` counts from
the acceptance: less than the window and the handover ago.

**BackendFetcher** models `get` of both clients, whose control is the same:
the state mutex, the two attempts, the backoff, the unlock, the Keychain read,
the login, the fetch.  Bearers are numbered and `live` are those the server
accepts.  HTTP and ciphers are reduced to success, refusal (401) and failure.

**Agent** composes the three as `serve`, `build_fetcher` and
`build_authorizer` wire them: one gate serves signatures and unlocks, one
client serves all passes.  Every action is an action of a component, or a call
or a return that two components make in one step: `CallGet` (a pass calls
`get`), `BeginLogin` (`get` calls `approve`), `UnlockReturns`, `GetReturns`,
`Lookup` and `FinishPass` (which ask for approval once the key is found) and
`Verdict`.  The error text of a failed fetch is the error record itself,
seconds left included.

**AgentSocket** models instances on one socket path, each probing, clearing,
binding, serving and releasing, any of them killed at any step.  The file system
may refuse the removal of a stale file or the bind, which ends the claim
(`IOErrors`), and the removal at shutdown, which leaves the file.  `exit` says why
an instance went down.  Two constants say what may overlap: claims, and a stop
with a start.

**Launchd** models `start`, `stop` and `uninstall` from several terminals,
each `launchctl` call a step.  What launchd does is external: a bootout begins a
removal that ends later, and fails when nothing is loaded or a removal is under
way.  The assumption `RemovalFits` is the code's own: a removal ends within the
five-second budget (`BOOTSTRAP_RETRY_BUDGET`).  Spawning `launchctl` is taken
to succeed.

**Service** composes AgentSocket and Launchd as they meet on one machine: one
terminal with the commands of Launchd, launchd's instances with the socket
steps of AgentSocket, and the config between them.  `start` checks the file in
a shell (`StartCommand`), writes its path to the plist (`WritePlist`),
bootstraps and kicks (`BootstrapJob`, `KickstartJob`); an instance loads the
same path again without a shell (`LoadConfig`), claims, serves, and either
stops on a signal or fails.  A signal is launchd's or anyone's (`Terminate`):
once serving the agent handles it, exits with success, and KeepAlive leaves it
down.  Before that, and by SIGKILL or a panic, it ends in a `Crash`, after
which another is due.  The history variable `dismissed` says that an instance
was asked to go and that no command, reboot or crash has called for another
since.  `checked`, `installed` and `job` say which path, and which file seen by
the check, stand behind a start, the plist and the loaded job: a start that
fails half way may leave the three different.  `proc` is the process: a
stopping one that has released the socket lives on (`Leave` comes later), since
the runtime's drop waits for a blocking prompt.  launchd is external and taken
from the plist: RunAtLoad and KeepAlive with SuccessfulExit false set `due`,
kickstart -k sets `kicked`, a removal ends the instance, and two instances of a
service never run at a time.  Here Launchd is instantiated without
`RemovalFits` and AgentSocket with overlaps allowed: what overlaps is for
launchd to decide.

**Ciphers** says symbolically what the cryptography gives: a ciphertext is a
key and a content, a key is what it was derived from, and Absent is anything
that does not parse or open.  The KDF bounds, the item keys, the listing
(one name that fails fails it), the selection and the token format are the
code's.  A listing and a selection are what a sequence holds at some of its
positions, in order (`Picked`), so that they need no recursion and can be proved
about.

**Config** is `Config::load` over files that are missing, garbled or a record of
fields, with the address rules, the security key's check, the environment
fallback, and `Builds`, what `build_authorizer` and `build_fetcher` still refuse.

**Setup** models the wizard from the first question on: the login (any key
derivation a server may report, the one retry with a TOTP code), where to
keep the credentials, the items and the selection, the overwrite question, the
three delete-and-store pairs, rendering, the truncating open and the write, each
of which may fail, and an interruption anywhere.  A credential is represented by
the account it belongs to.  A config fits one block, so a write is whole or
nothing; a partial one would be Garbled as the truncated file is.

**VaultLogin** adds a process that reads what the wizard writes: it loads the
config once, and at every login reads the three entries one step at a time,
exchanges them for a bearer, and opens the user key with the password it read
and the email of its config.  BackendFetcher has the control of that login;
VaultLogin has whose data flows through it.

**Doctor** adds `tapwarden doctor` to the two: load, the credential line, the
lines about the machine (an input: any of `SystemLines`), `probe_keys` with the
steps of VaultLogin, the verdict.  The wizard, and one reader at a time, agent
or doctor: readers change nothing another process sees.

`MC*` modules give TLC the values a `.cfg` cannot express.  Definitions headed
`\* Fault:` and named `<Definition>_<Fault>` are mutations of the definition
below them: put in its place, each makes one property fail, which shows that
the property can.  They are not part of any specification.

## Runs

| run | instance | shows |
|---|---|---|
| KeyServiceSafety | 3 sessions, 2 ids, 2 keys, 2 messages | passes exclude each other (`OnePass`), share fetches (`NoRefetch`), the cache stays (`CacheStable`), an answer leaves out only what failed within its request (`NothingSkippedSilently`), equal failures are one line (`LoggedOnce`); `ImplementsContract` |
| KeyServiceLiveness | 3 sessions, 2 ids, 1 key | every request is answered if fetches end; a loaded key is usable though they do not |
| AuthorizerGrace | 2 calls, 2 keys, window 2, handover 1, time 4, either clock fault | a signature has its own accepted prompt or one of the same key accepted less than the window and the handover ago (`ApprovalHasPresence`); an unlock has its own (`UnlockNeverRides`) |
| AuthorizerBothFaults | 1 call, no handover, both clock faults | finding: sleep and a step back together outlast the window |
| BackendFetcher | 3 callers, 2 bearers, time 2, backoff 1 | one call inside, backoff respected, no needless login, one retry and only after a 401, every `get` returns |
| Service | 1 terminal, 2 instances, 3 files at the default path, 2 shells, 2 crashes, refused claims or reboots | launchd serializes claims and shutdowns (`SerialUnderLaunchd`); so a server is reachable (`ServerIsReachable`) and, unless the file system refuses, a start is refused only while somebody serves (`RefusedOnlyWhileServed`); an instance fails over its config only when the file is not the one that was checked (`NoCrashLoop`); a clean stop stays stopped, whoever asked for it (`CleanStopStays`); a loaded service with a usable config that nobody dismissed serves again and again (`EventuallyServes`) |
| AgentSocketClaimRace | 2 instances claiming together | finding: one removes the socket of the other |
| Agent | 2 sessions, 1 id, 2 keys, per_use with Touch ID, keychain credentials | calls nest (`CallsNest`), a signature and a read of the credentials have the consent of their own prompt (`UseHasConsent`), each component keeps its own specification, every request is answered though no prompt is |
| AgentLog | 1 session, backoff 2 | finding: while a login is backed off every request logs a new line |
| Launchd | 2 terminals | a start that reports success leaves the service loaded unless another terminal boots it out meanwhile; every command returns |
| Credentials | 2 accounts, 5 items, 3 key derivations, 2 environments, a config written by hand | declining changes nothing (`DeclineLeavesPair`); a config is written only over the credentials of its account (`WrittenConfigIsPaired`), loads, and names fetchable keys once (`WrittenConfigServes`); a session never mixes accounts (`SessionOfConfig`); no process works on another configuration than the one on disk (`NoSilentSwitch`); a doctor without failures has fetched every key (`DoctorVouches`) |
| SetupAgain | 2 accounts, 3 URLs | finding: a store or a rendering that fails over an existing keychain config orphans that config |

### Bounds

Sessions and callers: three make a holder, a waiter and a late-comer, which is
what FIFO order, shared fetches and overtaking need; the composition has two,
since its question is how components call each other, and the locks are decided
in the component runs.  Ids: two, so that one can fail while the other loads;
the composition has one.  Keys: two, so that an approval or a request can be
about the wrong one.  Clocks: a window of two and time to four let an approval
age through fresh, half-open boundary and stale, awake or asleep; the wall
clock is stepped by one either way.  Handover: one unit, so that a stamp may be
later than its acceptance; a bound of the window alone is then violated, as TLC
shows when the handover is left out of the property.  In Agent and AgentLog it
is as long as the run and restricts nothing.  Bearers: two, so that one expires
and is replaced; a third login fails, as a server may.  Once time or bearers
run out the calls go on, failing, so no run ends in a state where nothing
moves. Instances: two under launchd, the one that goes and the one that comes
(the socket of a dead one needs no third); the theorems have any number.
Crashes, listeners that fail, claims that the file system refuses, and reboots
(`MaxCrashes`): two in all, one to leave a socket behind and one during the
recovery.  Signals from outside are not bounded.  Files at the default path:
missing, one that works under launchd and one that needs the shell; at the path
given with --config, one that works.  Shells: one that exports what a config
needs and one that does not. Terminals: two in Launchd; the commands of a third
look to a start like those of the second.  Service has one, since Launchd has
decided how terminals disturb each other.  Accounts: two, the smallest number
that can be mixed up, the first with one item of every kind the listing and the
fetch treat differently, the second with one key.  Key derivations: the
account's own, another that is accepted, and one just below the bound.  Lines
about the machine: ok and fail; warn decides nothing.  In Credentials every URL
can be quoted; SetupAgain has one that cannot.  Symmetry is used only in the
runs without liveness.

### Fairness

Tasks that can run are scheduled (weak fairness on the steps between awaits):
tokio's runtime and its FIFO mutex give that.  A prompt ends within its
120 s limit whether the user answers or not: `PromptTimesOut` is fair, the user
is not.  With a YubiKey the limit is the device's own.  HTTP exchanges end within
the client's 10 s and 30 s timeouts (`secret_source.rs:18-46`).  In
KeyServiceLiveness this is a hypothesis of `EveryRequestAnswered`
(`BackendFairness`) and not of `LoadedKeyNeverWaits`, whose point is a backend
that hangs.  In Launchd the passing of the retry budget has strong fairness:
under `RemovalFits` it is put off while a removal is under way, and time goes on
in between.  In Service, launchd starts what is due and ends what it has
signalled, with SIGKILL in the end, and an instance's own steps go on; nothing is
assumed of the user, of signals from outside, or of when a removal is over, and of
crashes and of a file system that refuses a claim only that they are finitely many.
`EventuallyServes` excepts an agent that was dismissed, because that one is to stay
down.  `Leave` is fair
because the prompt an instance may still wait for ends within its limit.

## Findings

1. *Two simultaneous claims* (`agent.rs:410`).  Nothing locks the path between
   the refused connect and the bind, so the later of two instances may remove
   the socket of the earlier, which goes on serving unreachable.  `agent.rs:396`
   says "Never hijacks a live instance".
2. *Grace window with both clocks off* (`authorizer.rs:334`).  A sleep stops one
   clock and a step back holds the other; together they outlast the window,
   where `authorizer.rs:310` says that requiring both covers each gap.  Either
   alone is covered, as AuthorizerGrace and `SignaturesHavePresence` show.
3. *Backoff messages* (`agent.rs:149`).  The compared message counts down the
   seconds, so the failure is logged on every request while it lasts, against
   `CHANGELOG.md:78-79`.
4. *Setup over an existing config* (`setup.rs:217`).  A store that fails leaves
   the old config with entries that are deleted or another account's, against
   the comment at `setup.rs:205-207`.  So does a rendering that fails
   (`setup.rs:223`): a URL typed with backslashes passes the URL parser and
   cannot be quoted.

Remarks, which no run states:

- The window of `grace` counts from the moment the verdict is read, not from the
  acceptance (`authorizer.rs:381-386`).  When the machine sleeps right between the
  two, the window opens after it wakes, although `README.md:227-229` of the
  repository says that it does not survive a lid-close.  In the models this is a
  long `Handover`.
- `ServerIsReachable` also needs that no instance stops while another starts:
  with `StopOverlapsStart` TRUE, TLC shows `release_socket` removing the socket
  of an instance that bound the path after the listener was dropped.  launchd
  gives both (`SerialUnderLaunchd`).  A `start --fg` beside the LaunchAgent
  does not: while it holds the socket, the instance of launchd fails and is
  restarted again and again, and two that claim together are finding 1.
- Without `RemovalFits` a start may report success for a service about to
  vanish, when a stopping agent waits for a prompt for longer than the five
  seconds (`daemon.rs:24`, `authorizer.rs:69`).
- `doctor.rs:5` says "Nothing here mutates state", but `socket_path` creates the
  runtime directory and sets its mode (`runtime_paths.rs:38-56`).
- The listing of the wizard does not ask for key data, so a config may name an
  item whose data the server has nulled (`vaultwarden.rs:161`), which then fails
  at every fetch.  `WrittenConfigServes` excepts it.
- `read_tail` (`daemon.rs:363`) reads to the end of a log that may grow meanwhile,
  and so may read more than its cap.

## Proofs

TLAPS checks, for every value of the constants that meets the modules'
assumptions:

- **KeyServiceProofs**: `TypeCorrect`, `PassesExclude`, `FetchesAreShared`,
  `AnswersAreComplete`, `FailuresLoggedOnce`, `CacheOnlyGrows`, and
  `AgentImplementsContract` (for distinct secret ids).  The invariants are not
  inductive alone.  `IInv` adds that the session in a pass is the head of the
  queue (`PassHolds`), that nothing is missing outside a pass, that a pass has
  cached or failed whatever it no longer means to fetch (`PassCovers`), that
  ids which an answer left out are settled for good (`AnswersSettled`), and
  that `lastErrors` is the last outcome (`LogInv`).  The refinement also needs
  that a session at its prompt asks for a served key (`PromptServed`), which
  holds because a cached key is never dropped.
- **AuthorizerProofs**: `TypeCorrect`, `UnlocksPrompt`, and
  `SignaturesHavePresence` under `OneClockFault` (no machine both sleeps and has
  its wall clock stepped), for any `Handover`.  `IInv` adds that an accepted verdict
  in a channel is the user's answer to that call (`ChannelInv`), that only signatures
  in grace mode look at the window (`CheckInv`), that a clock without its fault runs
  true (`ClockInv`), that an acceptance still to be stamped is no older than the
  handover (`PendingInv`), and that on a true clock a stamp is therefore at most the
  handover later than the key's last acceptance (`StampInv`).
- **BackendFetcherProofs**: `TypeCorrect`, `CallsExclude`,
  `RetriesFollowRefusals`, `LoginsBackOff`, `LoginsAreNeeded`, with no
  assumption on the server.  `IInv` adds that the call inside is the head of
  the queue (`HolderIsHead`) and that those which wait are in it
  (`WaitersWait`), so nobody else touches what the mutex guards; that logins
  match the attempt (`LoginsMatch`); that `failed_at` is the last failed login
  (`StampInv`); that the session is the newest bearer and, without one, the
  newest is dead (`SessionInv`).
- **AgentSocketProofs**: `ServersAreReachable` and `StaleSocketsAreCleared`, for
  any instances, from `Serial`: claims do not overlap, and no instance stops
  while another starts.  Finding 1 and the remark on `ServerIsReachable` are what
  happens without it.  `IInv` adds that at most one instance is starting
  (`OneStarting`), that it claims alone and finds the path clear (`ClaimAlone`,
  `ClaimClear`), and that an instance stops alone (`StopAlone`).
- **LaunchdProofs**: `TypeCorrect`, and `SuccessMeansLoaded`, for any terminals,
  from `RemovalFits`.  `IInv` adds that a start has its whole budget before its
  own bootout (`BudgetUntouched`), that no removal of its own is under way once
  the wait is over (`RemovalOver`), and that kickstart finds the service loaded
  (`KickstartLoaded`).
- **ServiceProofs**: `LaunchdSerializes` discharges the assumption of
  AgentSocketProofs from `OneInv`: at most one process is alive (`OneAlive`), and
  where it is at the socket follows from what it is (`SocketOfProc`).
  `ReachableUnderLaunchd` then takes the two theorems about sockets over by
  instantiation.  `ImplementsLaunchd` shows that the composition does to launchd
  only what Launchd says, which carries its types over into `TypeCorrect`.
  `NeverCrashLoops` needs `JobsFit`: a file that stands behind the plist or the
  loaded job was usable without a shell when it was checked, which every start
  re-establishes (`CheckedFits`) and no edit can undo.  `CleanStopsStay` needs
  `DismissedInv`: once an instance was asked to go, none is due and none but that one,
  on its way out, is alive.
- **AgentProofs**: `TypeCorrect`, `CallsAreNested`, `UsesHaveConsent` and
  `ComponentsImplemented`, for any sessions, ids, mode, factor and clocks.
  `AgentInv` is the inductive invariants of the three components, `CallsNest`,
  and that a pass with a fetch under way is not over (`FetchUnderway`): without
  it a pass could finish while its `get` still ran.  The steps are taken
  component by component (`ServiceSteps`, `ClientSteps`, `GateSteps`): each
  action of the agent is an action of the component or leaves it alone.  The
  service must know every error the client returns (`AnswerIsMessage`), which
  needs that what is left of a backoff is never longer than it: no login failed
  in the future (`StampPast` in BackendFetcherProofs).  An approval that the gate
  returns is the accepted prompt of that call unless a window was open
  (`ResultInv` in AuthorizerProofs).  As a run of the agent is then a run of each
  component, `ServiceInAgent`, `ClientInAgent`, `GateInAgent` and
  `AgentKeepsContract` take their theorems over by instantiation.
  `WaitsNeverCircle` is what can be said of deadlock without ENABLED: whoever a
  request waits for waits for no other, the first in the queue for `loading` is a
  session in a pass or about to begin one, and no fetch ever waits for the
  client's state, because a fetch is made inside a pass and passes exclude one
  another.  It rests on `QueuesHoldWaiters`: each of the two queues holds exactly
  the sessions that wait, each once, as one is appended when it begins to wait
  and the first leaves when it is done (`Joins`, `Leaves`).
- **CredentialsProofs**, about Setup, VaultLogin and Doctor.  Of the wizard:
  `DecliningChangesNothing` and `WrittenOverOwnCredentials`.
  `IInv` adds the types, that answers are there once asked (`Underway`), that
  past the login the password typed is the account's (`Verified`), because
  the user key opens under no other, that nothing has changed while the overwrite
  question is open (`AskedFirst`), and that the stored entries up to the one at
  hand are of this run's account (`StoredSoFar`, `StoredAll`).
  `WrittenConfigsServe` adds that the keys at hand were chosen by the user among
  those listed (`Selected`), and rests on lemmas about picking positions: they
  are ranked without a gap (`Ranks`), so what is picked is a sequence of things
  that were there, each once if they differed (`PickedAreThere`,
  `ListingIsOffered`, `SelectionInRange`, `ChosenAreOffered`); a listed item can
  be opened, since its name was (`OfferedOpens`); and a rendered config loads
  (`RenderedLoads`).
  Of the processes beside it: `ImplementsSetup` (the readers change nothing of
  the wizard's), hence `WizardUnaffected`; `SessionsAreOfTheConfig`, by
  `OpensOneAccount`: a wrapped key that opens under a password and an email is
  of the account of both, so whatever three entries were read, the bearer
  is too; `NeverSwitchesSilently`, since no step of the wizard removes a config
  and only a missing one is replaced by the environment; `SystemTyped`, which
  needs that whoever is in a pass has a config that loaded (`LoadedUsable`), that
  a login never reaches the server without an id (`IdIsRead`, and
  `EnvironmentKept` when the credentials are those of a shell); and
  `SuccessMeansFetched`, for which `DoctorIInv` follows the report: a key marked
  fetched can be opened by the account of the config (`ResultsAreTrue`, by
  `SessionOfConfig`), a pass that ends leaves a mark for every key
  (`ResultForEach`, `FailedPass`), and a config that did not load is a failure
  from the first line on (`RefusedFails`).

The assumptions on the constants say what a state of the program is like and no
more: Absent is no account, key or record; answers and vaults are sequences, as
they are in the code; the files that were there before the first run of the
wizard are of Secrets Manager or read their credentials from a shell (what it
writes itself is modelled); `VaultAssumption` is what any Bitwarden client and
server keep to, that an id is that of one item and that one key encrypts all
there is of an item.  TLC evaluates each of them on every run that uses it.

Only model-checked: every liveness property (`EventuallyServes`,
`CommandsReturn`, `EveryRequestAnswered`, `LoadedKeyNeverWaits`, `GetReturns`),
because liveness and ENABLED are beyond these proofs, and the four findings, which
are counterexamples.

## Not modelled

- Peer names, path construction, the argument parser, `register-yubikey`, the
  text and escaping of the plist and the log tail: sequential, with no state that
  outlives them.  A check of a path or of a file's kind that fails is a
  failure of the step that makes it.
- `store-token`: one checked write of one Keychain entry of its own, which no
  other command writes.
- The arithmetic of the ciphers, and HTTP: the size cap of a body, the parsing
  and the status codes other than 401 are a success or a failure.  The unit
  tests' vectors cover them.
- The three-way choice of `IdentityAgent` by doctor is one line of `SystemLines`.
- An agent killed in the middle of a request keeps nothing, so there is no
  recovery to model beyond the socket path.

## Plan

1. Done: KeyService with its contract, Authorizer, BackendFetcher, AgentSocket,
   Launchd, Setup, Config, Ciphers and Doctor with their proofs, and three
   compositions: Agent (the components of one process), Service (launchd, its
   instances, their socket and the config) and Doctor over VaultLogin over
   Setup (the wizard and what reads behind its back).
2. Model further: the grace mode of Agent; a `start --fg` beside the LaunchAgent
   in Service; `store-token` with the login of Secrets Manager in VaultLogin.
3. Prove further, of AgentSocket: its types, and what a `start --fg` beside the
   LaunchAgent leaves of `ServerIsReachable`.
