------------------------------- MODULE Service -------------------------------
(***************************************************************************)
(* The background agent: the lifecycle commands of src/daemon.rs (Launchd) *)
(* in one terminal, launchd, the instances it runs and their socket        *)
(* (AgentSocket), the config `start` checks in a shell and every instance  *)
(* loads again under launchd (Config), and the edits in between.           *)
(*                                                                         *)
(* launchd is external, and taken from the plist and from how the commands *)
(* use it: RunAtLoad, KeepAlive unless an instance exits with success,     *)
(* kickstart -k, and never two instances of one service at a time.         *)
(***************************************************************************)
EXTENDS AgentSocket, Config

CONSTANTS
    Terminal,
    Files,       \* what may be at the default config path
    OtherFile,   \* what is at another path, for --config
    Shells,      \* environments a terminal may have
    MaxCrashes   \* BOUND: how often an instance crashes, its claim is refused by
                 \* the file system, or the machine reboots

ASSUME ServiceAssumption == MaxCrashes \in Nat /\ NoConfig \in Files

VARIABLES
    \* Launchd's, for the one terminal.
    service, plist, command, bootedOut, expired, report, disturbed,
    disk,      \* the file at the default path
    checked,   \* of `start`: the path it was given and the file it checked
    installed, \* the same, of the start that wrote the plist
    job,       \* the same, of the plist launchd has loaded
    due,       \* launchd is to start an instance
    kicked,    \* and to end the one that runs
    proc,      \* of each: "none", "loading", "agent", "stopping" or "failing"
    crashes,
    dismissed  \* History: an instance was asked to go, and nothing has asked
               \* for another since

launchdVars == <<service, plist, command, bootedOut, expired, report, disturbed>>
jobVars == <<disk, checked, installed, job>>
serviceVars == <<vars, launchdVars, jobVars, due, kicked, proc, crashes,
                 dismissed>>

L == INSTANCE Launchd
        WITH Terminals <- {Terminal}, RemovalFits <- FALSE, step <- command

Paths == {"default", "other"}
Jobs == [path : Paths, file : Files \cup {OtherFile}]
NoJob == [path |-> "default", file |-> NoConfig]

ServiceTypeOK ==
    /\ TypeOK
    /\ L!TypeOK
    /\ disk \in Files
    /\ {checked, installed, job} \subseteq Jobs
    /\ due \in BOOLEAN /\ kicked \in BOOLEAN
    /\ proc \in [Instances -> {"none", "loading", "agent", "stopping", "failing"}]
    /\ crashes \in 0..MaxCrashes
    /\ dismissed \in BOOLEAN

ServiceInit ==
    /\ Init
    /\ L!Init /\ plist = FALSE
    /\ disk \in Files
    /\ checked = NoJob /\ installed = NoJob /\ job = NoJob
    /\ due = FALSE /\ kicked = FALSE
    /\ proc = [i \in Instances |-> "none"]
    /\ crashes = 0
    /\ dismissed = FALSE

Alive(i) == proc[i] # "none"
Becomes(i, what) == proc' = [proc EXCEPT ![i] = what]

At(p) == IF p = "default" THEN disk ELSE OtherFile
Flag(p) == IF p = "default" THEN "default" ELSE "explicit"

\* `p` gives a shell with the environment `env` a config it can use.
Usable(p, env) ==
    LET c == Load(Flag(p), At(p), env) IN c # Refused /\ Builds(c, env)

-----------------------------------------------------------------------------
(* The commands: Launchd's, with what they check, install and load.         *)

\* Fault: that a config needs the variables of the shell is no objection.
StartCommand_AnyCredentials ==
    /\ L!Start(Terminal)
    /\ IF command'[Terminal] = "write"
       THEN \E p \in Paths, env \in Shells :
               /\ Load(Flag(p), At(p), env) # Refused
               /\ checked' = [path |-> p, file |-> At(p)]
       ELSE UNCHANGED checked
    /\ UNCHANGED <<vars, disk, installed, job, due, kicked, proc, crashes, dismissed>>

\* `start` loads the config in its shell, and refuses one that needs it.
StartCommand ==
    /\ L!Start(Terminal)
    /\ IF command'[Terminal] = "write"
       THEN \E p \in Paths, env \in Shells :
               LET c == Load(Flag(p), At(p), env)
               IN  /\ c # Refused /\ ~UsesEnvCredentials(c)
                   /\ checked' = [path |-> p, file |-> At(p)]
       ELSE UNCHANGED checked
    /\ UNCHANGED <<vars, disk, installed, job, due, kicked, proc, crashes, dismissed>>

\* The plist names the path.  A start that fails here may have replaced it.
WritePlist ==
    /\ L!StartWrite(Terminal)
    /\ checked' = NoJob
    /\ \/ installed' = checked /\ plist'
       \/ installed' = installed /\ command'[Terminal] = "idle" /\ plist' = plist
    /\ UNCHANGED <<vars, disk, job, due, kicked, proc, crashes, dismissed>>

\* bootstrap loads the plist there is by now, and RunAtLoad.
BootstrapJob ==
    /\ L!Bootstrap(Terminal)
    /\ IF command'[Terminal] = "kickstart"
       THEN job' = installed /\ due' = TRUE /\ dismissed' = FALSE
       ELSE UNCHANGED <<job, due, dismissed>>
    /\ UNCHANGED <<vars, disk, checked, installed, kicked, proc, crashes>>

\* kickstart -k ends the instance there is and starts another; it has no
\* effect on a service that is about to vanish.
KickstartJob ==
    /\ L!Kickstart(Terminal)
    /\ IF report'[Terminal] = "running" /\ service = "loaded"
       THEN /\ due' = TRUE /\ dismissed' = FALSE
            /\ kicked' = (\E i \in Instances : Alive(i))
       ELSE UNCHANGED <<due, kicked, dismissed>>
    /\ UNCHANGED <<vars, jobVars, proc, crashes>>

\* The other steps of the commands.
Command ==
    /\ \/ L!StartBootOut(Terminal) \/ L!BudgetSpent(Terminal)
       \/ L!AwaitRemoval(Terminal) \/ L!Recheck(Terminal) \/ L!Judge(Terminal)
       \/ L!Stop(Terminal) \/ L!Uninstall(Terminal) \/ L!RemovePlist(Terminal)
    /\ UNCHANGED <<vars, jobVars, due, kicked, proc, crashes, dismissed>>

\* An editor, or the wizard.
Edit ==
    /\ disk' \in Files \ {disk}
    /\ UNCHANGED <<vars, launchdVars, checked, installed, job, due, kicked, proc,
                   crashes, dismissed>>

-----------------------------------------------------------------------------
(* launchd.                                                                 *)

\* A removal is over when the instance has ended.
Vanish ==
    /\ L!Removed
    /\ \A i \in Instances : ~Alive(i)
    /\ due' = FALSE /\ kicked' = FALSE
    /\ UNCHANGED <<vars, jobVars, proc, crashes, dismissed>>

\* A reboot ends everything.  The socket file stays.
PowerCycle ==
    /\ crashes < MaxCrashes /\ crashes' = crashes + 1
    /\ L!Reboot
    /\ step' = [i \in Instances |-> "down"]
    /\ exit' = IF \E i \in Instances : step[i] # "down" THEN "killed" ELSE exit
    /\ proc' = [i \in Instances |-> "none"]
    /\ checked' = NoJob
    /\ job' = IF plist THEN installed ELSE NoJob
    /\ due' = plist /\ kicked' = FALSE /\ dismissed' = FALSE
    /\ UNCHANGED <<path, disk, installed>>

\* Fault: an instance that still runs does not keep launchd from another, as
\* if the agent put itself in the background.
Spawn_Daemonized(i) ==
    /\ service = "loaded" /\ due /\ ~Alive(i)
    /\ Becomes(i, "loading")
    /\ due' = FALSE /\ kicked' = FALSE
    /\ UNCHANGED <<vars, launchdVars, jobVars, crashes, dismissed>>

Spawn(i) ==
    /\ service = "loaded" /\ due
    /\ \A j \in Instances : ~Alive(j)
    /\ Becomes(i, "loading")
    /\ due' = FALSE /\ kicked' = FALSE
    /\ UNCHANGED <<vars, launchdVars, jobVars, crashes, dismissed>>

\* launchd asks an instance to go.
Unwanted == service = "removing" \/ kicked

\* SIGTERM or SIGINT, once there is a handler: no connection is accepted any
\* more.  launchd sends it, or anyone at any time.
Terminate(i) ==
    /\ proc[i] = "agent"
    /\ Stop(i)
    /\ Becomes(i, "stopping")
    /\ dismissed' = (service = "loaded" /\ ~due)
    /\ UNCHANGED <<launchdVars, jobVars, due, kicked, crashes>>

Die(i) ==
    /\ Becomes(i, "none")
    /\ IF step[i] = "down" THEN UNCHANGED vars ELSE Kill(i)

\* launchd's SIGTERM before there is a handler, or SIGKILL for want of an exit.
Signalled(i) ==
    /\ Unwanted /\ Alive(i)
    /\ Die(i)
    /\ UNCHANGED <<launchdVars, jobVars, due, kicked, crashes, dismissed>>

-----------------------------------------------------------------------------
(* An instance: `start --fg`.                                               *)

\* The config is loaded again, now without a shell; an error ends it.
LoadConfig(i) ==
    /\ proc[i] = "loading"
    /\ IF Usable(job.path, NoEnvironment)
       THEN Becomes(i, "agent") /\ Start(i)
       ELSE Becomes(i, "failing") /\ UNCHANGED vars
    /\ UNCHANGED <<launchdVars, jobVars, due, kicked, crashes, dismissed>>

\* A claim that fails is an error too.
Claim(i) ==
    /\ Connect(i) \/ Clear(i) \/ Bind(i)
    /\ IF step'[i] = "down" THEN Becomes(i, "failing") ELSE UNCHANGED proc
    /\ IF step'[i] = "down" /\ exit' \in IOErrors
       THEN crashes < MaxCrashes /\ crashes' = crashes + 1
       ELSE UNCHANGED crashes
    /\ UNCHANGED <<launchdVars, jobVars, due, kicked, dismissed>>

\* "agent listener failed"
ListenerFails(i) ==
    /\ crashes < MaxCrashes /\ crashes' = crashes + 1
    /\ proc[i] = "agent"
    /\ Stop(i)
    /\ Becomes(i, "failing")
    /\ UNCHANGED <<launchdVars, jobVars, due, kicked, dismissed>>

ReleaseSocket(i) ==
    /\ Release(i)
    /\ UNCHANGED <<launchdVars, jobVars, due, kicked, proc, crashes, dismissed>>

\* Fault: KeepAlive is true, whatever the exit.
Leave_AlwaysRestarts(i) ==
    /\ proc[i] \in {"stopping", "failing"} /\ step[i] = "down"
    /\ Becomes(i, "none")
    /\ due' = TRUE
    /\ UNCHANGED <<vars, launchdVars, jobVars, kicked, crashes, dismissed>>

\* The runtime goes once a prompt that is up has returned.  KeepAlive wants
\* another instance, unless this one exits with success.
Leave(i) ==
    /\ proc[i] \in {"stopping", "failing"} /\ step[i] = "down"
    /\ Becomes(i, "none")
    /\ due' = (due \/ proc[i] = "failing")
    /\ UNCHANGED <<vars, launchdVars, jobVars, kicked, crashes, dismissed>>

\* A panic, SIGKILL, or a signal before there is a handler: not a success.
Crash(i) ==
    /\ crashes < MaxCrashes /\ crashes' = crashes + 1
    /\ Alive(i)
    /\ Die(i)
    /\ due' = TRUE /\ dismissed' = FALSE
    /\ UNCHANGED <<launchdVars, jobVars, kicked>>

ServiceNext ==
    \/ StartCommand \/ WritePlist \/ BootstrapJob \/ KickstartJob \/ Command
    \/ Edit
    \/ Vanish \/ PowerCycle
    \/ \E i \in Instances :
          \/ Spawn(i) \/ LoadConfig(i) \/ Claim(i) \/ ListenerFails(i)
          \/ Terminate(i) \/ ReleaseSocket(i) \/ Leave(i)
          \/ Signalled(i) \/ Crash(i)

ServiceSpec == ServiceInit /\ [][ServiceNext]_serviceVars

\* launchd starts what is due and ends what it signalled; instances run on,
\* and no prompt stays up for longer than its timeout.
ServiceFairSpec ==
    /\ ServiceSpec
    /\ \A i \in Instances :
          /\ WF_serviceVars(Spawn(i)) /\ WF_serviceVars(LoadConfig(i))
          /\ WF_serviceVars(Claim(i)) /\ WF_serviceVars(ReleaseSocket(i))
          /\ WF_serviceVars(Leave(i)) /\ WF_serviceVars(Signalled(i))

-----------------------------------------------------------------------------
(* Properties.                                                              *)

(* launchd never runs two instances at a time, however starts, stops, kicks *)
(* and crashes interleave: so claims of the socket never overlap, nor a     *)
(* claim and a shutdown, which `claim_socket` and `release_socket` rely on. *)
Serial == INSTANCE AgentSocket WITH ClaimsOverlap <- FALSE, StopOverlapsStart <- FALSE
SerialUnderLaunchd == Serial!Spec

(* "an invalid config must fail here, not crash-loop inside a freshly       *)
(* installed LaunchAgent": an instance fails over its config only when the  *)
(* file is no longer the one that the installing start had checked.         *)
NoCrashLoop == [][\A i \in Instances :
    proc[i] = "loading" /\ proc'[i] = "failing" => At(job.path) # job.file]_serviceVars

(* "A clean stop must stay stopped" by the KeepAlive of the plist: once one *)
(* was asked to go, by whoever sent the signal, launchd starts no other     *)
(* until a command, a reboot or a crash on the way out calls for one.       *)
CleanStopStays == [][\A i \in Instances :
    ~Alive(i) /\ Alive(i)' => ~dismissed]_serviceVars

(* An agent that is to run comes back: as long as launchd has the service   *)
(* loaded, with a config that loads, and nobody has dismissed the agent,    *)
(* somebody serves again and again, whatever the crashes, the shutdowns and *)
(* the failed claims before left at the socket path.                        *)
EventuallyServes ==
    <>[](service = "loaded" /\ ~dismissed /\ Usable(job.path, NoEnvironment)) =>
        []<>(\E i \in Instances : step[i] = "serving" /\ path = i)
=============================================================================
