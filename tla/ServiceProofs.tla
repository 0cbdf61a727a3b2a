---------------------------- MODULE ServiceProofs ----------------------------
(* Theorems about Service, for any instances, files, shells and number of   *)
(* crashes.                                                                 *)
EXTENDS Service, TLAPS

-----------------------------------------------------------------------------
(* One instance at a time.                                                  *)

ServiceTypes ==
    /\ step \in [Instances -> Starting \cup {"down", "serving", "release"}]
    /\ proc \in [Instances -> {"none", "loading", "agent", "stopping", "failing"}]

\* launchd waits for one to end before it starts another.
OneAlive == \A i, j \in Instances : Alive(i) /\ Alive(j) => i = j

\* What an instance does at the socket, by what it is.
SocketOfProc == \A i \in Instances :
    /\ proc[i] \in {"none", "loading"} => step[i] = "down"
    /\ proc[i] = "agent" => step[i] \in Starting \cup {"serving"}
    /\ proc[i] \in {"stopping", "failing"} => step[i] \in {"down", "release"}

OneInv == ServiceTypes /\ OneAlive /\ SocketOfProc

\* Nothing runs at first.
LEMMA InitOneInv == ServiceInit => OneInv
BY DEF ServiceInit, Init, OneInv, ServiceTypes, OneAlive, SocketOfProc, Alive, Starting

\* What ends only one instance keeps it.
LEMMA DieOneInv ==
    ASSUME OneInv, NEW i \in Instances, Die(i)
    PROVE  OneInv'
BY DEF Die, Kill, Exit, Go, Becomes, vars, OneInv, ServiceTypes, OneAlive,
       SocketOfProc, Alive, Starting

\* Every step keeps it.
LEMMA OneStep ==
    ASSUME OneInv, [ServiceNext]_serviceVars
    PROVE  OneInv'
<1> USE DEF OneInv, ServiceTypes, OneAlive, SocketOfProc, Alive, Becomes, Starting
<1>1. CASE \/ StartCommand \/ WritePlist \/ BootstrapJob \/ KickstartJob \/ Command
           \/ Edit \/ Vanish
  BY <1>1 DEF StartCommand, WritePlist, BootstrapJob, KickstartJob, Command, Edit,
              Vanish, vars
<1>2. CASE PowerCycle
  BY <1>2 DEF PowerCycle
<1>3. ASSUME NEW i \in Instances, Spawn(i) PROVE OneInv'
  BY <1>3 DEF Spawn, vars
<1>4. ASSUME NEW i \in Instances, LoadConfig(i) PROVE OneInv'
  BY <1>4 DEF LoadConfig, Start, Go, vars
<1>5. ASSUME NEW i \in Instances, Claim(i) PROVE OneInv'
  <2>1. step[i] \in Starting /\ proc[i] = "agent"
    BY <1>5 DEF Claim, Connect, Clear, Bind
  <2>2. step' = [step EXCEPT ![i] = step'[i]]
        /\ step'[i] \in {"down", "clear", "bind", "serving"}
    BY <1>5 DEF Claim, Connect, Clear, Bind, Go, Exit
  <2> QED BY <1>5, <2>1, <2>2 DEF Claim
<1>6. ASSUME NEW i \in Instances, ListenerFails(i) \/ Terminate(i) PROVE OneInv'
  BY <1>6 DEF ListenerFails, Terminate, Stop, Go
<1>7. ASSUME NEW i \in Instances, ReleaseSocket(i) PROVE OneInv'
  BY <1>7 DEF ReleaseSocket, Release, Exit, Go
<1>8. ASSUME NEW i \in Instances, Leave(i) PROVE OneInv'
  BY <1>8 DEF Leave, vars
<1>9. ASSUME NEW i \in Instances, Signalled(i) \/ Crash(i) PROVE OneInv'
  BY <1>9, DieOneInv DEF Signalled, Crash
<1>10. CASE UNCHANGED serviceVars
  BY <1>10 DEF serviceVars, vars
<1> QED BY <1>1, <1>2, <1>3, <1>4, <1>5, <1>6, <1>7, <1>8, <1>9, <1>10
   DEF ServiceNext

\* It holds of every run of the service.
THEOREM OneAtATime == ServiceSpec => []OneInv
<1>1. OneInv /\ [ServiceNext]_serviceVars => OneInv'
  BY OneStep
<1> QED BY InitOneInv, <1>1, PTL DEF ServiceSpec

\* What an instance does at the socket is a step of claims that never overlap.
LEMMA SerialStep ==
    ASSUME OneInv, [ServiceNext]_serviceVars
    PROVE  [Serial!Next]_vars
<1> USE DEF OneInv, ServiceTypes, OneAlive, SocketOfProc, Alive, Becomes, Starting,
            Serial!Next
<1>1. CASE \/ StartCommand \/ WritePlist \/ BootstrapJob \/ KickstartJob \/ Command
           \/ Edit \/ Vanish
  BY <1>1 DEF StartCommand, WritePlist, BootstrapJob, KickstartJob, Command, Edit,
              Vanish
<1>2. CASE PowerCycle
  <2>1. CASE \A i \in Instances : step[i] = "down"
    <3>1. step' = step
      BY <1>2, <2>1 DEF PowerCycle
    <3> QED BY <1>2, <2>1, <3>1 DEF PowerCycle, vars
  <2>2. ASSUME NEW i \in Instances, step[i] # "down"
        PROVE  Serial!Kill(i)
    <3>1. \A j \in Instances : j # i => step[j] = "down"
      BY <2>2
    <3>2. step' = [step EXCEPT ![i] = "down"]
      BY <1>2, <3>1 DEF PowerCycle
    <3> QED BY <1>2, <2>2, <3>2 DEF PowerCycle, Serial!Kill, Serial!Exit, Serial!Go
  <2> QED BY <2>1, <2>2
<1>3. ASSUME NEW i \in Instances, LoadConfig(i) PROVE [Serial!Next]_vars
  <2>1. \A j \in Instances : step[j] = "down"
    BY <1>3 DEF LoadConfig
  <2>2. CASE Start(i)
    BY <2>1, <2>2 DEF Start, Go, Serial!Start, Serial!MayStart, Serial!Go,
                      Serial!Starting
  <2> QED BY <1>3, <2>2 DEF LoadConfig
<1>4. ASSUME NEW i \in Instances, Claim(i) PROVE [Serial!Next]_vars
  BY <1>4 DEF Claim, Connect, Clear, Bind, Answering, Exit, Go, Serial!Connect,
              Serial!Clear, Serial!Bind, Serial!Answering, Serial!Exit, Serial!Go
<1>5. ASSUME NEW i \in Instances, ListenerFails(i) \/ Terminate(i)
      PROVE  [Serial!Next]_vars
  <2>1. Stop(i) /\ proc[i] = "agent"
    BY <1>5 DEF ListenerFails, Terminate
  <2>2. \A j \in Instances : step[j] \notin Starting
    BY <2>1 DEF Stop
  <2> QED BY <2>1, <2>2 DEF Stop, Go, Serial!Stop, Serial!MayStop, Serial!Go,
                            Serial!Starting
<1>6. ASSUME NEW i \in Instances, ReleaseSocket(i) PROVE [Serial!Next]_vars
  BY <1>6 DEF ReleaseSocket, Release, Exit, Go, Serial!Release, Serial!Exit, Serial!Go
<1>7. ASSUME NEW i \in Instances, Signalled(i) \/ Crash(i) PROVE [Serial!Next]_vars
  BY <1>7 DEF Signalled, Crash, Die, Kill, Exit, Go, Serial!Kill, Serial!Exit,
              Serial!Go
<1>8. ASSUME NEW i \in Instances, Spawn(i) \/ Leave(i) PROVE [Serial!Next]_vars
  BY <1>8 DEF Spawn, Leave
<1>9. CASE UNCHANGED serviceVars
  BY <1>9 DEF serviceVars
<1> QED BY <1>1, <1>2, <1>3, <1>4, <1>5, <1>6, <1>7, <1>8, <1>9 DEF ServiceNext

(* Under launchd, claims of the socket never overlap, nor does one with a   *)
(* shutdown: the socket is used the way claim_socket needs it to be.        *)
THEOREM LaunchdSerializes == ServiceSpec => SerialUnderLaunchd
<1>1. ServiceInit => Serial!Init
  BY DEF ServiceInit, Init, Serial!Init
<1>2. OneInv /\ [ServiceNext]_serviceVars => [Serial!Next]_Serial!vars
  BY SerialStep DEF vars, Serial!vars
<1> QED BY <1>1, <1>2, OneAtATime, PTL
        DEF ServiceSpec, SerialUnderLaunchd, Serial!Spec

\* What AgentSocketProofs proves of claims that do not overlap.
Sockets == INSTANCE AgentSocketProofs
              WITH ClaimsOverlap <- FALSE, StopOverlapsStart <- FALSE

\* It is proved of the same specification.
LEMMA SameSockets ==
    /\ Serial!Spec <=> Sockets!Spec
    /\ Sockets!Serial
    /\ Sockets!ServerIsReachable <=> ServerIsReachable
    /\ Sockets!RefusedOnlyWhileServed <=> RefusedOnlyWhileServed
<1>1. Serial!Init <=> Sockets!Init
  BY DEF Serial!Init, Sockets!Init
<1>2. [Serial!Next]_Serial!vars <=> [Sockets!Next]_Sockets!vars
  BY DEF Serial!vars, Sockets!vars, Serial!Next, Sockets!Next,
         Serial!Start, Serial!MayStart, Serial!Starting, Serial!Go, Serial!Exit,
         Serial!Connect, Serial!Answering, Serial!Clear, Serial!Bind, Serial!Stop,
         Serial!MayStop, Serial!Release, Serial!Kill,
         Sockets!Start, Sockets!MayStart, Sockets!Starting, Sockets!Go, Sockets!Exit,
         Sockets!Connect, Sockets!Answering, Sockets!Clear, Sockets!Bind,
         Sockets!Stop, Sockets!MayStop, Sockets!Release, Sockets!Kill
<1>3. Serial!Spec <=> Sockets!Spec
  BY <1>1, <1>2, PTL DEF Serial!Spec, Sockets!Spec
<1>4. Sockets!Serial
  BY DEF Sockets!Serial
<1>5. Sockets!ServerIsReachable <=> ServerIsReachable
  BY DEF Sockets!ServerIsReachable, ServerIsReachable
<1>6. Sockets!RefusedOnlyWhileServed <=> RefusedOnlyWhileServed
  <2>1. [\A i \in Instances :
           /\ step[i] \in Sockets!Starting /\ step'[i] = "down"
           /\ exit' \notin {"killed"} \cup Sockets!IOErrors
           => \E j \in Instances : step[j] = "serving" /\ path = j]_Sockets!vars
        <=>
        [\A i \in Instances :
           /\ step[i] \in Starting /\ step'[i] = "down"
           /\ exit' \notin {"killed"} \cup IOErrors
           => \E j \in Instances : step[j] = "serving" /\ path = j]_vars
    BY DEF Sockets!Starting, Starting, Sockets!IOErrors, IOErrors, Sockets!vars, vars
  <2> QED BY <2>1, PTL DEF Sockets!RefusedOnlyWhileServed, RefusedOnlyWhileServed
<1> QED BY <1>3, <1>4, <1>5, <1>6

(* Under launchd a server is the one clients reach, and nothing an instance *)
(* leaves behind that the file system lets go of keeps the next from        *)
(* starting.                                                                *)
THEOREM ReachableUnderLaunchd ==
    ServiceSpec => []ServerIsReachable /\ RefusedOnlyWhileServed
<1>1. Sockets!Spec => []Sockets!ServerIsReachable
  BY SameSockets, SocketAssumption, Sockets!ServersAreReachable
<1>2. Sockets!Spec => Sockets!RefusedOnlyWhileServed
  BY SameSockets, SocketAssumption, Sockets!StaleSocketsAreCleared
<1>3. Sockets!ServerIsReachable <=> ServerIsReachable
  BY SameSockets
<1>4. /\ Serial!Spec <=> Sockets!Spec
      /\ Sockets!RefusedOnlyWhileServed <=> RefusedOnlyWhileServed
  BY SameSockets
<1> QED BY <1>1, <1>2, <1>3, <1>4, LaunchdSerializes, PTL DEF SerialUnderLaunchd

-----------------------------------------------------------------------------
(* The config an instance is started with.                                  *)

\* What `start` accepts, launchd can run.
Fits(j) ==
    LET c == Load(Flag(j.path), j.file, NoEnvironment)
    IN  c # Refused /\ Builds(c, NoEnvironment)

\* A config that needs nothing of a shell is the same without one.
LEMMA CheckedFits ==
    ASSUME NEW flag, NEW file, NEW env,
           Load(flag, file, env) # Refused,
           ~UsesEnvCredentials(Load(flag, file, env))
    PROVE  /\ Load(flag, file, NoEnvironment) # Refused
           /\ Builds(Load(flag, file, NoEnvironment), NoEnvironment)
<1>1. file.form = "yaml"
  <2>1. Load(flag, file, env) = Read(flag, file, env)
    BY DEF Load
  <2>2. SUFFICES ASSUME file.form # "yaml" PROVE FALSE
    OBVIOUS
  <2>3. Read(flag, file, env) \in {Refused, FromEnv(env)}
    BY <2>2 DEF Read
  <2> QED BY <2>1, <2>3 DEF FromEnv, UsesEnvCredentials
<1>2. Load(flag, file, env) = file /\ Load(flag, file, NoEnvironment) = file
  BY <1>1 DEF Load, Read
<1>3. Valid(file)
  BY <1>1, <1>2 DEF Load, Read
<1> QED BY <1>2, <1>3 DEF Builds, Valid, UsesEnvCredentials, CredentialsSet

\* What is checked, installed and loaded was fit to run when it was checked.
JobsFit ==
    /\ command[Terminal] = "write" => Fits(checked)
    /\ plist => Fits(installed)
    /\ service # "absent" => Fits(job)
    /\ \A i \in Instances : Alive(i) => service # "absent"
    /\ DOMAIN command = {Terminal}

\* No plist is installed at first.
LEMMA InitJobsFit == ServiceInit => JobsFit
BY DEF ServiceInit, JobsFit, L!Init, Alive

\* `start` checks what it installs.
LEMMA StartChecks ==
    ASSUME JobsFit, StartCommand
    PROVE  JobsFit'
<1>1. UNCHANGED <<service, plist, installed, job, proc>>
  BY DEF StartCommand, L!Start
<1>2. DOMAIN command' = {Terminal}
  BY DEF StartCommand, L!Start, L!Go, L!Report, JobsFit
<1>3. ASSUME command'[Terminal] = "write" PROVE Fits(checked')
  <2>1. PICK p \in Paths, env \in Shells :
           /\ Load(Flag(p), At(p), env) # Refused
           /\ ~UsesEnvCredentials(Load(Flag(p), At(p), env))
           /\ checked' = [path |-> p, file |-> At(p)]
    BY <1>3 DEF StartCommand
  <2> QED BY <2>1, CheckedFits DEF Fits
<1> QED BY <1>1, <1>2, <1>3 DEF JobsFit, Fits, Alive

\* Every step keeps it.
LEMMA JobsStep ==
    ASSUME OneInv, JobsFit, [ServiceNext]_serviceVars
    PROVE  JobsFit'
<1> USE DEF JobsFit, Fits, Alive, Becomes
<1>1. CASE StartCommand
  BY <1>1, StartChecks
<1>2. CASE WritePlist
  BY <1>2 DEF WritePlist, L!StartWrite, L!Go, L!Report
<1>3. CASE BootstrapJob
  BY <1>3 DEF BootstrapJob, L!Bootstrap, L!Go
<1>4. CASE KickstartJob
  BY <1>4 DEF KickstartJob, jobVars, L!Kickstart, L!Report
<1>5. CASE Command
  <2> USE DEF jobVars, L!Go, L!Report
  <2>1. UNCHANGED <<checked, installed, job, proc>>
    BY <1>5 DEF Command
  <2>2. /\ service' = "absent" <=> service = "absent"
        /\ plist' => plist
        /\ DOMAIN command' = {Terminal}
        /\ command'[Terminal] # "write"
    BY <1>5 DEF Command, L!StartBootOut, L!BudgetSpent, L!AwaitRemoval, L!Recheck,
                L!Judge, L!Stop, L!Uninstall, L!RemovePlist, L!BootOut
  <2> QED BY <2>1, <2>2
<1>6. CASE Edit
  BY <1>6 DEF Edit, launchdVars
<1>7. CASE Vanish
  BY <1>7 DEF Vanish, jobVars, L!Removed
<1>8. CASE PowerCycle
  BY <1>8 DEF PowerCycle, L!Reboot
<1>9. ASSUME NEW i \in Instances,
             \/ Spawn(i) \/ LoadConfig(i) \/ Claim(i) \/ ListenerFails(i)
             \/ Terminate(i) \/ ReleaseSocket(i) \/ Leave(i)
             \/ Signalled(i) \/ Crash(i)
      PROVE  JobsFit'
  <2>1. UNCHANGED <<launchdVars, jobVars>>
    BY <1>9 DEF Spawn, LoadConfig, Claim, ListenerFails, Terminate, ReleaseSocket,
                Leave, Signalled, Crash
  <2>2. CASE Spawn(i)
    BY <2>1, <2>2 DEF Spawn, launchdVars, jobVars
  <2>3. CASE ~Spawn(i)
    <3>1. \A j \in Instances : proc'[j] # "none" => proc[j] # "none"
      <4> USE <1>9, <2>3 DEF OneInv, ServiceTypes
      <4>1. CASE Claim(i)
        BY <4>1 DEF Claim, Connect, Clear, Bind, SocketOfProc
      <4>2. CASE ReleaseSocket(i)
        BY <4>2 DEF ReleaseSocket
      <4> QED BY <4>1, <4>2 DEF LoadConfig, ListenerFails, Terminate, Leave,
                                Signalled, Crash, Die
    <3> QED BY <2>1, <3>1 DEF launchdVars, jobVars
  <2> QED BY <2>2, <2>3
<1>10. CASE UNCHANGED serviceVars
  BY <1>10 DEF serviceVars, launchdVars, jobVars
<1> QED BY <1>1, <1>2, <1>3, <1>4, <1>5, <1>6, <1>7, <1>8, <1>9, <1>10
   DEF ServiceNext

(* A start never installs what launchd cannot run: an instance fails over   *)
(* its config only once the file has been changed since it was checked.     *)
THEOREM NeverCrashLoops == ServiceSpec => NoCrashLoop
<1>1. JobsFit /\ OneInv /\ [ServiceNext]_serviceVars => JobsFit'
  BY JobsStep
<1>2. ASSUME OneInv, JobsFit, [ServiceNext]_serviceVars, NEW i \in Instances,
             proc[i] = "loading", proc'[i] = "failing"
      PROVE  At(job.path) # job.file
  <2>1. PICK k \in Instances : LoadConfig(k) \/ Claim(k) \/ ListenerFails(k)
    BY <1>2 DEF ServiceNext, serviceVars, OneInv, ServiceTypes, Becomes, StartCommand,
                WritePlist, BootstrapJob, KickstartJob, Command, Edit, Vanish,
                PowerCycle, Spawn, Terminate, ReleaseSocket, Leave, Signalled, Crash,
                Die
  <2>2. proc' = proc \/ proc' = [proc EXCEPT ![k] = proc'[k]]
    BY <2>1, <1>2 DEF LoadConfig, Claim, ListenerFails, Becomes, OneInv, ServiceTypes
  <2>3. k = i
    <3>1. proc'[i] # proc[i]
      BY <1>2
    <3>2. k # i => proc'[i] = proc[i]
      BY <2>2, <1>2 DEF OneInv, ServiceTypes
    <3> QED BY <3>1, <3>2
  <2>4. LoadConfig(i)
    BY <1>2, <2>1, <2>3 DEF Claim, ListenerFails, Connect, Clear, Bind, OneInv,
                            SocketOfProc
  <2>5. ~Usable(job.path, NoEnvironment)
    BY <1>2, <2>4 DEF LoadConfig, Becomes, OneInv, ServiceTypes
  <2>6. Fits(job)
    BY <1>2 DEF JobsFit, Alive
  <2> QED BY <2>5, <2>6 DEF Usable, Fits
<1>3. OneInv /\ JobsFit /\ [ServiceNext]_serviceVars =>
        [\A i \in Instances :
            proc[i] = "loading" /\ proc'[i] = "failing" =>
                At(job.path) # job.file]_serviceVars
  BY <1>2
<1> QED BY InitJobsFit, <1>1, <1>3, OneAtATime, PTL DEF NoCrashLoop, ServiceSpec

-----------------------------------------------------------------------------
(* A clean stop.                                                            *)

\* Once an instance was asked to go, it goes, and none is due.
DismissedInv == dismissed =>
    /\ ~due
    /\ \A i \in Instances : proc[i] \in {"none", "stopping"}

\* Every step keeps it.
LEMMA DismissedStep ==
    ASSUME OneInv, DismissedInv, [ServiceNext]_serviceVars
    PROVE  DismissedInv'
<1> USE DEF OneInv, ServiceTypes, DismissedInv, Becomes
<1>1. CASE StartCommand \/ WritePlist \/ Command \/ Edit \/ Vanish
  BY <1>1 DEF StartCommand, WritePlist, Command, Edit, Vanish
<1>2. CASE BootstrapJob \/ KickstartJob \/ PowerCycle
  BY <1>2 DEF BootstrapJob, KickstartJob, PowerCycle
<1>3. ASSUME NEW i \in Instances, Spawn(i) \/ Leave(i) PROVE DismissedInv'
  BY <1>3 DEF Spawn, Leave
<1>4. ASSUME NEW i \in Instances, Terminate(i) PROVE DismissedInv'
  BY <1>4 DEF Terminate, OneAlive, Alive
<1>5. ASSUME NEW i \in Instances, LoadConfig(i) \/ ListenerFails(i)
      PROVE  DismissedInv'
  BY <1>5 DEF LoadConfig, ListenerFails
<1>6. ASSUME NEW i \in Instances, Claim(i) PROVE DismissedInv'
  <2>1. step[i] \in Starting
    BY <1>6 DEF Claim, Connect, Clear, Bind, Starting
  <2>2. ~dismissed
    BY <2>1 DEF SocketOfProc, Starting
  <2> QED BY <1>6, <2>2 DEF Claim
<1>7. ASSUME NEW i \in Instances, ReleaseSocket(i) PROVE DismissedInv'
  BY <1>7 DEF ReleaseSocket
<1>8. ASSUME NEW i \in Instances, Signalled(i) \/ Crash(i) PROVE DismissedInv'
  BY <1>8 DEF Signalled, Crash, Die
<1>9. CASE UNCHANGED serviceVars
  BY <1>9 DEF serviceVars
<1> QED BY <1>1, <1>2, <1>3, <1>4, <1>5, <1>6, <1>7, <1>8, <1>9 DEF ServiceNext

(* An agent that was asked to go stays down until a command, a reboot or a  *)
(* crash on its way out calls for another.                                  *)
THEOREM CleanStopsStay == ServiceSpec => CleanStopStays
<1>1. ServiceInit => DismissedInv
  BY DEF ServiceInit, DismissedInv
<1>2. OneInv /\ DismissedInv /\ [ServiceNext]_serviceVars => DismissedInv'
  BY DismissedStep
<1>3. ASSUME OneInv, DismissedInv, [ServiceNext]_serviceVars, NEW i \in Instances,
             ~Alive(i), Alive(i)'
      PROVE  ~dismissed
  <2>1. PICK k \in Instances : Spawn(k) \/ LoadConfig(k) \/ Claim(k) \/ Leave(k)
                               \/ Terminate(k) \/ ListenerFails(k)
                               \/ Signalled(k) \/ Crash(k)
    BY <1>3 DEF ServiceNext, serviceVars, Alive, StartCommand, WritePlist,
                BootstrapJob, KickstartJob, Command, Edit, Vanish, PowerCycle,
                ReleaseSocket
  <2>2. CASE Spawn(k)
    BY <1>3, <2>2 DEF Spawn, DismissedInv
  <2>3. CASE ~Spawn(k)
    <3>1. \A j \in Instances : proc'[j] # "none" => proc[j] # "none"
      <4> USE <1>3, <2>1, <2>3 DEF OneInv, ServiceTypes, Becomes, Alive
      <4>1. CASE Claim(k)
        BY <4>1 DEF Claim, Connect, Clear, Bind, SocketOfProc
      <4> QED BY <4>1 DEF LoadConfig, ListenerFails, Terminate, Leave, Signalled,
                          Crash, Die
    <3> QED BY <1>3, <3>1 DEF Alive
  <2> QED BY <2>2, <2>3
<1>4. OneInv /\ DismissedInv /\ [ServiceNext]_serviceVars =>
        [\A i \in Instances : ~Alive(i) /\ Alive(i)' => ~dismissed]_serviceVars
  BY <1>3
<1> QED BY <1>1, <1>2, <1>4, OneAtATime, PTL DEF CleanStopStays, ServiceSpec

-----------------------------------------------------------------------------
(* The commands, and the types.                                             *)

\* A step of the service is one of the commands' or of launchd's, or leaves
\* them where they were.
LEMMA LaunchdStep == [ServiceNext]_serviceVars => [L!Next]_L!vars
<1> USE DEF L!Next, L!vars, launchdVars
<1>1. ASSUME StartCommand \/ WritePlist \/ BootstrapJob \/ KickstartJob \/ Command
      PROVE  L!Next
  BY <1>1 DEF StartCommand, WritePlist, BootstrapJob, KickstartJob, Command
<1>2. ASSUME Vanish \/ PowerCycle PROVE L!Next
  BY <1>2 DEF Vanish, PowerCycle
<1>3. ASSUME Edit PROVE UNCHANGED L!vars
  BY <1>3 DEF Edit
<1>4. ASSUME NEW i \in Instances,
             \/ Spawn(i) \/ LoadConfig(i) \/ Claim(i) \/ ListenerFails(i)
             \/ Terminate(i) \/ ReleaseSocket(i) \/ Leave(i)
             \/ Signalled(i) \/ Crash(i)
      PROVE  UNCHANGED L!vars
  BY <1>4 DEF Spawn, LoadConfig, Claim, ListenerFails, Terminate, ReleaseSocket, Leave,
              Signalled, Crash
<1>5. UNCHANGED serviceVars => UNCHANGED L!vars
  BY DEF serviceVars
<1> QED BY <1>1, <1>2, <1>3, <1>4, <1>5 DEF ServiceNext

(* The service implements the lifecycle commands, for one terminal and a    *)
(* launchd that takes as long as it likes over a removal.                   *)
THEOREM ImplementsLaunchd == ServiceSpec => L!Spec
<1>1. ServiceInit => L!Init
  BY DEF ServiceInit
<1> QED BY <1>1, LaunchdStep, PTL DEF ServiceSpec, L!Spec

\* What LaunchdProofs proves of the commands.
Commands == INSTANCE LaunchdProofs
               WITH Terminals <- {Terminal}, RemovalFits <- FALSE, step <- command

\* It is proved of the same specification.
LEMMA SameCommands ==
    /\ L!Spec <=> Commands!Spec
    /\ L!TypeOK <=> Commands!TypeOK
<1>1. L!Init <=> Commands!Init
  BY DEF L!Init, Commands!Init
<1>2. [L!Next]_L!vars <=> [Commands!Next]_Commands!vars
  BY DEF L!vars, Commands!vars, L!Next, Commands!Next,
         L!Removed, L!Reboot, L!Start, L!StartWrite, L!StartBootOut, L!BudgetSpent,
         L!AwaitRemoval, L!Bootstrap, L!Recheck, L!Judge, L!Kickstart, L!Stop,
         L!Uninstall, L!RemovePlist, L!Go, L!Report, L!IsLoaded, L!BootOut,
         Commands!Removed, Commands!Reboot, Commands!Start, Commands!StartWrite,
         Commands!StartBootOut, Commands!BudgetSpent, Commands!AwaitRemoval,
         Commands!Bootstrap, Commands!Recheck, Commands!Judge, Commands!Kickstart,
         Commands!Stop, Commands!Uninstall, Commands!RemovePlist, Commands!Go,
         Commands!Report, Commands!IsLoaded, Commands!BootOut
<1>3. L!Spec <=> Commands!Spec
  BY <1>1, <1>2, PTL DEF L!Spec, Commands!Spec
<1>4. L!TypeOK <=> Commands!TypeOK
  BY DEF L!TypeOK, Commands!TypeOK, L!StartSteps, Commands!StartSteps
<1> QED BY <1>3, <1>4

\* The rest of the types, those of the instances apart.
FileTypes ==
    /\ disk \in Files
    /\ {checked, installed, job} \subseteq Jobs
    /\ due \in BOOLEAN /\ kicked \in BOOLEAN
    /\ crashes \in 0..MaxCrashes
    /\ path \in Instances \cup {NoSocket}
    /\ exit \in {"none", "occupied", "in use", "stopped", "killed"} \cup IOErrors
    /\ dismissed \in BOOLEAN

\* Crashes are counted up to their bound.
LEMMA CrashTypes ==
    /\ 0 \in 0..MaxCrashes
    /\ \A n \in 0..MaxCrashes : n < MaxCrashes => n + 1 \in 0..MaxCrashes
<1>1. MaxCrashes \in Nat
  BY ServiceAssumption
<1> QED BY <1>1

\* The file at a path is one there can be.
LEMMA JobTypes ==
    /\ disk \in Files => \A p \in Paths : [path |-> p, file |-> At(p)] \in Jobs
    /\ NoJob \in Jobs
BY ServiceAssumption DEF Jobs, At, Paths, NoJob

\* Every step keeps them.
LEMMA FileStep ==
    ASSUME OneInv, L!TypeOK, FileTypes, [ServiceNext]_serviceVars
    PROVE  FileTypes'
<1> USE CrashTypes DEF FileTypes
<1>1. CASE StartCommand
  <2>1. checked' = checked \/ \E p \in Paths : checked' = [path |-> p, file |-> At(p)]
    BY <1>1 DEF StartCommand
  <2> QED BY <1>1, <2>1, JobTypes DEF StartCommand, vars
<1>2. CASE WritePlist \/ BootstrapJob \/ KickstartJob \/ Command
  BY <1>2, JobTypes DEF WritePlist, BootstrapJob, KickstartJob, Command, jobVars, vars
<1>3. CASE Edit \/ Vanish
  BY <1>3 DEF Edit, Vanish, jobVars, vars
<1>4. CASE PowerCycle
  <2>1. plist \in BOOLEAN
    BY DEF L!TypeOK
  <2> QED BY <1>4, <2>1, JobTypes DEF PowerCycle
<1>5. ASSUME NEW i \in Instances, Spawn(i) \/ Leave(i) PROVE FileTypes'
  BY <1>5 DEF Spawn, Leave, jobVars, vars
<1>6. ASSUME NEW i \in Instances, LoadConfig(i) \/ ReleaseSocket(i) PROVE FileTypes'
  BY <1>6 DEF LoadConfig, ReleaseSocket, Start, Release, Exit, jobVars, vars
<1>7. ASSUME NEW i \in Instances, Claim(i) PROVE FileTypes'
  BY <1>7 DEF Claim, Connect, Clear, Bind, Exit, IOErrors, jobVars
<1>8. ASSUME NEW i \in Instances, ListenerFails(i) \/ Terminate(i) PROVE FileTypes'
  BY <1>8 DEF ListenerFails, Terminate, Stop, jobVars
<1>9. ASSUME NEW i \in Instances, Signalled(i) \/ Crash(i) PROVE FileTypes'
  BY <1>9 DEF Signalled, Crash, Die, Kill, Exit, jobVars, vars
<1>10. CASE UNCHANGED serviceVars
  BY <1>10 DEF serviceVars, jobVars, vars
<1> QED BY <1>1, <1>2, <1>3, <1>4, <1>5, <1>6, <1>7, <1>8, <1>9, <1>10
   DEF ServiceNext

(* The variables of the service keep their types.                           *)
THEOREM TypeCorrect == ServiceSpec => []ServiceTypeOK
<1>1. ServiceSpec => []L!TypeOK
  <2>1. Commands!Spec => []Commands!TypeOK
    BY Commands!TypeCorrect
  <2>2. L!TypeOK <=> Commands!TypeOK
    BY SameCommands
  <2>3. L!Spec <=> Commands!Spec
    BY SameCommands
  <2> QED BY <2>1, <2>2, <2>3, ImplementsLaunchd, PTL
<1>2. ServiceInit => FileTypes
  BY JobTypes, CrashTypes DEF ServiceInit, Init, FileTypes
<1>3. OneInv /\ L!TypeOK /\ FileTypes /\ [ServiceNext]_serviceVars => FileTypes'
  BY FileStep
<1>4. OneInv /\ L!TypeOK /\ FileTypes => ServiceTypeOK
  BY DEF OneInv, ServiceTypes, FileTypes, ServiceTypeOK, TypeOK
<1> QED BY <1>1, <1>2, <1>3, <1>4, OneAtATime, PTL DEF ServiceSpec
=============================================================================
