------------------------------- MODULE Launchd -------------------------------
(***************************************************************************)
(* The lifecycle commands of src/daemon.rs, `start`, `stop` and            *)
(* `uninstall`, run from several terminals against one launchd.  Every     *)
(* launchctl invocation is a step of its own: launchd and the other        *)
(* terminals move in between.                                              *)
(*                                                                         *)
(* What launchd does is taken from how the commands use it: bootout begins *)
(* a removal and fails on a service that is not loaded or is being removed *)
(* already; print finds a service until it is gone; bootstrap needs it     *)
(* gone; kickstart may still accept a service that is about to vanish.     *)
(***************************************************************************)
EXTENDS Naturals

CONSTANTS
    Terminals,
    RemovalFits   \* launchd always finishes a removal within the retry budget

ASSUME LaunchdAssumption == RemovalFits \in BOOLEAN

VARIABLES
    service,   \* "absent", "loaded" or "removing"
    plist,     \* the plist is installed
    step,      \* of the command each terminal runs, "idle" between commands
    bootedOut, \* its own bootout succeeded
    expired,   \* its retry budget is spent
    report,    \* what its last command said
    \* History: somebody booted the service out since its own bootout.
    disturbed

vars == <<service, plist, step, bootedOut, expired, report, disturbed>>

StartSteps == {"write", "bootout", "await", "bootstrap", "recheck", "judge",
               "kickstart"}

TypeOK ==
    /\ service \in {"absent", "loaded", "removing"}
    /\ plist \in BOOLEAN
    /\ step \in [Terminals -> StartSteps \cup {"idle", "stop", "uninstall",
                                               "remove"}]
    /\ bootedOut \in [Terminals -> BOOLEAN]
    /\ expired \in [Terminals -> BOOLEAN]
    /\ report \in [Terminals -> {"none", "running", "stopped", "removed",
                                 "failed"}]
    /\ disturbed \in [Terminals -> BOOLEAN]

Init ==
    /\ service = "absent"
    /\ plist \in BOOLEAN
    /\ step = [t \in Terminals |-> "idle"]
    /\ bootedOut = [t \in Terminals |-> FALSE]
    /\ expired = [t \in Terminals |-> FALSE]
    /\ report = [t \in Terminals |-> "none"]
    /\ disturbed = [t \in Terminals |-> FALSE]

Go(t, to) == step' = [step EXCEPT ![t] = to] /\ UNCHANGED report

Report(t, what) ==
    /\ step' = [step EXCEPT ![t] = "idle"]
    /\ report' = [report EXCEPT ![t] = what]

IsLoaded == service # "absent"

\* launchctl bootout, with `success` its exit status.
BootOut(t, success) ==
    /\ success = (service = "loaded")
    /\ service' = IF success THEN "removing" ELSE service
    /\ disturbed' = [u \in Terminals |-> u # t /\ (success \/ disturbed[u])]

-----------------------------------------------------------------------------
(* launchd, and a login after a reboot.                                     *)

Removed ==
    /\ service = "removing"
    /\ service' = "absent"
    /\ UNCHANGED <<plist, step, bootedOut, expired, report, disturbed>>

Reboot ==
    /\ service' = IF plist THEN "loaded" ELSE "absent"
    /\ step' = [t \in Terminals |-> "idle"]
    /\ report' = [t \in Terminals |-> "none"]
    /\ UNCHANGED <<plist, bootedOut, expired, disturbed>>

-----------------------------------------------------------------------------
(* start                                                                    *)

\* A config that needs env vars, an unresolvable path or a planted symlink
\* ends the command before anything is written.
Start(t) ==
    /\ step[t] = "idle"
    /\ Go(t, "write") \/ Report(t, "failed")
    /\ bootedOut' = [bootedOut EXCEPT ![t] = FALSE]
    /\ expired' = [expired EXCEPT ![t] = FALSE]
    /\ UNCHANGED <<service, plist, disturbed>>

StartWrite(t) ==
    /\ step[t] = "write"
    /\ \/ Go(t, "bootout") /\ plist' = TRUE
       \/ Report(t, "failed") /\ plist' \in {plist, TRUE}
    /\ UNCHANGED <<service, bootedOut, expired, disturbed>>

StartBootOut(t) ==
    /\ step[t] = "bootout"
    /\ Go(t, "await")
    /\ \E success \in BOOLEAN :
          /\ BootOut(t, success)
          /\ bootedOut' = [bootedOut EXCEPT ![t] = success]
    /\ UNCHANGED <<plist, expired>>

\* The deadline of both loops.
BudgetSpent(t) ==
    /\ step[t] \in {"await", "bootstrap", "recheck"} /\ ~expired[t]
    /\ RemovalFits => service # "removing"
    /\ expired' = [expired EXCEPT ![t] = TRUE]
    /\ UNCHANGED <<service, plist, step, bootedOut, report, disturbed>>

\* Fault: bootstrap is tried at once.
AwaitRemoval_Skipped(t) ==
    /\ step[t] = "await"
    /\ Go(t, "bootstrap")
    /\ UNCHANGED <<service, plist, bootedOut, expired, disturbed>>

\* Fault: the wait for the removal has no deadline.
AwaitRemoval_NoDeadline(t) ==
    /\ step[t] = "await"
    /\ ~IsLoaded
    /\ Go(t, "bootstrap")
    /\ UNCHANGED <<service, plist, bootedOut, expired, disturbed>>

AwaitRemoval(t) ==
    /\ step[t] = "await"
    /\ ~IsLoaded \/ expired[t]
    /\ Go(t, "bootstrap")
    /\ UNCHANGED <<service, plist, bootedOut, expired, disturbed>>

\* bootstrap, which may also fail for reasons of its own.
Bootstrap(t) ==
    /\ step[t] = "bootstrap"
    /\ \/ /\ service = "absent" /\ plist
          /\ service' = "loaded"
          /\ Go(t, "kickstart")
       \/ /\ Go(t, "recheck")
          /\ UNCHANGED service
    /\ UNCHANGED <<plist, bootedOut, expired, disturbed>>

\* Retry only what our own bootout began, and only within the budget.
Recheck(t) ==
    /\ step[t] = "recheck"
    /\ Go(t, IF IsLoaded \/ ~bootedOut[t] \/ expired[t]
             THEN "judge" ELSE "bootstrap")
    /\ UNCHANGED <<service, plist, bootedOut, expired, disturbed>>

\* Fault: a start that failed does not return.
Judge_Hangs(t) ==
    /\ step[t] = "judge"
    /\ Go(t, IF IsLoaded THEN "kickstart" ELSE "failed")
    /\ UNCHANGED <<service, plist, bootedOut, expired, disturbed>>

\* A failed bootstrap is accepted when the service is loaded anyway.
Judge(t) ==
    /\ step[t] = "judge"
    /\ IF IsLoaded THEN Go(t, "kickstart") ELSE Report(t, "failed")
    /\ UNCHANGED <<service, plist, bootedOut, expired, disturbed>>

Kickstart(t) ==
    /\ step[t] = "kickstart"
    /\ \/ IsLoaded /\ Report(t, "running")
       \/ Report(t, "failed")
    /\ UNCHANGED <<service, plist, bootedOut, expired, disturbed>>

-----------------------------------------------------------------------------
(* stop and uninstall                                                       *)

Stop(t) ==
    /\ step[t] = "idle"
    /\ \E success \in BOOLEAN :
          /\ BootOut(t, success)
          /\ Report(t, IF success THEN "stopped" ELSE "failed")
    /\ UNCHANGED <<plist, bootedOut, expired>>

Uninstall(t) ==
    /\ step[t] = "idle"
    /\ \E success \in BOOLEAN : BootOut(t, success)
    /\ Go(t, "remove")
    /\ UNCHANGED <<plist, bootedOut, expired>>

RemovePlist(t) ==
    /\ step[t] = "remove"
    /\ \/ Report(t, "removed") /\ plist' = FALSE
       \/ Report(t, "failed") /\ UNCHANGED plist
    /\ UNCHANGED <<service, bootedOut, expired, disturbed>>

Next ==
    \/ Removed
    \/ Reboot
    \/ \E t \in Terminals :
          \/ Start(t) \/ StartWrite(t) \/ StartBootOut(t) \/ BudgetSpent(t)
          \/ AwaitRemoval(t) \/ Bootstrap(t) \/ Recheck(t) \/ Judge(t)
          \/ Kickstart(t)
          \/ Stop(t) \/ Uninstall(t) \/ RemovePlist(t)

Spec == Init /\ [][Next]_vars

\* launchd finishes removals, commands run on, and their time passes, be it
\* in between removals.
FairSpec ==
    /\ Spec
    /\ WF_vars(Removed)
    /\ \A t \in Terminals :
          /\ WF_vars(StartWrite(t)) /\ WF_vars(StartBootOut(t))
          /\ WF_vars(AwaitRemoval(t)) /\ WF_vars(Bootstrap(t))
          /\ WF_vars(Recheck(t)) /\ WF_vars(Judge(t))
          /\ WF_vars(Kickstart(t)) /\ WF_vars(RemovePlist(t))
          /\ SF_vars(BudgetSpent(t))

-----------------------------------------------------------------------------
(* Properties.                                                              *)

(* "tapwarden is running in the background": a start that says so leaves a  *)
(* service that is loaded to stay, and not the old one on its way out,      *)
(* whoever had booted that one out before; unless another terminal boots    *)
(* the service out while the start is under way.                            *)
StartedMeansLoaded == [][\A t \in Terminals :
    step[t] = "kickstart" /\ report'[t] = "running" /\ step'[t] = "idle"
        /\ ~disturbed[t]
    => service' = "loaded"]_vars

(* Both loops end at the budget: every command returns.                     *)
CommandsReturn == \A t \in Terminals : step[t] # "idle" ~> step[t] = "idle"
=============================================================================
