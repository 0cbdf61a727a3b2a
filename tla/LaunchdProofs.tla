---------------------------- MODULE LaunchdProofs ----------------------------
(* Theorems about Launchd, for any terminals.                               *)
EXTENDS Launchd, TLAPS

\* Every step keeps the types, however long removals take.
LEMMA TypeStep ==
    ASSUME TypeOK, [Next]_vars
    PROVE  TypeOK'
<1> USE DEF TypeOK, StartSteps, Go, Report, BootOut
<1>1. CASE Removed \/ Reboot
  BY <1>1 DEF Removed, Reboot
<1>2. ASSUME NEW t \in Terminals, Start(t) \/ StartWrite(t) PROVE TypeOK'
  BY <1>2 DEF Start, StartWrite
<1>3. ASSUME NEW t \in Terminals, StartBootOut(t) \/ Stop(t) PROVE TypeOK'
  BY <1>3 DEF StartBootOut, Stop
<1>4. ASSUME NEW t \in Terminals, Uninstall(t) PROVE TypeOK'
  <2>1. PICK success \in BOOLEAN : BootOut(t, success)
    BY <1>4 DEF Uninstall
  <2> QED BY <1>4, <2>1 DEF Uninstall
<1>5. ASSUME NEW t \in Terminals,
             BudgetSpent(t) \/ AwaitRemoval(t) \/ Recheck(t) \/ Judge(t)
      PROVE  TypeOK'
  BY <1>5 DEF BudgetSpent, AwaitRemoval, Recheck, Judge
<1>6. ASSUME NEW t \in Terminals, Bootstrap(t) \/ Kickstart(t) \/ RemovePlist(t)
      PROVE  TypeOK'
  BY <1>6 DEF Bootstrap, Kickstart, RemovePlist
<1>7. CASE UNCHANGED vars
  BY <1>7 DEF vars
<1> QED BY <1>1, <1>2, <1>3, <1>4, <1>5, <1>6, <1>7 DEF Next

(* The variables of the commands and of launchd keep their types.           *)
THEOREM TypeCorrect == Spec => []TypeOK
<1>1. Init => TypeOK
  BY DEF Init, TypeOK
<1>2. TypeOK /\ [Next]_vars => TypeOK'
  BY TypeStep
<1> QED BY <1>1, <1>2, PTL DEF Spec

\* A start has its whole budget when its own bootout has begun a removal.
BudgetUntouched == \A t \in Terminals :
    step[t] \in {"write", "bootout"} => ~expired[t]

\* Past the wait, the old service is gone for good, unless some other
\* terminal began another removal since this one's bootout.
RemovalOver == \A t \in Terminals :
    \/ step[t] \in {"bootstrap", "recheck", "judge", "kickstart"}
    \/ step[t] = "await" /\ expired[t]
    => disturbed[t] \/ service # "removing"

\* A start that reaches its kickstart has the service loaded.
KickstartLoaded == \A t \in Terminals :
    step[t] = "kickstart" => disturbed[t] \/ service = "loaded"

IInv == TypeOK /\ BudgetUntouched /\ RemovalOver /\ KickstartLoaded

\* No command runs at first, so the invariant holds.
LEMMA InitIInv == Init => IInv
BY DEF Init, IInv, TypeOK, BudgetUntouched, RemovalOver, KickstartLoaded

\* Every step keeps the invariant, when removals end within the budget.
LEMMA Step ==
    ASSUME RemovalFits, IInv, [Next]_vars
    PROVE  IInv'
<1> USE DEF IInv, TypeOK, BudgetUntouched, RemovalOver, KickstartLoaded,
            StartSteps, Go, Report, IsLoaded, BootOut
<1>1. CASE Removed
  BY <1>1 DEF Removed
<1>2. CASE Reboot
  BY <1>2 DEF Reboot
<1>3. ASSUME NEW t \in Terminals, Start(t) \/ StartWrite(t) PROVE IInv'
  BY <1>3 DEF Start, StartWrite
<1>4. ASSUME NEW t \in Terminals, StartBootOut(t) PROVE IInv'
  BY <1>4 DEF StartBootOut
<1>5. ASSUME NEW t \in Terminals, BudgetSpent(t) PROVE IInv'
  BY <1>5 DEF BudgetSpent
<1>6. ASSUME NEW t \in Terminals, AwaitRemoval(t) \/ Recheck(t) \/ Judge(t)
      PROVE  IInv'
  BY <1>6 DEF AwaitRemoval, Recheck, Judge
<1>7. ASSUME NEW t \in Terminals, Bootstrap(t) \/ Kickstart(t) PROVE IInv'
  BY <1>7 DEF Bootstrap, Kickstart
<1>8. ASSUME NEW t \in Terminals, Stop(t) PROVE IInv'
  BY <1>8 DEF Stop
<1>9. ASSUME NEW t \in Terminals, Uninstall(t) PROVE IInv'
  <2>1. PICK success \in BOOLEAN : BootOut(t, success)
    BY <1>9 DEF Uninstall
  <2> QED BY <1>9, <2>1 DEF Uninstall
<1>10. ASSUME NEW t \in Terminals, RemovePlist(t) PROVE IInv'
  BY <1>10 DEF RemovePlist
<1>11. CASE UNCHANGED vars
  BY <1>11 DEF vars
<1> QED BY <1>1, <1>2, <1>3, <1>4, <1>5, <1>6, <1>7, <1>8, <1>9, <1>10, <1>11
   DEF Next

\* The invariant holds of every run of start, stop and uninstall.
THEOREM Inductive ==
    ASSUME RemovalFits
    PROVE  Spec => []IInv
<1>1. IInv /\ [Next]_vars => IInv'
  BY Step
<1> QED BY InitIInv, <1>1, PTL DEF Spec

(* A start that reports success leaves the service loaded, if launchd       *)
(* finishes removals within the budget of start.                            *)
THEOREM SuccessMeansLoaded ==
    ASSUME RemovalFits
    PROVE  Spec => StartedMeansLoaded
<1>1. ASSUME IInv, [Next]_vars, NEW t \in Terminals, step[t] = "kickstart",
             report'[t] = "running", step'[t] = "idle", ~disturbed[t]
      PROVE  service' = "loaded"
  <2> USE <1>1 DEF IInv, TypeOK, KickstartLoaded
  <2>1. service = "loaded"
    OBVIOUS
  <2>2. CASE Removed \/ Reboot
    BY <2>1, <2>2 DEF Removed, Reboot
  <2>3. ASSUME NEW u \in Terminals,
               \/ Start(u) \/ StartWrite(u) \/ BudgetSpent(u)
               \/ AwaitRemoval(u) \/ Recheck(u) \/ Judge(u)
               \/ Kickstart(u) \/ RemovePlist(u)
        PROVE  service' = "loaded"
    BY <2>1, <2>3 DEF Start, StartWrite, BudgetSpent, AwaitRemoval, Recheck,
                      Judge, Kickstart, RemovePlist
  <2>4. ASSUME NEW u \in Terminals, Bootstrap(u) PROVE service' = "loaded"
    BY <2>1, <2>4 DEF Bootstrap
  <2>5. ASSUME NEW u \in Terminals, StartBootOut(u) \/ Stop(u) \/ Uninstall(u)
        PROVE  service' = "loaded"
    BY <2>5 DEF StartBootOut, Stop, Uninstall, Go, Report
  <2> QED BY <2>1, <2>2, <2>3, <2>4, <2>5 DEF Next, vars
<1>2. IInv /\ [Next]_vars =>
        [\A t \in Terminals :
            step[t] = "kickstart" /\ report'[t] = "running" /\ step'[t] = "idle"
                /\ ~disturbed[t]
            => service' = "loaded"]_vars
  BY <1>1
<1> QED BY Inductive, <1>2, PTL DEF StartedMeansLoaded, Spec
=============================================================================
