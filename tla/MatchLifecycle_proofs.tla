----------------------- MODULE MatchLifecycle_proofs -----------------------
(***************************************************************************)
(* Proofs about MatchLifecycle for any number of matches, hosts and        *)
(* activities, with or without inline teardown, under any set of faults.   *)
(***************************************************************************)
EXTENDS MatchLifecycle, TLAPS

\* Which match rows and instance statuses go with a recorded result.
RowsMatchResult ==
    \A m \in Match :
        /\ match[m] = "none" <=> si[m] = "none"
        /\ result[m] = NoResult =>
              match[m] \in {"none", "started"} /\ si[m] \in {"none", "starting", "deleted"}
        /\ result[m] # NoResult => match[m] \in {"cooldown", "deleted"}

\* Whoever is inside the teardown of m won the claim: m has a result, and its
\* instance cannot be claimed again until the holder reverts the claim.
HolderOwns ==
    \A m \in Match, p \in Proc : TearsDown(p, m) =>
        /\ result[m] # NoResult
        /\ si[m] \in {"tearing_down", "deleted"}

\* An activity that ends or reconciles a match works on one that was started.
WorksOn(p, m) ==
    /\ task[p].step \in EndingSteps \cup {"orphan_free", "orphan_mark"}
    /\ task[p].match = m

WorksOnStarted ==
    \A m \in Match, p \in Proc : WorksOn(p, m) => match[m] # "none"

\* The inductive invariant.
IInv ==
    /\ TypeOK
    /\ RowsMatchResult
    /\ RatingMatchesResult
    /\ HolderOwns
    /\ ClaimExclusive
    /\ WorksOnStarted
-----------------------------------------------------------------------------

\* The invariant holds before any match is started.
LEMMA InitInv == Init => IInv
<1> USE LifecycleAssumption
<1> SUFFICES ASSUME Init PROVE IInv
  OBVIOUS
<1>1. TypeOK
  BY DEF Init, TypeOK, MatchStatus, InstanceStatus, Task, Idle
<1>2. RowsMatchResult /\ RatingMatchesResult
  BY DEF Init, RowsMatchResult, RatingMatchesResult, NoResult
<1>3. \A p \in Proc, m \in Match : ~TearsDown(p, m)
  BY DEF Init, TearsDown, Teardown, Idle, TeardownSteps
<1>4. WorksOnStarted
  BY DEF Init, WorksOnStarted, WorksOn, Ending, Orphaning, Idle, EndingSteps
<1> QED
  BY <1>1, <1>2, <1>3, <1>4 DEF IInv, HolderOwns, ClaimExclusive

\* Every step of an activity, of the game, the clock or the provider keeps the types.
LEMMA TypeStep == TypeOK /\ [Next]_vars => TypeOK'
<1> SUFFICES ASSUME TypeOK, [Next]_vars PROVE TypeOK'
  OBVIOUS
<1> USE DEF TypeOK, Become, fleet
<1>1. ASSUME NEW m \in Match, StartMatch(m) PROVE TypeOK'
  BY <1>1 DEF StartMatch, MatchStatus, InstanceStatus
<1>2. ASSUME NEW m \in Match, Tick(m) PROVE TypeOK'
  BY <1>2 DEF Tick, MaxAge
<1>3. ASSUME NEW m \in Match, GameExits(m) PROVE TypeOK'
  BY <1>3 DEF GameExits
<1>4. ASSUME NEW p \in Proc, NEW m \in Match, ReportResults(p, m) PROVE TypeOK'
  BY <1>4 DEF ReportResults, Ending, Outcome, Task, EndingSteps
<1>5. ASSUME NEW p \in Proc, NEW m \in Match, GarbageCollectMatches(p, m) PROVE TypeOK'
  BY <1>5 DEF GarbageCollectMatches, Ending, TimedOut, Outcome, Task,
     EndingSteps
<1>6. ASSUME NEW p \in Proc, NEW m \in Match, EndMatch(p, m) PROVE TypeOK'
  BY <1>6 DEF EndMatch, Ending, Idle, Task, EndingSteps
<1>7. ASSUME NEW p \in Proc, NEW m \in Match, MatchEnded(p, m) PROVE TypeOK'
  BY <1>7 DEF MatchEnded, Claiming, Idle, Task, MatchStatus, InstanceStatus
<1>8. ASSUME NEW p \in Proc, NEW m \in Match, MatchEndedRefused(p, m) PROVE TypeOK'
  BY <1>8 DEF MatchEndedRefused, Idle, Task
<1>9. ASSUME NEW p \in Proc, NEW m \in Match, SweepCooledMatches(p, m) PROVE TypeOK'
  BY <1>9 DEF SweepCooledMatches, Claiming, Task
<1>10. ASSUME NEW p \in Proc, NEW m \in Match, ClaimCooldownInstance(p, m) PROVE TypeOK'
  BY <1>10 DEF ClaimCooldownInstance, Teardown, Task, TeardownSteps,
     InstanceStatus, PastForceDeadline
<1>11. ASSUME NEW p \in Proc, NEW m \in Match, ClaimLost(p, m) PROVE TypeOK'
  BY <1>11 DEF ClaimLost, Idle, Task
<1>12. ASSUME NEW p \in Proc, NEW m \in Match, StopContainer(p, m) PROVE TypeOK'
  BY <1>12 DEF StopContainer, Teardown, Task, TeardownSteps
<1>13. ASSUME NEW p \in Proc, NEW m \in Match, StopFails(p, m) PROVE TypeOK'
  BY <1>13 DEF StopFails, OnStopFailure, Teardown, Task, TeardownSteps
<1>14. ASSUME NEW p \in Proc, NEW m \in Match, RevertTearingDownToCooldown(p, m) PROVE TypeOK'
  BY <1>14 DEF RevertTearingDownToCooldown, Idle, Task, InstanceStatus
<1>15. ASSUME NEW p \in Proc, NEW m \in Match, FreePorts(p, m) PROVE TypeOK'
  BY <1>15 DEF FreePorts, Teardown, Task, TeardownSteps
<1>16. ASSUME NEW p \in Proc, NEW m \in Match, SetInstanceDeleted(p, m) PROVE TypeOK'
  BY <1>16 DEF SetInstanceDeleted, Teardown, Task, TeardownSteps,
     InstanceStatus
<1>17. ASSUME NEW p \in Proc, NEW m \in Match, FinalizeMatchTeardown(p, m) PROVE TypeOK'
  BY <1>17 DEF FinalizeMatchTeardown, Reaping, Task, ReapSteps, MatchStatus
<1>18. ASSUME NEW p \in Proc, NEW m \in Match, ReconcileOrphanedInstances(p, m) PROVE TypeOK'
  BY <1>18 DEF ReconcileOrphanedInstances, Orphaning, Task
<1>19. ASSUME NEW p \in Proc, NEW m \in Match, FreeOrphanPorts(p, m) PROVE TypeOK'
  BY <1>19 DEF FreeOrphanPorts, Orphaning, Task
<1>20. ASSUME NEW p \in Proc, NEW m \in Match, SetOrphanDeleted(p, m) PROVE TypeOK'
  BY <1>20 DEF SetOrphanDeleted, Idle, Task, InstanceStatus
<1>21. ASSUME NEW p \in Proc, NEW h \in Host, CountActiveInstances(p, h) PROVE TypeOK'
  BY <1>21 DEF CountActiveInstances, Reaping, Idle, Task, ReapSteps
<1>22. ASSUME NEW p \in Proc, NEW h \in Host, SetMachineHostDeleted(p, h) PROVE TypeOK'
  BY <1>22 DEF SetMachineHostDeleted, Reaping, Idle, Task, ReapSteps
<1>23. ASSUME NEW p \in Proc, NEW h \in Host, DeleteHost(p, h) PROVE TypeOK'
  BY <1>23 DEF DeleteHost, VMDown, On, Idle, Task
<1>24. ASSUME NEW p \in Proc, NEW h \in Host, ReconcileLiveHosts(p, h) PROVE TypeOK'
  BY <1>24 DEF ReconcileLiveHosts, Losing, On, Task
<1>25. ASSUME NEW p \in Proc, NEW h \in Host, FreeLostPorts(p, h) PROVE TypeOK'
  BY <1>25 DEF FreeLostPorts, Losing, Task
<1>26. ASSUME NEW p \in Proc, NEW h \in Host, BuryLostHost(p, h) PROVE TypeOK'
  BY <1>26 DEF BuryLostHost, Idle, Task
<1>27. ASSUME NEW h \in Host, LoseVM(h) PROVE TypeOK'
  BY <1>27 DEF LoseVM, VMDown, On
<1>28. ASSUME NEW p \in Proc, Crash(p) PROVE TypeOK'
  BY <1>28 DEF Crash, Idle, Task
<1>29. CASE UNCHANGED vars
  BY <1>29 DEF vars
<1> QED
  BY <1>1, <1>2, <1>3, <1>4, <1>5, <1>6, <1>7, <1>8, <1>9, <1>10, <1>11,
     <1>12, <1>13, <1>14, <1>15, <1>16, <1>17, <1>18, <1>19, <1>20, <1>21,
     <1>22, <1>23, <1>24, <1>25, <1>26, <1>27, <1>28, <1>29 DEF Next, Begin,
     Work, EndStep, TeardownStep, OrphanStep, HostStep

\* Nobody new gets inside a teardown except by winning the claim.
LEMMA NoNewHolder ==
    ASSUME TypeOK, [Next]_vars
    PROVE  \A q \in Proc, n \in Match :
              TearsDown(q, n)' => TearsDown(q, n) \/ ClaimCooldownInstance(q, n)
<1> SUFFICES ASSUME NEW q \in Proc, NEW n \in Match,
                    TearsDown(q, n)', ~TearsDown(q, n)
             PROVE  ClaimCooldownInstance(q, n)
  OBVIOUS
<1> USE DEF TypeOK, Become, TearsDown, Teardown, TeardownSteps
<1>1. ASSUME NEW p \in Proc, NEW m \in Match, ClaimCooldownInstance(p, m)
      PROVE  ClaimCooldownInstance(q, n)
  <2>1. PICK f : task' = [task EXCEPT ![p] = [step |-> "stop", match |-> m, force |-> f]]
    BY <1>1 DEF ClaimCooldownInstance
  <2>2. p = q
    BY <2>1
  <2>3. task'[q].match = n
    OBVIOUS
  <2>4. m = n
    BY <2>1, <2>2, <2>3
  <2> QED
    BY <1>1, <2>2, <2>4
<1>2. ASSUME NEW m \in Match, StartMatch(m) PROVE FALSE
  BY <1>2 DEF StartMatch
<1>3. ASSUME NEW m \in Match, Tick(m) PROVE FALSE
  BY <1>3 DEF Tick
<1>4. ASSUME NEW m \in Match, GameExits(m) PROVE FALSE
  BY <1>4 DEF GameExits
<1>5. ASSUME NEW p \in Proc, NEW m \in Match, ReportResults(p, m) PROVE FALSE
  BY <1>5 DEF ReportResults, Ending
<1>6. ASSUME NEW p \in Proc, NEW m \in Match, GarbageCollectMatches(p, m) PROVE FALSE
  BY <1>6 DEF GarbageCollectMatches, Ending
<1>7. ASSUME NEW p \in Proc, NEW m \in Match, EndMatch(p, m) PROVE FALSE
  BY <1>7 DEF EndMatch, Ending, Idle
<1>8. ASSUME NEW p \in Proc, NEW m \in Match, MatchEnded(p, m) PROVE FALSE
  BY <1>8 DEF MatchEnded, Claiming, Idle
<1>9. ASSUME NEW p \in Proc, NEW m \in Match, MatchEndedRefused(p, m) PROVE FALSE
  BY <1>9 DEF MatchEndedRefused, Idle
<1>10. ASSUME NEW p \in Proc, NEW m \in Match, SweepCooledMatches(p, m) PROVE FALSE
  BY <1>10 DEF SweepCooledMatches, Claiming
<1>11. ASSUME NEW p \in Proc, NEW m \in Match, ClaimLost(p, m) PROVE FALSE
  BY <1>11 DEF ClaimLost, Idle
<1>12. ASSUME NEW p \in Proc, NEW m \in Match, StopContainer(p, m) PROVE FALSE
  BY <1>12 DEF StopContainer
<1>13. ASSUME NEW p \in Proc, NEW m \in Match, StopFails(p, m) PROVE FALSE
  BY <1>13 DEF StopFails, OnStopFailure
<1>14. ASSUME NEW p \in Proc, NEW m \in Match, RevertTearingDownToCooldown(p, m) PROVE FALSE
  BY <1>14 DEF RevertTearingDownToCooldown, Idle
<1>15. ASSUME NEW p \in Proc, NEW m \in Match, FreePorts(p, m) PROVE FALSE
  BY <1>15 DEF FreePorts
<1>16. ASSUME NEW p \in Proc, NEW m \in Match, SetInstanceDeleted(p, m) PROVE FALSE
  BY <1>16 DEF SetInstanceDeleted
<1>17. ASSUME NEW p \in Proc, NEW m \in Match, FinalizeMatchTeardown(p, m) PROVE FALSE
  BY <1>17 DEF FinalizeMatchTeardown, Reaping
<1>18. ASSUME NEW p \in Proc, NEW m \in Match, ReconcileOrphanedInstances(p, m) PROVE FALSE
  BY <1>18 DEF ReconcileOrphanedInstances, Orphaning
<1>19. ASSUME NEW p \in Proc, NEW m \in Match, FreeOrphanPorts(p, m) PROVE FALSE
  BY <1>19 DEF FreeOrphanPorts, Orphaning
<1>20. ASSUME NEW p \in Proc, NEW m \in Match, SetOrphanDeleted(p, m) PROVE FALSE
  BY <1>20 DEF SetOrphanDeleted, Idle
<1>21. ASSUME NEW p \in Proc, NEW h \in Host, CountActiveInstances(p, h) PROVE FALSE
  BY <1>21 DEF CountActiveInstances, Reaping, Idle
<1>22. ASSUME NEW p \in Proc, NEW h \in Host, SetMachineHostDeleted(p, h) PROVE FALSE
  BY <1>22 DEF SetMachineHostDeleted, Reaping, Idle
<1>23. ASSUME NEW p \in Proc, NEW h \in Host, DeleteHost(p, h) PROVE FALSE
  BY <1>23 DEF DeleteHost, Idle
<1>24. ASSUME NEW p \in Proc, NEW h \in Host, ReconcileLiveHosts(p, h) PROVE FALSE
  BY <1>24 DEF ReconcileLiveHosts, Losing
<1>25. ASSUME NEW p \in Proc, NEW h \in Host, FreeLostPorts(p, h) PROVE FALSE
  BY <1>25 DEF FreeLostPorts, Losing
<1>26. ASSUME NEW p \in Proc, NEW h \in Host, BuryLostHost(p, h) PROVE FALSE
  BY <1>26 DEF BuryLostHost, Idle
<1>27. ASSUME NEW h \in Host, LoseVM(h) PROVE FALSE
  BY <1>27 DEF LoseVM
<1>28. ASSUME NEW p \in Proc, Crash(p) PROVE FALSE
  BY <1>28 DEF Crash, Idle
<1>29. CASE UNCHANGED vars
  BY <1>29 DEF vars
<1> QED
  BY <1>1, <1>2, <1>3, <1>4, <1>5, <1>6, <1>7, <1>8, <1>9, <1>10, <1>11,
     <1>12, <1>13, <1>14, <1>15, <1>16, <1>17, <1>18, <1>19, <1>20, <1>21,
     <1>22, <1>23, <1>24, <1>25, <1>26, <1>27, <1>28, <1>29 DEF Next, Begin,
     Work, EndStep, TeardownStep, OrphanStep, HostStep

\* The steps that write match, instance or result rows.
LEMMA RowWriters ==
    ASSUME [Next]_vars
    PROVE  \/ \E m \in Match : StartMatch(m)
           \/ \E p \in Proc, m \in Match :
                 \/ MatchEnded(p, m)
                 \/ ClaimCooldownInstance(p, m)
                 \/ RevertTearingDownToCooldown(p, m)
                 \/ SetInstanceDeleted(p, m)
                 \/ FinalizeMatchTeardown(p, m)
                 \/ SetOrphanDeleted(p, m)
           \/ UNCHANGED <<match, si, result, rated>>
<1> USE DEF fleet
<1>1. ASSUME NEW p \in Proc, NEW m \in Match,
             EndStep(p, m) \/ TeardownStep(p, m) \/ OrphanStep(p, m)
      PROVE  \/ MatchEnded(p, m)
             \/ ClaimCooldownInstance(p, m)
             \/ RevertTearingDownToCooldown(p, m)
             \/ SetInstanceDeleted(p, m)
             \/ FinalizeMatchTeardown(p, m)
             \/ SetOrphanDeleted(p, m)
             \/ UNCHANGED <<match, si, result, rated>>
  BY <1>1 DEF EndStep, TeardownStep, OrphanStep, EndMatch, MatchEndedRefused, ClaimLost,
     StopContainer, StopFails, FreePorts, FreeOrphanPorts
<1>2. ASSUME NEW p \in Proc, NEW h \in Host, HostStep(p, h)
      PROVE  UNCHANGED <<match, si, result, rated>>
  BY <1>2 DEF HostStep, CountActiveInstances, SetMachineHostDeleted, DeleteHost,
     FreeLostPorts, BuryLostHost
<1>3. ASSUME NEW p \in Proc, Begin(p) \/ Crash(p)
      PROVE  UNCHANGED <<match, si, result, rated>>
  BY <1>3 DEF Begin, Crash, ReportResults, GarbageCollectMatches, SweepCooledMatches,
     ReconcileOrphanedInstances, ReconcileLiveHosts
<1>4. ASSUME NEW m \in Match, Tick(m) \/ GameExits(m)
      PROVE  UNCHANGED <<match, si, result, rated>>
  BY <1>4 DEF Tick, GameExits
<1>5. ASSUME NEW h \in Host, LoseVM(h)
      PROVE  UNCHANGED <<match, si, result, rated>>
  BY <1>5 DEF LoseVM
<1>6. CASE UNCHANGED vars
  BY <1>6 DEF vars
<1> QED
  BY <1>1, <1>2, <1>3, <1>4, <1>5, <1>6 DEF Next, Work

\* A recorded outcome is never the absence of one.
LEMMA OutcomeIsAResult == \A o \in Outcome : o # NoResult
BY LifecycleAssumption DEF Outcome, NoResult

\* The match, instance and result rows, and the rating, agree after every step.
LEMMA RowsStep ==
    ASSUME IInv, [Next]_vars
    PROVE  RowsMatchResult' /\ RatingMatchesResult'
<1> USE DEF IInv, TypeOK, RowsMatchResult, RatingMatchesResult
<1>1. ASSUME NEW m \in Match, StartMatch(m)
      PROVE  RowsMatchResult' /\ RatingMatchesResult'
  BY <1>1 DEF StartMatch
<1>2. ASSUME NEW p \in Proc, NEW m \in Match, MatchEnded(p, m)
      PROVE  RowsMatchResult' /\ RatingMatchesResult'
  <2>1. PICK o \in Outcome :
           /\ task[p] = Ending("record", m, o)
           /\ result' = [result EXCEPT ![m] = o]
           /\ rated' = [rated EXCEPT ![m] = IF RatesMatch(m, o) THEN @ + 1 ELSE @]
    BY <1>2 DEF MatchEnded
  <2>2. o # NoResult
    BY OutcomeIsAResult
  <2>3. match[m] # "none"
    BY <2>1 DEF WorksOnStarted, WorksOn, EndingSteps, Ending
  <2>4. RowsMatchResult'
    BY <1>2, <2>1, <2>2, <2>3 DEF MatchEnded
  <2>5. result[m] = NoResult /\ rated[m] = 0
    BY <1>2 DEF MatchEnded, PrimaryKeyFree
  <2>6. RatingMatchesResult'
    BY <2>1, <2>2, <2>5 DEF RatesMatch, Outcome
  <2> QED
    BY <2>4, <2>6
<1>3. ASSUME NEW p \in Proc, NEW m \in Match, ClaimCooldownInstance(p, m)
      PROVE  RowsMatchResult' /\ RatingMatchesResult'
  BY <1>3 DEF ClaimCooldownInstance, Claimable
<1>4. ASSUME NEW p \in Proc, NEW m \in Match, RevertTearingDownToCooldown(p, m)
      PROVE  RowsMatchResult' /\ RatingMatchesResult'
  BY <1>4 DEF RevertTearingDownToCooldown, Revertible
<1>5. ASSUME NEW p \in Proc, NEW m \in Match, SetInstanceDeleted(p, m)
      PROVE  RowsMatchResult' /\ RatingMatchesResult'
  <2>1. TearsDown(p, m)
    BY <1>5 DEF SetInstanceDeleted, TearsDown, TeardownSteps
  <2> QED
    BY <1>5, <2>1 DEF SetInstanceDeleted, HolderOwns
<1>6. ASSUME NEW p \in Proc, NEW m \in Match, FinalizeMatchTeardown(p, m)
      PROVE  RowsMatchResult' /\ RatingMatchesResult'
  <2>1. TearsDown(p, m)
    BY <1>6 DEF FinalizeMatchTeardown, TearsDown, TeardownSteps
  <2> QED
    BY <1>6, <2>1 DEF FinalizeMatchTeardown, HolderOwns
<1>7. ASSUME NEW p \in Proc, NEW m \in Match, SetOrphanDeleted(p, m)
      PROVE  RowsMatchResult' /\ RatingMatchesResult'
  <2>1. match[m] # "none"
    BY <1>7 DEF SetOrphanDeleted, WorksOnStarted, WorksOn, Orphaning
  <2> QED
    BY <1>7, <2>1 DEF SetOrphanDeleted
<1>8. CASE UNCHANGED <<match, si, result, rated>>
  BY <1>8
<1> QED
  BY <1>1, <1>2, <1>3, <1>4, <1>5, <1>6, <1>7, <1>8, RowWriters

\* A claim succeeds only while nobody holds the instance, and gives it to p.
LEMMA ClaimIsFresh ==
    ASSUME IInv, [Next]_vars, NEW p \in Proc, NEW m \in Match,
           ClaimCooldownInstance(p, m)
    PROVE  /\ \A q \in Proc : ~TearsDown(q, m)
           /\ \A q \in Proc : TearsDown(q, m)' => q = p
<1>1. \A q \in Proc : ~TearsDown(q, m)
  BY DEF IInv, HolderOwns, ClaimCooldownInstance, Claimable
<1>2. ASSUME NEW q \in Proc, TearsDown(q, m)', q # p PROVE FALSE
  <2>1. task'[q] = task[q]
    BY <1>2 DEF ClaimCooldownInstance, Become, IInv, TypeOK
  <2> QED
    BY <1>1, <1>2, <2>1 DEF TearsDown
<1> QED
  BY <1>1, <1>2

\* After every step whoever is inside a teardown owns it, and is alone in it.
LEMMA HolderStep ==
    ASSUME IInv, [Next]_vars
    PROVE  HolderOwns' /\ ClaimExclusive'
<1> USE DEF IInv
<1>1. ASSUME NEW q \in Proc, NEW n \in Match, TearsDown(q, n)'
      PROVE  TearsDown(q, n) \/ ClaimCooldownInstance(q, n)
  BY <1>1, NoNewHolder
<1>2. ClaimExclusive'
  <2> SUFFICES ASSUME NEW n \in Match, NEW p \in Proc, NEW q \in Proc,
                      TearsDown(p, n)', TearsDown(q, n)'
               PROVE  p = q
    BY DEF ClaimExclusive
  <2>1. CASE ClaimCooldownInstance(p, n) \/ ClaimCooldownInstance(q, n)
    BY <2>1, ClaimIsFresh
  <2>2. CASE TearsDown(p, n) /\ TearsDown(q, n)
    BY <2>2 DEF ClaimExclusive
  <2> QED
    BY <1>1, <2>1, <2>2
<1>3. ASSUME NEW n \in Match, NEW q \in Proc, TearsDown(q, n)'
      PROVE  result'[n] # NoResult /\ si'[n] \in {"tearing_down", "deleted"}
  <2> USE DEF TypeOK
  <2>1. CASE ClaimCooldownInstance(q, n)
    BY <2>1 DEF ClaimCooldownInstance, Claimable, RowsMatchResult
  <2>2. CASE TearsDown(q, n)
    <3>1. result[n] # NoResult /\ si[n] \in {"tearing_down", "deleted"}
      BY <2>2 DEF HolderOwns
    <3>2. ASSUME NEW m \in Match, StartMatch(m)
          PROVE  result'[n] # NoResult /\ si'[n] \in {"tearing_down", "deleted"}
      BY <3>1, <3>2 DEF StartMatch, RowsMatchResult
    <3>3. ASSUME NEW p \in Proc, NEW m \in Match, MatchEnded(p, m)
          PROVE  result'[n] # NoResult /\ si'[n] \in {"tearing_down", "deleted"}
      BY <3>1, <3>3 DEF MatchEnded, PrimaryKeyFree
    <3>4. ASSUME NEW p \in Proc, NEW m \in Match, ClaimCooldownInstance(p, m)
          PROVE  result'[n] # NoResult /\ si'[n] \in {"tearing_down", "deleted"}
      BY <3>1, <3>4 DEF ClaimCooldownInstance
    <3>5. ASSUME NEW p \in Proc, NEW m \in Match, RevertTearingDownToCooldown(p, m)
          PROVE  result'[n] # NoResult /\ si'[n] \in {"tearing_down", "deleted"}
      <4>1. CASE m = n
        <5>1. TearsDown(p, n)
          BY <3>5, <4>1 DEF RevertTearingDownToCooldown, TearsDown, TeardownSteps
        <5>2. p = q
          BY <2>2, <5>1 DEF ClaimExclusive
        <5>3. task'[q] = Idle
          BY <3>5, <5>2 DEF RevertTearingDownToCooldown, Become
        <5> QED
          BY <1>3, <5>3 DEF TearsDown, Teardown, Idle, TeardownSteps
      <4>2. CASE m # n
        BY <3>1, <3>5, <4>2 DEF RevertTearingDownToCooldown
      <4> QED
        BY <4>1, <4>2
    <3>6. ASSUME NEW p \in Proc, NEW m \in Match,
                 \/ SetInstanceDeleted(p, m)
                 \/ FinalizeMatchTeardown(p, m)
                 \/ SetOrphanDeleted(p, m)
          PROVE  result'[n] # NoResult /\ si'[n] \in {"tearing_down", "deleted"}
      BY <3>1, <3>6 DEF SetInstanceDeleted, FinalizeMatchTeardown, SetOrphanDeleted
    <3>7. CASE UNCHANGED <<match, si, result, rated>>
      BY <3>1, <3>7
    <3> QED
      BY <3>2, <3>3, <3>4, <3>5, <3>6, <3>7, RowWriters
  <2> QED
    BY <1>1, <1>3, <2>1, <2>2
<1> QED
  BY <1>2, <1>3 DEF HolderOwns

\* A match that was started stays so.
LEMMA StartedStays ==
    ASSUME TypeOK, [Next]_vars, NEW n \in Match, match[n] # "none"
    PROVE  match'[n] # "none"
<1> USE DEF TypeOK
<1>1. ASSUME NEW m \in Match, StartMatch(m) PROVE match'[n] # "none"
  BY <1>1 DEF StartMatch
<1>2. ASSUME NEW p \in Proc, NEW m \in Match, MatchEnded(p, m) PROVE match'[n] # "none"
  BY <1>2 DEF MatchEnded
<1>3. ASSUME NEW p \in Proc, NEW m \in Match, FinalizeMatchTeardown(p, m) PROVE match'[n] # "none"
  BY <1>3 DEF FinalizeMatchTeardown
<1>4. ASSUME NEW p \in Proc, NEW m \in Match,
             \/ ClaimCooldownInstance(p, m) \/ RevertTearingDownToCooldown(p, m)
             \/ SetInstanceDeleted(p, m) \/ SetOrphanDeleted(p, m)
      PROVE  match'[n] # "none"
  BY <1>4 DEF ClaimCooldownInstance, RevertTearingDownToCooldown, SetInstanceDeleted, SetOrphanDeleted
<1> QED
  BY <1>1, <1>2, <1>3, <1>4, RowWriters

\* Activities are begun only on matches that were started.
LEMMA NoNewWork ==
    ASSUME TypeOK, RowsMatchResult, [Next]_vars, NEW q \in Proc, NEW n \in Match, WorksOn(q, n)'
    PROVE  WorksOn(q, n) \/ match[n] # "none"
<1> SUFFICES ASSUME ~WorksOn(q, n) PROVE match[n] # "none"
  OBVIOUS
<1> USE DEF TypeOK, Become, WorksOn, EndingSteps, Ending, Orphaning
<1>1. ASSUME NEW m \in Match, StartMatch(m) PROVE FALSE
  BY <1>1 DEF StartMatch
<1>2. ASSUME NEW m \in Match, Tick(m) PROVE FALSE
  BY <1>2 DEF Tick
<1>3. ASSUME NEW m \in Match, GameExits(m) PROVE FALSE
  BY <1>3 DEF GameExits
<1>4. ASSUME NEW p \in Proc, NEW m \in Match, EndMatch(p, m)
      PROVE  match[n] # "none"
  BY <1>4 DEF EndMatch, Idle
<1>5. ASSUME NEW p \in Proc, NEW m \in Match, MatchEnded(p, m)
      PROVE  FALSE
  BY <1>5 DEF MatchEnded, Claiming, Idle
<1>6. ASSUME NEW p \in Proc, NEW m \in Match, MatchEndedRefused(p, m)
      PROVE  FALSE
  BY <1>6 DEF MatchEndedRefused, Idle
<1>7. ASSUME NEW p \in Proc, NEW m \in Match, SweepCooledMatches(p, m)
      PROVE  FALSE
  BY <1>7 DEF SweepCooledMatches, Claiming
<1>8. ASSUME NEW p \in Proc, NEW m \in Match, ClaimCooldownInstance(p, m)
      PROVE  FALSE
  BY <1>8 DEF ClaimCooldownInstance, Teardown
<1>9. ASSUME NEW p \in Proc, NEW m \in Match, ClaimLost(p, m)
      PROVE  FALSE
  BY <1>9 DEF ClaimLost, Idle
<1>10. ASSUME NEW p \in Proc, NEW m \in Match, StopContainer(p, m)
      PROVE  FALSE
  BY <1>10 DEF StopContainer, Teardown
<1>11. ASSUME NEW p \in Proc, NEW m \in Match, StopFails(p, m)
      PROVE  FALSE
  BY <1>11 DEF StopFails, OnStopFailure, Teardown
<1>12. ASSUME NEW p \in Proc, NEW m \in Match, RevertTearingDownToCooldown(p, m)
      PROVE  FALSE
  BY <1>12 DEF RevertTearingDownToCooldown, Idle
<1>13. ASSUME NEW p \in Proc, NEW m \in Match, FreePorts(p, m)
      PROVE  FALSE
  BY <1>13 DEF FreePorts, Teardown
<1>14. ASSUME NEW p \in Proc, NEW m \in Match, SetInstanceDeleted(p, m)
      PROVE  FALSE
  BY <1>14 DEF SetInstanceDeleted, Teardown
<1>15. ASSUME NEW p \in Proc, NEW m \in Match, FinalizeMatchTeardown(p, m)
      PROVE  FALSE
  BY <1>15 DEF FinalizeMatchTeardown, Reaping
<1>16. ASSUME NEW p \in Proc, NEW m \in Match, FreeOrphanPorts(p, m)
      PROVE  match[n] # "none"
  BY <1>16 DEF FreeOrphanPorts
<1>17. ASSUME NEW p \in Proc, NEW m \in Match, SetOrphanDeleted(p, m)
      PROVE  FALSE
  BY <1>17 DEF SetOrphanDeleted, Idle
<1>18. ASSUME NEW p \in Proc, NEW m \in Match, ReportResults(p, m)
      PROVE  match[n] # "none"
  BY <1>18 DEF ReportResults
<1>19. ASSUME NEW p \in Proc, NEW m \in Match, GarbageCollectMatches(p, m)
      PROVE  match[n] # "none"
  BY <1>19 DEF GarbageCollectMatches, TimedOut
<1>20. ASSUME NEW p \in Proc, NEW m \in Match, ReconcileOrphanedInstances(p, m)
      PROVE  match[n] # "none"
  BY <1>20 DEF ReconcileOrphanedInstances, RowsMatchResult
<1>21. ASSUME NEW p \in Proc, NEW h \in Host, CountActiveInstances(p, h) PROVE FALSE
  BY <1>21 DEF CountActiveInstances, Reaping, Idle
<1>22. ASSUME NEW p \in Proc, NEW h \in Host, SetMachineHostDeleted(p, h) PROVE FALSE
  BY <1>22 DEF SetMachineHostDeleted, Reaping, Idle
<1>23. ASSUME NEW p \in Proc, NEW h \in Host, DeleteHost(p, h) PROVE FALSE
  BY <1>23 DEF DeleteHost, Idle
<1>24. ASSUME NEW p \in Proc, NEW h \in Host, ReconcileLiveHosts(p, h) PROVE FALSE
  BY <1>24 DEF ReconcileLiveHosts, Losing
<1>25. ASSUME NEW p \in Proc, NEW h \in Host, FreeLostPorts(p, h) PROVE FALSE
  BY <1>25 DEF FreeLostPorts, Losing
<1>26. ASSUME NEW p \in Proc, NEW h \in Host, BuryLostHost(p, h) PROVE FALSE
  BY <1>26 DEF BuryLostHost, Idle
<1>27. ASSUME NEW h \in Host, LoseVM(h) PROVE FALSE
  BY <1>27 DEF LoseVM
<1>28. ASSUME NEW p \in Proc, Crash(p) PROVE FALSE
  BY <1>28 DEF Crash, Idle
<1>29. CASE UNCHANGED vars
  BY <1>29 DEF vars
<1> QED
  BY <1>1, <1>2, <1>3, <1>4, <1>5, <1>6, <1>7, <1>8, <1>9, <1>10, <1>11,
     <1>12, <1>13, <1>14, <1>15, <1>16, <1>17, <1>18, <1>19, <1>20, <1>21,
     <1>22, <1>23, <1>24, <1>25, <1>26, <1>27, <1>28, <1>29 DEF Next, Begin,
     Work, EndStep, TeardownStep, OrphanStep, HostStep

\* The invariant is inductive.
LEMMA InvStep == IInv /\ [Next]_vars => IInv'
<1> SUFFICES ASSUME IInv, [Next]_vars PROVE IInv'
  OBVIOUS
<1>1. TypeOK'
  BY TypeStep DEF IInv
<1>2. RowsMatchResult' /\ RatingMatchesResult'
  BY RowsStep
<1>3. HolderOwns' /\ ClaimExclusive'
  BY HolderStep
<1>4. WorksOnStarted'
  BY NoNewWork, StartedStays DEF IInv, WorksOnStarted
<1> QED
  BY <1>1, <1>2, <1>3, <1>4 DEF IInv

\* IInv holds in every reachable state of the lifecycle.
THEOREM Invariance == Spec => []IInv
BY InitInv, InvStep, PTL DEF Spec

\* Every variable of the lifecycle keeps its type.
THEOREM TypeCorrect == Spec => []TypeOK
<1>1. IInv => TypeOK
  BY DEF IInv
<1> QED
  BY Invariance, <1>1, PTL

\* MatchEnded applies Elo exactly once for a match whose recorded outcome asks
\* for it and never otherwise, whatever reports, timeouts and rollbacks race.
THEOREM RatingsFollowResults == Spec => []RatingMatchesResult
<1>1. IInv => RatingMatchesResult
  BY DEF IInv
<1> QED
  BY Invariance, <1>1, PTL

\* ClaimCooldownInstance admits one activity at a time to the teardown of an
\* instance, through reverts, retries, crashes and the orphan reconciler.
THEOREM ClaimsAreExclusive == Spec => []ClaimExclusive
<1>1. IInv => ClaimExclusive
  BY DEF IInv
<1> QED
  BY Invariance, <1>1, PTL

\* A recorded result never changes again, in one step.
LEMMA ResultStays ==
    ASSUME TypeOK, [Next]_vars, NEW m \in Match, result[m] # NoResult
    PROVE  result'[m] = result[m]
<1> USE DEF TypeOK
<1>1. ASSUME NEW p \in Proc, NEW n \in Match, MatchEnded(p, n) PROVE result'[m] = result[m]
  BY <1>1 DEF MatchEnded, PrimaryKeyFree
<1>2. ASSUME NEW n \in Match, StartMatch(n) PROVE result'[m] = result[m]
  BY <1>2 DEF StartMatch
<1>3. ASSUME NEW p \in Proc, NEW n \in Match,
             \/ ClaimCooldownInstance(p, n) \/ RevertTearingDownToCooldown(p, n)
             \/ SetInstanceDeleted(p, n) \/ FinalizeMatchTeardown(p, n) \/ SetOrphanDeleted(p, n)
      PROVE  result'[m] = result[m]
  BY <1>3 DEF ClaimCooldownInstance, RevertTearingDownToCooldown, SetInstanceDeleted,
     FinalizeMatchTeardown, SetOrphanDeleted
<1> QED
  BY <1>1, <1>2, <1>3, RowWriters

\* A recorded result never changes again.
THEOREM ResultsAreFinal == Spec => ResultImmutable
<1>1. IInv /\ [Next]_vars => [\A m \in Match : result[m] # NoResult => result'[m] = result[m]]_vars
  BY ResultStays DEF IInv
<1> QED
  BY Invariance, <1>1, PTL DEF Spec, ResultImmutable

\* Only a first result revives a deleted instance: no revert of a claim does,
\* however late it comes.
THEOREM DeletedInstancesStayDeleted == Spec => NoResurrection
<1>1. IInv /\ [Next]_vars =>
        [\A m \in Match : si[m] = "deleted" /\ si'[m] # "deleted" =>
            result[m] = NoResult /\ result'[m] # NoResult]_vars
  <2> SUFFICES ASSUME IInv, [Next]_vars, NEW m \in Match,
                      si[m] = "deleted", si'[m] # "deleted"
               PROVE  result[m] = NoResult /\ result'[m] # NoResult
    OBVIOUS
  <2> USE DEF IInv, TypeOK
  <2>1. ASSUME NEW n \in Match, StartMatch(n) PROVE FALSE
    BY <2>1 DEF StartMatch, RowsMatchResult
  <2>2. ASSUME NEW p \in Proc, NEW n \in Match, MatchEnded(p, n)
        PROVE  result[m] = NoResult /\ result'[m] # NoResult
    BY <2>2, OutcomeIsAResult DEF MatchEnded, PrimaryKeyFree
  <2>3. ASSUME NEW p \in Proc, NEW n \in Match,
               \/ ClaimCooldownInstance(p, n)
               \/ RevertTearingDownToCooldown(p, n)
               \/ SetInstanceDeleted(p, n)
               \/ FinalizeMatchTeardown(p, n)
               \/ SetOrphanDeleted(p, n)
        PROVE  FALSE
    BY <2>3 DEF ClaimCooldownInstance, Claimable, RevertTearingDownToCooldown, Revertible,
       SetInstanceDeleted, FinalizeMatchTeardown, SetOrphanDeleted
  <2> QED
    BY <2>1, <2>2, <2>3, RowWriters
<1> QED
  BY Invariance, <1>1, PTL DEF Spec, NoResurrection

\* No match, no result and no rating change: the promise starts the same way.
LEMMA PromiseInit == Init => Promise!Init
BY DEF Init, Promise!Init, RowExists

\* Every step of the lifecycle is a step of the promise, or invisible to it.
LEMMA PromiseStep == IInv /\ [Next]_vars => [Promise!Next]_(Promise!vars)
<1> SUFFICES ASSUME IInv, [Next]_vars
             PROVE  Promise!Next \/ UNCHANGED Promise!vars
  OBVIOUS
<1> USE DEF IInv, TypeOK, RowExists
<1>1. ASSUME NEW m \in Match, StartMatch(m) PROVE Promise!Begin(m)
  BY <1>1 DEF StartMatch, Promise!Begin, RowsMatchResult
<1>2. ASSUME NEW p \in Proc, NEW m \in Match, MatchEnded(p, m)
      PROVE  \E o \in Outcome : Promise!Record(m, o)
  <2>1. PICK o \in Outcome :
           /\ task[p] = Ending("record", m, o)
           /\ result' = [result EXCEPT ![m] = o]
           /\ rated' = [rated EXCEPT ![m] = IF RatesMatch(m, o) THEN @ + 1 ELSE @]
    BY <1>2 DEF MatchEnded
  <2>2. result[m] = NoResult /\ rated[m] = 0
    BY <1>2 DEF MatchEnded, PrimaryKeyFree, RatingMatchesResult
  <2>3. match[m] = "started"
    BY <2>1, <2>2 DEF WorksOnStarted, WorksOn, EndingSteps, Ending, RowsMatchResult
  <2>4. {n \in Match : RowExists(n)}' = {n \in Match : RowExists(n)}
    BY <1>2, <2>3 DEF MatchEnded
  <2>5. rated' = [rated EXCEPT ![m] = IF o.rate /\ m \in Ranked THEN 1 ELSE 0]
    BY <2>1, <2>2 DEF RatesMatch
  <2> QED
    BY <2>1, <2>2, <2>3, <2>4, <2>5 DEF Promise!Record
<1>3. ASSUME NEW p \in Proc, NEW m \in Match, FinalizeMatchTeardown(p, m)
      PROVE  Promise!Close(m) \/ UNCHANGED Promise!vars
  <2>1. result[m] # NoResult
    BY <1>3 DEF FinalizeMatchTeardown, HolderOwns, TearsDown, TeardownSteps
  <2>2. CASE match' = match
    BY <1>3, <2>2 DEF FinalizeMatchTeardown, Promise!vars
  <2>3. CASE match' = [match EXCEPT ![m] = "deleted"]
    BY <1>3, <2>1, <2>3 DEF FinalizeMatchTeardown, Promise!Close, Promise!vars
  <2> QED
    BY <1>3, <2>2, <2>3 DEF FinalizeMatchTeardown
<1>4. ASSUME NEW p \in Proc, NEW m \in Match,
             \/ ClaimCooldownInstance(p, m)
             \/ RevertTearingDownToCooldown(p, m)
             \/ SetInstanceDeleted(p, m)
             \/ SetOrphanDeleted(p, m)
      PROVE  UNCHANGED Promise!vars
  BY <1>4 DEF ClaimCooldownInstance, RevertTearingDownToCooldown, SetInstanceDeleted,
     SetOrphanDeleted, Promise!vars
<1>5. CASE UNCHANGED <<match, si, result, rated>>
  BY <1>5 DEF Promise!vars
<1> QED
  BY <1>1, <1>2, <1>3, <1>4, <1>5, RowWriters DEF Promise!Next

\* The lifecycle implements MatchOutcome: the first accepted outcome stands,
\* ratings move with it once, and the auth_code is withdrawn only after it.
THEOREM LifecycleImplementsPromise == Spec => ImplementsPromise
BY Invariance, PromiseInit, PromiseStep, PTL DEF Spec, ImplementsPromise, Promise!Spec
-----------------------------------------------------------------------------
(***************************************************************************)
(* What the teardown leaves alone and for how long: the grace period, the  *)
(* ports under a running container, and the match row.                     *)
(***************************************************************************)

\* The result of m is recorded and its cooldown, if there is one, is over.
MayTearDown(m) == result[m] # NoResult /\ Cooled(m)

\* What an activity established before its next step, and depends on in it:
\* nobody takes it back behind its back.
Relies(t) ==
    /\ t.step = "claim" => MayTearDown(t.match)
    /\ t.step \in TeardownSteps =>
          /\ MayTearDown(t.match)
          /\ t.force => clock[t.match] = 2
          /\ t.step \in {"free", "mark", "finalize"} => t.force \/ container[t.match] = "gone"
    /\ t.step \in {"lost_free", "lost_bury"} => vm[t.host] = "down" /\ \A m \in t.held : at[m] = t.host
    /\ t.step \in {"orphan_free", "orphan_mark"} => hostRow[at[t.match]] = "deleted"

AllRely == \A p \in Proc : Relies(task[p])

\* A container runs only in a VM that is up, for a match that was started.
RunsOnVM == \A m \in Match : container[m] = "running" => match[m] # "none" /\ vm[at[m]] = "up"

HostAlive(m) == hostRow[at[m]] = "ready" /\ vm[at[m]] = "up"

\* So is a match whose container is gone too, unless it was forced.
Torn(m) == MayTearDown(m) /\ (container[m] = "gone" \/ clock[m] = 2)

\* While the host lives, a match has its ports until it is torn down, and a
\* recorded one its instance in the cooldown until it may be; the row goes last.
PortsKept == \A m \in Match : match[m] # "none" /\ HostAlive(m) => m \in ports \/ Torn(m)
CooldownKept == \A m \in Match : result[m] # NoResult /\ HostAlive(m) => si[m] = "cooldown" \/ MayTearDown(m)
RowGoesLast == \A m \in Match : match[m] = "deleted" => Torn(m)

\* The inductive invariant of the teardown's promises.
TeardownInv ==
    /\ IInv
    /\ AllRely
    /\ RunsOnVM
    /\ PortsKept
    /\ CooldownKept
    /\ RowGoesLast

\* The steps that write the clock or the fleet.
LEMMA FleetWriters ==
    ASSUME [Next]_vars
    PROVE  \/ \E m \in Match : StartMatch(m) \/ Tick(m) \/ GameExits(m)
           \/ \E p \in Proc, m \in Match : MatchEnded(p, m) \/ StopContainer(p, m) \/ StopFails(p, m)
           \/ \E p \in Proc, h \in Host : SetMachineHostDeleted(p, h) \/ DeleteHost(p, h) \/ BuryLostHost(p, h)
           \/ \E h \in Host : LoseVM(h)
           \/ UNCHANGED <<clock, at, container, hostRow, vm>>
<1> USE DEF fleet
<1>1. ASSUME NEW p \in Proc, NEW m \in Match,
             EndStep(p, m) \/ TeardownStep(p, m) \/ OrphanStep(p, m)
      PROVE  \/ MatchEnded(p, m) \/ StopContainer(p, m) \/ StopFails(p, m)
             \/ UNCHANGED <<clock, at, container, hostRow, vm>>
  BY <1>1 DEF EndStep, TeardownStep, OrphanStep, EndMatch, MatchEndedRefused, ClaimCooldownInstance, ClaimLost,
     RevertTearingDownToCooldown, FreePorts, SetInstanceDeleted, FinalizeMatchTeardown, FreeOrphanPorts,
     SetOrphanDeleted
<1>2. ASSUME NEW p \in Proc, NEW h \in Host, HostStep(p, h)
      PROVE  \/ SetMachineHostDeleted(p, h) \/ DeleteHost(p, h) \/ BuryLostHost(p, h)
             \/ UNCHANGED <<clock, at, container, hostRow, vm>>
  BY <1>2 DEF HostStep, CountActiveInstances, FreeLostPorts
<1>3. ASSUME NEW p \in Proc, Begin(p) \/ Crash(p)
      PROVE  UNCHANGED <<clock, at, container, hostRow, vm>>
  BY <1>3 DEF Begin, Crash, ReportResults, GarbageCollectMatches, SweepCooledMatches,
     ReconcileOrphanedInstances, ReconcileLiveHosts
<1>4. CASE UNCHANGED vars
  BY <1>4 DEF vars
<1> QED
  BY <1>1, <1>2, <1>3, <1>4 DEF Next, Work

\* Hosts and containers only go away, and time does not run back once there is a result.
LEMMA NothingComesBack ==
    ASSUME TypeOK, [Next]_vars
    PROVE  /\ at' = at
           /\ \A h \in Host : /\ vm[h] = "down" => vm'[h] = "down"
                              /\ hostRow[h] = "deleted" => hostRow'[h] = "deleted"
           /\ \A n \in Match : /\ match[n] # "none" /\ container[n] # "running" => container'[n] # "running"
                               /\ match[n] # "none" /\ container[n] = "gone" => container'[n] = "gone"
                               /\ result[n] # NoResult => clock'[n] >= clock[n]
<1> DEFINE Goal == /\ at' = at
                   /\ \A h \in Host : /\ vm[h] = "down" => vm'[h] = "down"
                                      /\ hostRow[h] = "deleted" => hostRow'[h] = "deleted"
                   /\ \A n \in Match : /\ match[n] # "none" /\ container[n] # "running" => container'[n] # "running"
                                       /\ match[n] # "none" /\ container[n] = "gone" => container'[n] = "gone"
                                       /\ result[n] # NoResult => clock'[n] >= clock[n]
<1> USE DEF TypeOK, fleet
<1>1. ASSUME NEW m \in Match, StartMatch(m) PROVE Goal
  BY <1>1 DEF StartMatch
<1>2. ASSUME NEW m \in Match, Tick(m) PROVE Goal
  BY <1>2 DEF Tick
<1>3. ASSUME NEW m \in Match, GameExits(m) PROVE Goal
  BY <1>3 DEF GameExits
<1>4. ASSUME NEW p \in Proc, NEW m \in Match, MatchEnded(p, m) PROVE Goal
  <2>1. result[m] = NoResult /\ clock' = [clock EXCEPT ![m] = 0] /\ UNCHANGED <<at, container, hostRow, vm>>
    BY <1>4 DEF MatchEnded, PrimaryKeyFree
  <2> QED
    BY <2>1
<1>5. ASSUME NEW p \in Proc, NEW m \in Match, StopContainer(p, m) PROVE Goal
  BY <1>5 DEF StopContainer
<1>6. ASSUME NEW p \in Proc, NEW m \in Match, StopFails(p, m) PROVE Goal
  BY <1>6 DEF StopFails
<1>7. ASSUME NEW p \in Proc, NEW h \in Host, SetMachineHostDeleted(p, h) \/ BuryLostHost(p, h) PROVE Goal
  BY <1>7 DEF SetMachineHostDeleted, BuryLostHost
<1>8. ASSUME NEW p \in Proc, NEW h \in Host, DeleteHost(p, h) PROVE Goal
  BY <1>8 DEF DeleteHost, VMDown
<1>9. ASSUME NEW h \in Host, LoseVM(h) PROVE Goal
  BY <1>9 DEF LoseVM, VMDown
<1>10. ASSUME UNCHANGED <<clock, at, container, hostRow, vm>> PROVE Goal
  BY <1>10
<1> HIDE DEF Goal, TypeOK, fleet
<1>11. Goal
  BY <1>1, <1>2, <1>3, <1>4, <1>5, <1>6, <1>7, <1>8, <1>9, <1>10, FleetWriters
<1> QED
  BY <1>11 DEF Goal

\* A match that may be torn down may be torn down from then on.
LEMMA MayTearDownStays ==
    ASSUME IInv, [Next]_vars, NEW m \in Match, MayTearDown(m)
    PROVE  MayTearDown(m)' /\ (clock[m] = 2 => clock'[m] = 2)
<1>1. TypeOK'
  BY TypeStep DEF IInv
<1>2. result'[m] # NoResult
  BY ResultStays DEF IInv, MayTearDown
<1>3. clock'[m] >= clock[m]
  BY NothingComesBack DEF IInv, MayTearDown
<1>4. clock[m] \in 0 .. 2 /\ clock'[m] \in 0 .. 2
  BY <1>1 DEF IInv, TypeOK
<1> QED
  BY <1>2, <1>3, <1>4 DEF MayTearDown, Cooled

\* What an activity names in its record.
LEMMA TaskNames ==
    ASSUME NEW t \in Task
    PROVE  /\ t.step = "claim" => t.match \in Match
           /\ t.step \in TeardownSteps => t.match \in Match
           /\ t.step \in {"lost_free", "lost_bury"} => t.host \in Host /\ t.held \subseteq Match
           /\ t.step \in {"orphan_free", "orphan_mark"} => t.match \in Match
BY DEF Task, Idle, EndingSteps, TeardownSteps, ReapSteps

\* What an activity relies on stays true, whatever the others do.
LEMMA RelianceStays ==
    ASSUME IInv, [Next]_vars, NEW t \in Task, Relies(t)
    PROVE  Relies(t)'
<1> USE DEF Relies
<1>0. TypeOK
  BY DEF IInv
<1>1. t.step = "claim" => MayTearDown(t.match)'
  BY MayTearDownStays, TaskNames
<1>2. ASSUME t.step \in TeardownSteps
      PROVE  /\ MayTearDown(t.match)'
             /\ t.force => clock'[t.match] = 2
             /\ t.step \in {"free", "mark", "finalize"} => t.force \/ container'[t.match] = "gone"
  <2>1. t.match \in Match /\ MayTearDown(t.match)
    BY <1>2, TaskNames
  <2>2. MayTearDown(t.match)' /\ (clock[t.match] = 2 => clock'[t.match] = 2)
    BY <2>1, MayTearDownStays
  <2>3. match[t.match] # "none"
    BY <2>1 DEF MayTearDown, IInv, RowsMatchResult
  <2>4. container[t.match] = "gone" => container'[t.match] = "gone"
    BY <1>0, <2>1, <2>3, NothingComesBack
  <2> QED
    BY <1>2, <2>2, <2>4
<1>3. t.step \in {"lost_free", "lost_bury"} => vm'[t.host] = "down" /\ \A m \in t.held : at'[m] = t.host
  BY <1>0, NothingComesBack, TaskNames
<1>4. t.step \in {"orphan_free", "orphan_mark"} => hostRow'[at'[t.match]] = "deleted"
  BY <1>0, NothingComesBack, TaskNames DEF TypeOK
<1> QED
  BY <1>1, <1>2, <1>3, <1>4

\* An activity that is at none of those steps relies on nothing.
LEMMA NothingRelied ==
    ASSUME NEW t, t.step \notin TeardownSteps \cup {"claim", "lost_free", "lost_bury", "orphan_free", "orphan_mark"}
    PROVE  Relies(t)
BY DEF Relies

\* Whatever an activity goes on to do, it has established what it relies on.
LEMMA RelianceBegins ==
    ASSUME IInv, AllRely, [Next]_vars, NEW q \in Proc
    PROVE  task'[q] = task[q] \/ Relies(task[q])'
<1> DEFINE Goal == task'[q] = task[q] \/ Relies(task[q])'
<1> DEFINE Free(s) == s \notin TeardownSteps \cup {"claim", "lost_free", "lost_bury", "orphan_free", "orphan_mark"}
<1>0. /\ TypeOK
      /\ Free(task'[q].step) => Goal
  BY NothingRelied DEF IInv, Relies
<1>. PICK t \in Task : t = task[q]
  BY <1>0 DEF TypeOK
<1>t. Relies(t)'
  BY RelianceStays DEF AllRely
<1> USE DEF Become
<1>1. ASSUME NEW m \in Match, StartMatch(m) \/ Tick(m) \/ GameExits(m) PROVE Goal
  BY <1>1 DEF StartMatch, Tick, GameExits
<1>2. ASSUME NEW p \in Proc, NEW m \in Match, ReportResults(p, m) \/ GarbageCollectMatches(p, m) PROVE Goal
  <2>1. PICK o : task' = [task EXCEPT ![p] = Ending("underway", m, o)]
    BY <1>2 DEF ReportResults, GarbageCollectMatches
  <2> QED
    BY <1>0, <2>1 DEF TypeOK, Ending, TeardownSteps
<1>3. ASSUME NEW p \in Proc, NEW m \in Match, EndMatch(p, m) \/ MatchEndedRefused(p, m) PROVE Goal
  BY <1>0, <1>3 DEF EndMatch, MatchEndedRefused, TypeOK, Ending, Idle, TeardownSteps
<1>4. ASSUME NEW p \in Proc, NEW m \in Match, MatchEnded(p, m) PROVE Goal
  <2>1. CASE ~InlineTeardown
    BY <1>0, <1>4, <2>1 DEF MatchEnded, TypeOK, Idle, TeardownSteps
  <2>2. CASE InlineTeardown /\ p = q
    <3>1. task'[q] = Claiming(m, TRUE)
      BY <1>0, <1>4, <2>2 DEF MatchEnded, TypeOK
    <3>2. result'[m] # NoResult
      BY <1>0, <1>4, OutcomeIsAResult DEF MatchEnded, TypeOK
    <3> QED
      BY <2>2, <3>1, <3>2 DEF Claiming, Relies, MayTearDown, Cooled, TeardownSteps
  <2>3. CASE p # q
    <3>1. PICK x : task' = [task EXCEPT ![p] = x]
      BY <1>4 DEF MatchEnded
    <3> QED
      BY <1>0, <2>3, <3>1 DEF TypeOK
  <2> QED
    BY <2>1, <2>2, <2>3
<1>5. ASSUME NEW p \in Proc, NEW m \in Match, SweepCooledMatches(p, m) PROVE Goal
  <2>1. task'[q] = task[q] \/ task'[q] = Claiming(m, FALSE)
    BY <1>0, <1>5 DEF SweepCooledMatches, TypeOK
  <2>2. MayTearDown(m)'
    BY <1>5 DEF SweepCooledMatches, MayTearDown, Cooled
  <2> QED
    BY <2>1, <2>2 DEF Claiming, Relies, TeardownSteps
<1>6. ASSUME NEW p \in Proc, NEW m \in Match, ClaimCooldownInstance(p, m) PROVE Goal
  <2>1. CASE p = q
    <3>1. PICK inline \in BOOLEAN :
             /\ t = Claiming(m, inline)
             /\ task'[q] = Teardown("stop", m, ~inline /\ PastForceDeadline(m))
      BY <1>0, <1>6, <2>1 DEF ClaimCooldownInstance, TypeOK
    <3>2. MayTearDown(m)'
      BY <1>t, <3>1 DEF Relies, Claiming
    <3>3. PICK f \in BOOLEAN : task'[q] = Teardown("stop", m, f) /\ (f => clock'[m] = 2)
      BY <1>6, <3>1 DEF ClaimCooldownInstance, PastForceDeadline
    <3> QED
      BY <3>2, <3>3 DEF Relies, Teardown, TeardownSteps
  <2>2. CASE p # q
    BY <1>0, <1>6, <2>2 DEF ClaimCooldownInstance, TypeOK
  <2> QED
    BY <2>1, <2>2
<1>7. ASSUME NEW p \in Proc, NEW m \in Match, ClaimLost(p, m) \/ RevertTearingDownToCooldown(p, m) PROVE Goal
  BY <1>0, <1>7 DEF ClaimLost, RevertTearingDownToCooldown, TypeOK, Idle, TeardownSteps
<1>8. ASSUME NEW p \in Proc, NEW m \in Match, NEW f \in BOOLEAN, NEW s \in TeardownSteps, NEW s2 \in TeardownSteps,
             task[p] = Teardown(s, m, f), task' = [task EXCEPT ![p] = Teardown(s2, m, f)],
             s2 \in {"free", "mark", "finalize"} => f \/ container'[m] = "gone" \/ s \in {"free", "mark", "finalize"}
      PROVE  Goal
  <2>1. CASE p = q
    <3>1. t = Teardown(s, m, f) /\ task'[q] = Teardown(s2, m, f)
      BY <1>0, <1>8, <2>1 DEF TypeOK
    <3>2. MayTearDown(m)' /\ (f => clock'[m] = 2)
      BY <1>t, <3>1 DEF Relies, Teardown
    <3>3. s \in {"free", "mark", "finalize"} => f \/ container'[m] = "gone"
      BY <1>t, <3>1 DEF Relies, Teardown
    <3> QED
      BY <1>8, <3>1, <3>2, <3>3 DEF Relies, Teardown, TeardownSteps
  <2>2. CASE p # q
    BY <1>0, <1>8, <2>2 DEF TypeOK
  <2> QED
    BY <2>1, <2>2
<1>9. ASSUME NEW p \in Proc, NEW m \in Match, StopContainer(p, m) PROVE Goal
  BY <1>0, <1>8, <1>9 DEF StopContainer, TypeOK, TeardownSteps
<1>10. ASSUME NEW p \in Proc, NEW m \in Match, StopFails(p, m) PROVE Goal
  BY <1>8, <1>10 DEF StopFails, OnStopFailure, TeardownSteps
<1>11. ASSUME NEW p \in Proc, NEW m \in Match, FreePorts(p, m) PROVE Goal
  BY <1>8, <1>11 DEF FreePorts, TeardownSteps
<1>12. ASSUME NEW p \in Proc, NEW m \in Match, SetInstanceDeleted(p, m) PROVE Goal
  BY <1>8, <1>12 DEF SetInstanceDeleted, TeardownSteps
<1>13. ASSUME NEW p \in Proc, NEW m \in Match, FinalizeMatchTeardown(p, m) PROVE Goal
  BY <1>0, <1>13 DEF FinalizeMatchTeardown, TypeOK, Reaping, TeardownSteps
<1>14. ASSUME NEW p \in Proc, NEW h \in Host,
              CountActiveInstances(p, h) \/ SetMachineHostDeleted(p, h) \/ DeleteHost(p, h) \/ BuryLostHost(p, h)
       PROVE  Goal
  BY <1>0, <1>14 DEF CountActiveInstances, SetMachineHostDeleted, DeleteHost, BuryLostHost, TypeOK, Reaping, Idle,
     TeardownSteps
<1>15. ASSUME NEW p \in Proc, NEW h \in Host, ReconcileLiveHosts(p, h) PROVE Goal
  <2>1. task'[q] = task[q] \/ task'[q] = Losing("lost_free", h, On(h) \cap ports)
    BY <1>0, <1>15 DEF ReconcileLiveHosts, TypeOK
  <2>2. vm'[h] = "down" /\ at' = at /\ \A m \in On(h) : at[m] = h
    BY <1>15 DEF ReconcileLiveHosts, fleet, On
  <2> QED
    BY <2>1, <2>2 DEF Losing, Relies, TeardownSteps
<1>16. ASSUME NEW p \in Proc, NEW h \in Host, FreeLostPorts(p, h) PROVE Goal
  <2>1. CASE p = q
    <3>1. PICK held \in SUBSET Match : t = Losing("lost_free", h, held) /\ task'[q] = Losing("lost_bury", h, held)
      BY <1>0, <1>16, <2>1 DEF FreeLostPorts, TypeOK
    <3> QED
      BY <1>t, <3>1 DEF Losing, Relies, TeardownSteps
  <2>2. CASE p # q
    BY <1>0, <1>16, <2>2 DEF FreeLostPorts, TypeOK
  <2> QED
    BY <2>1, <2>2
<1>17. ASSUME NEW p \in Proc, NEW m \in Match, ReconcileOrphanedInstances(p, m) PROVE Goal
  BY <1>0, <1>17 DEF ReconcileOrphanedInstances, TypeOK, Orphaning, Relies, TeardownSteps, fleet
<1>18. ASSUME NEW p \in Proc, NEW m \in Match, FreeOrphanPorts(p, m) PROVE Goal
  <2>1. CASE p = q
    <3>1. t = Orphaning("orphan_free", m) /\ task'[q] = Orphaning("orphan_mark", m)
      BY <1>0, <1>18, <2>1 DEF FreeOrphanPorts, TypeOK
    <3> QED
      BY <1>t, <3>1 DEF Orphaning, Relies, TeardownSteps
  <2>2. CASE p # q
    BY <1>0, <1>18, <2>2 DEF FreeOrphanPorts, TypeOK
  <2> QED
    BY <2>1, <2>2
<1>19. ASSUME NEW p \in Proc, NEW m \in Match, SetOrphanDeleted(p, m) PROVE Goal
  BY <1>0, <1>19 DEF SetOrphanDeleted, TypeOK, Idle, TeardownSteps
<1>20. ASSUME NEW p \in Proc, Crash(p) PROVE Goal
  BY <1>0, <1>20 DEF Crash, TypeOK, Idle, TeardownSteps
<1>21. ASSUME (\E h \in Host : LoseVM(h)) \/ UNCHANGED vars PROVE Goal
  BY <1>21 DEF LoseVM, vars
<1> HIDE DEF Goal, Become
<1>22. Goal
  BY <1>1, <1>2, <1>3, <1>4, <1>5, <1>6, <1>7, <1>9, <1>10, <1>11, <1>12, <1>13, <1>14, <1>15, <1>16, <1>17, <1>18,
     <1>19, <1>20, <1>21 DEF Next, Begin, Work, EndStep, TeardownStep, OrphanStep, HostStep
<1> QED
  BY <1>22 DEF Goal

\* The steps that write the ports.
LEMMA PortWriters ==
    ASSUME [Next]_vars
    PROVE  \/ \E m \in Match : StartMatch(m)
           \/ \E p \in Proc, m \in Match : FreePorts(p, m) \/ FreeOrphanPorts(p, m)
           \/ \E p \in Proc, h \in Host : FreeLostPorts(p, h)
           \/ UNCHANGED ports
<1>1. ASSUME NEW p \in Proc, NEW m \in Match,
             EndStep(p, m) \/ TeardownStep(p, m) \/ OrphanStep(p, m)
      PROVE  FreePorts(p, m) \/ FreeOrphanPorts(p, m) \/ UNCHANGED ports
  BY <1>1 DEF EndStep, TeardownStep, OrphanStep, EndMatch, MatchEnded, MatchEndedRefused, ClaimCooldownInstance,
     ClaimLost, StopContainer, StopFails, RevertTearingDownToCooldown, SetInstanceDeleted, FinalizeMatchTeardown,
     SetOrphanDeleted
<1>2. ASSUME NEW p \in Proc, NEW h \in Host, HostStep(p, h)
      PROVE  FreeLostPorts(p, h) \/ UNCHANGED ports
  BY <1>2 DEF HostStep, CountActiveInstances, SetMachineHostDeleted, DeleteHost, BuryLostHost
<1>3. ASSUME NEW p \in Proc, Begin(p) \/ Crash(p) PROVE UNCHANGED ports
  BY <1>3 DEF Begin, Crash, ReportResults, GarbageCollectMatches, SweepCooledMatches,
     ReconcileOrphanedInstances, ReconcileLiveHosts
<1>4. ASSUME NEW m \in Match, Tick(m) \/ GameExits(m) PROVE UNCHANGED ports
  BY <1>4 DEF Tick, GameExits
<1>5. ASSUME NEW h \in Host, LoseVM(h) PROVE UNCHANGED ports
  BY <1>5 DEF LoseVM
<1>6. CASE UNCHANGED vars
  BY <1>6 DEF vars
<1> QED
  BY <1>1, <1>2, <1>3, <1>4, <1>5, <1>6 DEF Next, Work

\* What is torn down stays so, and a host that lives was alive before.
LEMMA TornStays ==
    ASSUME IInv, [Next]_vars, NEW n \in Match
    PROVE  /\ Torn(n) => Torn(n)'
           /\ HostAlive(n)' => HostAlive(n)
<1>1. ASSUME Torn(n) PROVE Torn(n)'
  <2>1. MayTearDown(n)' /\ (clock[n] = 2 => clock'[n] = 2)
    BY <1>1, MayTearDownStays DEF Torn
  <2>2. match[n] # "none"
    BY <1>1 DEF Torn, MayTearDown, IInv, RowsMatchResult
  <2>3. container[n] = "gone" => container'[n] = "gone"
    BY <2>2, NothingComesBack DEF IInv
  <2> QED
    BY <1>1, <2>1, <2>3 DEF Torn
<1>2. HostAlive(n)' => HostAlive(n)
  <2>1. at' = at /\ at[n] \in Host /\ hostRow[at[n]] \in {"ready", "deleted"} /\ vm[at[n]] \in {"up", "down"}
    BY NothingComesBack DEF IInv, TypeOK
  <2> QED
    BY <2>1, NothingComesBack DEF HostAlive, IInv
<1> QED
  BY <1>1, <1>2

\* One past StopContainer has torn the match down.
LEMMA PastStop ==
    ASSUME AllRely, NEW p \in Proc, NEW m \in Match, NEW f \in BOOLEAN, NEW s \in {"free", "mark", "finalize"},
           task[p] = Teardown(s, m, f)
    PROVE  Torn(m)
<1>1. Relies(Teardown(s, m, f))
  BY DEF AllRely
<1> QED
  BY <1>1 DEF Relies, Teardown, TeardownSteps, Torn

\* Only a match that was started is ended or finalized.
LEMMA OnlyStartedEnd ==
    ASSUME IInv, NEW p \in Proc, NEW m \in Match, MatchEnded(p, m) \/ FinalizeMatchTeardown(p, m)
    PROVE  match[m] # "none"
<1>1. CASE MatchEnded(p, m)
  <2>1. PICK o \in Outcome : task[p] = Ending("record", m, o)
    BY <1>1 DEF MatchEnded
  <2>2. WorksOn(p, m)
    BY <2>1 DEF WorksOn, EndingSteps, Ending
  <2> QED
    BY <2>2 DEF IInv, WorksOnStarted
<1>2. CASE FinalizeMatchTeardown(p, m)
  <2>1. TearsDown(p, m)
    BY <1>2 DEF FinalizeMatchTeardown, TearsDown, TeardownSteps
  <2> QED
    BY <2>1 DEF IInv, HolderOwns, RowsMatchResult
<1> QED
  BY <1>1, <1>2

\* Ports are released after the teardown, or with a host that is gone.
LEMMA PortsStep ==
    ASSUME TeardownInv, [Next]_vars
    PROVE  PortsKept'
<1> SUFFICES ASSUME NEW n \in Match, match'[n] # "none", HostAlive(n)', ~Torn(n)'
             PROVE  n \in ports'
  BY DEF PortsKept
<1>1. HostAlive(n) /\ ~Torn(n)
  BY TornStays DEF TeardownInv
<1>2. ASSUME NEW m \in Match, StartMatch(m), m = n PROVE n \in ports'
  BY <1>1, <1>2 DEF StartMatch, HostAlive
<1>3. ASSUME match[n] = "none" PROVE \E m \in Match : StartMatch(m) /\ m = n
  <2> USE DEF TeardownInv, IInv, TypeOK
  <2>1. PICK m \in Match : StartMatch(m)
    <3>1. ASSUME NEW p \in Proc, NEW m \in Match, MatchEnded(p, m) \/ FinalizeMatchTeardown(p, m) PROVE FALSE
      <4>1. match[m] # "none"
        BY <3>1, OnlyStartedEnd
      <4>2. m = n
        BY <1>3, <3>1 DEF MatchEnded, FinalizeMatchTeardown
      <4> QED
        BY <1>3, <4>1, <4>2
    <3>2. ASSUME NEW p \in Proc, NEW m \in Match,
                 \/ ClaimCooldownInstance(p, m) \/ RevertTearingDownToCooldown(p, m)
                 \/ SetInstanceDeleted(p, m) \/ SetOrphanDeleted(p, m)
          PROVE  FALSE
      BY <1>3, <3>2 DEF ClaimCooldownInstance, RevertTearingDownToCooldown, SetInstanceDeleted, SetOrphanDeleted
    <3> QED
      BY <1>3, <3>1, <3>2, RowWriters
  <2>2. m = n
    BY <1>3, <2>1 DEF StartMatch
  <2> QED
    BY <2>1, <2>2
<1>4. ASSUME match[n] # "none" PROVE n \in ports'
  <2>1. n \in ports
    BY <1>1, <1>4 DEF TeardownInv, PortsKept
  <2>2. ASSUME NEW p \in Proc, NEW m \in Match, FreePorts(p, m) PROVE n \in ports'
    <3>1. Torn(m)
      BY <2>2, PastStop DEF FreePorts, TeardownInv
    <3> QED
      BY <1>1, <2>1, <2>2, <3>1 DEF FreePorts
  <2>3. ASSUME NEW p \in Proc, NEW m \in Match, FreeOrphanPorts(p, m) PROVE n \in ports'
    <3>1. hostRow[at[m]] = "deleted"
      BY <2>3 DEF FreeOrphanPorts, TeardownInv, AllRely, Relies, Orphaning
    <3> QED
      BY <1>1, <2>1, <2>3, <3>1 DEF FreeOrphanPorts, HostAlive
  <2>4. ASSUME NEW p \in Proc, NEW h \in Host, FreeLostPorts(p, h) PROVE n \in ports'
    <3>1. PICK held \in SUBSET Match : task[p] = Losing("lost_free", h, held) /\ ports' \in {ports \ held, ports}
      BY <2>4 DEF FreeLostPorts
    <3>2. vm[h] = "down" /\ \A m \in held : at[m] = h
      BY <3>1 DEF TeardownInv, AllRely, Relies, Losing
    <3> QED
      BY <1>1, <2>1, <3>1, <3>2 DEF HostAlive
  <2>5. ASSUME NEW m \in Match, StartMatch(m) PROVE n \in ports'
    BY <2>1, <2>5 DEF StartMatch
  <2> QED
    BY <2>1, <2>2, <2>3, <2>4, <2>5, PortWriters
<1> QED
  BY <1>2, <1>3, <1>4

\* A VM takes its containers with it, and a container is created in one.
LEMMA RunsOnVMStep ==
    ASSUME TypeOK, RunsOnVM, [Next]_vars
    PROVE  RunsOnVM'
<1> SUFFICES ASSUME NEW n \in Match, container'[n] = "running"
             PROVE  match'[n] # "none" /\ vm'[at'[n]] = "up"
  BY DEF RunsOnVM
<1> USE DEF TypeOK, RunsOnVM, fleet
<1>1. ASSUME NEW m \in Match, StartMatch(m) PROVE match'[n] # "none" /\ vm'[at'[n]] = "up"
  BY <1>1 DEF StartMatch
<1>2. ASSUME container[n] = "running", vm'[at'[n]] = "up" PROVE match'[n] # "none" /\ vm'[at'[n]] = "up"
  BY <1>2, StartedStays
<1>3. ASSUME NEW p \in Proc, NEW m \in Match, MatchEnded(p, m) \/ StopContainer(p, m) \/ StopFails(p, m)
      PROVE  container[n] = "running" /\ vm'[at'[n]] = "up"
  <2>1. container[n] = "running"
    BY <1>3 DEF MatchEnded, StopContainer, StopFails
  <2>2. UNCHANGED <<at, vm>>
    BY <1>3 DEF MatchEnded, StopContainer, StopFails
  <2> QED
    BY <2>1, <2>2
<1>4. ASSUME NEW p \in Proc, NEW h \in Host, SetMachineHostDeleted(p, h) \/ BuryLostHost(p, h)
      PROVE  container[n] = "running" /\ vm'[at'[n]] = "up"
  BY <1>4 DEF SetMachineHostDeleted, BuryLostHost
<1>5. ASSUME NEW h \in Host, VMDown(h), at' = at
      PROVE  container[n] = "running" /\ vm'[at'[n]] = "up"
  BY <1>5 DEF VMDown, On
<1>6. ASSUME NEW p \in Proc, NEW h \in Host, DeleteHost(p, h)
      PROVE  container[n] = "running" /\ vm'[at'[n]] = "up"
  BY <1>5, <1>6 DEF DeleteHost
<1>7. ASSUME NEW h \in Host, LoseVM(h)
      PROVE  container[n] = "running" /\ vm'[at'[n]] = "up"
  BY <1>5, <1>7 DEF LoseVM
<1>8. ASSUME NEW m \in Match, Tick(m) \/ GameExits(m)
      PROVE  container[n] = "running" /\ vm'[at'[n]] = "up"
  <2>1. container[n] = "running"
    BY <1>8 DEF Tick, GameExits
  <2>2. UNCHANGED <<at, vm>>
    BY <1>8 DEF Tick, GameExits
  <2> QED
    BY <2>1, <2>2
<1>9. ASSUME UNCHANGED <<clock, at, container, hostRow, vm>>
      PROVE  container[n] = "running" /\ vm'[at'[n]] = "up"
  BY <1>9
<1> HIDE DEF TypeOK, RunsOnVM, fleet
<1> QED
  BY <1>1, <1>2, <1>3, <1>4, <1>6, <1>7, <1>8, <1>9, FleetWriters

\* An instance leaves the cooldown for a claim that found the cooldown over,
\* or because its host is gone.
LEMMA CooldownStep ==
    ASSUME TeardownInv, [Next]_vars
    PROVE  CooldownKept'
<1> SUFFICES ASSUME NEW n \in Match, result'[n] # NoResult, HostAlive(n)', ~MayTearDown(n)'
             PROVE  si'[n] = "cooldown"
  BY DEF CooldownKept
<1>1. IInv /\ TypeOK
  BY DEF TeardownInv, IInv
<1>2. HostAlive(n) /\ ~MayTearDown(n)
  BY <1>1, TornStays, MayTearDownStays
<1>3. ASSUME NEW p \in Proc, NEW m \in Match, MatchEnded(p, m), m = n PROVE si'[n] = "cooldown"
  BY <1>1, <1>3 DEF MatchEnded, TypeOK
<1>4. ASSUME NEW p \in Proc, NEW m \in Match, MatchEnded(p, m), m # n
      PROVE  si'[n] = si[n] /\ result'[n] = result[n]
  BY <1>1, <1>4 DEF MatchEnded, TypeOK
<1>5. ASSUME NEW m \in Match, StartMatch(m)
      PROVE  si'[n] = si[n] /\ result'[n] = result[n]
  <2>1. result[m] = NoResult /\ result' = result /\ si' = [si EXCEPT ![m] = "starting"]
    BY <1>1, <1>5 DEF StartMatch, IInv, RowsMatchResult
  <2> QED
    BY <1>1, <2>1 DEF TypeOK
<1>6. ASSUME NEW p \in Proc, NEW m \in Match, ClaimCooldownInstance(p, m) \/ SetInstanceDeleted(p, m)
      PROVE  si'[n] = si[n] /\ result'[n] = result[n]
  <2>1. MayTearDown(m)
    <3>1. CASE ClaimCooldownInstance(p, m)
      BY <3>1 DEF ClaimCooldownInstance, Claiming, TeardownInv, AllRely, Relies
    <3>2. CASE SetInstanceDeleted(p, m)
      BY <3>2, PastStop DEF SetInstanceDeleted, Torn, TeardownInv
    <3> QED
      BY <1>6, <3>1, <3>2
  <2> QED
    BY <1>1, <1>2, <1>6, <2>1 DEF ClaimCooldownInstance, SetInstanceDeleted, TypeOK
<1>7. ASSUME NEW p \in Proc, NEW m \in Match, SetOrphanDeleted(p, m)
      PROVE  si'[n] = si[n] /\ result'[n] = result[n]
  <2>1. hostRow[at[m]] = "deleted"
    BY <1>7 DEF SetOrphanDeleted, TeardownInv, AllRely, Relies, Orphaning
  <2> QED
    BY <1>1, <1>2, <1>7, <2>1 DEF SetOrphanDeleted, HostAlive, TypeOK
<1>8. ASSUME NEW p \in Proc, NEW m \in Match, RevertTearingDownToCooldown(p, m)
      PROVE  si'[n] \in {si[n], "cooldown"} /\ result'[n] = result[n]
  BY <1>1, <1>8 DEF RevertTearingDownToCooldown, TypeOK
<1>9. ASSUME NEW p \in Proc, NEW m \in Match, FinalizeMatchTeardown(p, m)
      PROVE  si'[n] = si[n] /\ result'[n] = result[n]
  BY <1>9 DEF FinalizeMatchTeardown
<1>10. result[n] # NoResult => si[n] = "cooldown"
  BY <1>2 DEF TeardownInv, CooldownKept
<1> QED
  BY <1>3, <1>4, <1>5, <1>6, <1>7, <1>8, <1>9, <1>10, RowWriters

\* FinalizeMatchTeardown is the only step that deletes the row.
LEMMA RowStep ==
    ASSUME TeardownInv, [Next]_vars
    PROVE  RowGoesLast'
<1> SUFFICES ASSUME NEW n \in Match, match'[n] = "deleted"
             PROVE  Torn(n)'
  BY DEF RowGoesLast
<1>1. IInv /\ TypeOK
  BY DEF TeardownInv, IInv
<1>2. ASSUME NEW p \in Proc, NEW m \in Match, FinalizeMatchTeardown(p, m)
      PROVE  (m = n /\ Torn(m)) \/ match[n] = "deleted"
  <2>1. Torn(m)
    BY <1>2, PastStop DEF FinalizeMatchTeardown, TeardownInv
  <2> QED
    BY <1>1, <1>2, <2>1 DEF FinalizeMatchTeardown, TypeOK
<1>3. ASSUME NEW p \in Proc, NEW m \in Match,
             \/ StartMatch(m) \/ MatchEnded(p, m) \/ ClaimCooldownInstance(p, m) \/ RevertTearingDownToCooldown(p, m)
             \/ SetInstanceDeleted(p, m) \/ SetOrphanDeleted(p, m)
      PROVE  match[n] = "deleted"
  <2>1. match' = match \/ match' = [match EXCEPT ![m] = "started"] \/ match' = [match EXCEPT ![m] = "cooldown"]
    BY <1>3 DEF StartMatch, MatchEnded, ClaimCooldownInstance, RevertTearingDownToCooldown,
       SetInstanceDeleted, SetOrphanDeleted
  <2> QED
    BY <1>1, <2>1 DEF TypeOK
<1>4. ASSUME NEW m \in Match, StartMatch(m) PROVE match[n] = "deleted"
  BY <1>1, <1>4 DEF StartMatch, TypeOK
<1>5. Torn(n)
  BY <1>2, <1>3, <1>4, RowWriters DEF TeardownInv, RowGoesLast
<1> QED
  BY <1>1, <1>5, TornStays

\* The teardown's promises hold before anything was started.
LEMMA TeardownInit == Init => TeardownInv
<1> SUFFICES ASSUME Init PROVE TeardownInv
  OBVIOUS
<1>1. AllRely
  BY DEF Init, AllRely, Relies, Idle, TeardownSteps
<1>2. RunsOnVM /\ PortsKept /\ CooldownKept /\ RowGoesLast
  BY DEF Init, RunsOnVM, PortsKept, CooldownKept, RowGoesLast
<1> QED
  BY <1>1, <1>2, InitInv DEF TeardownInv

\* And they hold in every reachable state.
THEOREM TeardownInvariance == Spec => []TeardownInv
<1>1. TeardownInv /\ [Next]_vars => TeardownInv'
  <2> SUFFICES ASSUME TeardownInv, [Next]_vars PROVE TeardownInv'
    OBVIOUS
  <2>1. IInv'
    BY InvStep DEF TeardownInv
  <2>2. AllRely'
    <3> SUFFICES ASSUME NEW q \in Proc PROVE Relies(task[q])'
      BY DEF AllRely
    <3>1. IInv /\ AllRely
      BY DEF TeardownInv
    <3>2. CASE task'[q] = task[q]
      <4>1. PICK t \in Task : t = task[q]
        BY <3>1 DEF IInv, TypeOK
      <4>2. Relies(t)'
        BY <3>1, <4>1, RelianceStays DEF AllRely
      <4> QED
        BY <3>2, <4>1, <4>2 DEF Relies
    <3> QED
      BY <3>1, <3>2, RelianceBegins
  <2> QED
    BY <2>1, <2>2, RunsOnVMStep, PortsStep, CooldownStep, RowStep DEF TeardownInv, IInv
<1> QED
  BY TeardownInit, <1>1, PTL DEF Spec

\* Until the cooldown has elapsed the row and its auth_code stay, and so do the
\* instance and its ports unless the host is lost (reportResults.go's Phase A
\* and the sweep): for any fleet, any races of claims, reverts and reconcilers.
THEOREM GraceIsRespected == Spec => []GraceRespected
<1>1. TeardownInv => GraceRespected
  <2> SUFFICES ASSUME TeardownInv, NEW m \in Match, result[m] # NoResult, clock[m] = 0, ~InlineTeardown
               PROVE  /\ match[m] = "cooldown"
                      /\ hostRow[at[m]] = "ready" /\ vm[at[m]] = "up" => si[m] = "cooldown" /\ m \in ports
    BY DEF GraceRespected
  <2>1. ~MayTearDown(m)
    BY DEF MayTearDown, Cooled
  <2>2. match[m] \in {"cooldown", "deleted"}
    BY DEF TeardownInv, IInv, RowsMatchResult
  <2>3. match[m] = "cooldown"
    BY <2>1, <2>2 DEF TeardownInv, RowGoesLast, Torn
  <2>4. HostAlive(m) => si[m] = "cooldown" /\ m \in ports
    BY <2>1, <2>3 DEF TeardownInv, CooldownKept, PortsKept, Torn
  <2> QED
    BY <2>3, <2>4 DEF HostAlive
<1> QED
  BY TeardownInvariance, <1>1, PTL

\* The ports of a container that still runs are released only by force or with
\* the host: no next container is placed on ports that are in use.
THEOREM RunningKeepsPorts == Spec => []PortsHeldWhileRunning
<1>1. TeardownInv => PortsHeldWhileRunning
  BY DEF TeardownInv, RunsOnVM, PortsKept, HostAlive, Torn, PortsHeldWhileRunning
<1> QED
  BY TeardownInvariance, <1>1, PTL

\* The match row, and the auth_code with it, goes only after a result and, short
\* of force, after the container.
THEOREM RowGoesAfterContainer == Spec => []RowOutlivesContainer
<1>1. TeardownInv => RowOutlivesContainer
  BY DEF TeardownInv, RowGoesLast, Torn, MayTearDown, RowOutlivesContainer
<1> QED
  BY TeardownInvariance, <1>1, PTL


=============================================================================
