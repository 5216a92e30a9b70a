--------------------------- MODULE MatchLifecycle ---------------------------
(***************************************************************************)
(* The life of a match after StartMatch persisted it: result reporting,    *)
(* the six-hour timeout, the post-result cooldown, the claim that lets one *)
(* worker tear the instance down, the teardown itself, the reaping of idle *)
(* hosts, and the two reconcilers that follow a lost VM.                   *)
(*                                                                         *)
(* A Proc is one activity of some Fly machine: an HTTP handler, a pass of  *)
(* the worker loop over one row, or the goroutine that reaps a host.       *)
(* Every database statement, transaction and agent call is a step of its   *)
(* own, so activities of several machines interleave between any two.      *)
(*                                                                         *)
(* An operator named like InsertAnyway, just before the one it resembles,  *)
(* is a broken variant: no action uses it.  Substituting it shows that the *)
(* properties notice.                                                      *)
(***************************************************************************)
EXTENDS Naturals

CONSTANTS
    Match,          \* matches; each has exactly one ServerInstance
    Host,           \* MachineHost rows, each with its VM
    Proc,           \* concurrent activities
    Verdict,        \* the different results a game server can report
    Ranked,         \* matches of queues with elo_strategy = "classic"
    InlineTeardown, \* MatchCooldownDuration = 0: teardown inside the report
    Faults          \* which faults may happen: "crash", "db", "agent", "host"

ASSUME LifecycleAssumption ==
    /\ Ranked \subseteq Match
    /\ InlineTeardown \in BOOLEAN
    /\ {"none", "timeout"} \cap Verdict = {}

VARIABLES
    match,      \* Match row: "none", its status, or "deleted"
    si,         \* ServerInstance.Status, "none" before StartMatch
    at,         \* at[m]: the host the instance of m was placed on
    container,  \* the container as docker on the host has it
    ports,      \* matches whose host ports are in their host's AllocatedPorts
    clock,      \* age of the match (0, 1: past MATCH_MAX_DURATION), then of its
                \* result (1: past the cooldown, 2: past the force deadline)
    result,     \* the MatchResult row
    rated,      \* how many times ApplyClassicElo committed for m
    hostRow,    \* MachineHost.Status
    vm,         \* the VM at the provider
    task        \* task[p]: what activity p does next

fleet == <<at, container, hostRow, vm>>
vars == <<match, si, at, container, ports, clock, result, rated, hostRow, vm, task>>

Fault(f) == f \in Faults

MatchStatus == {"none", "started", "cooldown", "deleted"}
InstanceStatus == {"none", "starting", "cooldown", "tearing_down", "deleted"}

Outcome == [by: Verdict \cup {"timeout"}, rate: BOOLEAN]
TimedOut == [by |-> "timeout", rate |-> FALSE]
NoResult == [by |-> "none", rate |-> FALSE]

(***************************************************************************)
(* Activities.  The record says how far one is and what it holds in local  *)
(* variables across its database and network calls.                        *)
(***************************************************************************)
Idle == [step |-> "idle"]
Ending(s, m, o) == [step |-> s, match |-> m, out |-> o]
Claiming(m, inline) == [step |-> "claim", match |-> m, inline |-> inline]
Teardown(s, m, f) == [step |-> s, match |-> m, force |-> f]
Reaping(s, h) == [step |-> s, host |-> h]
Losing(s, h, held) == [step |-> s, host |-> h, held |-> held]
Orphaning(s, m) == [step |-> s, match |-> m]

EndingSteps == {"underway", "record"}
TeardownSteps == {"stop", "revert", "free", "mark", "finalize"}
ReapSteps == {"count", "bury", "destroy"}

Task ==
    {Idle}
    \cup [step: EndingSteps, match: Match, out: Outcome]
    \cup [step: {"claim"}, match: Match, inline: BOOLEAN]
    \cup [step: TeardownSteps, match: Match, force: BOOLEAN]
    \cup [step: ReapSteps, host: Host]
    \cup [step: {"lost_free", "lost_bury"}, host: Host, held: SUBSET Match]
    \cup [step: {"orphan_free", "orphan_mark"}, match: Match]

Become(p, t) == task' = [task EXCEPT ![p] = t]

On(h) == {m \in Match : match[m] # "none" /\ at[m] = h}
LiveOn(h) == {m \in On(h) : si[m] # "deleted"}
RowExists(m) == match[m] \in {"started", "cooldown"}

Init ==
    /\ match = [m \in Match |-> "none"]
    /\ si = [m \in Match |-> "none"]
    /\ at \in [Match -> Host]
    /\ container = [m \in Match |-> "gone"]
    /\ ports = {}
    /\ clock = [m \in Match |-> 0]
    /\ result = [m \in Match |-> NoResult]
    /\ rated = [m \in Match |-> 0]
    /\ hostRow = [h \in Host |-> "ready"]
    /\ vm = [h \in Host |-> "up"]
    /\ task = [p \in Proc |-> Idle]

(***************************************************************************)
(* The transaction at the end of StartMatch creates the instance and the   *)
(* match together.  The host was found, its ports allocated and the        *)
(* container started earlier, so by now the VM may be gone and a           *)
(* reconciler may already have released the ports.                         *)
(***************************************************************************)
StartMatch(m) ==
    /\ match[m] = "none"
    /\ match' = [match EXCEPT ![m] = "started"]
    /\ si' = [si EXCEPT ![m] = "starting"]
    /\ \/ ports' = ports \cup {m}
       \/ vm[at[m]] = "down" /\ UNCHANGED ports
    /\ container' = [container EXCEPT ![m] = IF vm[at[m]] = "up" THEN "running" ELSE "gone"]
    /\ UNCHANGED <<at, clock, result, rated, hostRow, vm, task>>

(***************************************************************************)
(* Phase A: a result is recorded.                                          *)
(***************************************************************************)
\* ReportResults reads the match by its auth_code and turns re-reports away.
ReportResults(p, m) ==
    /\ task[p] = Idle
    /\ match[m] = "started"
    /\ \E v \in Verdict, r \in BOOLEAN :
          Become(p, Ending("underway", m, [by |-> v, rate |-> r]))
    /\ UNCHANGED <<match, si, ports, clock, result, rated, fleet>>

\* GarbageCollectMatches lists the started matches and ends the old ones.
GarbageCollectMatches(p, m) ==
    /\ task[p] = Idle
    /\ match[m] = "started"
    /\ clock[m] = 1
    /\ Become(p, Ending("underway", m, TimedOut))
    /\ UNCHANGED <<match, si, ports, clock, result, rated, fleet>>

\* EndMatch's own IsMatchUnderway check.
EndMatch(p, m) ==
    /\ \E o \in Outcome :
          /\ task[p] = Ending("underway", m, o)
          /\ Become(p, IF match[m] = "started" THEN Ending("record", m, o) ELSE Idle)
    /\ UNCHANGED <<match, si, ports, clock, result, rated, fleet>>

\* match_results.id is the match id: the insert fails if a result is there.
InsertAnyway(m) == TRUE
PrimaryKeyFree(m) == result[m] = NoResult

RateAlways(m, o) == m \in Ranked
RatesMatch(m, o) == o.rate /\ m \in Ranked

\* MatchEnded: result, both statuses and the rating change in one transaction.
\* The instance goes to "cooldown" whatever its status was.
MatchEnded(p, m) ==
    \E o \in Outcome :
        /\ task[p] = Ending("record", m, o)
        /\ PrimaryKeyFree(m)
        /\ result' = [result EXCEPT ![m] = o]
        /\ match' = [match EXCEPT ![m] = "cooldown"]
        /\ si' = [si EXCEPT ![m] = "cooldown"]
        /\ clock' = [clock EXCEPT ![m] = 0]
        /\ rated' = [rated EXCEPT ![m] = IF RatesMatch(m, o) THEN @ + 1 ELSE @]
        /\ Become(p, IF InlineTeardown THEN Claiming(m, TRUE) ELSE Idle)
        /\ UNCHANGED <<ports, fleet>>

\* The transaction rolls back: the result is there already, or the database failed.
MatchEndedRefused(p, m) ==
    /\ \E o \in Outcome : task[p] = Ending("record", m, o)
    /\ ~PrimaryKeyFree(m) \/ Fault("db")
    /\ Become(p, Idle)
    /\ UNCHANGED <<match, si, ports, clock, result, rated, fleet>>

(***************************************************************************)
(* Phase B: the cooled instance is claimed and torn down.                  *)
(***************************************************************************)
CooledSoon(m) == TRUE
Cooled(m) == InlineTeardown \/ clock[m] >= 1

\* SweepCooledMatches lists instance rows joined to their match and result.
SweepCooledMatches(p, m) ==
    /\ task[p] = Idle
    /\ si[m] = "cooldown"
    /\ RowExists(m)
    /\ result[m] # NoResult
    /\ Cooled(m)
    /\ Become(p, Claiming(m, FALSE))
    /\ UNCHANGED <<match, si, ports, clock, result, rated, fleet>>

\* UPDATE ... SET status = 'tearing_down' WHERE status = 'cooldown'.
ClaimWhatever(m) == si[m] # "deleted"
Claimable(m) == si[m] = "cooldown"

PastForceDeadline(m) == clock[m] = 2

\* The sweep tears down with force once the result is past the force deadline;
\* the inline teardown never does.
ClaimCooldownInstance(p, m) ==
    /\ \E inline \in BOOLEAN :
          /\ task[p] = Claiming(m, inline)
          /\ Claimable(m)
          /\ si' = [si EXCEPT ![m] = "tearing_down"]
          /\ Become(p, Teardown("stop", m, ~inline /\ PastForceDeadline(m)))
    /\ UNCHANGED <<match, ports, clock, result, rated, fleet>>

ClaimLost(p, m) ==
    /\ \E inline \in BOOLEAN : task[p] = Claiming(m, inline)
    /\ ~Claimable(m) \/ Fault("db")
    /\ Become(p, Idle)
    /\ UNCHANGED <<match, si, ports, clock, result, rated, fleet>>

\* The agent stops and removes the container.
StopContainer(p, m) ==
    /\ \E f \in BOOLEAN :
          /\ task[p] = Teardown("stop", m, f)
          /\ Become(p, Teardown("free", m, f))
    /\ vm[at[m]] = "up"
    /\ container[m] # "gone"
    /\ container' = [container EXCEPT ![m] = "gone"]
    /\ UNCHANGED <<match, si, at, ports, clock, result, rated, hostRow, vm>>

\* The call fails: no VM, no such container, a broken agent, or a lost reply to
\* a stop that was done, wholly or up to the removal.  Without force the
\* teardown gives up.
IgnoreStopFailure(f) == "free"
OnStopFailure(f) == IF f THEN "free" ELSE "revert"

StopFails(p, m) ==
    /\ \E f \in BOOLEAN :
          /\ task[p] = Teardown("stop", m, f)
          /\ Become(p, Teardown(OnStopFailure(f), m, f))
    /\ \/ /\ vm[at[m]] = "down" \/ container[m] = "gone"
          /\ UNCHANGED container
       \/ /\ Fault("agent")
          /\ \/ UNCHANGED container
             \/ /\ container[m] # "gone"
                /\ \E c \in {"exited", "gone"} : container' = [container EXCEPT ![m] = c]
    /\ UNCHANGED <<match, si, at, ports, clock, result, rated, hostRow, vm>>

\* UPDATE ... SET status = 'cooldown' WHERE status = 'tearing_down'.
RevertAny(m) == TRUE
Revertible(m) == si[m] = "tearing_down"

RevertTearingDownToCooldown(p, m) ==
    /\ \E f \in BOOLEAN : task[p] = Teardown("revert", m, f)
    /\ \/ /\ Revertible(m)
          /\ si' = [si EXCEPT ![m] = "cooldown"]
       \/ /\ ~Revertible(m) \/ Fault("db")
          /\ UNCHANGED si
    /\ Become(p, Idle)
    /\ UNCHANGED <<match, ports, clock, result, rated, fleet>>

\* Each of the next three is logged and passed over when the database fails.
FreePorts(p, m) ==
    /\ \E f \in BOOLEAN :
          /\ task[p] = Teardown("free", m, f)
          /\ Become(p, Teardown("mark", m, f))
    /\ \/ ports' = ports \ {m}
       \/ Fault("db") /\ UNCHANGED ports
    /\ UNCHANGED <<match, si, clock, result, rated, fleet>>

SetInstanceDeleted(p, m) ==
    /\ \E f \in BOOLEAN :
          /\ task[p] = Teardown("mark", m, f)
          /\ Become(p, Teardown("finalize", m, f))
    /\ \/ si' = [si EXCEPT ![m] = "deleted"]
       \/ Fault("db") /\ UNCHANGED si
    /\ UNCHANGED <<match, ports, clock, result, rated, fleet>>

FinalizeMatchTeardown(p, m) ==
    /\ \E f \in BOOLEAN : task[p] = Teardown("finalize", m, f)
    /\ \/ match' = [match EXCEPT ![m] = "deleted"]
       \/ Fault("db") /\ UNCHANGED match
    /\ Become(p, Reaping("count", at[m]))
    /\ UNCHANGED <<si, ports, clock, result, rated, fleet>>

(***************************************************************************)
(* tryDeleteIdleHost, a goroutine: counts, then marks the row, then        *)
(* destroys the VM.  Whether the warm pool can spare the host depends on   *)
(* the rest of the fleet and is left open here.                            *)
(***************************************************************************)
CountActiveInstances(p, h) ==
    /\ task[p] = Reaping("count", h)
    /\ \/ Become(p, Idle)
       \/ LiveOn(h) = {} /\ Become(p, Reaping("bury", h))
    /\ UNCHANGED <<match, si, ports, clock, result, rated, fleet>>

SetMachineHostDeleted(p, h) ==
    /\ task[p] = Reaping("bury", h)
    /\ \/ /\ hostRow' = [hostRow EXCEPT ![h] = "deleted"]
          /\ Become(p, Reaping("destroy", h))
       \/ Fault("db") /\ Become(p, Idle) /\ UNCHANGED hostRow
    /\ UNCHANGED <<match, si, at, container, ports, clock, result, rated, vm>>

VMDown(h) ==
    /\ vm' = [vm EXCEPT ![h] = "down"]
    /\ container' = [m \in Match |-> IF m \in On(h) THEN "gone" ELSE container[m]]

DeleteHost(p, h) ==
    /\ task[p] = Reaping("destroy", h)
    /\ Become(p, Idle)
    /\ \/ VMDown(h)
       \/ Fault("host") /\ UNCHANGED <<vm, container>>
    /\ UNCHANGED <<match, si, at, ports, clock, result, rated, hostRow>>

(***************************************************************************)
(* The reconcilers.                                                        *)
(***************************************************************************)
\* A ready row whose VM the provider no longer lists.
ReconcileLiveHosts(p, h) ==
    /\ task[p] = Idle
    /\ hostRow[h] = "ready"
    /\ vm[h] = "down"
    /\ Become(p, Losing("lost_free", h, On(h) \cap ports))
    /\ UNCHANGED <<match, si, ports, clock, result, rated, fleet>>

FreeLostPorts(p, h) ==
    /\ \E held \in SUBSET Match :
          /\ task[p] = Losing("lost_free", h, held)
          /\ Become(p, Losing("lost_bury", h, held))
          /\ \/ ports' = ports \ held
             \/ Fault("db") /\ UNCHANGED ports
    /\ UNCHANGED <<match, si, clock, result, rated, fleet>>

BuryLostHost(p, h) ==
    /\ \E held \in SUBSET Match : task[p] = Losing("lost_bury", h, held)
    /\ Become(p, Idle)
    /\ \/ hostRow' = [hostRow EXCEPT ![h] = "deleted"]
       \/ Fault("db") /\ UNCHANGED hostRow
    /\ UNCHANGED <<match, si, at, container, ports, clock, result, rated, vm>>

\* An instance that is not deleted, on a host row that is.
ReconcileOrphanedInstances(p, m) ==
    /\ task[p] = Idle
    /\ si[m] \notin {"none", "deleted"}
    /\ hostRow[at[m]] = "deleted"
    /\ Become(p, Orphaning("orphan_free", m))
    /\ UNCHANGED <<match, si, ports, clock, result, rated, fleet>>

FreeOrphanPorts(p, m) ==
    /\ task[p] = Orphaning("orphan_free", m)
    /\ Become(p, Orphaning("orphan_mark", m))
    /\ \/ ports' = ports \ {m}
       \/ Fault("db") /\ UNCHANGED ports
    /\ UNCHANGED <<match, si, clock, result, rated, fleet>>

SetOrphanDeleted(p, m) ==
    /\ task[p] = Orphaning("orphan_mark", m)
    /\ Become(p, Idle)
    /\ \/ si' = [si EXCEPT ![m] = "deleted"]
       \/ Fault("db") /\ UNCHANGED si
    /\ UNCHANGED <<match, ports, clock, result, rated, fleet>>

(***************************************************************************)
(* The surroundings: time, the game, the provider, and stopping machines.  *)
(***************************************************************************)
\* A bound of the model: nothing tells apart the ages past the last deadline.
MaxAge(m) == IF match[m] = "started" THEN 1 ELSE 2

Tick(m) ==
    /\ RowExists(m)
    /\ clock[m] < MaxAge(m)
    /\ clock' = [clock EXCEPT ![m] = @ + 1]
    /\ UNCHANGED <<match, si, ports, result, rated, fleet, task>>

GameExits(m) ==
    /\ container[m] = "running"
    /\ container' = [container EXCEPT ![m] = "exited"]
    /\ UNCHANGED <<match, si, at, ports, clock, result, rated, hostRow, vm, task>>

LoseVM(h) ==
    /\ Fault("host")
    /\ vm[h] = "up"
    /\ VMDown(h)
    /\ UNCHANGED <<match, si, at, ports, clock, result, rated, hostRow, task>>

\* The machine running p stops; what p was doing is forgotten.
Crash(p) ==
    /\ Fault("crash")
    /\ task[p] # Idle
    /\ Become(p, Idle)
    /\ UNCHANGED <<match, si, ports, clock, result, rated, fleet>>

EndStep(p, m) ==
    \/ EndMatch(p, m) \/ MatchEnded(p, m) \/ MatchEndedRefused(p, m)

TeardownStep(p, m) ==
    \/ ClaimCooldownInstance(p, m) \/ ClaimLost(p, m)
    \/ StopContainer(p, m) \/ StopFails(p, m) \/ RevertTearingDownToCooldown(p, m)
    \/ FreePorts(p, m) \/ SetInstanceDeleted(p, m) \/ FinalizeMatchTeardown(p, m)

OrphanStep(p, m) == FreeOrphanPorts(p, m) \/ SetOrphanDeleted(p, m)

HostStep(p, h) ==
    \/ CountActiveInstances(p, h) \/ SetMachineHostDeleted(p, h) \/ DeleteHost(p, h)
    \/ FreeLostPorts(p, h) \/ BuryLostHost(p, h)

\* What an activity does once begun.
Work(p) ==
    \/ \E m \in Match : EndStep(p, m) \/ TeardownStep(p, m) \/ OrphanStep(p, m)
    \/ \E h \in Host : HostStep(p, h)

\* What begins one.
Begin(p) ==
    \/ \E m \in Match :
          \/ ReportResults(p, m) \/ GarbageCollectMatches(p, m)
          \/ SweepCooledMatches(p, m) \/ ReconcileOrphanedInstances(p, m)
    \/ \E h \in Host : ReconcileLiveHosts(p, h)

Next ==
    \/ \E p \in Proc : Begin(p) \/ Work(p) \/ Crash(p)
    \/ \E m \in Match : StartMatch(m) \/ Tick(m) \/ GameExits(m)
    \/ \E h \in Host : LoseVM(h)

Spec == Init /\ [][Next]_vars

(***************************************************************************)
(* Fairness: begun activities go on, time passes, and the worker's passes  *)
(* keep coming, each attending to every row it lists.  The last is more    *)
(* than the code does: PairPlayers is what publishes the trigger of the    *)
(* sweeps, so they come only while matches are paired.  FairSpec serves to *)
(* show what goes wrong even so.                                           *)
(***************************************************************************)
Fairness ==
    /\ \A p \in Proc : WF_vars(Work(p))
    /\ \A m \in Match :
          /\ WF_vars(Tick(m))
          /\ SF_vars(\E p \in Proc : GarbageCollectMatches(p, m))
          /\ SF_vars(\E p \in Proc : SweepCooledMatches(p, m))
          /\ SF_vars(\E p \in Proc : ReconcileOrphanedInstances(p, m))
    /\ \A h \in Host : SF_vars(\E p \in Proc : ReconcileLiveHosts(p, h))

FairSpec == Spec /\ Fairness

-----------------------------------------------------------------------------

\* Every variable has its type.
TypeOK ==
    /\ match \in [Match -> MatchStatus]
    /\ si \in [Match -> InstanceStatus]
    /\ at \in [Match -> Host]
    /\ container \in [Match -> {"running", "exited", "gone"}]
    /\ ports \subseteq Match
    /\ clock \in [Match -> 0 .. 2]
    /\ result \in [Match -> Outcome \cup {NoResult}]
    /\ rated \in [Match -> Nat]
    /\ hostRow \in [Host -> {"ready", "deleted"}]
    /\ vm \in [Host -> {"up", "down"}]
    /\ task \in [Proc -> Task]

\* "Results themselves are immutable once written" (ReportResults), however
\* many reports and timeouts are past their status checks at the same time.
ResultImmutable ==
    [][\A m \in Match : result[m] # NoResult => result'[m] = result[m]]_vars

\* The rating change and the result that justified it cannot drift apart
\* (MatchEnded): Elo was applied once exactly when the recorded result asked
\* for it, never for an attempt that lost to another.
RatingMatchesResult ==
    \A m \in Match :
        rated[m] = IF result[m] # NoResult /\ result[m].rate /\ m \in Ranked THEN 1 ELSE 0

TearsDown(p, m) == \E s \in TeardownSteps, f \in BOOLEAN : task[p] = Teardown(s, m, f)

\* The claim of ClaimCooldownInstance is exclusive: no two activities are ever
\* inside TeardownCooledMatch for the same instance, so ports are released and
\* the host reaped once, even as claims are reverted, retried and orphaned.
ClaimExclusive ==
    \A m \in Match : \A p, q \in Proc : TearsDown(p, m) /\ TearsDown(q, m) => p = q

\* Until the cooldown has elapsed the match row, and with it the auth_code,
\* stays, and so do the instance and its ports unless the host itself is lost.
GraceRespected ==
    \A m \in Match : result[m] # NoResult /\ clock[m] = 0 /\ ~InlineTeardown =>
        /\ match[m] = "cooldown"
        /\ hostRow[at[m]] = "ready" /\ vm[at[m]] = "up" => si[m] = "cooldown" /\ m \in ports

\* The ports of a container that still runs go back to the pool only by force
\* (or with the host): otherwise the next container on them could not start.
PortsHeldWhileRunning ==
    \A m \in Match :
        container[m] = "running" /\ hostRow[at[m]] = "ready" => m \in ports \/ clock[m] = 2

\* The auth_code dies only after a result is recorded, and while the container
\* may still run only past the force deadline.
RowOutlivesContainer ==
    \A m \in Match : match[m] = "deleted" =>
        /\ result[m] # NoResult
        /\ container[m] = "running" => clock[m] = 2

\* A deleted instance comes back to life only through a first result for a
\* match whose host was lost under it; in particular a worker that comes back
\* late to revert its claim does not resurrect what a reconciler deleted.
NoResurrection ==
    [][\A m \in Match : si[m] = "deleted" /\ si'[m] # "deleted" =>
          result[m] = NoResult /\ result'[m] # NoResult]_vars

Promise ==
    INSTANCE MatchOutcome WITH open <- {m \in Match : RowExists(m)}

\* The lifecycle implements what MatchOutcome promises about each match.
ImplementsPromise == Promise!Spec

\* config.go says of MatchCooldownForceDeadline: "the absolute cap on how long
\* an instance may sit in cooldown", "After this point: ports are freed, the SI
\* is marked deleted, and the Match row is dropped".  A machine that stops after
\* its claim leaves the instance in "tearing_down", which no sweep lists.
CooledIsTornDown ==
    \A m \in Match : result[m] # NoResult ~>
        match[m] = "deleted" /\ si[m] = "deleted" /\ m \notin ports
=============================================================================
