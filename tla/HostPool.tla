------------------------------ MODULE HostPool ------------------------------
(***************************************************************************)
(* The pool of game-server hosts: how StartMatch finds or provisions a     *)
(* host, takes ports on it and starts the container there, how teardown    *)
(* gives the ports back, how an idle host is reaped, how the warm pool is  *)
(* kept, and how rows are reconciled with the provider and with each other.*)
(*                                                                         *)
(* A Match is one call of StartMatch and what becomes of it: once its      *)
(* instance is persisted, the same activity goes on as the teardown of     *)
(* that instance, of which there is only ever one (ClaimExclusive in       *)
(* MatchLifecycle), and then as the goroutine that reaps the host.         *)
(*                                                                         *)
(* An operator that no action uses, just before the one it resembles, is a *)
(* broken variant: substituting it shows that the properties notice.       *)
(***************************************************************************)
EXTENDS Naturals, FiniteSets, FiniteSetsExt

CONSTANTS
    Match,      \* calls of StartMatch
    Warmer,     \* passes of MaintainWarmPool
    Loop,       \* the calls and passes made by one worker's loop, one at a time;
                \* the others come from lobbies' hosts and other machines
    Beside,     \* how many of those others are under way at once (a bound)
    Host,       \* the VMs the provider can ever create, with their rows
    NoHost,
    Port,       \* HCLOUDPortRangeStart .. HCLOUDPortRangeEnd
    Need,       \* ports a container needs
    MaxSlots,   \* HCLOUDMaxSlotsPerHost
    MaxHosts,   \* HCLOUDMaxHosts
    WarmSlots,  \* HCLOUDWarmSlots
    Faults      \* which faults may happen: "crash", "db", "agent", "host"

Actor == Match \cup Warmer

ASSUME PoolAssumption ==
    /\ Match \cap Warmer = {}
    /\ Loop \subseteq Actor
    /\ NoHost \notin Host
    /\ Port \subseteq Nat /\ IsFiniteSet(Port)
    /\ {Need, MaxSlots, MaxHosts, WarmSlots, Beside} \subseteq Nat

VARIABLES
    step,       \* what an actor does next
    host,       \* the host in its hands
    todo,       \* todo[m]: the hosts FindAvailableHost has still to look at
    held,       \* held[m]: the ports StartMatch was given, later si.HostPorts
    avail,      \* avail[w]: the slots a warm pool pass believes in
    si,         \* the ServerInstance row: "none", "active" (any status but
                \* deleted), "deleted"
    running,    \* the matches whose container runs
    row,        \* MachineHost.Status
    allocated,  \* MachineHost.AllocatedPorts
    vm,         \* the VM at the provider: "none", "up", "down"
    unlisted,   \* hosts missing from the provider's answer to ListHosts
    lost,       \* lost[h]: what ReconcileLiveHosts does next about row h
    seen,       \* seen[h]: the AllocatedPorts it read
    orphan      \* orphan[m]: what ReconcileOrphanedInstances does next about m

actors == <<step, host, todo, held, avail>>
hosts == <<row, allocated, vm>>
reconcilers == <<unlisted, lost, seen, orphan>>
poolVars == <<actors, si, running, hosts, reconcilers>>

Fault(f) == f \in Faults

\* In StartMatch with a host; with ports; in the teardown.
ProvisionSteps == {"create", "insert", "setready"}
LaunchSteps == {"launch", "persist", "undo", "release"}
EndSteps == {"playing", "free", "mark", "count", "spare", "bury", "destroy"}
Step == {"idle", "find", "full", "alloc", "over", "crashed"} \cup ProvisionSteps \cup LaunchSteps \cup EndSteps

\* The calls that have not returned, and so keep their loop busy.
Inside(a) == step[a] \in {"find", "full", "alloc"} \cup ProvisionSteps \cup LaunchSteps
UnderWay == {a \in Actor : Inside(a)}
MayEnter(a) ==
    IF a \in Loop THEN UnderWay \cap Loop = {} ELSE Cardinality(UnderWay \ Loop) < Beside

Holds(m, h) == host[m] = h /\ step[m] \in LaunchSteps \cup {"playing", "free"}

PoolInit ==
    /\ step = [a \in Actor |-> "idle"]
    /\ host = [a \in Actor |-> NoHost]
    /\ todo = [m \in Match |-> {}]
    /\ held = [m \in Match |-> {}]
    /\ avail = [w \in Warmer |-> 0]
    /\ si = [m \in Match |-> "none"]
    /\ running = {}
    /\ row = [h \in Host |-> "none"]
    /\ allocated = [h \in Host |-> {}]
    /\ vm = [h \in Host |-> "none"]
    /\ unlisted = {}
    /\ lost = [h \in Host |-> "no"]
    /\ seen = [h \in Host |-> {}]
    /\ orphan = [m \in Match |-> "no"]

Goto(a, s) == step' = [step EXCEPT ![a] = s]

(***************************************************************************)
(* Counting, as the queries do it.  No query takes a lock, and none counts *)
(* a match whose instance is not persisted yet.                            *)
(***************************************************************************)
Ready == {h \in Host : row[h] = "ready"}
Active(h) == {m \in Match : si[m] = "active" /\ host[m] = h}
FreeSlots(h) == IF Cardinality(Active(h)) < MaxSlots THEN MaxSlots - Cardinality(Active(h)) ELSE 0

CountMachineHosts == Cardinality({h \in Host : row[h] \notin {"none", "deleted"}})
CountAvailableSlots == MapThenSumSet(FreeSlots, Ready)

OneMoreSlot(h) == Cardinality(Active(h)) <= MaxSlots
HasSlot(h) == Cardinality(Active(h)) < MaxSlots

\* The lowest free ports of h, as many as a container needs.
OneTooMany(h) ==
    LET free == Port \ allocated[h]
    IN  {p \in free : Cardinality({q \in free : q < p}) <= Need}
LowestFree(h) ==
    LET free == Port \ allocated[h]
    IN  {p \in free : Cardinality({q \in free : q < p}) < Need}

(***************************************************************************)
(* Finding or providing a host.                                            *)
(***************************************************************************)
\* Ready rows are read at once, their ports with them.
ListReadyHosts(m) ==
    /\ step[m] = "idle"
    /\ MayEnter(m)
    /\ \/ /\ Goto(m, "find")
          /\ todo' = [todo EXCEPT ![m] = {h \in Ready : Cardinality(Port \ allocated[h]) >= Need}]
       \/ Fault("db") /\ Goto(m, "over") /\ UNCHANGED todo
    /\ UNCHANGED <<host, held, avail, si, running, hosts, reconcilers>>

\* The instances of each are counted in turn; a count that fails passes it over.
FindAvailableHost(m) ==
    /\ step[m] = "find"
    /\ \/ \E h \in todo[m] :
             \/ /\ HasSlot(h)
                /\ Goto(m, "alloc")
                /\ host' = [host EXCEPT ![m] = h]
                /\ todo' = [todo EXCEPT ![m] = {}]
             \/ /\ ~HasSlot(h) \/ Fault("db")
                /\ todo' = [todo EXCEPT ![m] = @ \ {h}]
                /\ UNCHANGED <<step, host>>
       \/ todo[m] = {} /\ Goto(m, "full") /\ UNCHANGED <<host, todo>>
    /\ UNCHANGED <<held, avail, si, running, hosts, reconcilers>>

\* A pass of MaintainWarmPool begins by counting what there is, and ends there
\* when a count fails.
BeginWarmPool(w) ==
    /\ step[w] = "idle"
    /\ MayEnter(w)
    /\ CountAvailableSlots < WarmSlots
    /\ Goto(w, "full")
    /\ avail' = [avail EXCEPT ![w] = CountAvailableSlots]
    /\ UNCHANGED <<host, todo, held, si, running, hosts, reconcilers>>

NoCap == FALSE
AtCap == CountMachineHosts >= MaxHosts

GiveUp(a) == IF a \in Match THEN "over" ELSE "idle"

\* At the cap StartMatch puts the players back into their queue.
CheckCap(a) ==
    /\ step[a] = "full"
    /\ \/ Goto(a, IF AtCap THEN "idle" ELSE "create")
       \/ Fault("db") /\ Goto(a, GiveUp(a))
    /\ UNCHANGED <<host, todo, held, avail, si, running, hosts, reconcilers>>

\* CreateHost may fail after the VM was made: waiting for the agent failed.
CreateHost(a) ==
    /\ step[a] = "create"
    /\ \/ \E h \in Host :
             /\ vm[h] = "none"
             /\ vm' = [vm EXCEPT ![h] = "up"]
             /\ \/ Goto(a, "insert") /\ host' = [host EXCEPT ![a] = h]
                \/ Fault("host") /\ Goto(a, GiveUp(a)) /\ UNCHANGED host
       \/ Fault("host") /\ Goto(a, GiveUp(a)) /\ UNCHANGED <<host, vm>>
    /\ UNCHANGED <<todo, held, avail, si, running, row, allocated, reconcilers>>

\* The row is inserted, or, when that fails, the VM destroyed.
CreateMachineHost(a) ==
    /\ step[a] = "insert"
    /\ \/ /\ Goto(a, "setready")
          /\ row' = [row EXCEPT ![host[a]] = "provisioning"]
          /\ UNCHANGED <<host, vm>>
       \/ /\ Fault("db")
          /\ Goto(a, GiveUp(a))
          /\ host' = [host EXCEPT ![a] = NoHost]
          /\ \/ vm' = [vm EXCEPT ![host[a]] = "down"]
             \/ Fault("host") /\ UNCHANGED vm
          /\ UNCHANGED row
    /\ UNCHANGED <<todo, held, avail, si, running, allocated, reconcilers>>

\* StartMatch goes on when this fails, a warm pool pass does not.
SetMachineHostReady(m) ==
    /\ step[m] = "setready"
    /\ Goto(m, "alloc")
    /\ \/ row' = [row EXCEPT ![host[m]] = "ready"]
       \/ Fault("db") /\ UNCHANGED row
    /\ UNCHANGED <<host, todo, held, avail, si, running, allocated, vm, reconcilers>>

SetWarmHostReady(w) ==
    /\ step[w] = "setready"
    /\ host' = [host EXCEPT ![w] = NoHost]
    /\ \/ /\ row' = [row EXCEPT ![host[w]] = "ready"]
          /\ avail' = [avail EXCEPT ![w] = @ + MaxSlots]
          /\ Goto(w, IF avail[w] + MaxSlots < WarmSlots THEN "full" ELSE "idle")
       \/ Fault("db") /\ Goto(w, "idle") /\ UNCHANGED <<row, avail>>
    /\ UNCHANGED <<todo, held, si, running, allocated, vm, reconcilers>>

(***************************************************************************)
(* Ports and the container.                                                *)
(***************************************************************************)
\* SELECT FOR UPDATE makes the choice and its recording one step; the status
\* of the row is not looked at.
AllocatePorts(m) ==
    LET h == host[m] IN
    /\ step[m] = "alloc"
    /\ \/ /\ Cardinality(Port \ allocated[h]) >= Need
          /\ Goto(m, "launch")
          /\ held' = [held EXCEPT ![m] = LowestFree(h)]
          /\ allocated' = [allocated EXCEPT ![h] = @ \cup LowestFree(h)]
       \/ /\ Cardinality(Port \ allocated[h]) < Need \/ Fault("db")
          /\ Goto(m, "over")
          /\ UNCHANGED <<held, allocated>>
    /\ UNCHANGED <<host, todo, avail, si, running, row, vm, reconcilers>>

\* Docker binds no port twice.
Bindable(m) ==
    /\ vm[host[m]] = "up"
    /\ \A n \in running : host[n] = host[m] => held[n] \cap held[m] = {}

\* A failed call may be a lost reply: the container then runs all the same.
StartContainer(m) ==
    /\ step[m] = "launch"
    /\ \/ /\ Bindable(m)
          /\ running' = running \cup {m}
          /\ \/ Goto(m, "persist")
             \/ Fault("agent") /\ Goto(m, "release")
       \/ /\ ~Bindable(m) \/ Fault("agent")
          /\ Goto(m, "release")
          /\ UNCHANGED running
    /\ UNCHANGED <<host, todo, held, avail, si, hosts, reconcilers>>

PersistMatch(m) ==
    /\ step[m] = "persist"
    /\ \/ Goto(m, "playing") /\ si' = [si EXCEPT ![m] = "active"]
       \/ Fault("db") /\ Goto(m, "undo") /\ UNCHANGED si
    /\ UNCHANGED <<host, todo, held, avail, running, hosts, reconcilers>>

UndoContainer(m) ==
    /\ step[m] = "undo"
    /\ Goto(m, "release")
    /\ \/ running' = running \ {m}
       \/ Fault("agent") /\ UNCHANGED running
    /\ UNCHANGED <<host, todo, held, avail, si, hosts, reconcilers>>

\* FreePorts removes exactly the ports it is given.
KeptAll(h, ports) == allocated[h]
FreedAll(h, ports) == {}
Remaining(h, ports) == allocated[h] \ ports

ReleasePorts(m) ==
    /\ step[m] = "release"
    /\ Goto(m, "over")
    /\ \/ allocated' = [allocated EXCEPT ![host[m]] = Remaining(host[m], held[m])]
       \/ Fault("db") /\ UNCHANGED allocated
    /\ UNCHANGED <<host, todo, held, avail, si, running, row, vm, reconcilers>>

(***************************************************************************)
(* Teardown, by whoever claimed the instance, and reaping.                 *)
(***************************************************************************)
\* The stop succeeds, or it fails until the force deadline is past.
StopContainer(m) ==
    /\ step[m] = "playing"
    /\ si[m] = "active"
    /\ Goto(m, "free")
    /\ \/ m \in running /\ running' = running \ {m}
       \/ (m \notin running \/ Fault("agent")) /\ UNCHANGED running
    /\ UNCHANGED <<host, todo, held, avail, si, hosts, reconcilers>>

FreePorts(m) ==
    /\ step[m] = "free"
    /\ Goto(m, "mark")
    /\ \/ allocated' = [allocated EXCEPT ![host[m]] = Remaining(host[m], held[m])]
       \/ Fault("db") /\ UNCHANGED allocated
    /\ UNCHANGED <<host, todo, held, avail, si, running, row, vm, reconcilers>>

SetInstanceDeleted(m) ==
    /\ step[m] = "mark"
    /\ Goto(m, "count")
    /\ \/ si' = [si EXCEPT ![m] = "deleted"]
       \/ Fault("db") /\ UNCHANGED si
    /\ UNCHANGED <<host, todo, held, avail, running, hosts, reconcilers>>

CountActiveInstances(m) ==
    /\ step[m] = "count"
    /\ \/ Active(host[m]) = {} /\ Goto(m, IF WarmSlots > 0 THEN "spare" ELSE "bury")
       \/ (Active(host[m]) # {} \/ Fault("db")) /\ Goto(m, "over")
    /\ UNCHANGED <<host, todo, held, avail, si, running, hosts, reconcilers>>

\* "available already includes this host's slots".
CanSpare == CountAvailableSlots >= WarmSlots + MaxSlots

CheckWarmPool(m) ==
    /\ step[m] = "spare"
    /\ \/ CanSpare /\ Goto(m, "bury")
       \/ (~CanSpare \/ Fault("db")) /\ Goto(m, "over")
    /\ UNCHANGED <<host, todo, held, avail, si, running, hosts, reconcilers>>

LeaveRow(m) ==
    /\ step[m] = "bury"
    /\ Goto(m, "destroy")
    /\ UNCHANGED <<host, todo, held, avail, si, running, hosts, reconcilers>>

SetMachineHostDeleted(m) ==
    /\ step[m] = "bury"
    /\ \/ Goto(m, "destroy") /\ row' = [row EXCEPT ![host[m]] = "deleted"]
       \/ Fault("db") /\ Goto(m, "over") /\ UNCHANGED row
    /\ UNCHANGED <<host, todo, held, avail, si, running, allocated, vm, reconcilers>>

VMDown(h) ==
    /\ vm' = [vm EXCEPT ![h] = "down"]
    /\ running' = {m \in running : host[m] # h}

DeleteHost(m) ==
    /\ step[m] = "destroy"
    /\ Goto(m, "over")
    /\ \/ VMDown(host[m])
       \/ Fault("host") /\ UNCHANGED <<vm, running>>
    /\ UNCHANGED <<host, todo, held, avail, si, row, allocated, reconcilers>>

(***************************************************************************)
(* The reconcilers: rows whose VM the provider no longer lists, then       *)
(* instances on deleted rows.                                              *)
(***************************************************************************)
\* The provider is asked first, the rows are read afterwards.
ListHosts ==
    /\ unlisted = {}
    /\ unlisted' = {h \in Host : vm[h] # "up"}
    /\ UNCHANGED <<actors, si, running, hosts, lost, seen, orphan>>

ReadReadyHosts ==
    /\ unlisted # {}
    /\ unlisted' = {}
    /\ lost' = [h \in Host |-> IF h \in unlisted \cap Ready THEN "free" ELSE lost[h]]
    /\ seen' = [h \in Host |-> IF h \in unlisted \cap Ready THEN allocated[h] ELSE seen[h]]
    /\ UNCHANGED <<actors, si, running, hosts, orphan>>

FreeLostPorts(h) ==
    /\ lost[h] = "free"
    /\ lost' = [lost EXCEPT ![h] = "bury"]
    /\ \/ allocated' = [allocated EXCEPT ![h] = Remaining(h, seen[h])]
       \/ Fault("db") /\ UNCHANGED allocated
    /\ UNCHANGED <<actors, si, running, row, vm, unlisted, seen, orphan>>

BuryLostHost(h) ==
    /\ lost[h] = "bury"
    /\ lost' = [lost EXCEPT ![h] = "no"]
    /\ seen' = [seen EXCEPT ![h] = {}]
    /\ \/ row' = [row EXCEPT ![h] = "deleted"]
       \/ Fault("db") /\ UNCHANGED row
    /\ UNCHANGED <<actors, si, running, allocated, vm, unlisted, orphan>>

ReconcileOrphan(m) ==
    /\ orphan[m] = "no"
    /\ si[m] = "active"
    /\ row[host[m]] = "deleted"
    /\ orphan' = [orphan EXCEPT ![m] = "free"]
    /\ UNCHANGED <<actors, si, running, hosts, unlisted, lost, seen>>

FreeOrphanPorts(m) ==
    /\ orphan[m] = "free"
    /\ orphan' = [orphan EXCEPT ![m] = "mark"]
    /\ \/ allocated' = [allocated EXCEPT ![host[m]] = Remaining(host[m], held[m])]
       \/ Fault("db") /\ UNCHANGED allocated
    /\ UNCHANGED <<actors, si, running, row, vm, unlisted, lost, seen>>

SetOrphanDeleted(m) ==
    /\ orphan[m] = "mark"
    /\ orphan' = [orphan EXCEPT ![m] = "no"]
    /\ \/ si' = [si EXCEPT ![m] = "deleted"]
       \/ Fault("db") /\ UNCHANGED si
    /\ UNCHANGED <<actors, running, hosts, unlisted, lost, seen>>

(***************************************************************************)
(* The surroundings.                                                       *)
(***************************************************************************)
GameExits(m) ==
    /\ m \in running
    /\ running' = running \ {m}
    /\ UNCHANGED <<actors, si, hosts, reconcilers>>

LoseVM(h) ==
    /\ Fault("host")
    /\ vm[h] = "up"
    /\ VMDown(h)
    /\ UNCHANGED <<actors, si, row, allocated, reconcilers>>

\* The machine running a stops.  A persisted instance is torn down by others.
Crash(a) ==
    /\ Fault("crash")
    /\ step[a] \notin {"idle", "playing", "over", "crashed"}
    /\ Goto(a, "crashed")
    /\ UNCHANGED <<host, todo, held, avail, si, running, hosts, reconcilers>>

Find(m) == ListReadyHosts(m) \/ FindAvailableHost(m)

Provide(a) == CheckCap(a) \/ CreateHost(a) \/ CreateMachineHost(a)

Launch(m) ==
    \/ Provide(m) \/ SetMachineHostReady(m)
    \/ AllocatePorts(m) \/ StartContainer(m) \/ PersistMatch(m)
    \/ UndoContainer(m) \/ ReleasePorts(m)

End(m) ==
    \/ StopContainer(m) \/ FreePorts(m) \/ SetInstanceDeleted(m)
    \/ CountActiveInstances(m) \/ CheckWarmPool(m)
    \/ SetMachineHostDeleted(m) \/ DeleteHost(m)

Warm(w) == BeginWarmPool(w) \/ Provide(w) \/ SetWarmHostReady(w)

ReconcileHosts ==
    \/ ListHosts \/ ReadReadyHosts
    \/ \E h \in Host : FreeLostPorts(h) \/ BuryLostHost(h)

ReconcileInstances(m) == ReconcileOrphan(m) \/ FreeOrphanPorts(m) \/ SetOrphanDeleted(m)

PoolNext ==
    \/ \E m \in Match :
          Find(m) \/ Launch(m) \/ End(m) \/ ReconcileInstances(m) \/ GameExits(m)
    \/ \E w \in Warmer : Warm(w)
    \/ ReconcileHosts
    \/ \E h \in Host : LoseVM(h)
    \/ \E a \in Actor : Crash(a)

PoolSpec == PoolInit /\ [][PoolNext]_poolVars

-----------------------------------------------------------------------------
\* Every variable has its type, and a match is given no port or all it needs.
PoolTypeOK ==
    /\ step \in [Actor -> Step]
    /\ host \in [Actor -> Host \cup {NoHost}]
    /\ todo \in [Match -> SUBSET Host]
    /\ held \in [Match -> {ports \in SUBSET Port : Cardinality(ports) \in {0, Need}}]
    /\ avail \in [Warmer -> Nat]
    /\ si \in [Match -> {"none", "active", "deleted"}]
    /\ running \subseteq Match
    /\ row \in [Host -> {"none", "provisioning", "ready", "deleted"}]
    /\ allocated \in [Host -> SUBSET Port]
    /\ vm \in [Host -> {"none", "up", "down"}]
    /\ unlisted \subseteq Host
    /\ lost \in [Host -> {"no", "free", "bury"}]
    /\ seen \in [Host -> SUBSET Port]
    /\ orphan \in [Match -> {"no", "free", "mark"}]

\* A host row nobody has given up on.
Sound(h) == row[h] \in {"provisioning", "ready"} /\ lost[h] = "no"

\* AllocatePorts "uses SELECT FOR UPDATE to prevent concurrent allocation
\* races": on a host that nobody gave up on, matches that hold ports hold
\* different ones, and theirs are all recorded, through failed starts,
\* teardowns, crashes and orphan reconciliation.
PortsExclusive ==
    \A h \in Host : Sound(h) /\ ~Fault("db") =>
        \A m \in Match : Holds(m, h) =>
            /\ held[m] \subseteq allocated[h]
            /\ \A n \in Match \ {m} : Holds(n, h) => held[n] \cap held[m] = {}

\* Every recorded port is some match's, or was in the hands of an activity that
\* crashed: failed starts and forced teardowns lose none to the pool.
NoPortLeak ==
    \A h \in Host : Sound(h) /\ ~Fault("db") =>
        allocated[h] \subseteq
            UNION {held[m] : m \in {n \in Match : Holds(n, h) \/ step[n] = "crashed"}}

\* A row that StartMatch can find has a VM behind it, unless the provider lost
\* it: the row is inserted after the VM is up and buried before it is destroyed.
RowsHaveVMs ==
    ~Fault("host") => \A h \in Host : row[h] \in {"provisioning", "ready"} => vm[h] = "up"

\* A container somebody answers for: its instance is counted, or its start is
\* still under way.  Starts whose machine crashed or whose reply was lost, and
\* forced teardowns, leave containers that no count sees.
AnsweredFor(m) == si[m] = "active" \/ step[m] \in LaunchSteps

\* "Up to HCLOUD_MAX_SLOTS_PER_HOST containers share one VM": FindAvailableHost
\* counts persisted instances, so each start beside the loop may take one slot
\* too many and no more, whatever fails.
SlotsRespected ==
    \A h \in Host :
        Cardinality({m \in running : host[m] = h /\ AnsweredFor(m)}) <= MaxSlots + Beside

\* "It provisions new VMs as needed, up to HCLOUDMaxHosts": the rows are counted
\* before the VM is made, so each call beside the loop may pass the cap by one
\* and no more, whatever fails.
HostsCapped == CountMachineHosts <= MaxHosts + Beside

\* "tryDeleteIdleHost deletes the host VM if it has no remaining active
\* instances".
ReapsIdleHosts ==
    [][\A m \in Match : DeleteHost(m) => Active(host[m]) = {}]_poolVars
=============================================================================
