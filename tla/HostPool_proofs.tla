---------------------------- MODULE HostPool_proofs ----------------------------
(***************************************************************************)
(* Proofs about the host pool, for any matches, passes, hosts, ports,      *)
(* limits and faults.                                                      *)
(*                                                                         *)
(* PoolBase says who has what in hand; what MCFifoPool and MCRatingPool    *)
(* check of ports, VMs, slots and hosts is inductive beside it.  The two   *)
(* caps rest on how many calls are under way: one of the loop, and Beside  *)
(* others.  That a match holds no port or Need of them rests on a count:   *)
(* those of a finite set of numbers with fewer than k below them are k.    *)
(***************************************************************************)
EXTENDS HostPool, DataLemmas, TLAPS

\* The types the proofs need.
PoolTypes ==
    /\ step \in [Actor -> Step]
    /\ host \in [Actor -> Host \cup {NoHost}]
    /\ todo \in [Match -> SUBSET Host]
    /\ held \in [Match -> SUBSET Port]
    /\ si \in [Match -> {"none", "active", "deleted"}]
    /\ running \subseteq Match
    /\ row \in [Host -> {"none", "provisioning", "ready", "deleted"}]
    /\ allocated \in [Host -> SUBSET Port]
    /\ vm \in [Host -> {"none", "up", "down"}]
    /\ unlisted \subseteq Host
    /\ lost \in [Host -> {"no", "free", "bury"}]
    /\ seen \in [Host -> SUBSET Port]
    /\ orphan \in [Match -> {"no", "free", "mark"}]

\* Who is making a host has it to himself, and its row is what he left it.
MakingSteps == {"insert", "setready"}
MakesAlone ==
    \A a \in Actor : step[a] \in MakingSteps =>
        /\ host[a] \in Host
        /\ \A b \in Actor : host[b] = host[a] => b = a
        /\ row[host[a]] = IF step[a] = "insert" THEN "none" ELSE "provisioning"
        /\ ~Fault("host") => vm[host[a]] = "up"

\* A host the provider has not created yet is unknown to everybody.
Unmade == \A h \in Host : vm[h] = "none" => row[h] = "none" /\ \A a \in Actor : host[a] # h

\* Before its row is ready a host has no ports taken and no match on it.
Fresh ==
    ~Fault("db") => \A h \in Host : row[h] \in {"none", "provisioning"} =>
        /\ allocated[h] = {}
        /\ \A m \in Match : host[m] = h => step[m] \in MakingSteps \cup {"crashed"}

\* Reconcilers attend to rows that were ready, and to instances of deleted ones.
Reconciled ==
    /\ \A h \in Host : lost[h] # "no" => row[h] \in {"ready", "deleted"}
    /\ \A m \in Match : orphan[m] # "no" => si[m] # "none" /\ row[host[m]] = "deleted"

\* A match that was placed has a host, and keeps it once it is persisted.
Placed ==
    \A m \in Match :
        /\ si[m] # "none" => step[m] \in EndSteps \cup {"over", "crashed"} /\ host[m] \in Host
        /\ step[m] \in {"alloc"} \cup LaunchSteps \cup EndSteps => host[m] \in Host
        /\ step[m] = "destroy" => row[host[m]] = "deleted"

\* The hosts a match has still to look at were ready once.
Listed == \A m \in Match : \A h \in todo[m] : row[h] \in {"ready", "deleted"}

\* At most one call of the loop is under way, and Beside others.
FewUnderWay ==
    /\ \A a, b \in UnderWay \cap Loop : a = b
    /\ IsFiniteSet(UnderWay \ Loop)
    /\ Cardinality(UnderWay \ Loop) <= Beside

\* What PortsExclusive and NoPortLeak say of one host.
Exclusive(h) ==
    \A m \in Match : Holds(m, h) =>
        /\ held[m] \subseteq allocated[h]
        /\ \A n \in Match \ {m} : Holds(n, h) => held[n] \cap held[m] = {}
Accounted(h) ==
    allocated[h] \subseteq
        UNION {held[m] : m \in {n \in Match : Holds(n, h) \/ step[n] = "crashed"}}

\* The rows that count against MaxHosts, and the calls about to add one.
CountedHosts == {h \in Host : row[h] \notin {"none", "deleted"}}
Makers == {a \in Actor : step[a] \in {"create", "insert"}}
RoomToMake ==
    /\ IsFiniteSet(CountedHosts) /\ IsFiniteSet(Makers)
    /\ Cardinality(CountedHosts) + Cardinality(Makers) <= MaxHosts + Beside

\* Who takes a slot of h, from the moment he is placed there.
Taking == {"insert", "setready", "alloc"} \cup LaunchSteps
Used(h) == {m \in Match : host[m] = h /\ (si[m] = "active" \/ step[m] \in Taking)}
SlotsHeld == \A h \in Host : IsFiniteSet(Used(h)) /\ Cardinality(Used(h)) <= MaxSlots + Beside

\* A step that adds no row, unless it is CreateMachineHost; that lets nobody
\* make a host unless CheckCap found room; and that places nobody on a host.
NoNewRow == CountedHosts' \subseteq CountedHosts \/ \E a \in Actor : CreateMachineHost(a)
CheckedFirst ==
    \A a \in Actor : step'[a] \in {"create", "insert"} =>
        step[a] \in {"create", "insert"} \/ (CheckCap(a) /\ ~AtCap)
NoSlotTaken ==
    \/ \A h \in Host : Used(h)' \subseteq Used(h)
    \/ \E m \in Match : Find(m) \/ CreateHost(m)

\* A step after which the same matches hold ports on h, and the same crashed.
SameHolders(h) ==
    \A n \in Match :
        (Holds(n, h)' <=> Holds(n, h)) /\ (step'[n] = "crashed" <=> step[n] = "crashed")

\* Who makes what, and on whose behalf: the part the counting and the ports rest on.
BaseRest == MakesAlone /\ Unmade /\ Fresh /\ Reconciled /\ Placed /\ Listed
PoolBase == PoolTypes /\ BaseRest

-----------------------------------------------------------------------------
\* What looking for a host does: it lists ready hosts, or takes one it listed
\* that has a slot, or gives up.
LEMMA Finding ==
    ASSUME PoolTypes, NEW m \in Match, Find(m)
    PROVE  /\ UNCHANGED <<held, avail, si, running, row, allocated, vm, unlisted, lost, seen, orphan>>
           /\ todo' \in [Match -> SUBSET Host]
           /\ \A n \in Match : \A h \in todo'[n] : h \in todo[n] \/ row[h] = "ready"
           /\ step[m] = "find" \/ (step[m] = "idle" /\ MayEnter(m))
           /\ \/ /\ \E s \in {"find", "full", "over"} : step' = [step EXCEPT ![m] = s]
                 /\ host' = host
              \/ /\ step[m] = "find" /\ step' = [step EXCEPT ![m] = "alloc"]
                 /\ \E h \in todo[m] : HasSlot(h) /\ host' = [host EXCEPT ![m] = h]
<1> USE DEF PoolTypes, Goto, Actor, hosts, reconcilers
<1>1. CASE ListReadyHosts(m)
  <2>1. /\ UNCHANGED <<held, avail, si, running, row, allocated, vm, unlisted, lost, seen, orphan, host>>
        /\ step[m] = "idle" /\ MayEnter(m)
        /\ \E s \in {"find", "over"} : step' = [step EXCEPT ![m] = s]
    BY <1>1 DEF ListReadyHosts
  <2>2. \/ UNCHANGED todo
        \/ \E t \in SUBSET Ready : todo' = [todo EXCEPT ![m] = t]
    BY <1>1 DEF ListReadyHosts
  <2>3. todo' \in [Match -> SUBSET Host] /\ \A n \in Match : todo'[n] \subseteq todo[n] \cup Ready
    BY <2>2 DEF Ready
  <2>. QED  BY <2>1, <2>3 DEF Ready
<1>2. CASE FindAvailableHost(m)
  <2>1. /\ UNCHANGED <<held, avail, si, running, row, allocated, vm, unlisted, lost, seen, orphan>>
        /\ step[m] = "find"
    BY <1>2 DEF FindAvailableHost
  <2>2. \/ /\ step' = [step EXCEPT ![m] = "alloc"]
           /\ \E h \in todo[m] : HasSlot(h) /\ host' = [host EXCEPT ![m] = h]
           /\ todo' = [todo EXCEPT ![m] = {}]
        \/ /\ UNCHANGED <<step, host>>
           /\ \E h \in todo[m] : todo' = [todo EXCEPT ![m] = @ \ {h}]
        \/ step' = [step EXCEPT ![m] = "full"] /\ UNCHANGED <<host, todo>>
    BY <1>2 DEF FindAvailableHost
  <2>3. UNCHANGED step => step' = [step EXCEPT ![m] = "find"]
    BY <2>1
  <2>4. todo' \in [Match -> SUBSET Host] /\ \A n \in Match : todo'[n] \subseteq todo[n]
    BY <2>2
  <2>5. \/ /\ \E s \in {"find", "full"} : step' = [step EXCEPT ![m] = s]
           /\ host' = host
        \/ /\ step' = [step EXCEPT ![m] = "alloc"]
           /\ \E h \in todo[m] : HasSlot(h) /\ host' = [host EXCEPT ![m] = h]
    <3>1. CASE UNCHANGED <<step, host>>
      BY <2>3, <3>1
    <3>2. CASE step' = [step EXCEPT ![m] = "full"] /\ UNCHANGED host
      BY <3>2
    <3>. QED  BY <2>2, <3>1, <3>2
  <2> HIDE DEF PoolTypes
  <2>. QED  BY <2>1, <2>4, <2>5
<1>. QED  BY <1>1, <1>2 DEF Find

\* Every step keeps the types.
LEMMA PoolTypesStep ==
    ASSUME PoolTypes, [PoolNext]_poolVars
    PROVE  PoolTypes'
<1> USE DEF PoolTypes, Goto, Actor, Step, ProvisionSteps, LaunchSteps, EndSteps, actors,
           hosts, reconcilers
<1>1. ASSUME NEW m \in Match, Find(m) PROVE PoolTypes'
  BY <1>1, Finding
<1>2. ASSUME NEW w \in Warmer, BeginWarmPool(w) PROVE PoolTypes'
  BY <1>2 DEF BeginWarmPool
<1>3. ASSUME NEW a \in Actor, CheckCap(a) PROVE PoolTypes'
  BY <1>3 DEF CheckCap, GiveUp
<1>4. ASSUME NEW a \in Actor, CreateHost(a) PROVE PoolTypes'
  BY <1>4 DEF CreateHost, GiveUp
<1>5. ASSUME NEW a \in Actor, CreateMachineHost(a) PROVE PoolTypes'
  BY <1>5 DEF CreateMachineHost, GiveUp
<1>6. ASSUME NEW m \in Match, SetMachineHostReady(m) PROVE PoolTypes'
  BY <1>6 DEF SetMachineHostReady
<1>7. ASSUME NEW w \in Warmer, SetWarmHostReady(w) PROVE PoolTypes'
  BY <1>7 DEF SetWarmHostReady
<1>8. ASSUME NEW m \in Match, AllocatePorts(m) PROVE PoolTypes'
  <2>1. LowestFree(host[m]) \subseteq Port
    BY DEF LowestFree
  <2>2. held' \in [Match -> SUBSET Port] /\ allocated' \in [Host -> SUBSET Port]
    <3> HIDE DEF LowestFree
    <3>1. CASE UNCHANGED <<held, allocated>>
      BY <3>1
    <3>2. CASE /\ held' = [held EXCEPT ![m] = LowestFree(host[m])]
               /\ allocated' = [allocated EXCEPT ![host[m]] = @ \cup LowestFree(host[m])]
      BY <2>1, <3>2
    <3> QED
      BY <1>8, <3>1, <3>2 DEF AllocatePorts
  <2>3. step' \in [Actor -> Step]
    BY <1>8 DEF AllocatePorts
  <2> QED
    BY <1>8, <2>2, <2>3 DEF AllocatePorts
<1>9. ASSUME NEW m \in Match, StartContainer(m) PROVE PoolTypes'
  BY <1>9 DEF StartContainer
<1>10. ASSUME NEW m \in Match, PersistMatch(m) PROVE PoolTypes'
  BY <1>10 DEF PersistMatch
<1>11. ASSUME NEW m \in Match, UndoContainer(m) PROVE PoolTypes'
  BY <1>11 DEF UndoContainer
<1>12. ASSUME NEW m \in Match, ReleasePorts(m) PROVE PoolTypes'
  BY <1>12 DEF ReleasePorts, Remaining
<1>13. ASSUME NEW m \in Match, StopContainer(m) PROVE PoolTypes'
  BY <1>13 DEF StopContainer
<1>14. ASSUME NEW m \in Match, FreePorts(m) PROVE PoolTypes'
  BY <1>14 DEF FreePorts, Remaining
<1>15. ASSUME NEW m \in Match, SetInstanceDeleted(m) PROVE PoolTypes'
  BY <1>15 DEF SetInstanceDeleted
<1>16. ASSUME NEW m \in Match, CountActiveInstances(m) PROVE PoolTypes'
  BY <1>16 DEF CountActiveInstances
<1>17. ASSUME NEW m \in Match, CheckWarmPool(m) PROVE PoolTypes'
  BY <1>17 DEF CheckWarmPool
<1>18. ASSUME NEW m \in Match, SetMachineHostDeleted(m) PROVE PoolTypes'
  BY <1>18 DEF SetMachineHostDeleted
<1>19. ASSUME NEW m \in Match, DeleteHost(m) PROVE PoolTypes'
  BY <1>19 DEF DeleteHost, VMDown
<1>20. ASSUME ListHosts PROVE PoolTypes'
  BY <1>20 DEF ListHosts
<1>21. ASSUME ReadReadyHosts PROVE PoolTypes'
  BY <1>21 DEF ReadReadyHosts, Ready
<1>22. ASSUME NEW h \in Host, FreeLostPorts(h) PROVE PoolTypes'
  BY <1>22 DEF FreeLostPorts, Remaining
<1>23. ASSUME NEW h \in Host, BuryLostHost(h) PROVE PoolTypes'
  BY <1>23 DEF BuryLostHost
<1>24. ASSUME NEW m \in Match, ReconcileOrphan(m) PROVE PoolTypes'
  BY <1>24 DEF ReconcileOrphan
<1>25. ASSUME NEW m \in Match, FreeOrphanPorts(m) PROVE PoolTypes'
  BY <1>25 DEF FreeOrphanPorts, Remaining
<1>26. ASSUME NEW m \in Match, SetOrphanDeleted(m) PROVE PoolTypes'
  BY <1>26 DEF SetOrphanDeleted
<1>27. ASSUME NEW m \in Match, GameExits(m) PROVE PoolTypes'
  BY <1>27 DEF GameExits
<1>28. ASSUME NEW h \in Host, LoseVM(h) PROVE PoolTypes'
  BY <1>28 DEF LoseVM, VMDown
<1>29. ASSUME NEW a \in Actor, Crash(a) PROVE PoolTypes'
  BY <1>29 DEF Crash
<1>30. CASE UNCHANGED poolVars
  BY <1>30 DEF poolVars
<1> HIDE DEF PoolTypes, Goto, Actor, Step, ProvisionSteps, LaunchSteps, EndSteps, actors,
           hosts, reconcilers
<1> QED
  BY <1>1, <1>2, <1>3, <1>4, <1>5, <1>6, <1>7, <1>8, <1>9, <1>10, <1>11, <1>12, <1>13,
     <1>14, <1>15, <1>16, <1>17, <1>18, <1>19, <1>20, <1>21, <1>22, <1>23, <1>24, <1>25,
     <1>26, <1>27, <1>28, <1>29, <1>30
     DEF PoolNext, Launch, End, Warm, Provide, ReconcileHosts, ReconcileInstances, Actor

\* Every step keeps who makes what: MakesAlone, Unmade, Fresh, Reconciled, Placed.
LEMMA BaseStep ==
    ASSUME PoolBase, PoolTypes', [PoolNext]_poolVars
    PROVE  BaseRest'
<1> USE DEF PoolBase, BaseRest, PoolTypes, MakesAlone, MakingSteps, Unmade, Fresh,
           Reconciled, Placed, Listed, Goto, Actor, Step, ProvisionSteps, LaunchSteps, EndSteps,
           actors, hosts, reconcilers
<1>1. ASSUME NEW m \in Match, Find(m) PROVE BaseRest'
  <2>1. /\ UNCHANGED <<si, running, row, allocated, vm, lost, orphan>>
        /\ step[m] \in {"idle", "find"}
        /\ \A n \in Match : \A h \in todo'[n] : h \in todo[n] \/ row[h] = "ready"
        /\ \/ \E s \in {"find", "full", "over"} : host' = host /\ step' = [step EXCEPT ![m] = s]
           \/ \E h \in todo[m] : /\ host' = [host EXCEPT ![m] = h]
                                 /\ step' = [step EXCEPT ![m] = "alloc"]
    <3> HIDE DEF BaseRest, MakesAlone, MakingSteps, Unmade, Fresh, Reconciled, Placed, Listed
    <3> QED
      BY <1>1, Finding
  <2>2. Listed'
    BY <2>1
  <2>3. ASSUME NEW s \in {"find", "full", "over"}, host' = host, step' = [step EXCEPT ![m] = s]
        PROVE  BaseRest'
    BY <2>1, <2>2, <2>3
  <2>4. ASSUME NEW h \in todo[m],
               host' = [host EXCEPT ![m] = h], step' = [step EXCEPT ![m] = "alloc"]
        PROVE  BaseRest'
    <3>0. h \in Host /\ row[h] \in {"ready", "deleted"} /\ vm[h] # "none"
      OBVIOUS
    <3>1. MakesAlone'
      BY <2>1, <2>4, <3>0
    <3>2. Unmade' /\ Fresh'
      BY <2>1, <2>4, <3>0
    <3>3. Reconciled' /\ Placed'
      BY <2>1, <2>4, <3>0
    <3> QED
      BY <2>2, <3>1, <3>2, <3>3
  <2> QED
    BY <2>1, <2>3, <2>4
<1>2. ASSUME NEW w \in Warmer, BeginWarmPool(w) PROVE BaseRest'
  BY <1>2 DEF BeginWarmPool
<1>3. ASSUME NEW a \in Actor, CheckCap(a) PROVE BaseRest'
  BY <1>3 DEF CheckCap, GiveUp
<1>4. ASSUME NEW a \in Actor, CreateHost(a) PROVE BaseRest'
  BY <1>4 DEF CreateHost, GiveUp
<1>5. ASSUME NEW a \in Actor, CreateMachineHost(a) PROVE BaseRest'
  <2>1. step[a] = "insert" /\ UNCHANGED <<si, running, allocated, lost, orphan, todo>>
    BY <1>5 DEF CreateMachineHost
  <2>2. CASE /\ step' = [step EXCEPT ![a] = "setready"]
             /\ row' = [row EXCEPT ![host[a]] = "provisioning"]
             /\ UNCHANGED <<host, vm>>
    <3>1. MakesAlone'
      BY <2>1, <2>2
    <3>2. Unmade' /\ Fresh'
      BY <2>1, <2>2
    <3>3. Reconciled' /\ Placed' /\ Listed'
      BY <2>1, <2>2
    <3> QED
      BY <3>1, <3>2, <3>3
  <2>3. ASSUME Fault("db"), UNCHANGED row,
               step' = [step EXCEPT ![a] = GiveUp(a)],
               host' = [host EXCEPT ![a] = NoHost],
               vm' = [vm EXCEPT ![host[a]] = "down"] \/ (Fault("host") /\ UNCHANGED vm)
        PROVE  BaseRest'
    <3>0. GiveUp(a) \in {"over", "idle"} /\ (a \in Match => GiveUp(a) = "over")
      BY DEF GiveUp
    <3>1. MakesAlone'
      BY <2>1, <2>3, <3>0, PoolAssumption
    <3>2. Unmade' /\ Fresh'
      BY <2>1, <2>3, <3>0, PoolAssumption
    <3>3. Reconciled' /\ Placed' /\ Listed'
      BY <2>1, <2>3, <3>0, PoolAssumption
    <3> QED
      BY <3>1, <3>2, <3>3
  <2>4. \/ /\ step' = [step EXCEPT ![a] = "setready"]
           /\ row' = [row EXCEPT ![host[a]] = "provisioning"]
           /\ UNCHANGED <<host, vm>>
        \/ /\ Fault("db") /\ UNCHANGED row
           /\ step' = [step EXCEPT ![a] = GiveUp(a)]
           /\ host' = [host EXCEPT ![a] = NoHost]
           /\ vm' = [vm EXCEPT ![host[a]] = "down"] \/ (Fault("host") /\ UNCHANGED vm)
    <3> HIDE DEF PoolBase, BaseRest, MakesAlone, MakingSteps, Unmade, Fresh, Reconciled, Placed, Listed
    <3> QED
      BY <1>5 DEF CreateMachineHost
  <2> QED
    BY <2>2, <2>3, <2>4
<1>6. ASSUME NEW m \in Match, SetMachineHostReady(m) PROVE BaseRest'
  BY <1>6 DEF SetMachineHostReady
<1>7. ASSUME NEW w \in Warmer, SetWarmHostReady(w) PROVE BaseRest'
  <2>1. /\ step[w] = "setready" /\ host' = [host EXCEPT ![w] = NoHost]
        /\ \E s \in {"full", "idle"} : step' = [step EXCEPT ![w] = s]
        /\ row' = [row EXCEPT ![host[w]] = "ready"] \/ (Fault("db") /\ UNCHANGED row)
        /\ UNCHANGED <<si, running, allocated, vm, lost, orphan, todo>>
    <3> HIDE DEF PoolBase, BaseRest, MakesAlone, MakingSteps, Unmade, Fresh, Reconciled, Placed, Listed
    <3> QED
      BY <1>7 DEF SetWarmHostReady
  <2>2. MakesAlone'
    BY <2>1, PoolAssumption
  <2>3. Unmade' /\ Fresh'
    BY <2>1, PoolAssumption
  <2>4. Reconciled' /\ Placed' /\ Listed'
    BY <2>1, PoolAssumption
  <2> QED
    BY <2>2, <2>3, <2>4
<1>8. ASSUME NEW m \in Match, AllocatePorts(m) PROVE BaseRest'
  BY <1>8 DEF AllocatePorts, LowestFree
<1>9. ASSUME NEW m \in Match, StartContainer(m) PROVE BaseRest'
  BY <1>9 DEF StartContainer
<1>10. ASSUME NEW m \in Match, PersistMatch(m) PROVE BaseRest'
  BY <1>10 DEF PersistMatch
<1>11. ASSUME NEW m \in Match, UndoContainer(m) PROVE BaseRest'
  BY <1>11 DEF UndoContainer
<1>12. ASSUME NEW m \in Match, ReleasePorts(m) PROVE BaseRest'
  BY <1>12 DEF ReleasePorts, Remaining
<1>13. ASSUME NEW m \in Match, StopContainer(m) PROVE BaseRest'
  BY <1>13 DEF StopContainer
<1>14. ASSUME NEW m \in Match, FreePorts(m) PROVE BaseRest'
  BY <1>14 DEF FreePorts, Remaining
<1>15. ASSUME NEW m \in Match, SetInstanceDeleted(m) PROVE BaseRest'
  BY <1>15 DEF SetInstanceDeleted
<1>16. ASSUME NEW m \in Match, CountActiveInstances(m) PROVE BaseRest'
  BY <1>16 DEF CountActiveInstances
<1>17. ASSUME NEW m \in Match, CheckWarmPool(m) PROVE BaseRest'
  BY <1>17 DEF CheckWarmPool
<1>18. ASSUME NEW m \in Match, SetMachineHostDeleted(m) PROVE BaseRest'
  BY <1>18 DEF SetMachineHostDeleted
<1>19. ASSUME NEW m \in Match, DeleteHost(m) PROVE BaseRest'
  BY <1>19 DEF DeleteHost, VMDown
<1>20. ASSUME ListHosts PROVE BaseRest'
  BY <1>20 DEF ListHosts
<1>21. ASSUME ReadReadyHosts PROVE BaseRest'
  BY <1>21 DEF ReadReadyHosts, Ready
<1>22. ASSUME NEW h \in Host, FreeLostPorts(h) PROVE BaseRest'
  BY <1>22 DEF FreeLostPorts, Remaining
<1>23. ASSUME NEW h \in Host, BuryLostHost(h) PROVE BaseRest'
  BY <1>23 DEF BuryLostHost
<1>24. ASSUME NEW m \in Match, ReconcileOrphan(m) PROVE BaseRest'
  BY <1>24 DEF ReconcileOrphan
<1>25. ASSUME NEW m \in Match, FreeOrphanPorts(m) PROVE BaseRest'
  BY <1>25 DEF FreeOrphanPorts, Remaining
<1>26. ASSUME NEW m \in Match, SetOrphanDeleted(m) PROVE BaseRest'
  BY <1>26 DEF SetOrphanDeleted
<1>27. ASSUME NEW m \in Match, GameExits(m) PROVE BaseRest'
  BY <1>27 DEF GameExits
<1>28. ASSUME NEW h \in Host, LoseVM(h) PROVE BaseRest'
  BY <1>28 DEF LoseVM, VMDown
<1>29. ASSUME NEW a \in Actor, Crash(a) PROVE BaseRest'
  BY <1>29 DEF Crash
<1>30. CASE UNCHANGED poolVars
  BY <1>30 DEF poolVars
<1> HIDE DEF PoolBase, BaseRest, PoolTypes, MakesAlone, MakingSteps, Unmade, Fresh,
           Reconciled, Placed, Listed, Goto, Actor, Step, ProvisionSteps, LaunchSteps, EndSteps,
           actors, hosts, reconcilers
<1> QED
  BY <1>1, <1>2, <1>3, <1>4, <1>5, <1>6, <1>7, <1>8, <1>9, <1>10, <1>11, <1>12, <1>13,
     <1>14, <1>15, <1>16, <1>17, <1>18, <1>19, <1>20, <1>21, <1>22, <1>23, <1>24, <1>25,
     <1>26, <1>27, <1>28, <1>29, <1>30
     DEF PoolNext, Launch, End, Warm, Provide, ReconcileHosts, ReconcileInstances, Actor

\* Every step leaves a VM behind each row: CreateHost comes before the row,
\* DeleteHost after it.
LEMMA RowsHaveVMsStep ==
    ASSUME PoolBase, RowsHaveVMs, [PoolNext]_poolVars
    PROVE  RowsHaveVMs'
<1> USE DEF PoolBase, BaseRest, PoolTypes, MakesAlone, MakingSteps, Unmade, Fresh,
           Reconciled, Placed, Listed, Goto, Actor, LaunchSteps, EndSteps, actors, hosts,
           reconcilers, RowsHaveVMs
<1>1. ASSUME NEW a \in Actor, CreateHost(a) PROVE RowsHaveVMs'
  BY <1>1 DEF CreateHost, GiveUp
<1>2. ASSUME NEW a \in Actor, CreateMachineHost(a) PROVE RowsHaveVMs'
  BY <1>2 DEF CreateMachineHost, GiveUp
<1>3. ASSUME NEW m \in Match, SetMachineHostReady(m) PROVE RowsHaveVMs'
  BY <1>3 DEF SetMachineHostReady
<1>4. ASSUME NEW w \in Warmer, SetWarmHostReady(w) PROVE RowsHaveVMs'
  BY <1>4 DEF SetWarmHostReady
<1>5. ASSUME NEW m \in Match, SetMachineHostDeleted(m) PROVE RowsHaveVMs'
  BY <1>5 DEF SetMachineHostDeleted
<1>6. ASSUME NEW m \in Match, DeleteHost(m) PROVE RowsHaveVMs'
  BY <1>6 DEF DeleteHost, VMDown
<1>7. ASSUME NEW h \in Host, BuryLostHost(h) PROVE RowsHaveVMs'
  BY <1>7 DEF BuryLostHost
<1>8. ASSUME NEW h \in Host, LoseVM(h) PROVE RowsHaveVMs'
  BY <1>8 DEF LoseVM, VMDown
<1>9. ASSUME NEW m \in Match, Find(m) \/ AllocatePorts(m) \/ StartContainer(m)
               \/ PersistMatch(m)
      PROVE  RowsHaveVMs'
  BY <1>9, Finding DEF AllocatePorts, LowestFree, StartContainer, PersistMatch
<1>10. ASSUME NEW m \in Match, UndoContainer(m) \/ ReleasePorts(m) \/ StopContainer(m) \/
               FreePorts(m)
      PROVE  RowsHaveVMs'
  BY <1>10 DEF UndoContainer, ReleasePorts, Remaining, StopContainer, FreePorts
<1>11. ASSUME NEW m \in Match, SetInstanceDeleted(m) \/ CountActiveInstances(m) \/
               CheckWarmPool(m) \/ ReconcileOrphan(m)
      PROVE  RowsHaveVMs'
  BY <1>11 DEF SetInstanceDeleted, CountActiveInstances, CheckWarmPool, ReconcileOrphan
<1>12. ASSUME NEW m \in Match, FreeOrphanPorts(m) \/ SetOrphanDeleted(m) \/ GameExits(m)
      PROVE  RowsHaveVMs'
  BY <1>12 DEF FreeOrphanPorts, Remaining, SetOrphanDeleted, GameExits
<1>13. ASSUME NEW w \in Warmer, BeginWarmPool(w) PROVE RowsHaveVMs'
  BY <1>13 DEF BeginWarmPool
<1>14. ASSUME NEW a \in Actor, CheckCap(a) \/ Crash(a) PROVE RowsHaveVMs'
  BY <1>14 DEF CheckCap, GiveUp, Crash
<1>15. ASSUME ListHosts \/ ReadReadyHosts PROVE RowsHaveVMs'
  BY <1>15 DEF ListHosts, ReadReadyHosts, Ready
<1>16. ASSUME NEW h \in Host, FreeLostPorts(h) PROVE RowsHaveVMs'
  BY <1>16 DEF FreeLostPorts, Remaining
<1>17. CASE UNCHANGED poolVars
  BY <1>17 DEF poolVars
<1> HIDE DEF PoolBase, BaseRest, PoolTypes, MakesAlone, MakingSteps, Unmade, Fresh,
           Reconciled, Placed, Listed, Goto, Actor, LaunchSteps, EndSteps, actors, hosts,
           reconcilers, RowsHaveVMs
<1> QED
  BY <1>1, <1>2, <1>3, <1>4, <1>5, <1>6, <1>7, <1>8, <1>9, <1>10, <1>11, <1>12, <1>13,
     <1>14, <1>15, <1>16, <1>17
     DEF PoolNext, Launch, End, Warm, Provide, ReconcileHosts, ReconcileInstances, Actor

\* A step that changes neither ports nor who holds them.
LEMMA PortsUnmoved ==
    ASSUME PoolBase, ~Fault("db"), NEW h \in Host,
           Sound(h) \/ row[h] \in {"none", "provisioning"},
           UNCHANGED <<held, allocated>>,
           SameHolders(h)
    PROVE  /\ PortsExclusive => Exclusive(h)'
           /\ NoPortLeak => Accounted(h)'
<1>1. CASE Sound(h)
  BY <1>1 DEF SameHolders, PortsExclusive, NoPortLeak, Exclusive, Accounted
<1>2. CASE row[h] \in {"none", "provisioning"}
  <2>1. allocated[h] = {} /\ \A n \in Match : ~Holds(n, h)
    BY <1>2 DEF PoolBase, BaseRest, Fresh, Holds, MakingSteps, LaunchSteps
  <2> QED
    BY <2>1 DEF SameHolders, Exclusive, Accounted
<1> QED
  BY <1>1, <1>2

\* Every step keeps the ports of matches apart: AllocatePorts takes free ones only,
\* and what is given back is nobody else's.
LEMMA PortsExclusiveStep ==
    ASSUME PoolBase, PortsExclusive, [PoolNext]_poolVars
    PROVE  PortsExclusive'
<1> USE DEF PoolBase, BaseRest, PoolTypes, Fresh, Reconciled, Goto, Actor, LaunchSteps,
           actors, hosts, reconcilers, Holds, Sound, Remaining, PortsExclusive
<1>1. ASSUME NEW m \in Match, Find(m) PROVE PortsExclusive'
  <2> SUFFICES ASSUME ~Fault("db"), NEW h \in Host, Sound(h)'
               PROVE  Exclusive(h)'
    BY DEF PortsExclusive, Exclusive
  <2>1. UNCHANGED <<held, allocated, lost, row>> /\ step[m] \in {"idle", "find"}
    BY <1>1, Finding
  <2>2. \E s \in {"find", "alloc", "full", "over"} : step' = [step EXCEPT ![m] = s]
    BY <1>1, Finding
  <2>3. \A n \in Match \ {m} : host'[n] = host[n]
    BY <1>1, Finding
  <2>4. SameHolders(h)
    BY <2>1, <2>2, <2>3 DEF SameHolders
  <2> QED
    BY <2>1, <2>4, PortsUnmoved
<1>2. ASSUME NEW a \in Actor, CreateHost(a) PROVE PortsExclusive'
  BY <1>2 DEF CreateHost, GiveUp
<1>3. ASSUME NEW a \in Actor, CreateMachineHost(a) PROVE PortsExclusive'
  <2> SUFFICES ASSUME ~Fault("db"), NEW h \in Host, Sound(h)'
               PROVE  Exclusive(h)'
    BY DEF PortsExclusive, Exclusive
  <2>1. UNCHANGED <<held, allocated, lost>>
    BY <1>3 DEF CreateMachineHost, GiveUp
  <2>2. SameHolders(h)
    BY <1>3, PoolAssumption DEF SameHolders, CreateMachineHost, GiveUp
  <2>3. row'[h] = row[h] \/ h = host[a]
    BY <1>3 DEF CreateMachineHost, GiveUp
  <2>4. row[host[a]] \in {"none", "provisioning"}
    BY <1>3 DEF CreateMachineHost, GiveUp, MakesAlone, MakingSteps
  <2>5. Sound(h) \/ row[h] \in {"none", "provisioning"}
    BY <2>1, <2>3, <2>4
  <2> QED
    BY <2>1, <2>2, <2>5, PortsUnmoved
<1>4. ASSUME NEW m \in Match, SetMachineHostReady(m) PROVE PortsExclusive'
  <2> SUFFICES ASSUME ~Fault("db"), NEW h \in Host, Sound(h)'
               PROVE  Exclusive(h)'
    BY DEF PortsExclusive, Exclusive
  <2>1. UNCHANGED <<held, allocated, lost>>
    BY <1>4 DEF SetMachineHostReady
  <2>2. SameHolders(h)
    BY <1>4, PoolAssumption DEF SameHolders, SetMachineHostReady
  <2>3. row'[h] = row[h] \/ h = host[m]
    BY <1>4 DEF SetMachineHostReady
  <2>4. row[host[m]] \in {"none", "provisioning"}
    BY <1>4 DEF SetMachineHostReady, MakesAlone, MakingSteps
  <2>5. Sound(h) \/ row[h] \in {"none", "provisioning"}
    BY <2>1, <2>3, <2>4
  <2> QED
    BY <2>1, <2>2, <2>5, PortsUnmoved
<1>5. ASSUME NEW w \in Warmer, SetWarmHostReady(w) PROVE PortsExclusive'
  <2> SUFFICES ASSUME ~Fault("db"), NEW h \in Host, Sound(h)'
               PROVE  Exclusive(h)'
    BY DEF PortsExclusive, Exclusive
  <2>1. UNCHANGED <<held, allocated, lost>>
    BY <1>5 DEF SetWarmHostReady
  <2>2. SameHolders(h)
    BY <1>5, PoolAssumption DEF SameHolders, SetWarmHostReady
  <2>3. row'[h] = row[h] \/ h = host[w]
    BY <1>5 DEF SetWarmHostReady
  <2>4. row[host[w]] \in {"none", "provisioning"}
    BY <1>5 DEF SetWarmHostReady, MakesAlone, MakingSteps
  <2>5. Sound(h) \/ row[h] \in {"none", "provisioning"}
    BY <2>1, <2>3, <2>4
  <2> QED
    BY <2>1, <2>2, <2>5, PortsUnmoved
<1>6. ASSUME NEW m \in Match, AllocatePorts(m) PROVE PortsExclusive'
  <2> SUFFICES ASSUME ~Fault("db"), NEW h \in Host, Sound(h)'
               PROVE  Exclusive(h)'
    BY DEF PortsExclusive, Exclusive
  <2>0. step[m] = "alloc" /\ UNCHANGED <<host, row, lost>>
    BY <1>6 DEF AllocatePorts
  <2>1. /\ step[m] = "alloc" /\ UNCHANGED <<host, row, lost>>
        /\ host[m] \in Host /\ Sound(h)
    BY <2>0 DEF Placed
  <2>2. CASE step' = [step EXCEPT ![m] = "over"] /\ UNCHANGED <<held, allocated>>
    <3>1. SameHolders(h)
      BY <2>1, <2>2 DEF SameHolders
    <3> QED
      BY <2>1, <2>2, <3>1, PortsUnmoved
  <2>3. ASSUME NEW ports \in SUBSET (Port \ allocated[host[m]]),
               step' = [step EXCEPT ![m] = "launch"],
               held' = [held EXCEPT ![m] = ports],
               allocated' = [allocated EXCEPT ![host[m]] = @ \cup ports]
        PROVE  Exclusive(h)'
    <3>1. Exclusive(h)
      BY <2>1 DEF PortsExclusive, Exclusive
    <3>2. \A n \in Match \ {m} : /\ Holds(n, h)' <=> Holds(n, h)
                                 /\ step[n]' = "crashed" <=> step[n] = "crashed"
                                 /\ held'[n] = held[n]
      BY <2>1, <2>3
    <3>3. ~Holds(m, h) /\ step[m] # "crashed" /\ held'[m] = ports
      BY <2>1, <2>3
    <3>4. CASE h = host[m]
      <4>1. Holds(m, h)' /\ allocated'[h] = allocated[h] \cup ports
        BY <2>1, <2>3, <3>4
      <4> QED
        BY <3>1, <3>2, <3>3, <3>4, <4>1 DEF Exclusive
    <3>5. CASE h # host[m]
      <4>1. ~Holds(m, h)' /\ step'[m] # "crashed" /\ allocated'[h] = allocated[h]
        BY <2>1, <2>3, <3>5
      <4> QED
        BY <3>1, <3>2, <3>3, <4>1 DEF Exclusive
    <3> QED
      BY <3>4, <3>5
  <2>4. LowestFree(host[m]) \in SUBSET (Port \ allocated[host[m]])
    BY DEF LowestFree
  <2> QED
    BY <1>6, <2>2, <2>3, <2>4 DEF AllocatePorts
<1>7. ASSUME NEW m \in Match, ReleasePorts(m) PROVE PortsExclusive'
  BY <1>7 DEF ReleasePorts, Remaining
<1>8. ASSUME NEW m \in Match, FreePorts(m) PROVE PortsExclusive'
  BY <1>8 DEF FreePorts, Remaining
<1>9. ASSUME NEW m \in Match, SetMachineHostDeleted(m) PROVE PortsExclusive'
  BY <1>9 DEF SetMachineHostDeleted
<1>10. ASSUME ReadReadyHosts PROVE PortsExclusive'
  BY <1>10 DEF ReadReadyHosts, Ready
<1>11. ASSUME NEW h \in Host, FreeLostPorts(h) PROVE PortsExclusive'
  BY <1>11 DEF FreeLostPorts, Remaining
<1>12. ASSUME NEW h \in Host, BuryLostHost(h) PROVE PortsExclusive'
  BY <1>12 DEF BuryLostHost
<1>13. ASSUME NEW m \in Match, FreeOrphanPorts(m) PROVE PortsExclusive'
  BY <1>13 DEF FreeOrphanPorts, Remaining
<1>14. ASSUME NEW w \in Warmer, BeginWarmPool(w) PROVE PortsExclusive'
  BY <1>14 DEF BeginWarmPool
<1>15. ASSUME NEW a \in Actor, CheckCap(a) \/ Crash(a) PROVE PortsExclusive'
  BY <1>15 DEF CheckCap, GiveUp, Crash
<1>16. ASSUME NEW m \in Match, StartContainer(m) \/ PersistMatch(m) \/ UndoContainer(m) \/
               StopContainer(m)
      PROVE  PortsExclusive'
  BY <1>16 DEF StartContainer, PersistMatch, UndoContainer, StopContainer
<1>17. ASSUME NEW m \in Match, SetInstanceDeleted(m) \/ CountActiveInstances(m) \/
               CheckWarmPool(m) \/ DeleteHost(m)
      PROVE  PortsExclusive'
  BY <1>17 DEF SetInstanceDeleted, CountActiveInstances, CheckWarmPool, DeleteHost, VMDown
<1>18. ASSUME NEW m \in Match, ReconcileOrphan(m) \/ SetOrphanDeleted(m) \/ GameExits(m)
      PROVE  PortsExclusive'
  BY <1>18 DEF ReconcileOrphan, SetOrphanDeleted, GameExits
<1>19. ASSUME ListHosts PROVE PortsExclusive'
  BY <1>19 DEF ListHosts
<1>20. ASSUME NEW h \in Host, LoseVM(h) PROVE PortsExclusive'
  BY <1>20 DEF LoseVM, VMDown
<1>21. CASE UNCHANGED poolVars
  BY <1>21 DEF poolVars
<1> HIDE DEF PoolBase, BaseRest, PoolTypes, Fresh, Reconciled, Goto, Actor, LaunchSteps,
           actors, hosts, reconcilers, Holds, Sound, Remaining, PortsExclusive
<1> QED
  BY <1>1, <1>2, <1>3, <1>4, <1>5, <1>6, <1>7, <1>8, <1>9, <1>10, <1>11, <1>12, <1>13,
     <1>14, <1>15, <1>16, <1>17, <1>18, <1>19, <1>20, <1>21
     DEF PoolNext, Launch, End, Warm, Provide, ReconcileHosts, ReconcileInstances, Actor

\* Every step keeps the ports accounted for: who stops holding some gives them
\* back, or crashed.
LEMMA NoPortLeakStep ==
    ASSUME PoolBase, NoPortLeak, [PoolNext]_poolVars
    PROVE  NoPortLeak'
<1> USE DEF PoolBase, BaseRest, PoolTypes, Fresh, Reconciled, Goto, Actor, LaunchSteps,
           actors, hosts, reconcilers, Holds, Sound, Remaining, NoPortLeak
<1>1. ASSUME NEW m \in Match, Find(m) PROVE NoPortLeak'
  <2> SUFFICES ASSUME ~Fault("db"), NEW h \in Host, Sound(h)'
               PROVE  Accounted(h)'
    BY DEF NoPortLeak, Accounted
  <2>1. UNCHANGED <<held, allocated, lost, row>> /\ step[m] \in {"idle", "find"}
    BY <1>1, Finding
  <2>2. \E s \in {"find", "alloc", "full", "over"} : step' = [step EXCEPT ![m] = s]
    BY <1>1, Finding
  <2>3. \A n \in Match \ {m} : host'[n] = host[n]
    BY <1>1, Finding
  <2>4. SameHolders(h)
    BY <2>1, <2>2, <2>3 DEF SameHolders
  <2> QED
    BY <2>1, <2>4, PortsUnmoved
<1>2. ASSUME NEW a \in Actor, CreateHost(a) PROVE NoPortLeak'
  BY <1>2 DEF CreateHost, GiveUp
<1>3. ASSUME NEW a \in Actor, CreateMachineHost(a) PROVE NoPortLeak'
  <2> SUFFICES ASSUME ~Fault("db"), NEW h \in Host, Sound(h)'
               PROVE  Accounted(h)'
    BY DEF NoPortLeak, Accounted
  <2>1. UNCHANGED <<held, allocated, lost>>
    BY <1>3 DEF CreateMachineHost, GiveUp
  <2>2. SameHolders(h)
    BY <1>3, PoolAssumption DEF SameHolders, CreateMachineHost, GiveUp
  <2>3. row'[h] = row[h] \/ h = host[a]
    BY <1>3 DEF CreateMachineHost, GiveUp
  <2>4. row[host[a]] \in {"none", "provisioning"}
    BY <1>3 DEF CreateMachineHost, GiveUp, MakesAlone, MakingSteps
  <2>5. Sound(h) \/ row[h] \in {"none", "provisioning"}
    BY <2>1, <2>3, <2>4
  <2> QED
    BY <2>1, <2>2, <2>5, PortsUnmoved
<1>4. ASSUME NEW m \in Match, SetMachineHostReady(m) PROVE NoPortLeak'
  <2> SUFFICES ASSUME ~Fault("db"), NEW h \in Host, Sound(h)'
               PROVE  Accounted(h)'
    BY DEF NoPortLeak, Accounted
  <2>1. UNCHANGED <<held, allocated, lost>>
    BY <1>4 DEF SetMachineHostReady
  <2>2. SameHolders(h)
    BY <1>4, PoolAssumption DEF SameHolders, SetMachineHostReady
  <2>3. row'[h] = row[h] \/ h = host[m]
    BY <1>4 DEF SetMachineHostReady
  <2>4. row[host[m]] \in {"none", "provisioning"}
    BY <1>4 DEF SetMachineHostReady, MakesAlone, MakingSteps
  <2>5. Sound(h) \/ row[h] \in {"none", "provisioning"}
    BY <2>1, <2>3, <2>4
  <2> QED
    BY <2>1, <2>2, <2>5, PortsUnmoved
<1>5. ASSUME NEW w \in Warmer, SetWarmHostReady(w) PROVE NoPortLeak'
  <2> SUFFICES ASSUME ~Fault("db"), NEW h \in Host, Sound(h)'
               PROVE  Accounted(h)'
    BY DEF NoPortLeak, Accounted
  <2>1. UNCHANGED <<held, allocated, lost>>
    BY <1>5 DEF SetWarmHostReady
  <2>2. SameHolders(h)
    BY <1>5, PoolAssumption DEF SameHolders, SetWarmHostReady
  <2>3. row'[h] = row[h] \/ h = host[w]
    BY <1>5 DEF SetWarmHostReady
  <2>4. row[host[w]] \in {"none", "provisioning"}
    BY <1>5 DEF SetWarmHostReady, MakesAlone, MakingSteps
  <2>5. Sound(h) \/ row[h] \in {"none", "provisioning"}
    BY <2>1, <2>3, <2>4
  <2> QED
    BY <2>1, <2>2, <2>5, PortsUnmoved
<1>6. ASSUME NEW m \in Match, AllocatePorts(m) PROVE NoPortLeak'
  <2> SUFFICES ASSUME ~Fault("db"), NEW h \in Host, Sound(h)'
               PROVE  Accounted(h)'
    BY DEF NoPortLeak, Accounted
  <2>0. step[m] = "alloc" /\ UNCHANGED <<host, row, lost>>
    BY <1>6 DEF AllocatePorts
  <2>1. /\ step[m] = "alloc" /\ UNCHANGED <<host, row, lost>>
        /\ host[m] \in Host /\ Sound(h)
    BY <2>0 DEF Placed
  <2>2. CASE step' = [step EXCEPT ![m] = "over"] /\ UNCHANGED <<held, allocated>>
    <3>1. SameHolders(h)
      BY <2>1, <2>2 DEF SameHolders
    <3> QED
      BY <2>1, <2>2, <3>1, PortsUnmoved
  <2>3. ASSUME NEW ports \in SUBSET (Port \ allocated[host[m]]),
               step' = [step EXCEPT ![m] = "launch"],
               held' = [held EXCEPT ![m] = ports],
               allocated' = [allocated EXCEPT ![host[m]] = @ \cup ports]
        PROVE  Accounted(h)'
    <3>1. Accounted(h)
      BY <2>1 DEF NoPortLeak, Accounted
    <3>2. \A n \in Match \ {m} : /\ Holds(n, h)' <=> Holds(n, h)
                                 /\ step[n]' = "crashed" <=> step[n] = "crashed"
                                 /\ held'[n] = held[n]
      BY <2>1, <2>3
    <3>3. ~Holds(m, h) /\ step[m] # "crashed" /\ held'[m] = ports
      BY <2>1, <2>3
    <3>4. CASE h = host[m]
      <4>1. Holds(m, h)' /\ allocated'[h] = allocated[h] \cup ports
        BY <2>1, <2>3, <3>4
      <4> QED
        BY <3>1, <3>2, <3>3, <3>4, <4>1 DEF Accounted
    <3>5. CASE h # host[m]
      <4>1. ~Holds(m, h)' /\ step'[m] # "crashed" /\ allocated'[h] = allocated[h]
        BY <2>1, <2>3, <3>5
      <4> QED
        BY <3>1, <3>2, <3>3, <4>1 DEF Accounted
    <3> QED
      BY <3>4, <3>5
  <2>4. LowestFree(host[m]) \in SUBSET (Port \ allocated[host[m]])
    BY DEF LowestFree
  <2> QED
    BY <1>6, <2>2, <2>3, <2>4 DEF AllocatePorts
<1>7. ASSUME NEW m \in Match, ReleasePorts(m) PROVE NoPortLeak'
  BY <1>7 DEF ReleasePorts, Remaining
<1>8. ASSUME NEW m \in Match, FreePorts(m) PROVE NoPortLeak'
  BY <1>8 DEF FreePorts, Remaining
<1>9. ASSUME NEW m \in Match, SetMachineHostDeleted(m) PROVE NoPortLeak'
  BY <1>9 DEF SetMachineHostDeleted
<1>10. ASSUME ReadReadyHosts PROVE NoPortLeak'
  BY <1>10 DEF ReadReadyHosts, Ready
<1>11. ASSUME NEW h \in Host, FreeLostPorts(h) PROVE NoPortLeak'
  BY <1>11 DEF FreeLostPorts, Remaining
<1>12. ASSUME NEW h \in Host, BuryLostHost(h) PROVE NoPortLeak'
  BY <1>12 DEF BuryLostHost
<1>13. ASSUME NEW m \in Match, FreeOrphanPorts(m) PROVE NoPortLeak'
  BY <1>13 DEF FreeOrphanPorts, Remaining
<1>14. ASSUME NEW w \in Warmer, BeginWarmPool(w) PROVE NoPortLeak'
  BY <1>14 DEF BeginWarmPool
<1>15. ASSUME NEW a \in Actor, CheckCap(a) \/ Crash(a) PROVE NoPortLeak'
  BY <1>15 DEF CheckCap, GiveUp, Crash
<1>16. ASSUME NEW m \in Match, StartContainer(m) \/ PersistMatch(m) \/ UndoContainer(m) \/
               StopContainer(m)
      PROVE  NoPortLeak'
  BY <1>16 DEF StartContainer, PersistMatch, UndoContainer, StopContainer
<1>17. ASSUME NEW m \in Match, SetInstanceDeleted(m) \/ CountActiveInstances(m) \/
               CheckWarmPool(m) \/ DeleteHost(m)
      PROVE  NoPortLeak'
  BY <1>17 DEF SetInstanceDeleted, CountActiveInstances, CheckWarmPool, DeleteHost, VMDown
<1>18. ASSUME NEW m \in Match, ReconcileOrphan(m) \/ SetOrphanDeleted(m) \/ GameExits(m)
      PROVE  NoPortLeak'
  BY <1>18 DEF ReconcileOrphan, SetOrphanDeleted, GameExits
<1>19. ASSUME ListHosts PROVE NoPortLeak'
  BY <1>19 DEF ListHosts
<1>20. ASSUME NEW h \in Host, LoseVM(h) PROVE NoPortLeak'
  BY <1>20 DEF LoseVM, VMDown
<1>21. CASE UNCHANGED poolVars
  BY <1>21 DEF poolVars
<1> HIDE DEF PoolBase, BaseRest, PoolTypes, Fresh, Reconciled, Goto, Actor, LaunchSteps,
           actors, hosts, reconcilers, Holds, Sound, Remaining, NoPortLeak
<1> QED
  BY <1>1, <1>2, <1>3, <1>4, <1>5, <1>6, <1>7, <1>8, <1>9, <1>10, <1>11, <1>12, <1>13,
     <1>14, <1>15, <1>16, <1>17, <1>18, <1>19, <1>20, <1>21
     DEF PoolNext, Launch, End, Warm, Provide, ReconcileHosts, ReconcileInstances, Actor

\* A call enters under MayEnter, or those under way are among those that were.
Entered ==
    \/ UnderWay' \subseteq UnderWay
    \/ \E a \in Actor : MayEnter(a) /\ UnderWay' \subseteq UnderWay \cup {a}

LEMMA EnteredStep ==
    ASSUME PoolTypes, [PoolNext]_poolVars
    PROVE  Entered
<1> USE DEF Entered, PoolTypes, UnderWay, Inside, ProvisionSteps, Goto, Actor, LaunchSteps,
           EndSteps, actors, hosts, reconcilers
<1>1. ASSUME NEW m \in Match, Find(m) PROVE Entered
  <2>1. \A b \in Actor \ {m} : step'[b] = step[b]
    BY <1>1, Finding
  <2>2. UnderWay' \subseteq UnderWay \cup {m}
    BY <2>1
  <2>3. step[m] = "find" \/ MayEnter(m)
    BY <1>1, Finding
  <2> QED
    BY <2>2, <2>3
<1>2. ASSUME NEW w \in Warmer, BeginWarmPool(w) PROVE Entered
  <2>1. \A b \in Actor \ {w} : step'[b] = step[b]
    BY <1>2 DEF BeginWarmPool
  <2>2. UnderWay' \subseteq UnderWay \cup {w} /\ MayEnter(w)
    BY <1>2, <2>1 DEF BeginWarmPool
  <2> QED
    BY <2>2
<1>3. ASSUME NEW a \in Actor, CheckCap(a) \/ CreateHost(a) \/ CreateMachineHost(a) \/
               Crash(a)
      PROVE  Entered
  BY <1>3 DEF CheckCap, CreateHost, GiveUp, CreateMachineHost, Crash
<1>4. ASSUME NEW m \in Match, SetMachineHostReady(m) \/ AllocatePorts(m) \/
               StartContainer(m) \/ PersistMatch(m)
      PROVE  Entered
  BY <1>4 DEF SetMachineHostReady, AllocatePorts, LowestFree, StartContainer, PersistMatch
<1>5. ASSUME NEW m \in Match, UndoContainer(m) \/ ReleasePorts(m) \/ StopContainer(m) \/
               FreePorts(m)
      PROVE  Entered
  BY <1>5 DEF UndoContainer, ReleasePorts, Remaining, StopContainer, FreePorts
<1>6. ASSUME NEW m \in Match, SetInstanceDeleted(m) \/ CountActiveInstances(m) \/
               CheckWarmPool(m) \/ SetMachineHostDeleted(m)
      PROVE  Entered
  BY <1>6 DEF SetInstanceDeleted, CountActiveInstances, CheckWarmPool, SetMachineHostDeleted
<1>7. ASSUME NEW m \in Match, DeleteHost(m) \/ ReconcileOrphan(m) \/ FreeOrphanPorts(m) \/
               SetOrphanDeleted(m)
      PROVE  Entered
  BY <1>7 DEF DeleteHost, VMDown, ReconcileOrphan, FreeOrphanPorts, Remaining,
     SetOrphanDeleted
<1>8. ASSUME NEW m \in Match, GameExits(m) PROVE Entered
  BY <1>8 DEF GameExits
<1>9. ASSUME NEW w \in Warmer, SetWarmHostReady(w) PROVE Entered
  BY <1>9 DEF SetWarmHostReady
<1>10. ASSUME ListHosts \/ ReadReadyHosts PROVE Entered
  BY <1>10 DEF ListHosts, ReadReadyHosts, Ready
<1>11. ASSUME NEW h \in Host, FreeLostPorts(h) \/ BuryLostHost(h) \/ LoseVM(h) PROVE Entered
  BY <1>11 DEF FreeLostPorts, Remaining, BuryLostHost, LoseVM, VMDown
<1>12. CASE UNCHANGED poolVars
  BY <1>12 DEF poolVars
<1> HIDE DEF Entered, PoolTypes, UnderWay, Inside, ProvisionSteps, Goto, Actor, LaunchSteps,
           EndSteps, actors, hosts, reconcilers
<1> QED
  BY <1>1, <1>2, <1>3, <1>4, <1>5, <1>6, <1>7, <1>8, <1>9, <1>10, <1>11, <1>12
     DEF PoolNext, Launch, End, Warm, Provide, ReconcileHosts, ReconcileInstances, Actor

\* One call of the loop is under way at a time, and Beside others: MayEnter.
LEMMA FewUnderWayStep ==
    ASSUME PoolTypes, FewUnderWay, [PoolNext]_poolVars
    PROVE  FewUnderWay'
<1>1. Entered
  BY EnteredStep
<1>2. IsFiniteSet(UnderWay \ Loop) /\ Cardinality(UnderWay \ Loop) \in Nat /\ Beside \in Nat
  BY FS_CardinalityType, PoolAssumption DEF FewUnderWay
<1>3. ASSUME NEW s, IsFiniteSet(s), Cardinality(s) <= Beside, UnderWay' \ Loop \subseteq s
      PROVE  IsFiniteSet(UnderWay' \ Loop) /\ Cardinality(UnderWay' \ Loop) <= Beside
  <2>1. IsFiniteSet(UnderWay' \ Loop) /\ Cardinality(UnderWay' \ Loop) <= Cardinality(s)
    BY <1>3, FS_Subset
  <2>2. Cardinality(s) \in Nat /\ Cardinality(UnderWay' \ Loop) \in Nat
    BY <1>3, <2>1, FS_CardinalityType
  <2>. QED  BY <1>2, <1>3, <2>1, <2>2
<1>4. CASE UnderWay' \subseteq UnderWay
  <2>1. UnderWay' \ Loop \subseteq UnderWay \ Loop
    BY <1>4
  <2>. QED  BY <1>2, <1>3, <1>4, <2>1 DEF FewUnderWay
<1>5. ASSUME NEW a \in Loop, MayEnter(a), UnderWay' \subseteq UnderWay \cup {a} PROVE FewUnderWay'
  <2>1. UnderWay \cap Loop = {} /\ UnderWay' \ Loop \subseteq UnderWay \ Loop
    BY <1>5 DEF MayEnter
  <2>2. UnderWay' \cap Loop \subseteq {a}
    BY <1>5, <2>1
  <2>. QED  BY <1>2, <1>3, <2>1, <2>2 DEF FewUnderWay
<1>6. ASSUME NEW a \in Actor \ Loop, MayEnter(a), UnderWay' \subseteq UnderWay \cup {a} PROVE FewUnderWay'
  <2> DEFINE s == (UnderWay \ Loop) \cup {a}
  <2>1. Cardinality(UnderWay \ Loop) < Beside
    BY <1>6 DEF MayEnter
  <2>2. UnderWay' \cap Loop \subseteq UnderWay \cap Loop /\ UnderWay' \ Loop \subseteq s
    BY <1>6
  <2>3. /\ IsFiniteSet(s)
        /\ Cardinality(s) = Cardinality(UnderWay \ Loop) \/ Cardinality(s) = Cardinality(UnderWay \ Loop) + 1
    BY <1>2, FS_AddElement
  <2>4. Cardinality(s) <= Beside
    BY <1>2, <2>1, <2>3
  <2>5. IsFiniteSet(UnderWay' \ Loop) /\ Cardinality(UnderWay' \ Loop) <= Beside
    BY <1>3, <2>2, <2>3, <2>4
  <2>. QED  BY <2>2, <2>5 DEF FewUnderWay
<1>. QED  BY <1>1, <1>4, <1>5, <1>6 DEF Entered

\* So at most Beside + 1 calls are under way, and as few in any part of them.
LEMMA UnderWayBound ==
    ASSUME FewUnderWay, NEW s \in SUBSET UnderWay
    PROVE  IsFiniteSet(s) /\ Cardinality(s) \in Nat /\ Cardinality(s) <= Beside + 1
<1> DEFINE others == UnderWay \ Loop
<1>1. IsFiniteSet(others) /\ Cardinality(others) \in Nat /\ Cardinality(others) <= Beside /\ Beside \in Nat
  BY FS_CardinalityType, PoolAssumption DEF FewUnderWay
<1>2. \E a : UnderWay \subseteq others \cup {a}
  <2>1. CASE UnderWay \cap Loop = {}
    BY <2>1
  <2>2. ASSUME NEW a \in UnderWay \cap Loop PROVE UnderWay \subseteq others \cup {a}
    BY DEF FewUnderWay
  <2>. QED  BY <2>1, <2>2
<1> HIDE DEF others
<1>3. PICK a : UnderWay \subseteq others \cup {a}
  BY <1>2
<1>4. /\ IsFiniteSet(others \cup {a})
      /\ Cardinality(others \cup {a}) = Cardinality(others) \/ Cardinality(others \cup {a}) = Cardinality(others) + 1
  BY <1>1, FS_AddElement
<1>5. s \in SUBSET (others \cup {a})
  BY <1>3
<1>6. IsFiniteSet(s) /\ Cardinality(s) <= Cardinality(others \cup {a})
  BY <1>4, <1>5, FS_Subset
<1>7. Cardinality(s) \in Nat
  BY <1>6, FS_CardinalityType
<1>. QED  BY <1>1, <1>4, <1>6, <1>7

\* Only CreateMachineHost adds a row, after CheckCap found room.
LEMMA CountedWriters ==
    ASSUME PoolBase, [PoolNext]_poolVars
    PROVE  NoNewRow /\ CheckedFirst
<1> USE DEF NoNewRow, CheckedFirst, CountedHosts, PoolBase, BaseRest, PoolTypes, MakesAlone,
           MakingSteps, Goto, Actor, actors, hosts, reconcilers
<1>1. ASSUME NEW m \in Match, Find(m) PROVE NoNewRow /\ CheckedFirst
  BY <1>1, Finding
<1>2. ASSUME NEW a \in Actor, CheckCap(a) PROVE NoNewRow /\ CheckedFirst
  BY <1>2 DEF CheckCap, GiveUp
<1>3. ASSUME NEW a \in Actor, CreateMachineHost(a) PROVE NoNewRow /\ CheckedFirst
  BY <1>3 DEF CreateMachineHost, GiveUp
<1>4. ASSUME NEW m \in Match, SetMachineHostReady(m) PROVE NoNewRow /\ CheckedFirst
  BY <1>4 DEF SetMachineHostReady
<1>5. ASSUME NEW w \in Warmer, SetWarmHostReady(w) PROVE NoNewRow /\ CheckedFirst
  BY <1>5 DEF SetWarmHostReady
<1>6. ASSUME NEW m \in Match, SetMachineHostDeleted(m) PROVE NoNewRow /\ CheckedFirst
  BY <1>6 DEF SetMachineHostDeleted
<1>7. ASSUME NEW h \in Host, BuryLostHost(h) PROVE NoNewRow /\ CheckedFirst
  BY <1>7 DEF BuryLostHost
<1>8. ASSUME NEW w \in Warmer, BeginWarmPool(w) PROVE NoNewRow /\ CheckedFirst
  BY <1>8 DEF BeginWarmPool
<1>9. ASSUME NEW a \in Actor, CreateHost(a) \/ Crash(a) PROVE NoNewRow /\ CheckedFirst
  BY <1>9 DEF CreateHost, GiveUp, Crash
<1>10. ASSUME NEW m \in Match, AllocatePorts(m) \/ StartContainer(m) \/ PersistMatch(m) \/
               UndoContainer(m)
      PROVE  NoNewRow /\ CheckedFirst
  BY <1>10 DEF AllocatePorts, LowestFree, StartContainer, PersistMatch, UndoContainer
<1>11. ASSUME NEW m \in Match, ReleasePorts(m) \/ StopContainer(m) \/ FreePorts(m) \/
               SetInstanceDeleted(m)
      PROVE  NoNewRow /\ CheckedFirst
  BY <1>11 DEF ReleasePorts, Remaining, StopContainer, FreePorts, SetInstanceDeleted
<1>12. ASSUME NEW m \in Match, CountActiveInstances(m) \/ CheckWarmPool(m) \/ DeleteHost(m)
               \/ ReconcileOrphan(m)
      PROVE  NoNewRow /\ CheckedFirst
  BY <1>12 DEF CountActiveInstances, CheckWarmPool, DeleteHost, VMDown, ReconcileOrphan
<1>13. ASSUME NEW m \in Match, FreeOrphanPorts(m) \/ SetOrphanDeleted(m) \/ GameExits(m)
      PROVE  NoNewRow /\ CheckedFirst
  BY <1>13 DEF FreeOrphanPorts, Remaining, SetOrphanDeleted, GameExits
<1>14. ASSUME ListHosts \/ ReadReadyHosts PROVE NoNewRow /\ CheckedFirst
  BY <1>14 DEF ListHosts, ReadReadyHosts, Ready
<1>15. ASSUME NEW h \in Host, FreeLostPorts(h) \/ LoseVM(h) PROVE NoNewRow /\ CheckedFirst
  BY <1>15 DEF FreeLostPorts, Remaining, LoseVM, VMDown
<1>16. CASE UNCHANGED poolVars
  BY <1>16 DEF poolVars
<1> HIDE DEF NoNewRow, CheckedFirst, CountedHosts, PoolBase, BaseRest, PoolTypes, MakesAlone,
           MakingSteps, Goto, Actor, actors, hosts, reconcilers
<1> QED
  BY <1>1, <1>2, <1>3, <1>4, <1>5, <1>6, <1>7, <1>8, <1>9, <1>10, <1>11, <1>12, <1>13,
     <1>14, <1>15, <1>16
     DEF PoolNext, Launch, End, Warm, Provide, ReconcileHosts, ReconcileInstances, Actor

\* Only finding or creating a host takes a slot.
LEMMA UsedWriters ==
    ASSUME PoolBase, [PoolNext]_poolVars
    PROVE  NoSlotTaken
<1> USE DEF NoSlotTaken, Used, Taking, PoolBase, BaseRest, PoolTypes, Goto, Actor,
           LaunchSteps, actors, hosts, reconcilers
<1>1. ASSUME NEW m \in Match, Find(m) PROVE NoSlotTaken
  BY <1>1
<1>2. ASSUME NEW a \in Actor, CreateHost(a) PROVE NoSlotTaken
  BY <1>2 DEF CreateHost, GiveUp
<1>3. ASSUME NEW a \in Actor, CreateMachineHost(a) PROVE NoSlotTaken
  BY <1>3, PoolAssumption DEF CreateMachineHost
<1>4. ASSUME NEW w \in Warmer, SetWarmHostReady(w) PROVE NoSlotTaken
  BY <1>4, PoolAssumption DEF SetWarmHostReady
<1>5. ASSUME NEW w \in Warmer, BeginWarmPool(w) PROVE NoSlotTaken
  BY <1>5 DEF BeginWarmPool
<1>6. ASSUME NEW a \in Actor, CheckCap(a) \/ Crash(a) PROVE NoSlotTaken
  BY <1>6 DEF CheckCap, GiveUp, Crash
<1>7. ASSUME NEW m \in Match, SetMachineHostReady(m) \/ AllocatePorts(m) \/
               StartContainer(m) \/ PersistMatch(m)
      PROVE  NoSlotTaken
  BY <1>7 DEF SetMachineHostReady, AllocatePorts, LowestFree, StartContainer, PersistMatch
<1>8. ASSUME NEW m \in Match, UndoContainer(m) \/ ReleasePorts(m) \/ StopContainer(m) \/
               FreePorts(m)
      PROVE  NoSlotTaken
  BY <1>8 DEF UndoContainer, ReleasePorts, Remaining, StopContainer, FreePorts
<1>9. ASSUME NEW m \in Match, SetInstanceDeleted(m) \/ CountActiveInstances(m) \/
               CheckWarmPool(m) \/ SetMachineHostDeleted(m)
      PROVE  NoSlotTaken
  BY <1>9 DEF SetInstanceDeleted, CountActiveInstances, CheckWarmPool, SetMachineHostDeleted
<1>10. ASSUME NEW m \in Match, DeleteHost(m) \/ ReconcileOrphan(m) \/ FreeOrphanPorts(m) \/
               SetOrphanDeleted(m)
      PROVE  NoSlotTaken
  BY <1>10 DEF DeleteHost, VMDown, ReconcileOrphan, FreeOrphanPorts, Remaining,
     SetOrphanDeleted
<1>11. ASSUME NEW m \in Match, GameExits(m) PROVE NoSlotTaken
  BY <1>11 DEF GameExits
<1>12. ASSUME ListHosts \/ ReadReadyHosts PROVE NoSlotTaken
  BY <1>12 DEF ListHosts, ReadReadyHosts, Ready
<1>13. ASSUME NEW h \in Host, FreeLostPorts(h) \/ BuryLostHost(h) \/ LoseVM(h)
      PROVE  NoSlotTaken
  BY <1>13 DEF FreeLostPorts, Remaining, BuryLostHost, LoseVM, VMDown
<1>14. CASE UNCHANGED poolVars
  BY <1>14 DEF poolVars
<1> HIDE DEF NoSlotTaken, Used, Taking, PoolBase, BaseRest, PoolTypes, Goto, Actor,
           LaunchSteps, actors, hosts, reconcilers
<1> QED
  BY <1>1, <1>2, <1>3, <1>4, <1>5, <1>6, <1>7, <1>8, <1>9, <1>10, <1>11, <1>12, <1>13, <1>14
     DEF PoolNext, Launch, End, Warm, Provide, ReconcileHosts, ReconcileInstances, Actor

\* The initial state satisfies every invariant of this module.
LEMMA PoolInitial ==
    ASSUME PoolInit
    PROVE  /\ PoolBase /\ RowsHaveVMs /\ PortsExclusive /\ NoPortLeak
           /\ FewUnderWay /\ RoomToMake /\ SlotsHeld
<1>1. PoolBase /\ RowsHaveVMs
  <2>1. PoolTypes
    BY DEF PoolInit, PoolTypes, Step
  <2>2. MakesAlone /\ Unmade
    BY PoolAssumption DEF PoolInit, MakesAlone, MakingSteps, Unmade
  <2>3. Fresh /\ Reconciled /\ Placed /\ Listed
    BY PoolAssumption DEF PoolInit, Fresh, Reconciled, Placed, Listed, LaunchSteps, EndSteps, Actor
  <2>4. RowsHaveVMs
    BY DEF PoolInit, RowsHaveVMs
  <2> QED
    BY <2>1, <2>2, <2>3, <2>4 DEF PoolBase, BaseRest
<1>2. PortsExclusive /\ NoPortLeak
  BY DEF PoolInit, PortsExclusive, NoPortLeak, Sound
<1>3. FewUnderWay
  <2>1. UnderWay = {}
    BY DEF PoolInit, UnderWay, Inside, LaunchSteps, ProvisionSteps
  <2>2. UnderWay \ Loop = {}
    BY <2>1
  <2>. QED  BY <2>1, <2>2, FS_EmptySet, PoolAssumption DEF FewUnderWay
<1>4. RoomToMake
  <2>1. CountedHosts = {} /\ Makers = {}
    BY DEF PoolInit, CountedHosts, Makers
  <2> QED
    BY <2>1, FS_EmptySet, PoolAssumption DEF RoomToMake
<1>5. SlotsHeld
  <2>1. \A h \in Host : Used(h) = {}
    BY DEF PoolInit, Used, Taking, LaunchSteps, Actor
  <2> QED
    BY <2>1, FS_EmptySet, PoolAssumption DEF SlotsHeld
<1> QED
  BY <1>1, <1>2, <1>3, <1>4, <1>5

\* The rows are counted before one is added, when few others can be about to
\* add one.
LEMMA RoomStep ==
    ASSUME PoolBase, FewUnderWay, RoomToMake, [PoolNext]_poolVars
    PROVE  RoomToMake'
<1> DEFINE rows == Cardinality(CountedHosts)
           makers == Cardinality(Makers)
<1>1. NoNewRow /\ CheckedFirst
  BY CountedWriters
<1>2. /\ IsFiniteSet(CountedHosts) /\ IsFiniteSet(Makers)
      /\ rows \in Nat /\ makers \in Nat /\ MaxHosts \in Nat /\ Beside \in Nat
      /\ rows + makers <= MaxHosts + Beside
  BY FS_CardinalityType, PoolAssumption DEF RoomToMake
<1> HIDE DEF rows, makers
<1>3. ASSUME NEW a \in Actor, CreateMachineHost(a) PROVE RoomToMake'
  <2>1. a \in Makers
    BY <1>3 DEF CreateMachineHost, Makers
  <2>2. Makers' \subseteq Makers \ {a}
    BY <1>3 DEF CreateMachineHost, Goto, GiveUp, Makers, PoolBase, PoolTypes
  <2>3. CountedHosts' \subseteq CountedHosts \cup {host[a]}
    BY <1>3 DEF CreateMachineHost, CountedHosts, PoolBase, PoolTypes
  <2>4. /\ IsFiniteSet(Makers \ {a}) /\ Cardinality(Makers \ {a}) = makers - 1
    BY <1>2, <2>1, FS_RemoveElement DEF makers
  <2>5. /\ IsFiniteSet(Makers') /\ Cardinality(Makers') <= makers - 1 /\ Cardinality(Makers') \in Nat
    <3>1. IsFiniteSet(Makers') /\ Cardinality(Makers') <= Cardinality(Makers \ {a})
      BY <2>2, <2>4, FS_Subset
    <3>. QED  BY <2>4, <3>1, FS_CardinalityType
  <2>6. /\ IsFiniteSet(CountedHosts \cup {host[a]})
        /\ Cardinality(CountedHosts \cup {host[a]}) \in {rows, rows + 1}
    BY <1>2, FS_AddElement DEF rows
  <2>7. /\ IsFiniteSet(CountedHosts') /\ Cardinality(CountedHosts') <= rows + 1 /\ Cardinality(CountedHosts') \in Nat
    <3>1. IsFiniteSet(CountedHosts') /\ Cardinality(CountedHosts') <= Cardinality(CountedHosts \cup {host[a]})
      BY <2>3, <2>6, FS_Subset
    <3>2. Cardinality(CountedHosts') \in Nat
      BY <3>1, FS_CardinalityType
    <3>. QED  BY <1>2, <2>6, <3>1, <3>2
  <2> QED
    BY <1>2, <2>5, <2>7 DEF RoomToMake
<1>4. ASSUME CountedHosts' \subseteq CountedHosts
      PROVE  IsFiniteSet(CountedHosts') /\ Cardinality(CountedHosts') <= rows /\ Cardinality(CountedHosts') \in Nat
  BY <1>2, <1>4, FS_Subset, FS_CardinalityType DEF rows
<1>5. ASSUME NEW a \in Actor, CheckCap(a), ~AtCap PROVE RoomToMake'
  <2>1. UNCHANGED row /\ step[a] = "full" /\ \A b \in Actor \ {a} : step'[b] = step[b]
    BY <1>5 DEF CheckCap, Goto, hosts, PoolBase, PoolTypes
  <2>2. Makers' \subseteq UnderWay
    BY <2>1 DEF Makers, UnderWay, Inside, ProvisionSteps
  <2>3. IsFiniteSet(Makers') /\ Cardinality(Makers') \in Nat /\ Cardinality(Makers') <= Beside + 1
    BY <2>2, UnderWayBound
  <2>4. rows < MaxHosts
    BY <1>2, <1>5 DEF AtCap, CountMachineHosts, CountedHosts, rows
  <2>5. CountedHosts' \subseteq CountedHosts
    BY <2>1 DEF CountedHosts
  <2> QED
    BY <1>2, <1>4, <2>3, <2>4, <2>5 DEF RoomToMake
<1>6. ASSUME CountedHosts' \subseteq CountedHosts, ~\E a \in Actor : CheckCap(a) /\ ~AtCap
      PROVE  RoomToMake'
  <2>1. Makers' \subseteq Makers
    BY <1>1, <1>6 DEF CheckedFirst, Makers
  <2>2. IsFiniteSet(Makers') /\ Cardinality(Makers') <= makers /\ Cardinality(Makers') \in Nat
    BY <1>2, <2>1, FS_Subset, FS_CardinalityType DEF makers
  <2> QED
    BY <1>2, <1>4, <1>6, <2>2 DEF RoomToMake
<1> QED
  BY <1>1, <1>3, <1>5, <1>6 DEF NoNewRow

\* The instances of a host are counted before a slot of it is taken, when few
\* others can be about to take one.
LEMMA SlotsStep ==
    ASSUME PoolBase, FewUnderWay, SlotsHeld, MaxSlots > 0, [PoolNext]_poolVars
    PROVE  SlotsHeld'
<1>1. \A h \in Host : /\ IsFiniteSet(Used(h)) /\ Cardinality(Used(h)) \in Nat
                      /\ Cardinality(Used(h)) <= MaxSlots + Beside
  BY FS_CardinalityType DEF SlotsHeld
<1>2. MaxSlots \in Nat /\ Beside \in Nat
  BY PoolAssumption
<1>3. ASSUME NEW h \in Host, NEW s, IsFiniteSet(s), Cardinality(s) <= MaxSlots + Beside, Used(h)' \subseteq s
      PROVE  IsFiniteSet(Used(h)') /\ Cardinality(Used(h)') <= MaxSlots + Beside
  <2>1. IsFiniteSet(Used(h)') /\ Cardinality(Used(h)') <= Cardinality(s)
    BY <1>3, FS_Subset
  <2>2. Cardinality(s) \in Nat /\ Cardinality(Used(h)') \in Nat
    BY <1>3, <2>1, FS_CardinalityType
  <2>. QED  BY <1>2, <1>3, <2>1, <2>2
<1>4. ASSUME NEW m \in Match, Find(m), NEW h \in Host, ~(Used(h)' \subseteq Used(h))
      PROVE  IsFiniteSet(Used(h)') /\ Cardinality(Used(h)') <= MaxSlots + Beside
  <2> DEFINE others == {n \in Match : host[n] = h /\ step[n] \in Taking} \cup {m}
             s == Active(h) \cup others
  <2>1. /\ UNCHANGED si
        /\ \A n \in Match \ {m} : step'[n] = step[n] /\ host'[n] = host[n]
    BY <1>4, Finding DEF Actor, PoolBase, PoolTypes
  <2>2. Used(h)' \subseteq s
    BY <2>1 DEF Used, Active
  <2>3. step[m] = "find" /\ HasSlot(h)
    <3>1. \/ step'[m] \in {"find", "full", "over"} /\ host' = host
          \/ step[m] = "find" /\ \E g \in todo[m] : HasSlot(g) /\ host'[m] = g
      BY <1>4, Finding DEF Actor, PoolBase, PoolTypes
    <3>2. step'[m] \in {"find", "full", "over"} /\ host' = host => Used(h)' \subseteq Used(h)
      BY <2>1 DEF Used, Taking, LaunchSteps
    <3>3. host'[m] # h => Used(h)' \subseteq Used(h)
      BY <2>1 DEF Used
    <3>. QED  BY <1>4, <3>1, <3>2, <3>3
  <2>4. others \subseteq UnderWay
    BY <2>3 DEF UnderWay, Inside, Taking, ProvisionSteps, LaunchSteps, Actor
  <2>5. IsFiniteSet(others) /\ Cardinality(others) \in Nat /\ Cardinality(others) <= Beside + 1
    BY <2>4, UnderWayBound
  <2>6. Active(h) \subseteq Used(h)
    BY DEF Active, Used
  <2>7. IsFiniteSet(Active(h)) /\ Cardinality(Active(h)) \in Nat /\ Cardinality(Active(h)) < MaxSlots
    BY <1>1, <2>3, <2>6, FS_Subset, FS_CardinalityType DEF HasSlot
  <2> HIDE DEF others
  <2>8. IsFiniteSet(s) /\ Cardinality(s) <= MaxSlots + Beside
    <3>1. /\ IsFiniteSet(s) /\ IsFiniteSet(Active(h) \cap others)
          /\ Cardinality(s) = Cardinality(Active(h)) + Cardinality(others) - Cardinality(Active(h) \cap others)
      BY <2>5, <2>7, FS_Union, FS_Intersection
    <3>2. Cardinality(Active(h) \cap others) \in Nat
      BY <3>1, FS_CardinalityType
    <3>. QED  BY <1>2, <2>5, <2>7, <3>1, <3>2
  <2> HIDE DEF s
  <2>. QED  BY <1>3, <2>2, <2>8
<1>5. ASSUME NEW m \in Match, CreateHost(m), NEW h \in Host, ~(Used(h)' \subseteq Used(h))
      PROVE  IsFiniteSet(Used(h)') /\ Cardinality(Used(h)') <= MaxSlots + Beside
  <2>1. /\ UNCHANGED si
        /\ \A n \in Match \ {m} : step'[n] = step[n] /\ host'[n] = host[n]
    BY <1>5 DEF CreateHost, Goto, Actor, PoolBase, PoolTypes
  <2>2. Used(h)' \subseteq Used(h) \cup {m}
    BY <2>1 DEF Used
  <2>3. CASE vm[h] = "none"
    <3>1. Used(h) = {}
      BY <2>3 DEF Used, PoolBase, BaseRest, Unmade, Actor
    <3>2. IsFiniteSet({m}) /\ Cardinality({m}) = 1 /\ Used(h)' \subseteq {m}
      BY <2>2, <3>1, FS_Singleton
    <3>3. Cardinality({m}) <= MaxSlots + Beside
      BY <1>2, <3>2
    <3> QED
      BY <1>3, <3>2, <3>3
  <2>4. CASE vm[h] # "none"
    <3>1. host'[m] # h \/ (host'[m] = host[m] /\ step'[m] = "over")
      BY <1>5, <2>4 DEF CreateHost, GiveUp, Goto, Actor, PoolBase, PoolTypes
    <3>2. Used(h)' \subseteq Used(h)
      BY <2>1, <3>1 DEF Used, Taking, LaunchSteps
    <3> QED
      BY <1>5, <3>2
  <2> QED
    BY <2>3, <2>4
<1>6. ASSUME NEW h \in Host, Used(h)' \subseteq Used(h)
      PROVE  IsFiniteSet(Used(h)') /\ Cardinality(Used(h)') <= MaxSlots + Beside
  BY <1>1, <1>3, <1>6
<1> QED
  BY <1>4, <1>5, <1>6, UsedWriters DEF NoSlotTaken, SlotsHeld

\* Of a finite set of numbers, as many as are wanted have fewer below them.
LEMMA LowestAreAsMany ==
    ASSUME NEW free \in SUBSET Nat, IsFiniteSet(free), NEW k \in Nat, Cardinality(free) >= k
    PROVE  Cardinality({p \in free : Cardinality({q \in free : q < p}) < k}) = k
<1> DEFINE Below == [p \in free |-> {q \in free : q < p}]
<1>1. IsOrder(Below, free)
  <2>1. Below \in [free -> SUBSET free] /\ \A p \in free : p \notin Below[p]
    OBVIOUS
  <2>2. ASSUME NEW p \in free, NEW q \in free, p \in Below[q], NEW r \in Below[p] PROVE r \in Below[q]
    <3>1. r \in free /\ r < p /\ p < q /\ {p, q, r} \subseteq Nat
      BY <2>2
    <3>. QED  BY <3>1
  <2>3. \A p, q \in free : p # q => p \in Below[q] \/ q \in Below[p]
    OBVIOUS
  <2>. QED  BY <2>1, <2>2, <2>3 DEF IsOrder
<1>2. {p \in free : Cardinality({q \in free : q < p}) < k} = {p \in free : Cardinality(Below[p]) < k}
  OBVIOUS
<1> HIDE DEF Below
<1>. QED  BY <1>1, <1>2, FirstInOrder

\* Whoever has ports has as many as a container needs.
PortsInFull == held \in [Match -> {ports \in SUBSET Port : Cardinality(ports) \in {0, Need}}]

LEMMA PortsInFullStep ==
    ASSUME PoolTypes, PortsInFull, [PoolNext]_poolVars
    PROVE  PortsInFull'
<1>1. CASE UNCHANGED held
  BY <1>1 DEF PortsInFull
<1>2. ASSUME NEW m \in Match, AllocatePorts(m), held' # held PROVE PortsInFull'
  <2> DEFINE h == host[m]
             free == Port \ allocated[h]
  <2>1. held' = [held EXCEPT ![m] = LowestFree(h)] /\ Cardinality(free) >= Need
    BY <1>2 DEF AllocatePorts
  <2>2. free \in SUBSET Nat /\ IsFiniteSet(free) /\ Need \in Nat
    BY PoolAssumption, FS_Subset
  <2>3. Cardinality(LowestFree(h)) = Need
    <3>1. LowestFree(h) = {p \in free : Cardinality({q \in free : q < p}) < Need}
      BY DEF LowestFree
    <3> HIDE DEF free
    <3>. QED  BY <2>1, <2>2, <3>1, LowestAreAsMany
  <2>4. LowestFree(h) \subseteq Port
    BY DEF LowestFree
  <2>. QED  BY <2>1, <2>3, <2>4 DEF PortsInFull
<1>. QED
  BY <1>1, <1>2 DEF PoolNext, Launch, End, ReconcileInstances, ReconcileHosts, Warm, Provide,
     Find, ListReadyHosts, FindAvailableHost, CheckCap, CreateHost, CreateMachineHost, SetMachineHostReady, StartContainer,
     PersistMatch, UndoContainer, ReleasePorts, StopContainer, FreePorts, SetInstanceDeleted,
     CountActiveInstances, CheckWarmPool, SetMachineHostDeleted, DeleteHost, BeginWarmPool,
     SetWarmHostReady, ListHosts, ReadReadyHosts, FreeLostPorts, BuryLostHost, ReconcileOrphan,
     FreeOrphanPorts, SetOrphanDeleted, GameExits, LoseVM, Crash, poolVars, actors

\* At any time finitely many hosts have been made, and instances started: so
\* the slots that are free can be counted.
FinitelyMany ==
    /\ IsFiniteSet({h \in Host : row[h] # "none"})
    /\ IsFiniteSet({m \in Match : si[m] = "active"})

LEMMA FinitelyManyStep ==
    ASSUME PoolTypes, FinitelyMany, [PoolNext]_poolVars
    PROVE  FinitelyMany'
<1> DEFINE rows == {h \in Host : row[h] # "none"}
           live == {m \in Match : si[m] = "active"}
           OneRow == \E g : \A h \in Host : h # g => row'[h] = row[h] \/ row[h] # "none"
           OneInstance == \E n : \A m \in Match : m # n => si'[m] = si[m] \/ si'[m] # "active"
<1>1. OneRow
  <2>1. CASE UNCHANGED row
    BY <2>1
  <2>2. ASSUME NEW a \in Actor, CreateMachineHost(a) PROVE OneRow
    <3>1. \A h \in Host : h # host[a] => row'[h] = row[h] \/ row[h] # "none"
      BY <2>2 DEF CreateMachineHost, PoolTypes
    <3>. QED  BY <3>1
  <2>3. ASSUME NEW a \in Actor, SetMachineHostReady(a) \/ SetWarmHostReady(a) \/ SetMachineHostDeleted(a) PROVE OneRow
    <3>1. \A h \in Host : h # host[a] => row'[h] = row[h] \/ row[h] # "none"
      BY <2>3 DEF SetMachineHostReady, SetWarmHostReady, SetMachineHostDeleted, PoolTypes
    <3>. QED  BY <3>1
  <2>4. ASSUME NEW h \in Host, BuryLostHost(h) PROVE OneRow
    <3>1. \A g \in Host : g # h => row'[g] = row[g] \/ row[g] # "none"
      BY <2>4 DEF BuryLostHost, PoolTypes
    <3>. QED  BY <3>1
  <2>. QED
    BY <2>1, <2>2, <2>3, <2>4 DEF PoolNext, Launch, End, ReconcileInstances, ReconcileHosts, Warm, Provide,
       Find, ListReadyHosts, FindAvailableHost, CheckCap, CreateHost, AllocatePorts, StartContainer,
       PersistMatch, UndoContainer, ReleasePorts, StopContainer, FreePorts, SetInstanceDeleted,
       CountActiveInstances, CheckWarmPool, DeleteHost, BeginWarmPool, ListHosts, ReadReadyHosts,
       FreeLostPorts, ReconcileOrphan, FreeOrphanPorts, SetOrphanDeleted, GameExits, LoseVM, Crash,
       poolVars, hosts, Actor
<1>2. OneInstance
  <2>1. CASE UNCHANGED si
    BY <2>1
  <2>2. ASSUME NEW m \in Match, PersistMatch(m) \/ SetInstanceDeleted(m) \/ SetOrphanDeleted(m) PROVE OneInstance
    <3>1. \A n \in Match : n # m => si'[n] = si[n] \/ si'[n] # "active"
      BY <2>2 DEF PersistMatch, SetInstanceDeleted, SetOrphanDeleted, PoolTypes
    <3>. QED  BY <3>1
  <2>. QED
    BY <2>1, <2>2 DEF PoolNext, Launch, End, ReconcileInstances, ReconcileHosts, Warm, Provide,
       Find, ListReadyHosts, FindAvailableHost, CheckCap, CreateHost, CreateMachineHost,
       SetMachineHostReady, AllocatePorts, StartContainer, UndoContainer, ReleasePorts, StopContainer, FreePorts, CountActiveInstances,
       CheckWarmPool, SetMachineHostDeleted, DeleteHost, BeginWarmPool, SetWarmHostReady, ListHosts,
       ReadReadyHosts, FreeLostPorts, BuryLostHost, ReconcileOrphan, FreeOrphanPorts, GameExits, LoseVM,
       Crash, poolVars
<1>3. IsFiniteSet(rows')
  <2>1. PICK g : \A h \in Host : h # g => row'[h] = row[h] \/ row[h] # "none"
    BY <1>1
  <2>2. rows' \in SUBSET (rows \cup {g})
    BY <2>1
  <2>3. IsFiniteSet(rows \cup {g})
    BY FS_AddElement DEF FinitelyMany
  <2> HIDE DEF rows
  <2>. QED  BY <2>2, <2>3, FS_Subset
<1>4. IsFiniteSet(live')
  <2>1. PICK n : \A m \in Match : m # n => si'[m] = si[m] \/ si'[m] # "active"
    BY <1>2
  <2>2. live' \in SUBSET (live \cup {n})
    BY <2>1
  <2>3. IsFiniteSet(live \cup {n})
    BY FS_AddElement DEF FinitelyMany
  <2> HIDE DEF live
  <2>. QED  BY <2>2, <2>3, FS_Subset
<1>. QED  BY <1>3, <1>4 DEF FinitelyMany

\* The query that adds up the free slots of ready hosts answers with a number.
LEMMA SlotsAreCounted ==
    ASSUME FinitelyMany
    PROVE  CountAvailableSlots \in Nat
<1> DEFINE open == [h \in Host |-> FreeSlots(h)]
<1>1. IsFiniteSet(Ready) /\ Ready \subseteq Host
  <2>1. Ready \in SUBSET {h \in Host : row[h] # "none"}
    BY DEF Ready
  <2>. QED  BY <2>1, FS_Subset DEF FinitelyMany, Ready
<1>2. \A h \in Host : FreeSlots(h) \in Nat
  <2> SUFFICES ASSUME NEW h \in Host PROVE FreeSlots(h) \in Nat
    OBVIOUS
  <2>1. Active(h) \in SUBSET {m \in Match : si[m] = "active"}
    BY DEF Active
  <2>2. IsFiniteSet(Active(h))
    BY <2>1, FS_Subset DEF FinitelyMany
  <2>3. Cardinality(Active(h)) \in Nat /\ MaxSlots \in Nat
    BY <2>2, FS_CardinalityType, PoolAssumption
  <2>. QED  BY <2>3 DEF FreeSlots
<1>3. PICK it : IsSum(it, open, Ready)
  BY <1>1, SumExists
<1>4. \E jt : IsSum(jt, open, Ready) /\ CountAvailableSlots = jt[Ready]
  <2>1. \A jt : IsSum(jt, open, Ready) <=>
                jt = [s \in SUBSET Ready |->
                         IF s = {} THEN 0 ELSE FreeSlots(AnyOf(s)) + jt[s \ {AnyOf(s)}]]
    <3>1. \A s \in SUBSET Ready : s # {} => open[AnyOf(s)] = FreeSlots(AnyOf(s))
      BY <1>1 DEF AnyOf
    <3> HIDE DEF open
    <3>. QED  BY <3>1 DEF IsSum, SumOn
  <2> HIDE DEF open
  <2>2. \E jt : jt = [s \in SUBSET Ready |->
                       IF s = {} THEN 0 ELSE FreeSlots(AnyOf(s)) + jt[s \ {AnyOf(s)}]]
    BY <1>3, <2>1
  <2>3. \E jt : /\ jt = [s \in SUBSET Ready |->
                           IF s = {} THEN 0 ELSE FreeSlots(AnyOf(s)) + jt[s \ {AnyOf(s)}]]
                /\ CountAvailableSlots = jt[Ready]
    BY <2>2 DEF AnyOf, CountAvailableSlots, MapThenSumSet, MapThenFoldSet
  <2>. QED  BY <2>1, <2>3
<1>5. \A h \in Ready : open[h] \in Nat
  BY <1>1, <1>2
<1> HIDE DEF open
<1>. QED  BY <1>1, <1>4, <1>5, SumHasType

LEMMA AvailStep ==
    ASSUME FinitelyMany, avail \in [Warmer -> Nat], [PoolNext]_poolVars
    PROVE  avail' \in [Warmer -> Nat]
<1>1. CASE UNCHANGED avail
  BY <1>1
<1>2. ASSUME NEW w \in Warmer, BeginWarmPool(w) PROVE avail' \in [Warmer -> Nat]
  BY <1>2, SlotsAreCounted DEF BeginWarmPool
<1>3. ASSUME NEW w \in Warmer, SetWarmHostReady(w) PROVE avail' \in [Warmer -> Nat]
  BY <1>3, PoolAssumption DEF SetWarmHostReady
<1>. QED
  BY <1>1, <1>2, <1>3 DEF PoolNext, Launch, End, ReconcileInstances, ReconcileHosts, Warm, Provide,
     Find, ListReadyHosts, FindAvailableHost, CheckCap, CreateHost, CreateMachineHost, SetMachineHostReady, AllocatePorts,
     StartContainer, PersistMatch, UndoContainer, ReleasePorts, StopContainer, FreePorts,
     SetInstanceDeleted, CountActiveInstances, CheckWarmPool, SetMachineHostDeleted, DeleteHost,
     ListHosts, ReadReadyHosts, FreeLostPorts, BuryLostHost, ReconcileOrphan, FreeOrphanPorts,
     SetOrphanDeleted, GameExits, LoseVM, Crash, poolVars, actors

-----------------------------------------------------------------------------
\* The invariant the others rest on: who makes a host has it to himself, a host
\* is fresh until its row is ready, rows and instances die for ever.
THEOREM PoolInvariance == PoolSpec => []PoolBase
<1>1. PoolBase /\ [PoolNext]_poolVars => PoolBase'
  BY PoolTypesStep, BaseStep DEF PoolBase
<1> QED
  BY <1>1, PoolInitial, PTL DEF PoolSpec

\* AllocatePorts gives concurrent starts different ports, whoever releases,
\* tears down, reconciles or crashes: PortsExclusive is an invariant.
THEOREM PortsAreExclusive == PoolSpec => []PortsExclusive
<1>1. PoolBase /\ PortsExclusive /\ [PoolNext]_poolVars => PortsExclusive'
  BY PortsExclusiveStep
<1> QED
  BY <1>1, PoolInitial, PoolInvariance, PTL DEF PoolSpec

\* No port is lost to failed starts and teardowns: NoPortLeak is an invariant.
THEOREM PortsAreAccountedFor == PoolSpec => []NoPortLeak
<1>1. PoolBase /\ NoPortLeak /\ [PoolNext]_poolVars => NoPortLeak'
  BY NoPortLeakStep
<1> QED
  BY <1>1, PoolInitial, PoolInvariance, PTL DEF PoolSpec

\* What StartMatch takes on a host is what a container needs, or nothing, and
\* what a warm-pool pass believes in is a number of slots, whatever happens to
\* rows and instances meanwhile: PoolTypeOK is an invariant.
THEOREM PoolTypesAlways == PoolSpec => []PoolTypeOK
<1> DEFINE Inv == PortsInFull /\ FinitelyMany /\ avail \in [Warmer -> Nat]
<1>1. PoolInit => Inv
  <2> SUFFICES ASSUME PoolInit PROVE Inv
    OBVIOUS
  <2>1. {h \in Host : row[h] # "none"} = {} /\ {m \in Match : si[m] = "active"} = {}
    BY DEF PoolInit
  <2>. QED  BY <2>1, FS_EmptySet DEF PoolInit, PortsInFull, FinitelyMany
<1>2. PoolBase /\ Inv /\ [PoolNext]_poolVars => Inv'
  BY PortsInFullStep, FinitelyManyStep, AvailStep DEF PoolBase
<1>3. PoolBase /\ Inv => PoolTypeOK
  BY DEF PoolBase, PoolTypes, PortsInFull, PoolTypeOK
<1> QED
  BY <1>1, <1>2, <1>3, PoolInitial, PoolInvariance, PTL DEF PoolSpec

\* A row is inserted after its VM is up and buried before the VM is destroyed:
\* RowsHaveVMs is an invariant.
THEOREM FoundRowsHaveVMs == PoolSpec => []RowsHaveVMs
<1>1. PoolBase /\ RowsHaveVMs /\ [PoolNext]_poolVars => RowsHaveVMs'
  BY RowsHaveVMsStep
<1> QED
  BY <1>1, PoolInitial, PoolInvariance, PTL DEF PoolSpec

\* However calls of StartMatch, passes, teardowns and reconcilers interleave, and
\* whatever fails, the hosts pass HCLOUDMaxHosts by no more than the calls made
\* beside the loop: HostsCapped is an invariant.
THEOREM HostsAreCapped == PoolSpec => []HostsCapped
<1>1. PoolBase /\ FewUnderWay /\ [PoolNext]_poolVars => FewUnderWay'
  BY FewUnderWayStep DEF PoolBase
<1>2. PoolBase /\ FewUnderWay /\ RoomToMake /\ [PoolNext]_poolVars => RoomToMake'
  BY RoomStep
<1>3. RoomToMake => HostsCapped
  <2> SUFFICES ASSUME RoomToMake PROVE HostsCapped
    OBVIOUS
  <2>1. Cardinality(CountedHosts) \in Nat /\ Cardinality(Makers) \in Nat /\ {MaxHosts, Beside} \subseteq Nat
    BY FS_CardinalityType, PoolAssumption DEF RoomToMake
  <2>2. CountMachineHosts = Cardinality(CountedHosts)
    BY DEF CountMachineHosts, CountedHosts
  <2>. QED  BY <2>1, <2>2 DEF RoomToMake, HostsCapped
<1> QED
  BY <1>1, <1>2, <1>3, PoolInitial, PoolInvariance, PTL DEF PoolSpec

\* Nor does a host ever run more containers that somebody answers for than
\* HCLOUDMaxSlotsPerHost and those calls, whatever fails or crashes: with a
\* slot per host at all, SlotsRespected is an invariant.
THEOREM SlotsAreRespected ==
    ASSUME MaxSlots > 0
    PROVE  PoolSpec => []SlotsRespected
<1>1. PoolBase /\ FewUnderWay /\ [PoolNext]_poolVars => FewUnderWay'
  BY FewUnderWayStep DEF PoolBase
<1>2. PoolBase /\ FewUnderWay /\ SlotsHeld /\ [PoolNext]_poolVars => SlotsHeld'
  BY SlotsStep
<1>3. PoolBase /\ SlotsHeld => SlotsRespected
  <2> SUFFICES ASSUME PoolBase, SlotsHeld, NEW h \in Host
               PROVE  Cardinality({m \in running : host[m] = h /\ AnsweredFor(m)}) <= MaxSlots + Beside
    BY DEF SlotsRespected
  <2> DEFINE answered == {m \in running : host[m] = h /\ AnsweredFor(m)}
  <2>1. answered \subseteq Used(h)
    BY DEF Used, AnsweredFor, Taking, PoolBase, PoolTypes
  <2> HIDE DEF answered
  <2>2. IsFiniteSet(Used(h)) /\ Cardinality(Used(h)) <= MaxSlots + Beside /\ Cardinality(Used(h)) \in Nat
    BY FS_CardinalityType DEF SlotsHeld
  <2>3. /\ IsFiniteSet(answered) /\ Cardinality(answered) <= Cardinality(Used(h))
        /\ Cardinality(answered) \in Nat
    BY <2>1, <2>2, FS_Subset, FS_CardinalityType
  <2>4. Cardinality(answered) <= MaxSlots + Beside
    BY <2>2, <2>3, PoolAssumption
  <2>. QED  BY <2>4 DEF answered
<1> QED
  BY <1>1, <1>2, <1>3, PoolInitial, PoolInvariance, PTL DEF PoolSpec
=============================================================================
