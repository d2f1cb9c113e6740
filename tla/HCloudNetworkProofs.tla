------------------------- MODULE HCloudNetworkProofs -------------------------
(***************************************************************************)
(* Proofs about HCloudNetwork for every NumZones, ZoneLists, ExternalOps   *)
(* and Budget: type correctness, no second subnet in a zone, a network     *)
(* that goes before its object, and only steps of ManagedResource.         *)
(***************************************************************************)
EXTENDS HCloudNetwork, TLAPS, WellFoundedInduction

-----------------------------------------------------------------------------
(* The steps that all kinds share: types.                                  *)

\* The bookkeeping of disturbances keeps its type and only grows.
LEMMA SpendFacts ==
    ASSUME used \in [Disturbances -> Nat], NEW d \in Disturbances, Spend(d)
    PROVE  /\ used' \in [Disturbances -> Nat]
           /\ \A e \in Disturbances : used'[e] >= used[e]
           /\ used'[d] > used[d]
  <1>1. "any" \in Disturbances
    BY DEF Disturbances
  <1>2. CASE d = "any"
    BY <1>1, <1>2 DEF Spend
  <1>3. CASE d # "any"
    BY <1>1, <1>3 DEF Spend
  <1> QED BY <1>2, <1>3

\* At the start nothing has happened.
LEMMA WorkerInitTyped ==
    ASSUME NEW S, NEW T, spec \in S, status \in T, NEW D, "idle" \notin D, WorkerInit
    PROVE  ObjectTyped(S, T) /\ PhasesAgree(D)
  BY DEF WorkerInit, ObjectTyped, Current, Phases, PhasesAgree

\* The user's and the cache's steps keep the types and leave the worker alone.
LEMMA ObjectStepsTyped ==
    ASSUME NEW S, NEW T, ObjectTyped(S, T),
           (\E s \in S : Edit(s)) \/ DeleteObject \/ CacheSync
    PROVE  /\ ObjectTyped(S, T)' /\ UNCHANGED worker
           /\ status' = status /\ (seen' = seen \/ seen' = Current)
           /\ phase' = phase \/ (phase = "live" /\ phase' = "deleting")
           /\ phase' = phase \/ seen' = seen
  <1>1. ASSUME NEW s \in S, Edit(s)
        PROVE  ObjectTyped(S, T)'
    BY <1>1, SpendFacts DEF Edit, ObjectTyped, Disturbances
  <1>2. CASE DeleteObject
    BY <1>2, SpendFacts DEF DeleteObject, ObjectTyped, Phases, Disturbances
  <1>3. CASE CacheSync
    BY <1>3 DEF CacheSync, ObjectTyped, Current
  <1> QED BY <1>1, <1>2, <1>3 DEF Edit, DeleteObject, CacheSync

\* A worker that stops or moves on leaves the object alone, unless it writes
\* the status or lets the object go.
LEMMA WorkerStepsTyped ==
    ASSUME NEW S, NEW T, ObjectTyped(S, T),
           \/ WriteStatus /\ obj.status \in T
           \/ Release \/ Crash
           \/ UNCHANGED <<object, used>>
    PROVE  ObjectTyped(S, T)'
  <1>1. CASE WriteStatus /\ obj.status \in T
    BY <1>1, SpendFacts DEF WriteStatus, ObjectTyped, Disturbances
  <1>2. CASE Release
    BY <1>2 DEF Release, ObjectTyped, Phases
  <1>3. CASE Crash
    BY <1>3, SpendFacts DEF Crash, object, ObjectTyped, Disturbances
  <1>4. CASE UNCHANGED <<object, used>>
    BY <1>4 DEF object, ObjectTyped
  <1> QED BY <1>1, <1>2, <1>3, <1>4

\* So does a failed call.
LEMMA CallFailsTyped ==
    ASSUME NEW S, NEW T, ObjectTyped(S, T), NEW R, NEW D, CallFails(R, D)
    PROVE  /\ ObjectTyped(S, T)' /\ UNCHANGED object
           /\ \/ pc \in R /\ Fail(obj)
              \/ pc \in D /\ Stop
  BY SpendFacts DEF CallFails, object, ObjectTyped, Disturbances

-----------------------------------------------------------------------------
(* The steps that all kinds share: phases.                                 *)

\* The steps of the object keep what is known of the phases.
LEMMA ObjectStepsAgree ==
    ASSUME NEW S, NEW T, ObjectTyped(S, T), NEW D, PhasesAgree(D),
           (\E s \in S : Edit(s)) \/ DeleteObject \/ CacheSync
    PROVE  PhasesAgree(D)'
  BY DEF Edit, DeleteObject, CacheSync, PhasesAgree, ObjectTyped, Current, worker

\* Release lets an object go that the worker was shown in deletion.
LEMMA ReleaseAgrees ==
    ASSUME NEW D, PhasesAgree(D), "release" \in D, Release
    PROVE  PhasesAgree(D)'
  BY DEF Release, Stop, PhasesAgree

\* A step of the worker that leaves the object's phase and its cached copy:
\* it goes on, stops, or starts according to the phase the cache shows.
LEMMA WorkerStepAgrees ==
    ASSUME NEW D, PhasesAgree(D), UNCHANGED <<phase, seen>>,
           pc' \in D => pc \in D \/ seen.phase # "live",
           pc' \notin D \cup {"idle"} => pc \notin D \cup {"idle"} \/ seen.phase = "live"
    PROVE  PhasesAgree(D)'
  BY DEF PhasesAgree

-----------------------------------------------------------------------------
(* The operators.                                                          *)

\* A set of numbers that is not empty has a least one.
LEMMA MinIn ==
    ASSUME NEW A \in SUBSET Nat, A # {}
    PROVE  Min(A) \in A /\ \A y \in A : Min(A) <= y
  <1>1. PICK x \in A : \A y \in A : ~(<<y, x>> \in {ss \in Nat \X Nat : ss[1] < ss[2]})
    BY WFMin, NatLessThanWellFounded DEF OpToRel
  <1>2. ASSUME NEW y \in A
        PROVE  x <= y
    <2>1. x \in Nat /\ y \in Nat
      OBVIOUS
    <2>2. ~(y < x)
      <3> DEFINE p == <<y, x>>
      <3>1. p \in Nat \X Nat /\ p[1] = y /\ p[2] = x
        BY <2>1
      <3>2. ~(p \in {ss \in Nat \X Nat : ss[1] < ss[2]})
        BY <1>1
      <3> HIDE DEF p
      <3>3. ~(p[1] < p[2])
        BY <3>1, <3>2, Zenon
      <3> QED BY <3>1, <3>3
    <2> QED BY <2>1, <2>2
  <1> QED BY <1>2 DEF Min

\* TypeOK says of the object what the shared lemmas need.
LEMMA ObjectIsTyped ==
    ASSUME TypeOK
    PROVE  ObjectTyped(ZoneLists, Statuses)
  BY DEF TypeOK, ObjectTyped, Copies

\* The worker's copies of the object.
LEMMA CopyFacts ==
    ASSUME NEW o \in Objects, NEW p \in Nat, NEW st \in Statuses
    PROVE  /\ o.status \in Statuses /\ o.spec \in ZoneLists /\ o.phase \in Phases
           /\ o.plan \in Nat
           /\ [o EXCEPT !.status.ready = FALSE] \in Objects
           /\ [o EXCEPT !.status.ready = FALSE].plan = o.plan
           /\ [o EXCEPT !.status = st] \in Objects
           /\ [o EXCEPT !.status = st].plan = o.plan
           /\ [o EXCEPT !.plan = p] \in Objects
           /\ [o EXCEPT !.plan = p].plan = p /\ [o EXCEPT !.plan = p].spec = o.spec
  BY DEF Objects, Statuses

\* A spec lists zones.
LEMMA ZoneListFacts ==
    ASSUME NEW l \in ZoneLists
    PROVE  Len(l) \in Nat /\ \A i \in 1..Len(l) : l[i] \in Zones
  BY ZonesAssumption DEF Zones

\* The network's updates.
LEMMA NetFacts ==
    ASSUME net \in Nets, NEW z \in Zones, NEW v \in Nat, NEW a \in Zones \cup {0},
           \/ net' = [net EXCEPT !.subnets[z] = v]
           \/ net' = [net EXCEPT !.subnets[z] = v, !.adding = a]
           \/ net' = [net EXCEPT !.adding = a, !.subnets[z] = v]
    PROVE  /\ net' \in Nets /\ net'.id = net.id /\ net'.subnets[z] = v
           /\ \A y \in Zones : y # z => net'.subnets[y] = net.subnets[y]
  <1> DEFINE s == [net.subnets EXCEPT ![z] = v]
  <1>1. /\ s \in [Zones -> Nat] /\ s[z] = v
        /\ \A y \in Zones : y # z => s[y] = net.subnets[y]
    BY DEF Nets
  <1>2. /\ [net EXCEPT !.subnets[z] = v] = [net EXCEPT !.subnets = s]
        /\ [net EXCEPT !.subnets[z] = v, !.adding = a] = [net EXCEPT !.subnets = s, !.adding = a]
        /\ [net EXCEPT !.adding = a, !.subnets[z] = v] = [net EXCEPT !.adding = a, !.subnets = s]
    BY DEF Nets
  <1> HIDE DEF s
  <1>3. net' \in Nets /\ net'.id = net.id /\ net'.subnets = s
    <2>1. CASE net' = [net EXCEPT !.subnets = s]
      BY <1>1, <2>1 DEF Nets
    <2>2. CASE net' = [net EXCEPT !.subnets = s, !.adding = a]
      BY <1>1, <2>2 DEF Nets
    <2>3. CASE net' = [net EXCEPT !.adding = a, !.subnets = s]
      BY <1>1, <2>3 DEF Nets
    <2> QED BY <1>2, <2>1, <2>2, <2>3
  <1> QED BY <1>1, <1>3

\* A network without subnets.
LEMMA NoNetFacts ==
    ASSUME NEW i \in Nat
    PROVE  /\ NoNet \in Nets /\ NoNet.id = 0
           /\ [NoNet EXCEPT !.id = i] \in Nets
           /\ [NoNet EXCEPT !.id = i].id = i
           /\ \A z \in Zones : NoNet.subnets[z] = 0 /\ [NoNet EXCEPT !.id = i].subnets[z] = 0
  BY DEF NoNet, Nets

\* What the worker keeps of a network.
LEMMA InfoFacts ==
    ASSUME NEW n \in Nets
    PROVE  toNetworkInfo(n) \in Infos /\ toNetworkInfo(n).id = n.id
  BY DEF toNetworkInfo, Infos, Present, Nets

\* The loop over spec.networkZones ends with the status, or goes on to a
\* position of the list.
LEMMA LoopFacts ==
    ASSUME NEW o \in Objects, o.plan > 0, NEW n \in Infos, AddSubnets(o, n)
    PROVE  /\ obj' \in Objects /\ obj'.plan > 0
           /\ \/ pc' = "write" /\ info' = NoInfo
              \/ pc' = "check" /\ info' = n /\ obj'.plan \in 1..Len(obj'.spec)
  <1> DEFINE todo == {i \in o.plan..Len(o.spec) : o.spec[i] \notin n.zones}
  <1>1. NoStatus \in Statuses /\ 0 \in Nat
    BY DEF NoStatus, Statuses
  <1>2. o.plan \in Nat /\ o.spec \in ZoneLists /\ Len(o.spec) \in Nat
    BY <1>1, CopyFacts, ZoneListFacts
  <1>3. CASE todo = {}
    <2> DEFINE st == [id |-> n.id, zones |-> n.zones, ready |-> TRUE]
    <2>1. st \in Statuses
      BY DEF Statuses, Infos
    <2>2. pc' = "write" /\ info' = NoInfo /\ obj' = [o EXCEPT !.status = st]
      BY <1>3 DEF AddSubnets, Finish, Done, Call
    <2> HIDE DEF st
    <2> QED BY <2>1, <2>2, CopyFacts
  <1>4. CASE todo # {}
    <2>1. todo \in SUBSET Nat
      BY <1>2
    <2>2. Min(todo) \in todo
      BY <1>4, <2>1, MinIn
    <2>3. pc' = "check" /\ info' = n /\ obj' = [o EXCEPT !.plan = Min(todo)]
      BY <1>4 DEF AddSubnets, Call
    <2>4. Min(todo) \in Nat /\ Min(todo) > 0 /\ Min(todo) \in 1..Len(o.spec)
      BY <1>2, <2>2
    <2> HIDE DEF todo
    <2> QED BY <1>1, <2>3, <2>4, CopyFacts
  <1> QED BY <1>3, <1>4

-----------------------------------------------------------------------------
(* Ways in which a step keeps the invariant.                               *)

\* A step that leaves the worker alone.
LEMMA EnvironmentKeeps ==
    ASSUME IndInv, UNCHANGED <<pc, obj, info, nextID, late, status>>,
           ObjectTyped(ZoneLists, Statuses)', PhasesAgree(DeleteCalls)',
           net' \in Nets, net'.id \in {net.id, 0}, AddsMissing', OneSubnetPerZone'
    PROVE  IndInv'
  <1>1. TypeOK'
    BY DEF IndInv, TypeOK, ObjectTyped, Copies
  <1>2. WorkerHolds' /\ RightMoment'
    BY DEF IndInv, WorkerHolds, RightMoment
  <1> QED BY <1>1, <1>2 DEF IndInv

\* A step of the worker that leaves the network alone, or changes it within
\* the bound.
LEMMA WorkerKeeps ==
    ASSUME IndInv, UNCHANGED <<spec, seen, late>>,
           ObjectTyped(ZoneLists, Statuses)', PhasesAgree(DeleteCalls)',
           pc' \in PCs, obj' \in Objects \cup {NoObj}, info' \in Infos \cup {NoInfo},
           net' \in Nets, nextID' \in Nat \ {0},
           RightMoment', WorkerHolds', AddsMissing', OneSubnetPerZone'
    PROVE  IndInv'
  <1>1. TypeOK'
    BY DEF IndInv, TypeOK, ObjectTyped, Copies
  <1> QED BY <1>1 DEF IndInv

\* The network stays, and so does the count of disturbances or it grows.
LEMMA BoundKept ==
    ASSUME IndInv, UNCHANGED <<net, late>>, used' \in [Disturbances -> Nat],
           used'["external"] >= used["external"]
    PROVE  OneSubnetPerZone'
  <1>1. /\ \A z \in Zones : net.subnets[z] \in Nat
        /\ used["external"] \in Nat /\ used'["external"] \in Nat
    BY DEF IndInv, TypeOK, Nets, Disturbances
  <1> QED BY <1>1 DEF IndInv, OneSubnetPerZone

\* The worker stops.
LEMMA StopKeeps ==
    ASSUME IndInv, Stop, UNCHANGED <<spec, seen, net, nextID, late>>,
           ObjectTyped(ZoneLists, Statuses)', PhasesAgree(DeleteCalls)',
           used'["external"] >= used["external"]
    PROVE  IndInv'
  <1>1. pc' = "idle" /\ obj' = NoObj /\ info' = NoInfo
    BY DEF Stop
  <1>2. net \in Nets /\ nextID \in Nat \ {0} /\ used' \in [Disturbances -> Nat]
    BY DEF IndInv, TypeOK, ObjectTyped
  <1>3. pc' \in PCs /\ RightMoment' /\ WorkerHolds' /\ AddsMissing'
    BY <1>1 DEF PCs, RightMoment, WorkerHolds, AddsMissing, DeleteCalls
  <1> QED BY <1>1, <1>2, <1>3, BoundKept, WorkerKeeps

\* The worker goes on within Resource.Reconcile or to the status write.
LEMMA LiveKeeps ==
    ASSUME IndInv, UNCHANGED <<phase, spec, seen, late>>, pc \notin DeleteCalls, pc # "idle",
           ObjectTyped(ZoneLists, Statuses)',
           pc' \in PCs \ (DeleteCalls \cup {"idle"}),
           obj' \in Objects, obj'.plan > 0, info' \in Infos \cup {NoInfo},
           pc' \in {"saveID", "check", "addSubnet", "refresh"} => info' \in Infos,
           pc' \in {"check", "addSubnet", "refresh"} => obj'.plan \in 1..Len(obj'.spec),
           pc' = "create" => net'.id = 0,
           net' \in Nets, nextID' \in Nat \ {0},
           AddsMissing', OneSubnetPerZone'
    PROVE  IndInv'
  <1>1. PhasesAgree(DeleteCalls)'
    BY WorkerStepAgrees DEF IndInv
  <1>2. RightMoment' /\ WorkerHolds'
    BY DEF RightMoment, WorkerHolds, DeleteCalls
  <1> QED BY <1>1, <1>2, WorkerKeeps

\* The same for a step that leaves Hetzner alone and is not about to add.
LEMMA CallKeeps ==
    ASSUME IndInv, UNCHANGED <<phase, spec, seen, net, nextID, late>>,
           pc \notin DeleteCalls, pc # "idle", ObjectTyped(ZoneLists, Statuses)',
           used'["external"] >= used["external"],
           pc' \in PCs \ (DeleteCalls \cup {"idle", "addSubnet"}),
           obj' \in Objects, obj'.plan > 0, info' \in Infos \cup {NoInfo},
           pc' \in {"saveID", "check", "refresh"} => info' \in Infos,
           pc' \in {"check", "refresh"} => obj'.plan \in 1..Len(obj'.spec),
           pc' = "create" => net.id = 0
    PROVE  IndInv'
  <1>1. /\ net' \in Nets /\ nextID' \in Nat \ {0} /\ used' \in [Disturbances -> Nat]
        /\ pc' = "create" => net'.id = 0
    BY DEF IndInv, TypeOK, ObjectTyped
  <1>2. AddsMissing' /\ pc' # "addSubnet"
    BY DEF AddsMissing
  <1>3. OneSubnetPerZone'
    BY <1>1, BoundKept
  <1> QED BY <1>1, <1>2, <1>3, LiveKeeps

\* The failure path of Resource.Reconcile.
LEMMA FailKeeps ==
    ASSUME IndInv, Fail(obj), pc \notin DeleteCalls, pc # "idle",
           UNCHANGED <<phase, spec, seen, net, nextID, late>>,
           ObjectTyped(ZoneLists, Statuses)', used'["external"] >= used["external"]
    PROVE  IndInv'
  <1>1. obj \in Objects /\ obj.plan > 0 /\ NoStatus \in Statuses /\ 0 \in Nat
    BY DEF IndInv, WorkerHolds, NoStatus, Statuses
  <1>2. /\ pc' = "write" /\ info' = NoInfo
        /\ obj' \in Objects /\ obj'.plan = obj.plan
    BY <1>1, CopyFacts DEF Fail, Call
  <1>3. pc' \in PCs \ (DeleteCalls \cup {"idle", "addSubnet"})
    BY <1>2 DEF PCs, DeleteCalls
  <1> QED BY <1>1, <1>2, <1>3, CallKeeps

-----------------------------------------------------------------------------
(* The invariant holds at the start and every step keeps it.               *)

\* A fresh object and an empty project.
LEMMA InitIndInv == Init => IndInv
  <1> SUFFICES ASSUME Init PROVE IndInv
    OBVIOUS
  <1>1. NoStatus \in Statuses
    BY DEF NoStatus, Statuses
  <1>2. ObjectTyped(ZoneLists, Statuses) /\ PhasesAgree(DeleteCalls)
    <2>1. "idle" \notin DeleteCalls /\ spec \in ZoneLists /\ status \in Statuses /\ WorkerInit
      BY <1>1 DEF Init, DeleteCalls
    <2> QED BY <2>1, WorkerInitTyped
  <1>3. /\ pc = "idle" /\ obj = NoObj /\ info = NoInfo
        /\ net = NoNet /\ net \in Nets /\ \A z \in Zones : net.subnets[z] = 0
    BY NoNetFacts DEF Init, WorkerInit
  <1>4. TypeOK
    <2>1. late \in BOOLEAN
      BY Zenon DEF Init
    <2>2. nextID \in Nat \ {0}
      BY DEF Init
    <2>3. pc \in PCs /\ obj \in Objects \cup {NoObj} /\ info \in Infos \cup {NoInfo}
      BY <1>3 DEF PCs
    <2> QED BY <1>2, <1>3, <2>1, <2>2, <2>3 DEF TypeOK, ObjectTyped, Copies
  <1>5. WorkerHolds /\ RightMoment /\ AddsMissing
    BY <1>3 DEF WorkerHolds, RightMoment, AddsMissing, DeleteCalls
  <1>6. OneSubnetPerZone
    <2>1. used["external"] \in Nat
      BY <1>2 DEF ObjectTyped, Disturbances
    <2> QED BY <1>3, <2>1 DEF OneSubnetPerZone
  <1> QED BY <1>2, <1>4, <1>5, <1>6 DEF IndInv

\* The user and the cache.
LEMMA ObjectStepsIndInv ==
    ASSUME IndInv, EditZones \/ ((DeleteObject \/ CacheSync) /\ UNCHANGED hetzner)
    PROVE  IndInv'
  <1>1. UNCHANGED <<net, nextID, late>>
    BY DEF EditZones, hetzner
  <1>2. (\E s \in ZoneLists : Edit(s)) \/ DeleteObject \/ CacheSync
    BY DEF EditZones
  <1>3. ObjectTyped(ZoneLists, Statuses)' /\ UNCHANGED <<pc, obj, info, status>>
    BY <1>2, ObjectIsTyped, ObjectStepsTyped DEF IndInv, worker
  <1>4. PhasesAgree(DeleteCalls)'
    BY <1>2, ObjectIsTyped, ObjectStepsAgree DEF IndInv
  <1>5. used \in [Disturbances -> Nat] /\ "external" \in Disturbances
    BY DEF IndInv, TypeOK, Disturbances
  <1>6. used'["external"] >= used["external"] /\ used' \in [Disturbances -> Nat]
    BY <1>2, <1>5, SpendFacts DEF Edit, DeleteObject, CacheSync, Disturbances
  <1>7. net' \in Nets /\ net'.id \in {net.id, 0} /\ OneSubnetPerZone'
    BY <1>1, <1>6, BoundKept DEF IndInv, TypeOK
  <1>8. AddsMissing'
    <2> SUFFICES ASSUME ~late, pc = "addSubnet"
                 PROVE  net.subnets[obj.spec[obj.plan]] <= used'["external"]
      BY <1>1, <1>3 DEF AddsMissing
    <2>1. obj.spec[obj.plan] \in Zones
      BY CopyFacts, ZoneListFacts DEF IndInv, WorkerHolds, Objects
    <2>2. net.subnets[obj.spec[obj.plan]] \in Nat
      BY <2>1 DEF IndInv, TypeOK, Nets
    <2> QED BY <1>5, <1>6, <2>2 DEF IndInv, AddsMissing
  <1> QED BY <1>1, <1>3, <1>4, <1>7, <1>8, EnvironmentKeeps

\* A change of one zone's subnets that others make, or none at all.
LEMMA ZoneChangeKeeps ==
    ASSUME IndInv, NEW z \in Zones, NEW v \in Nat, ~late,
           \A y \in Zones : y # z => net'.subnets[y] = net.subnets[y],
           net'.subnets[z] = v,
           used' \in [Disturbances -> Nat], used'["external"] >= used["external"],
           v <= net.subnets[z] + (used'["external"] - used["external"]),
           UNCHANGED <<pc, obj, late>>
    PROVE  AddsMissing' /\ OneSubnetPerZone'
  <1>1. /\ used["external"] \in Nat /\ used'["external"] \in Nat
        /\ \A y \in Zones : net.subnets[y] \in Nat
    BY DEF IndInv, TypeOK, Nets, Disturbances
  <1>2. OneSubnetPerZone'
    <2> SUFFICES ASSUME NEW y \in Zones
                 PROVE  net'.subnets[y] <= 1 + used'["external"]
      BY DEF OneSubnetPerZone
    <2>1. net.subnets[y] <= 1 + used["external"]
      BY DEF IndInv, OneSubnetPerZone
    <2> QED BY <1>1, <2>1
  <1>3. AddsMissing'
    <2> SUFFICES ASSUME pc = "addSubnet"
                 PROVE  net'.subnets[obj.spec[obj.plan]] <= used'["external"]
      BY DEF AddsMissing
    <2> DEFINE y == obj.spec[obj.plan]
    <2>1. y \in Zones
      BY CopyFacts, ZoneListFacts DEF IndInv, WorkerHolds, Objects
    <2>2. net.subnets[y] <= used["external"]
      BY DEF IndInv, AddsMissing
    <2> HIDE DEF y
    <2>3. net'.subnets[y] <= used'["external"]
      BY <1>1, <2>1, <2>2
    <2> QED BY <2>3 DEF y
  <1> QED BY <1>2, <1>3

\* Hetzner finishes the addition of a subnet.
LEMMA ProgressIndInv == IndInv /\ Progress => IndInv'
  <1> SUFFICES ASSUME IndInv, Progress PROVE IndInv'
    OBVIOUS
  <1>1. /\ UNCHANGED <<phase, spec, status, seen, pc, obj, info, used, nextID, late>>
        /\ net.adding # 0
    BY DEF Progress, object, worker
  <1>2. net \in Nets /\ net.adding \in Zones /\ used \in [Disturbances -> Nat]
    BY <1>1 DEF IndInv, TypeOK, Nets
  <1> DEFINE z == net.adding
             v == net.subnets[z] + IF late THEN 1 ELSE 0
  <1>3. v \in Nat /\ (~late => v <= net.subnets[z]) /\ net.subnets[z] \in Nat
    BY <1>2 DEF Nets
  <1>4. net' = [net EXCEPT !.subnets[z] = v, !.adding = 0]
    BY Zenon DEF Progress
  <1>5. z \in Zones
    BY <1>2
  <1> HIDE DEF v, z
  <1>6. /\ net' \in Nets /\ net'.id = net.id /\ net'.subnets[z] = v
        /\ \A y \in Zones : y # z => net'.subnets[y] = net.subnets[y]
    <2>1. 0 \in Zones \cup {0}
      OBVIOUS
    <2> QED BY <1>2, <1>3, <1>4, <1>5, <2>1, NetFacts, Zenon
  <1>7. AddsMissing' /\ OneSubnetPerZone'
    <2>1. CASE late
      BY <1>1, <2>1 DEF AddsMissing, OneSubnetPerZone
    <2>2. CASE ~late
      <3>1. /\ used' \in [Disturbances -> Nat] /\ used'["external"] >= used["external"]
            /\ v <= net.subnets[z] + (used'["external"] - used["external"])
        BY <1>1, <1>2, <1>3, <2>2 DEF Disturbances
      <3> QED BY <1>1, <1>3, <1>5, <1>6, <2>2, <3>1, ZoneChangeKeeps
    <2> QED BY <2>1, <2>2
  <1>8. ObjectTyped(ZoneLists, Statuses)' /\ PhasesAgree(DeleteCalls)'
    BY <1>1, ObjectIsTyped DEF IndInv, ObjectTyped, PhasesAgree
  <1> QED BY <1>1, <1>6, <1>7, <1>8, EnvironmentKeeps

\* Others work on the network.
LEMMA ExternalIndInv == IndInv /\ External => IndInv'
  <1> SUFFICES ASSUME IndInv, External PROVE IndInv'
    OBVIOUS
  <1>1. /\ UNCHANGED <<phase, spec, status, seen, pc, obj, info, nextID, late>>
        /\ Spend("external")
    BY DEF External, object, worker
  <1>2. net \in Nets /\ used \in [Disturbances -> Nat] /\ "external" \in Disturbances
    BY DEF IndInv, TypeOK, Disturbances
  <1>3. /\ used' \in [Disturbances -> Nat] /\ used["external"] \in Nat
        /\ used'["external"] \in Nat /\ used'["external"] > used["external"]
    BY <1>1, <1>2, SpendFacts
  <1>4. ObjectTyped(ZoneLists, Statuses)' /\ PhasesAgree(DeleteCalls)'
    BY <1>1, <1>3, ObjectIsTyped DEF IndInv, ObjectTyped, PhasesAgree
  <1>5. ASSUME NEW z \in Zones, NEW v \in Nat, net' = [net EXCEPT !.subnets[z] = v],
               v <= net.subnets[z] + 1
        PROVE  IndInv'
    <2>1. /\ net' \in Nets /\ net'.id = net.id /\ net'.subnets[z] = v
          /\ \A y \in Zones : y # z => net'.subnets[y] = net.subnets[y]
      <3>1. 0 \in Zones \cup {0}
        OBVIOUS
      <3> QED BY <1>2, <1>5, <3>1, NetFacts, Zenon
    <2>2. AddsMissing' /\ OneSubnetPerZone'
      <3>1. CASE late
        BY <1>1, <3>1 DEF AddsMissing, OneSubnetPerZone
      <3>2. CASE ~late
        <4>1. v <= net.subnets[z] + (used'["external"] - used["external"])
          <5>1. net.subnets[z] \in Nat
            BY <1>2 DEF Nets
          <5> DEFINE a == used["external"]
                     b == used'["external"]
                     c == net.subnets[z]
          <5>2. a \in Nat /\ b \in Nat /\ b > a /\ c \in Nat /\ v <= c + 1
            BY <1>3, <1>5, <5>1
          <5> HIDE DEF a, b, c
          <5>3. v <= c + (b - a)
            BY <5>2
          <5> QED BY <5>3 DEF a, b, c
        <4>2. used'["external"] >= used["external"]
          BY <1>3
        <4> QED BY <1>1, <1>3, <1>5, <2>1, <3>2, <4>1, <4>2, ZoneChangeKeeps
      <3> QED BY <3>1, <3>2
    <2> QED BY <1>1, <1>4, <2>1, <2>2, EnvironmentKeeps
  <1>6. CASE net' = NoNet
    <2>1. /\ net' \in Nets /\ net'.id = 0 /\ \A z \in Zones : net'.subnets[z] = 0
      BY <1>6, NoNetFacts
    <2>2. pc = "addSubnet" => obj.spec[obj.plan] \in Zones
      BY CopyFacts, ZoneListFacts DEF IndInv, WorkerHolds, Objects
    <2>3. AddsMissing' /\ OneSubnetPerZone'
      BY <1>1, <1>3, <2>1, <2>2 DEF AddsMissing, OneSubnetPerZone
    <2> QED BY <1>1, <1>4, <2>1, <2>3, EnvironmentKeeps
  <1>7. ASSUME NEW z \in Zones, net' = [net EXCEPT !.subnets[z] = @ + 1]
        PROVE  IndInv'
    <2> DEFINE v == net.subnets[z] + 1
    <2>1. v \in Nat /\ v <= net.subnets[z] + 1 /\ net' = [net EXCEPT !.subnets[z] = v]
      BY <1>2, <1>7 DEF Nets
    <2> HIDE DEF v
    <2> QED BY <1>5, <2>1
  <1>8. ASSUME NEW z \in Present(net), net' = [net EXCEPT !.subnets[z] = @ - 1]
        PROVE  IndInv'
    <2> DEFINE v == net.subnets[z] - 1
    <2>1. z \in Zones /\ net.subnets[z] \in Nat /\ net.subnets[z] > 0
      BY <1>2 DEF Present, Nets
    <2>2. v \in Nat /\ v <= net.subnets[z] + 1
      BY <2>1
    <2>3. net' = [net EXCEPT !.subnets[z] = v]
      BY <1>2, <1>8, <2>1 DEF Nets
    <2> HIDE DEF v
    <2> QED BY <1>5, <2>1, <2>2, <2>3
  <1> QED BY <1>6, <1>7, <1>8 DEF External

\* The worker starts from the cached copy, at the head of the list.
LEMMA ReconcileIndInv == IndInv /\ Reconcile => IndInv'
  <1> SUFFICES ASSUME IndInv, Reconcile PROVE IndInv'
    OBVIOUS
  <1>1. /\ UNCHANGED <<phase, spec, status, seen, used, net, nextID, late>>
        /\ UNCHANGED <<object, used>>
        /\ obj' = Taken(1) /\ info' = NoInfo /\ pc = "idle" /\ seen.phase # "gone"
    BY DEF Reconcile, Call, object, hetzner
  <1>2. \/ pc' \in {"lookupByID", "lookupByName"} /\ seen.phase = "live"
        \/ pc' = "delete" /\ seen.phase = "deleting"
        \/ pc' = "release" /\ seen.phase = "deleting" /\ seen.status.id = 0
    BY <1>1 DEF Reconcile, Call, IndInv, TypeOK, Copies, Phases
  <1>3. /\ obj' \in Objects /\ obj'.status = seen.status /\ obj'.phase = seen.phase
        /\ obj'.plan > 0
    BY <1>1 DEF IndInv, TypeOK, Taken, Copies, Objects
  <1>4. ObjectTyped(ZoneLists, Statuses)' /\ PhasesAgree(DeleteCalls)'
    BY <1>1, <1>2, ObjectIsTyped, WorkerStepsTyped, WorkerStepAgrees DEF IndInv, DeleteCalls
  <1>5. RightMoment' /\ WorkerHolds' /\ AddsMissing' /\ pc' \in PCs
    BY <1>1, <1>2, <1>3 DEF RightMoment, WorkerHolds, AddsMissing, DeleteCalls, PCs
  <1>6. OneSubnetPerZone' /\ net' \in Nets /\ nextID' \in Nat \ {0}
    BY <1>1 DEF IndInv, TypeOK, OneSubnetPerZone
  <1> QED BY <1>1, <1>3, <1>4, <1>5, <1>6, WorkerKeeps

\* The loop is entered or resumed with a network just looked at.
LEMMA LoopKeeps ==
    ASSUME IndInv, UNCHANGED <<phase, spec, seen, used, net, nextID, late>>,
           pc \notin DeleteCalls, pc # "idle", ObjectTyped(ZoneLists, Statuses)',
           NEW o \in Objects, o.plan > 0, NEW n \in Infos, AddSubnets(o, n)
    PROVE  IndInv'
  <1>1. /\ obj' \in Objects /\ obj'.plan > 0
        /\ \/ pc' = "write" /\ info' = NoInfo
           \/ pc' = "check" /\ info' = n /\ obj'.plan \in 1..Len(obj'.spec)
    BY LoopFacts
  <1>2. pc' \in PCs \ (DeleteCalls \cup {"idle", "addSubnet"})
    BY <1>1 DEF PCs, DeleteCalls
  <1>3. used'["external"] >= used["external"]
    BY DEF IndInv, TypeOK, Disturbances
  <1> QED BY <1>1, <1>2, <1>3, CallKeeps

\* The lookups.
LEMMA LookupIndInv == IndInv /\ (LookupByID \/ LookupByName) => IndInv'
  <1> SUFFICES ASSUME IndInv, LookupByID \/ LookupByName PROVE IndInv'
    OBVIOUS
  <1>1. /\ pc \in {"lookupByID", "lookupByName"}
        /\ UNCHANGED <<object, used>>
        /\ UNCHANGED <<phase, spec, status, seen, used, net, nextID, late>>
    BY DEF LookupByID, LookupByName, hetzner, object
  <1>2. pc \notin DeleteCalls /\ pc # "idle"
    BY <1>1 DEF DeleteCalls
  <1>3. /\ obj \in Objects /\ obj.plan > 0 /\ ObjectTyped(ZoneLists, Statuses)'
        /\ toNetworkInfo(net) \in Infos /\ used'["external"] >= used["external"]
    BY <1>1, <1>2, ObjectIsTyped, WorkerStepsTyped, InfoFacts
    DEF IndInv, WorkerHolds, TypeOK, Disturbances
  <1>4. CASE AddSubnets(obj, toNetworkInfo(net))
    BY <1>1, <1>2, <1>3, <1>4, LoopKeeps
  <1>5. CASE /\ obj' = obj /\ info' = NoInfo
             /\ pc' = "lookupByName" \/ (pc' = "create" /\ net.id = 0)
    <2>1. pc' \in PCs \ (DeleteCalls \cup {"idle", "addSubnet"})
      BY <1>5 DEF PCs, DeleteCalls
    <2> QED BY <1>1, <1>2, <1>3, <1>5, <2>1, CallKeeps
  <1> QED BY <1>4, <1>5 DEF LookupByID, LookupByName, Call

\* The new network has no subnet.
LEMMA CreateIndInv == IndInv /\ CreateNetwork => IndInv'
  <1> SUFFICES ASSUME IndInv, CreateNetwork PROVE IndInv'
    OBVIOUS
  <1> DEFINE st == [id |-> nextID, zones |-> {}, ready |-> FALSE]
  <1>1. /\ pc = "create" /\ UNCHANGED <<object, used>>
        /\ UNCHANGED <<phase, spec, status, seen, used, late>>
        /\ nextID' = nextID + 1 /\ net' = [NoNet EXCEPT !.id = nextID]
        /\ pc' = "saveID" /\ obj' = [obj EXCEPT !.status = st] /\ info' = toNetworkInfo(net')
    BY DEF CreateNetwork, Call, object
  <1>2. nextID \in Nat \ {0} /\ nextID' \in Nat \ {0} /\ obj \in Objects /\ obj.plan > 0
    BY <1>1 DEF IndInv, TypeOK, WorkerHolds
  <1>3. st \in Statuses
    BY <1>2 DEF Statuses
  <1> HIDE DEF st
  <1>4. obj' \in Objects /\ obj'.plan > 0
    BY <1>1, <1>2, <1>3, CopyFacts
  <1>5. net' \in Nets /\ \A z \in Zones : net'.subnets[z] = 0
    BY <1>1, <1>2, NoNetFacts
  <1>6. info' \in Infos
    BY <1>1, <1>5, InfoFacts
  <1>7. AddsMissing' /\ OneSubnetPerZone'
    <2>1. used'["external"] \in Nat
      BY <1>1 DEF IndInv, TypeOK, Disturbances
    <2> QED BY <1>1, <1>5, <2>1 DEF AddsMissing, OneSubnetPerZone
  <1>8. /\ pc \notin DeleteCalls /\ pc # "idle" /\ pc' \in PCs \ (DeleteCalls \cup {"idle"})
        /\ ObjectTyped(ZoneLists, Statuses)'
    BY <1>1, ObjectIsTyped, WorkerStepsTyped DEF PCs, DeleteCalls, IndInv
  <1> QED BY <1>1, <1>2, <1>4, <1>5, <1>6, <1>7, <1>8, LiveKeeps

\* The new ID is written before anything else.
LEMMA SaveIDIndInv == IndInv /\ SaveID => IndInv'
  <1> SUFFICES ASSUME IndInv, SaveID PROVE IndInv'
    OBVIOUS
  <1>1. /\ pc = "saveID" /\ UNCHANGED <<phase, spec, seen, used, net, nextID, late>>
        /\ status' = obj.status /\ AddSubnets(obj, info)
    BY DEF SaveID, hetzner
  <1>2. obj \in Objects /\ obj.plan > 0 /\ info \in Infos
    BY <1>1 DEF IndInv, WorkerHolds
  <1>3. ObjectTyped(ZoneLists, Statuses)'
    <2>1. obj.status \in Statuses
      BY <1>2 DEF Objects
    <2> QED BY <1>1, <2>1, ObjectIsTyped DEF IndInv, ObjectTyped
  <1>4. pc \notin DeleteCalls /\ pc # "idle"
    BY <1>1 DEF DeleteCalls
  <1> QED BY <1>1, <1>2, <1>3, <1>4, LoopKeeps

\* The zone the worker holds is a zone.
LEMMA ZoneHeld ==
    ASSUME IndInv, pc \in {"check", "addSubnet"}
    PROVE  obj.spec[obj.plan] \in Zones
  BY CopyFacts, ZoneListFacts DEF IndInv, WorkerHolds, Objects

\* AddNetworkCloudSubnet looks before it adds.
LEMMA CheckSubnetIndInv == IndInv /\ CheckSubnet => IndInv'
  <1> SUFFICES ASSUME IndInv, CheckSubnet PROVE IndInv'
    OBVIOUS
  <1>1. /\ pc = "check" /\ UNCHANGED <<object, used>>
        /\ UNCHANGED <<phase, spec, status, seen, used, net, nextID, late>>
    BY DEF CheckSubnet, hetzner, object
  <1>2. /\ obj \in Objects /\ obj.plan > 0 /\ info \in Infos /\ obj.plan \in 1..Len(obj.spec)
        /\ pc \notin DeleteCalls /\ pc # "idle"
    BY <1>1 DEF IndInv, WorkerHolds, DeleteCalls
  <1>3. /\ ObjectTyped(ZoneLists, Statuses)' /\ used'["external"] >= used["external"]
        /\ used["external"] \in Nat /\ net \in Nets /\ nextID \in Nat \ {0}
        /\ used' \in [Disturbances -> Nat]
    BY <1>1, ObjectIsTyped, WorkerStepsTyped DEF IndInv, TypeOK, Disturbances
  <1>4. CASE Fail(obj)
    BY <1>1, <1>2, <1>3, <1>4, FailKeeps
  <1>5. CASE Call("refresh", obj, info)
    <2>1. pc' = "refresh" /\ obj' = obj /\ info' = info
      BY <1>5 DEF Call
    <2>2. pc' \in PCs \ (DeleteCalls \cup {"idle", "addSubnet"})
      BY <2>1 DEF PCs, DeleteCalls
    <2> QED BY <1>1, <1>2, <1>3, <2>1, <2>2, CallKeeps
  <1>6. CASE obj.spec[obj.plan] \notin Present(net) /\ Call("addSubnet", obj, info)
    <2>1. pc' = "addSubnet" /\ obj' = obj /\ info' = info
      BY <1>6 DEF Call
    <2>2. pc' \in PCs \ (DeleteCalls \cup {"idle"})
      BY <2>1 DEF PCs, DeleteCalls
    <2>3. obj.spec[obj.plan] \in Zones
      BY <1>1, ZoneHeld
    <2>4. net.subnets[obj.spec[obj.plan]] = 0
      BY <1>3, <1>6, <2>3 DEF Present, Nets
    <2>5. AddsMissing'
      BY <1>1, <1>3, <2>1, <2>4 DEF AddsMissing
    <2>6. OneSubnetPerZone'
      BY <1>1, <1>3, BoundKept
    <2> QED BY <1>1, <1>2, <1>3, <2>1, <2>2, <2>5, <2>6, LiveKeeps
  <1> QED BY <1>4, <1>5, <1>6 DEF CheckSubnet

\* The zone that gets a subnet had at most those that others added.
LEMMA AddSubnetIndInv == IndInv /\ AddSubnet => IndInv'
  <1> SUFFICES ASSUME IndInv, AddSubnet PROVE IndInv'
    OBVIOUS
  <1>1. /\ pc = "addSubnet" /\ UNCHANGED <<object, used>>
        /\ UNCHANGED <<phase, spec, status, seen, used, nextID, late>>
    BY DEF AddSubnet, object
  <1>2. /\ obj \in Objects /\ obj.plan > 0 /\ info \in Infos /\ obj.plan \in 1..Len(obj.spec)
        /\ pc \notin DeleteCalls /\ pc # "idle"
    BY <1>1 DEF IndInv, WorkerHolds, DeleteCalls
  <1>3. /\ ObjectTyped(ZoneLists, Statuses)' /\ used'["external"] >= used["external"]
        /\ used["external"] \in Nat /\ net \in Nets /\ nextID \in Nat \ {0}
        /\ used' \in [Disturbances -> Nat]
    BY <1>1, ObjectIsTyped, WorkerStepsTyped DEF IndInv, TypeOK, Disturbances
  <1> DEFINE z == obj.spec[obj.plan]
             v == net.subnets[z] + IF late THEN 0 ELSE 1
  <1>4. z \in Zones
    BY <1>1, ZoneHeld
  <1>5. net.subnets[z] \in Nat
    BY <1>3, <1>4 DEF Nets
  <1>6. CASE Fail(obj) /\ UNCHANGED net
    BY <1>1, <1>2, <1>3, <1>6, FailKeeps
  <1>7. CASE /\ net' = [net EXCEPT !.adding = z, !.subnets[z] = @ + IF late THEN 0 ELSE 1]
             /\ Call("refresh", obj, info)
    <2>1. pc' = "refresh" /\ obj' = obj /\ info' = info
      BY <1>7 DEF Call
    <2>2. pc' \in PCs \ (DeleteCalls \cup {"idle"})
      BY <2>1 DEF PCs, DeleteCalls
    <2>3. net' = [net EXCEPT !.adding = z, !.subnets[z] = v]
      BY <1>7, Zenon
    <2>4. v \in Nat /\ (~late => v = net.subnets[z] + 1)
      BY <1>5
    <2>5. ~late => net.subnets[z] <= used["external"]
      BY <1>1 DEF IndInv, AddsMissing
    <2> HIDE DEF z, v
    <2>6. /\ net' \in Nets /\ net'.subnets[z] = v
          /\ \A y \in Zones : y # z => net'.subnets[y] = net.subnets[y]
      <3>1. z \in Zones \cup {0}
        BY <1>4
      <3> QED BY <1>3, <1>4, <2>3, <2>4, <3>1, NetFacts, Zenon
    <2>7. OneSubnetPerZone'
      <3> SUFFICES ASSUME ~late, NEW y \in Zones
                   PROVE  net'.subnets[y] <= 1 + used["external"]
        BY <1>1 DEF OneSubnetPerZone
      <3>1. CASE y = z
        BY <1>3, <1>5, <2>4, <2>5, <2>6, <3>1
      <3>2. CASE y # z
        BY <2>6, <3>2 DEF IndInv, OneSubnetPerZone
      <3> QED BY <3>1, <3>2
    <2>8. AddsMissing'
      BY <2>1 DEF AddsMissing
    <2> QED BY <1>1, <1>2, <1>3, <2>1, <2>2, <2>6, <2>7, <2>8, LiveKeeps
  <1> QED BY <1>6, <1>7 DEF AddSubnet

\* The look after an addition, and on to the next zone.
LEMMA RefreshIndInv == IndInv /\ Refresh => IndInv'
  <1> SUFFICES ASSUME IndInv, Refresh PROVE IndInv'
    OBVIOUS
  <1>1. /\ pc = "refresh" /\ UNCHANGED <<object, used>>
        /\ UNCHANGED <<phase, spec, status, seen, used, net, nextID, late>>
    BY DEF Refresh, hetzner, object
  <1>2. /\ obj \in Objects /\ obj.plan > 0 /\ pc \notin DeleteCalls /\ pc # "idle"
        /\ ObjectTyped(ZoneLists, Statuses)' /\ used'["external"] >= used["external"]
        /\ toNetworkInfo(net) \in Infos
    BY <1>1, ObjectIsTyped, WorkerStepsTyped, InfoFacts
    DEF IndInv, WorkerHolds, DeleteCalls, TypeOK, Disturbances
  <1>3. CASE Fail(obj)
    BY <1>1, <1>2, <1>3, FailKeeps
  <1>4. CASE AddSubnets([obj EXCEPT !.plan = @ + 1], toNetworkInfo(net))
    <2> DEFINE o == [obj EXCEPT !.plan = @ + 1]
    <2>1. o \in Objects /\ o.plan > 0
      BY <1>2 DEF Objects
    <2>2. AddSubnets(o, toNetworkInfo(net))
      BY <1>4
    <2> HIDE DEF o
    <2> QED BY <1>1, <1>2, <2>1, <2>2, LoopKeeps
  <1> QED BY <1>3, <1>4 DEF Refresh

\* After the call the network of the worker's copy is gone, unless it is
\* locked: then the worker stops.
LEMMA DeleteIndInv == IndInv /\ DeleteNetwork => IndInv'
  <1> SUFFICES ASSUME IndInv, DeleteNetwork PROVE IndInv'
    OBVIOUS
  <1>1. /\ pc = "delete" /\ UNCHANGED <<object, used>>
        /\ UNCHANGED <<phase, spec, status, seen, used, nextID, late>>
    BY DEF DeleteNetwork, object
  <1>2. /\ obj \in Objects /\ obj.plan > 0 /\ net \in Nets /\ nextID \in Nat \ {0}
        /\ obj.phase = "deleting" /\ used["external"] \in Nat
        /\ used'["external"] >= used["external"] /\ used \in [Disturbances -> Nat]
    BY <1>1 DEF IndInv, WorkerHolds, TypeOK, DeleteCalls, Disturbances
  <1>3. ObjectTyped(ZoneLists, Statuses)'
    BY <1>1, ObjectIsTyped, WorkerStepsTyped DEF IndInv
  <1>4. CASE Stop /\ UNCHANGED net
    <2>1. pc' = "idle" /\ pc' \notin DeleteCalls
      BY <1>4 DEF Stop, DeleteCalls
    <2>2. PhasesAgree(DeleteCalls)'
      BY <1>1, <2>1, WorkerStepAgrees DEF IndInv
    <2> QED BY <1>1, <1>2, <1>3, <1>4, <2>2, StopKeeps
  <1>5. CASE /\ net' = IF net.id = obj.status.id THEN NoNet ELSE net
             /\ Call("release", obj, NoInfo)
    <2>1. pc' = "release" /\ obj' = obj /\ info' = NoInfo
      BY <1>5 DEF Call
    <2>2. pc \in DeleteCalls /\ pc' \in DeleteCalls /\ pc' \in PCs
      BY <1>1, <2>1 DEF DeleteCalls, PCs
    <2>3. PhasesAgree(DeleteCalls)'
      BY <1>1, <2>2, WorkerStepAgrees DEF IndInv
    <2>4. net' \in Nets /\ (obj.status.id = 0 \/ net'.id # obj.status.id)
      BY <1>2, <1>5, NoNetFacts
    <2>5. RightMoment' /\ WorkerHolds' /\ AddsMissing'
      BY <1>2, <2>1, <2>4 DEF RightMoment, WorkerHolds, AddsMissing, DeleteCalls
    <2>6. OneSubnetPerZone'
      <3>1. CASE net' = net
        BY <1>1, <1>2, <3>1, BoundKept
      <3>2. CASE \A z \in Zones : net'.subnets[z] = 0
        BY <1>1, <1>2, <3>2 DEF OneSubnetPerZone
      <3> QED BY <1>2, <1>5, <3>1, <3>2, NoNetFacts
    <2> QED BY <1>1, <1>2, <1>3, <2>1, <2>2, <2>3, <2>4, <2>5, <2>6, WorkerKeeps
  <1> QED BY <1>4, <1>5 DEF DeleteNetwork

\* The status write, the release, a crash.
LEMMA EndsIndInv ==
    ASSUME IndInv, WriteStatus \/ Release \/ Crash, UNCHANGED hetzner
    PROVE  IndInv'
  <1>1. /\ Stop /\ UNCHANGED <<spec, seen, net, nextID, late>>
        /\ pc # "idle" /\ obj \in Objects
    BY DEF WriteStatus, Release, Crash, object, hetzner, IndInv, WorkerHolds
  <1>2. used'["external"] >= used["external"]
    <2>1. used \in [Disturbances -> Nat] /\ {"external", "error", "crash"} \subseteq Disturbances
      BY DEF IndInv, TypeOK, Disturbances
    <2>2. used' = used \/ Spend("error") \/ Spend("crash")
      BY DEF WriteStatus, Release, Crash
    <2> QED BY <2>1, <2>2, SpendFacts
  <1>3. ObjectTyped(ZoneLists, Statuses)'
    <2>1. obj.status \in Statuses
      BY <1>1 DEF Objects
    <2> QED BY <2>1, ObjectIsTyped, WorkerStepsTyped DEF IndInv
  <1>4. PhasesAgree(DeleteCalls)'
    <2>1. pc' = "idle" /\ "release" \in DeleteCalls /\ "idle" \notin DeleteCalls
      BY <1>1 DEF Stop, DeleteCalls
    <2>2. CASE WriteStatus \/ Crash
      BY <2>1, <2>2, WorkerStepAgrees DEF IndInv, WriteStatus, Crash, object
    <2>3. CASE Release
      BY <2>1, <2>3, ReleaseAgrees DEF IndInv
    <2> QED BY <2>2, <2>3
  <1> QED BY <1>1, <1>2, <1>3, <1>4, StopKeeps

\* A remote call fails.
LEMMA CallFailsIndInv ==
    ASSUME IndInv, UNCHANGED hetzner,
           CallFails({"lookupByID", "lookupByName", "create", "saveID", "check",
                      "addSubnet", "refresh"},
                     {"delete", "release"})
    PROVE  IndInv'
  <1>1. /\ ObjectTyped(ZoneLists, Statuses)' /\ UNCHANGED <<phase, spec, status, seen>>
        /\ \/ /\ pc \in {"lookupByID", "lookupByName", "create", "saveID", "check",
                         "addSubnet", "refresh"}
              /\ Fail(obj)
           \/ pc \in {"delete", "release"} /\ Stop
    BY ObjectIsTyped, CallFailsTyped DEF IndInv, object
  <1>2. UNCHANGED <<net, nextID, late>> /\ used'["external"] >= used["external"]
    <2>1. used \in [Disturbances -> Nat] /\ {"external", "error"} \subseteq Disturbances
      BY DEF IndInv, TypeOK, Disturbances
    <2> QED BY <2>1, SpendFacts DEF hetzner, CallFails
  <1>3. CASE pc \notin {"idle", "delete", "release"} /\ Fail(obj)
    BY <1>1, <1>2, <1>3, FailKeeps DEF DeleteCalls
  <1>4. CASE Stop
    <2>1. pc' = "idle" /\ "idle" \notin DeleteCalls
      BY <1>4 DEF Stop, DeleteCalls
    <2>2. PhasesAgree(DeleteCalls)'
      BY <1>1, <2>1, WorkerStepAgrees DEF IndInv
    <2> QED BY <1>1, <1>2, <1>4, <2>2, StopKeeps
  <1> QED BY <1>1, <1>3, <1>4

\* Every step of the specification keeps the invariant.
LEMMA NextIndInv == IndInv /\ [Next]_vars => IndInv'
  <1> SUFFICES ASSUME IndInv, [Next]_vars PROVE IndInv'
    OBVIOUS
  <1>1. CASE UNCHANGED vars
    BY <1>1 DEF vars, IndInv, TypeOK, PhasesAgree, WorkerHolds, RightMoment, AddsMissing,
                OneSubnetPerZone
  <1>2. CASE Next
    BY <1>2, ObjectStepsIndInv, ProgressIndInv, ExternalIndInv, ReconcileIndInv, LookupIndInv,
       CreateIndInv, SaveIDIndInv, CheckSubnetIndInv, AddSubnetIndInv, RefreshIndInv,
       DeleteIndInv, EndsIndInv, CallFailsIndInv
    DEF Next, Work
  <1> QED BY <1>1, <1>2

\* The inductive invariant holds in every reachable state.
THEOREM NetworkInvariant == Spec => []IndInv
  BY InitIndInv, NextIndInv, PTL DEF Spec

\* Every variable of the network controller keeps its type.
THEOREM NetworkTypes == Spec => []TypeOK
  <1>1. IndInv => TypeOK
    BY DEF IndInv
  <1> QED BY <1>1, NetworkInvariant, PTL

\* Where Hetzner shows a subnet as soon as it accepts it, the loop of
\* reconcileHCloudNetwork never gives a zone a second subnet: whatever a zone
\* has beyond one was added by others.
THEOREM OneSubnet == Spec => []OneSubnetPerZone
  <1>1. IndInv => OneSubnetPerZone
    BY DEF IndInv
  <1> QED BY <1>1, NetworkInvariant, PTL

-----------------------------------------------------------------------------
(* Deletion.                                                               *)

\* Only Release lets the object go, and it writes over the version the worker
\* was shown: the status it leaves is the one whose network was deleted.
LEMMA GoesAfterItsNetwork ==
    ASSUME IndInv, [Next]_vars
    PROVE  phase' = "gone" /\ phase # "gone" => status.id = 0 \/ net.id # status.id
  <1> SUFFICES ASSUME phase' = "gone", phase # "gone"
               PROVE  status.id = 0 \/ net.id # status.id
    OBVIOUS
  <1>1. Release
    BY DEF vars, Next, Work, EditZones, Edit, Progress, External, Reconcile, LookupByID,
           LookupByName, CreateNetwork, SaveID, CheckSubnet, AddSubnet, Refresh, DeleteNetwork,
           WriteStatus, DeleteObject, CacheSync, Crash, CallFails, object
  <1>2. /\ [phase |-> obj.phase, spec |-> obj.spec, status |-> obj.status] = Current
        /\ pc = "release"
    BY <1>1 DEF Release
  <1>3. status = obj.status
    BY <1>2 DEF Current
  <1> QED BY <1>2, <1>3 DEF IndInv, RightMoment

\* An HCloudNetwork is let go only when the network its status names is gone.
THEOREM NetworkRemovalSafe == Spec => NetworkGoesFirst
  BY NetworkInvariant, GoesAfterItsNetwork, PTL DEF Spec, NetworkGoesFirst

-----------------------------------------------------------------------------
(* The IDs.                                                                *)

\* The loop over spec.networkZones keeps the ID of the copy or takes the one of
\* the network it works on.
LEMMA LoopIDs ==
    ASSUME NEW o \in Objects, NEW n \in Infos, AddSubnets(o, n)
    PROVE  obj'.status.id \in {o.status.id, n.id} /\ pc' \in {"write", "check"}
  BY DEF AddSubnets, Finish, Done, Call, Objects

LEMMA FailIDs ==
    ASSUME NEW o \in Objects, Fail(o)
    PROVE  obj'.status.id = o.status.id /\ pc' = "write"
  BY DEF Fail, Call, Objects, Statuses

\* The IDs are numbers.
LEMMA IDTypes ==
    ASSUME IndInv
    PROVE  /\ nextID \in Nat \ {0} /\ net.id \in Nat
           /\ status.id \in Nat /\ seen.status.id \in Nat
           /\ pc # "idle" => obj.status.id \in Nat
  BY DEF IndInv, TypeOK, WorkerHolds, Nets, Statuses, Copies, Objects

\* A step of the worker.
LEMMA WorkerIssued ==
    ASSUME IndInv, IDsIssued, seen' = seen,
           status' = status \/ (pc # "idle" /\ status' = obj.status),
           nextID' \in {nextID, nextID + 1}, net'.id < nextID',
           pc' # "idle" => obj'.status.id < nextID',
           pc' = "saveID" => info'.id < nextID'
    PROVE  IDsIssued'
  <1>1. status.id < nextID' /\ seen.status.id < nextID'
    BY IDTypes DEF IDsIssued
  <1>2. pc # "idle" => obj.status.id < nextID'
    BY IDTypes DEF IDsIssued
  <1> QED BY <1>1, <1>2 DEF IDsIssued

\* Users, the cache, Hetzner and others.
LEMMA EnvironmentIssued ==
    ASSUME IndInv, IDsIssued,
           \/ EditZones \/ Progress \/ External
           \/ (DeleteObject \/ CacheSync) /\ UNCHANGED hetzner
    PROVE  /\ UNCHANGED <<status, nextID>> /\ net'.id \in {net.id, 0}
           /\ IDsIssued'
  <1>1. UNCHANGED <<pc, obj, info, status, nextID>> /\ seen' \in {seen, Current}
    BY DEF EditZones, Edit, Progress, External, DeleteObject, CacheSync, worker, object, hetzner
  <1>2. net'.id \in {net.id, 0}
    <2>1. net \in Nets
      BY DEF IndInv, TypeOK
    <2> QED BY <2>1, NoNetFacts
        DEF EditZones, Progress, External, hetzner, Nets
  <1>3. net'.id < nextID
    BY <1>2, IDTypes DEF IDsIssued
  <1>4. seen'.status.id < nextID
    BY <1>1 DEF Current, IDsIssued
  <1> QED BY <1>1, <1>2, <1>3, <1>4 DEF IDsIssued

\* The worker starts, stops, or a call fails.
LEMMA FrameIssued ==
    ASSUME IndInv, IDsIssued,
           \/ Reconcile
           \/ /\ \/ Crash \/ WriteStatus \/ Release
                 \/ CallFails({"lookupByID", "lookupByName", "create", "saveID", "check",
                               "addSubnet", "refresh"},
                              {"delete", "release"})
              /\ UNCHANGED hetzner
    PROVE  IDsIssued'
  <1>1. /\ seen' = seen /\ UNCHANGED <<net, nextID>> /\ net'.id < nextID'
        /\ status' = status \/ (pc # "idle" /\ status' = obj.status)
    BY DEF Reconcile, Crash, WriteStatus, Release, CallFails, object, hetzner, IDsIssued
  <1>2. CASE Reconcile
    <2>1. obj'.status = seen.status /\ pc' # "saveID"
      BY <1>2 DEF Reconcile, Call, Taken
    <2> QED BY <1>1, <2>1, WorkerIssued DEF IDsIssued
  <1>3. CASE Stop
    BY <1>1, <1>3, WorkerIssued DEF Stop
  <1>4. CASE pc # "idle" /\ Fail(obj)
    <2>1. obj \in Objects /\ obj.status.id < nextID
      BY <1>4 DEF IndInv, WorkerHolds, IDsIssued
    <2> QED BY <1>1, <1>4, <2>1, FailIDs, WorkerIssued
  <1> QED BY <1>2, <1>3, <1>4 DEF Crash, WriteStatus, Release, CallFails

\* The remote calls: only CreateNetwork brings a network about, and only
\* DeleteNetwork does away with it.
LEMMA CallsIssued ==
    ASSUME IndInv, IDsIssued,
           \/ LookupByID \/ LookupByName \/ CreateNetwork \/ SaveID
           \/ CheckSubnet \/ AddSubnet \/ Refresh \/ DeleteNetwork
    PROVE  /\ \/ net'.id \in {net.id, 0} /\ nextID' = nextID
              \/ CreateNetwork /\ net'.id = nextID /\ nextID' = nextID + 1
           /\ IDsIssued'
  <1>1. /\ seen' = seen /\ pc # "idle" /\ obj \in Objects /\ obj.status.id < nextID
        /\ obj.status.id \in Nat /\ net.id < nextID
        /\ status' = status \/ status' = obj.status
    BY IDTypes
    DEF LookupByID, LookupByName, CreateNetwork, SaveID, CheckSubnet, AddSubnet, Refresh,
        DeleteNetwork, object, IndInv, WorkerHolds, IDsIssued
  <1>2. /\ net \in Nets /\ nextID \in Nat \ {0} /\ net.id \in Nat
        /\ toNetworkInfo(net) \in Infos /\ toNetworkInfo(net).id < nextID
    BY <1>1, InfoFacts, IDTypes DEF IndInv, TypeOK
  <1>3. ASSUME net'.id \in {net.id, 0}, nextID' = nextID, pc' # "saveID",
               pc' # "idle" => obj'.status.id < nextID
        PROVE  IDsIssued'
    <2>1. net'.id < nextID
      BY <1>1, <1>2, <1>3
    <2> QED BY <1>1, <1>3, <2>1, WorkerIssued
  <1>4. CASE LookupByID \/ LookupByName \/ SaveID \/ CheckSubnet \/ Refresh
    <2>1. net'.id \in {net.id, 0} /\ nextID' = nextID
      BY <1>4 DEF LookupByID, LookupByName, SaveID, CheckSubnet, Refresh, hetzner
    <2>2. ASSUME NEW o \in Objects, NEW n \in Infos, AddSubnets(o, n),
                 o.status.id = obj.status.id, n.id < nextID
          PROVE  IDsIssued'
      BY <1>1, <1>3, <2>1, <2>2, LoopIDs
    <2>3. CASE Fail(obj)
      BY <1>1, <1>3, <2>1, <2>3, FailIDs
    <2>4. CASE obj' = obj /\ pc' # "saveID"
      BY <1>1, <1>3, <2>1, <2>4
    <2>5. CASE SaveID
      <3>1. info \in Infos /\ info.id < nextID /\ AddSubnets(obj, info)
        BY <2>5 DEF SaveID, IndInv, WorkerHolds, IDsIssued
      <3> QED BY <1>1, <2>1, <2>2, <3>1
    <2>6. CASE Refresh /\ ~Fail(obj)
      <3> DEFINE o == [obj EXCEPT !.plan = @ + 1]
      <3>1. o \in Objects /\ o.status.id = obj.status.id
        BY <1>1 DEF Objects
      <3>2. AddSubnets(o, toNetworkInfo(net))
        BY <2>6 DEF Refresh
      <3> HIDE DEF o
      <3> QED BY <1>2, <2>1, <2>2, <3>1, <3>2
    <2>7. CASE LookupByID \/ LookupByName
      BY <1>1, <1>2, <2>1, <2>2, <2>4, <2>7 DEF LookupByID, LookupByName, Call
    <2>8. CASE CheckSubnet
      BY <2>1, <2>3, <2>4, <2>8 DEF CheckSubnet, Call
    <2> QED BY <1>4, <2>1, <2>3, <2>5, <2>6, <2>7, <2>8
  <1>5. CASE AddSubnet
    <2>1. net'.id \in {net.id, 0} /\ nextID' = nextID
      BY <1>2, <1>5 DEF AddSubnet, Nets
    <2>2. CASE Fail(obj)
      BY <1>1, <1>3, <2>1, <2>2, FailIDs
    <2>3. CASE Call("refresh", obj, info)
      BY <1>1, <1>3, <2>1, <2>3 DEF Call
    <2> QED BY <1>5, <2>1, <2>2, <2>3 DEF AddSubnet
  <1>6. CASE DeleteNetwork
    <2>1. net'.id \in {net.id, 0} /\ nextID' = nextID
      BY <1>2, <1>6, NoNetFacts DEF DeleteNetwork
    <2>2. pc' = "idle" \/ (pc' = "release" /\ obj' = obj)
      BY <1>6 DEF DeleteNetwork, Stop, Call
    <2> QED BY <1>1, <1>3, <2>1, <2>2
  <1>7. CASE CreateNetwork
    <2>1. net' = [NoNet EXCEPT !.id = nextID] /\ nextID' = nextID + 1
      BY <1>7 DEF CreateNetwork
    <2>2. net' \in Nets /\ net'.id = nextID
      BY <1>2, <2>1, NoNetFacts
    <2>3. obj'.status.id = nextID /\ info' = toNetworkInfo(net')
      BY <1>1, <1>7 DEF CreateNetwork, Call, Objects
    <2>4. net'.id < nextID' /\ obj'.status.id < nextID' /\ info'.id < nextID'
      <3>1. info'.id = nextID
        BY <2>2, <2>3, InfoFacts
      <3> QED BY <1>2, <2>1, <2>2, <2>3, <3>1
    <2>5. IDsIssued'
      BY <1>1, <2>1, <2>4, WorkerIssued
    <2> QED BY <1>7, <2>1, <2>2, <2>5
  <1> QED BY <1>4, <1>5, <1>6, <1>7

\* Nobody names a network that Hetzner has not given out.
THEOREM NetworkIDs == Spec => []IDsIssued
  <1>1. Init => IDsIssued
    BY DEF Init, WorkerInit, IDsIssued, NoNet, NoStatus, Current
  <1>2. IndInv /\ IDsIssued /\ [Next]_vars => IDsIssued'
    <2> SUFFICES ASSUME IndInv, IDsIssued, [Next]_vars PROVE IDsIssued'
      OBVIOUS
    <2>1. CASE UNCHANGED vars
      BY <2>1 DEF vars, IDsIssued
    <2>2. CASE Next
      BY <2>2, EnvironmentIssued, FrameIssued, CallsIssued DEF Next, Work
    <2> QED BY <2>1, <2>2
  <1> QED BY <1>1, <1>2, NetworkInvariant, PTL DEF Spec

-----------------------------------------------------------------------------
(* The steps of ManagedResource.                                           *)

\* The network stays or goes: nothing happens, or Destroy.
LEMMA StaysOrGoes ==
    ASSUME UNCHANGED <<phase, nextID>>, status'.id = status.id, net'.id \in {net.id, 0}
    PROVE  M!Next
  <1>1. UNCHANGED <<ManagedPhase, Recorded, Issued>>
    BY DEF ManagedPhase, Recorded, Issued
  <1>2. Held' \subseteq Held
    BY DEF Held
  <1> QED BY <1>1, <1>2 DEF M!Next, M!Destroy

\* A network is created: Provision.
LEMMA Provisions ==
    ASSUME UNCHANGED <<phase, status>>, phase \in Phases \ {"gone"},
           nextID \in Nat \ {0}, nextID' = nextID + 1, net.id = 0, net'.id = nextID
    PROVE  M!Next
  <1>1. ManagedPhase \in {"guarded", "terminating"} /\ UNCHANGED <<ManagedPhase, Recorded>>
    BY DEF ManagedPhase, Recorded, Phases
  <1>2. Held = {} /\ Held' = {nextID}
    BY DEF Held
  <1>3. Issued' = Issued \cup {nextID} /\ nextID \notin Issued
    BY DEF Issued
  <1> QED BY <1>1, <1>2, <1>3 DEF M!Next, M!Provision

\* The status takes up an ID: Record.
LEMMA Records ==
    ASSUME UNCHANGED <<phase, net, nextID>>, phase \in Phases \ {"gone"},
           nextID \in Nat \ {0}, status'.id \in Nat, status'.id < nextID
    PROVE  M!Next
  <1>1. ManagedPhase \in {"guarded", "terminating"} /\ UNCHANGED ManagedPhase
    BY DEF ManagedPhase, Phases
  <1>2. UNCHANGED <<Held, Issued>>
    BY DEF Held, Issued
  <1>3. Recorded' \in Issued \cup {0}
    BY DEF Recorded, Issued
  <1> QED BY <1>1, <1>2, <1>3 DEF M!Next, M!Record

\* The object is deleted: Terminate.
LEMMA Terminates ==
    ASSUME UNCHANGED <<status, net, nextID>>, phase = "live", phase' = "deleting"
    PROVE  M!Next
  <1>1. ManagedPhase = "guarded" /\ ManagedPhase' = "terminating"
    BY DEF ManagedPhase
  <1>2. UNCHANGED <<Recorded, Held, Issued>>
    BY DEF Recorded, Held, Issued
  <1> QED BY <1>1, <1>2 DEF M!Next, M!Terminate

\* The object goes: Release.
LEMMA Releases ==
    ASSUME UNCHANGED <<status, net, nextID>>, phase = "deleting", phase' = "gone",
           status.id = 0 \/ net.id # status.id
    PROVE  M!Next
  <1>1. ManagedPhase = "terminating" /\ ManagedPhase' = "absent"
    BY DEF ManagedPhase
  <1>2. UNCHANGED <<Held, Issued>> /\ Recorded' = 0 /\ Recorded \notin Held
    BY DEF Recorded, Held, Issued
  <1> QED BY <1>1, <1>2 DEF M!Next, M!Release

-----------------------------------------------------------------------------
(* Every step of the controller is one of them.                            *)

\* The status writes, for an object that still exists, and the release.
LEMMA WritesManaged ==
    ASSUME IndInv, IDsIssued, (WriteStatus /\ UNCHANGED hetzner) \/ SaveID
    PROVE  M!Next
  <1>1. UNCHANGED <<phase, net, nextID>> /\ (status' = obj.status \/ status' = status)
    BY DEF WriteStatus, SaveID, hetzner
  <1>2. /\ phase \in Phases \ {"gone"} /\ nextID \in Nat \ {0}
        /\ obj.status.id \in Nat /\ obj.status.id < nextID
    BY IDTypes DEF WriteStatus, SaveID, IndInv, TypeOK, PhasesAgree, DeleteCalls, IDsIssued
  <1>3. CASE status' = status
    BY <1>1, <1>3, StaysOrGoes
  <1>4. CASE status' = obj.status
    BY <1>1, <1>2, <1>4, Records
  <1> QED BY <1>1, <1>3, <1>4

LEMMA ReleaseManaged ==
    ASSUME IndInv, Release, UNCHANGED hetzner
    PROVE  M!Next
  <1>1. UNCHANGED <<status, net, nextID>>
    BY DEF Release, hetzner
  <1>2. CASE [phase |-> obj.phase, spec |-> obj.spec, status |-> obj.status] = Current
    <2>1. /\ phase' = "gone" /\ phase = obj.phase /\ obj.status = status
          /\ obj.phase = "deleting" /\ (obj.status.id = 0 \/ net.id # obj.status.id)
      BY <1>2 DEF Release, Current, IndInv, WorkerHolds, DeleteCalls, RightMoment
    <2> QED BY <1>1, <2>1, Releases
  <1>3. CASE [phase |-> obj.phase, spec |-> obj.spec, status |-> obj.status] # Current
    BY <1>1, <1>3, StaysOrGoes DEF Release
  <1> QED BY <1>2, <1>3

\* What happens to the object and to the network without the worker, and what
\* the worker does without a call.
LEMMA OthersManaged ==
    ASSUME IndInv, IDsIssued,
           \/ EditZones \/ Progress \/ External \/ Reconcile
           \/ /\ \/ DeleteObject \/ CacheSync \/ Crash
                 \/ CallFails({"lookupByID", "lookupByName", "create", "saveID", "check",
                               "addSubnet", "refresh"},
                              {"delete", "release"})
              /\ UNCHANGED hetzner
    PROVE  M!Next
  <1>1. CASE DeleteObject /\ UNCHANGED hetzner
    BY <1>1, Terminates DEF DeleteObject, hetzner
  <1>2. CASE EditZones \/ Progress \/ External \/ (CacheSync /\ UNCHANGED hetzner)
    <2>1. phase' = phase
      BY <1>2 DEF EditZones, Edit, Progress, External, CacheSync, object
    <2> QED BY <1>2, <2>1, EnvironmentIssued, StaysOrGoes
  <1>3. CASE /\ UNCHANGED hetzner
             /\ \/ Reconcile \/ Crash
                \/ CallFails({"lookupByID", "lookupByName", "create", "saveID", "check",
                              "addSubnet", "refresh"},
                             {"delete", "release"})
    BY <1>3, StaysOrGoes DEF Reconcile, Crash, CallFails, object, hetzner
  <1> QED BY <1>1, <1>2, <1>3 DEF Reconcile

\* The worker's calls.
LEMMA CallsManaged ==
    ASSUME IndInv, IDsIssued,
           \/ LookupByID \/ LookupByName \/ CreateNetwork
           \/ CheckSubnet \/ AddSubnet \/ Refresh \/ DeleteNetwork
    PROVE  M!Next
  <1>1. UNCHANGED <<phase, status>>
    BY DEF LookupByID, LookupByName, CreateNetwork, CheckSubnet, AddSubnet, Refresh,
           DeleteNetwork, object
  <1>2. CASE net'.id \in {net.id, 0} /\ nextID' = nextID
    BY <1>1, <1>2, StaysOrGoes
  <1>3. CASE CreateNetwork /\ net'.id = nextID /\ nextID' = nextID + 1
    <2>1. net.id = 0 /\ phase \in Phases \ {"gone"} /\ nextID \in Nat \ {0}
      BY <1>3 DEF CreateNetwork, IndInv, TypeOK, RightMoment, PhasesAgree, DeleteCalls
    <2> QED BY <1>1, <1>3, <2>1, Provisions
  <1> QED BY <1>2, <1>3, CallsIssued

\* A network is created only where there is none, under a new ID and for an
\* object that still exists; the status names only IDs that were issued; the
\* object goes only after the network its status names: every step is one of
\* ManagedResource.
THEOREM NetworkManaged == Spec => KeepsManagedResource
  <1>1. IndInv /\ IDsIssued /\ [Next]_vars => [M!Next]_(M!vars)
    <2> SUFFICES ASSUME IndInv, IDsIssued, [Next]_vars PROVE [M!Next]_(M!vars)
      OBVIOUS
    <2>1. CASE UNCHANGED vars
      BY <2>1, StaysOrGoes DEF vars
    <2>2. CASE Next
      BY <2>2, WritesManaged, ReleaseManaged, OthersManaged, CallsManaged DEF Next, Work
    <2> QED BY <2>1, <2>2
  <1> QED BY <1>1, NetworkInvariant, NetworkIDs, PTL DEF Spec, KeepsManagedResource
=============================================================================
