------------------------ MODULE HCloudAssignedIPProofs ------------------------
(***************************************************************************)
(* Proofs about HCloudAssignedIP, the primary and the floating IP, for     *)
(* every number of servers and labels and every Budget: type correctness,  *)
(* that the object is let go only after its IP, and that every step is one *)
(* of ManagedResource.                                                     *)
(***************************************************************************)
EXTENDS HCloudAssignedIP, TLAPS

-----------------------------------------------------------------------------
(* The records.                                                            *)

\* No IP, no status, no copy.
LEMMA NoneFacts ==
    /\ NoIP \in IPs /\ NoIP.id = 0
    /\ NoStatus \in Statuses /\ NoCopy \in Copies
  <1>1. 0 \in ServerIDs /\ 0 \in Labels
    BY LabelsAssumption DEF ServerIDs, Labels
  <1>2. NoIP \in IPs /\ NoIP.id = 0 /\ NoStatus \in Statuses
    BY <1>1 DEF NoIP, IPs, NoStatus, Statuses
  <1>3. NoSpec \in Specs
    BY <1>1 DEF NoSpec, Specs
  <1> QED BY <1>2, <1>3 DEF NoCopy, Copies, Phases

\* What an IP's info keeps of the IP.
LEMMA InfoFacts ==
    ASSUME NEW p \in IPs
    PROVE  toIPInfo(p) \in IPs /\ toIPInfo(p).id = p.id
  BY DEF toIPInfo, IPs, ServerIDs

\* An accepted assignment or unassignment, of the same IP.
LEMMA AssigningFacts ==
    ASSUME NEW p \in IPs, NEW s \in ServerIDs, NEW q \in Assigning(p, s)
    PROVE  q \in IPs /\ q.id = p.id
  <1>1. PICK shown \in {0, s} : q = [p EXCEPT !.op = "assign", !.to = s, !.assignee = shown]
    BY DEF Assigning
  <1>2. shown \in ServerIDs
    BY <1>1 DEF ServerIDs
  <1> QED BY <1>1, <1>2 DEF IPs

LEMMA UnassigningFacts ==
    ASSUME NEW p \in IPs, NEW q \in IF p.assignee = 0 THEN {p} ELSE Unassigning(p)
    PROVE  q \in IPs /\ q.id = p.id
  <1>1. CASE q = p
    BY <1>1
  <1>2. CASE q \in Unassigning(p)
    <2>1. PICK shown \in {0, p.assignee} : q = [p EXCEPT !.op = "unassign", !.assignee = shown]
      BY <1>2 DEF Unassigning
    <2>2. shown \in ServerIDs
      BY <2>1 DEF ServerIDs, IPs
    <2> QED BY <2>1, <2>2 DEF IPs
  <1> QED BY <1>1, <1>2

\* A copy with another recorded server.
LEMMA AppliedFacts ==
    ASSUME NEW o \in Copies, NEW s \in ServerIDs
    PROVE  [o EXCEPT !.status.applied = s] \in Copies
  BY DEF Copies, Statuses

-----------------------------------------------------------------------------
(* How a reconcile goes on.                                                *)

\* Every branch keeps the copy well-formed and makes neither the call that
\* creates the IP nor the one that lets the object go.
GoesOn == obj' \in Copies /\ snap' \in IPs /\ pc' \in PCs \ {"create", "release"}

LEMMA FailGoesOn ==
    ASSUME NEW o \in Copies, Fail(o)
    PROVE  GoesOn
  <1>1. obj' \in Copies
    BY DEF Fail, Call, Copies, Statuses
  <1> QED BY <1>1, NoneFacts DEF Fail, Call, GoesOn, PCs

LEMMA CallGoesOn ==
    ASSUME NEW o \in Copies, NEW p \in IPs, NEW step \in PCs \ {"create", "release"},
           Call(step, o, p)
    PROVE  GoesOn
  BY DEF Call, GoesOn

LEMMA MetadataGoesOn ==
    ASSUME NEW o \in Copies, NEW p \in IPs, ensureMetadata(o, p)
    PROVE  GoesOn
  <1>1. {"update", "refreshUpdate"} \subseteq PCs \ {"create", "release"}
    BY DEF PCs
  <1> QED BY <1>1, CallGoesOn DEF ensureMetadata

LEMMA AssignmentGoesOn ==
    ASSUME NEW o \in Copies, NEW p \in IPs, ensureAssignment(o, p)
    PROVE  GoesOn
  <1>1. {"unassign", "assign", "refreshAssign"} \subseteq PCs \ {"create", "release"}
    BY DEF PCs
  <1>2. CASE Call("refreshAssign", [o EXCEPT !.status.applied = o.spec.ref], p)
    <2>1. o.spec.ref \in ServerIDs
      BY DEF Copies, Specs
    <2>2. [o EXCEPT !.status.applied = o.spec.ref] \in Copies
      BY <2>1, AppliedFacts
    <2> QED BY <1>1, <1>2, <2>2, CallGoesOn
  <1>3. ASSUME NEW step \in {"unassign", "assign", "refreshAssign"}, Call(step, o, p)
        PROVE  GoesOn
    BY <1>1, <1>3, CallGoesOn
  <1> QED BY <1>2, <1>3 DEF ensureAssignment

LEMMA DNSGoesOn ==
    ASSUME NEW o \in Copies, NEW p \in IPs, ensureDNSPtr(o, p)
    PROVE  GoesOn
  <1>1. {"dns", "refreshDNS"} \subseteq PCs \ {"create", "release"}
    BY DEF PCs
  <1> QED BY <1>1, CallGoesOn DEF ensureDNSPtr

LEMMA SyncStatusTyped ==
    ASSUME NEW o \in Copies, NEW p \in IPs
    PROVE  syncStatus(o, p) \in Copies
  <1> DEFINE a == IF p.assignee # 0 THEN p.assignee ELSE o.status.applied
  <1>1. a \in ServerIDs /\ p.id \in Nat
    BY DEF IPs, Copies, Statuses
  <1> DEFINE st == [o.status EXCEPT !.id = p.id, !.ready = TRUE, !.applied = a]
  <1>2. syncStatus(o, p) = [o EXCEPT !.status = st]
    BY DEF syncStatus, Copies, Statuses
  <1>3. st \in Statuses
    <2>1. o.status \in Statuses
      BY DEF Copies
    <2> HIDE DEF a
    <2> QED BY <1>1, <2>1 DEF Statuses
  <1> HIDE DEF st
  <1> QED BY <1>2, <1>3 DEF Copies

\* The worker stops.
LEMMA StopGoesOn ==
    ASSUME Stop
    PROVE  GoesOn
  BY NoneFacts DEF Stop, GoesOn, PCs

-----------------------------------------------------------------------------
(* Ways in which a step keeps the invariant.                               *)

\* The bookkeeping of disturbances.
LEMMA SpendTyped ==
    ASSUME used \in [Disturbances -> Nat], NEW d \in Disturbances, Spend(d)
    PROVE  used' \in [Disturbances -> Nat]
  <1>1. "any" \in Disturbances
    BY DEF Disturbances
  <1>2. used[d] + 1 \in Nat /\ used["any"] + 1 \in Nat
    BY <1>1
  <1> QED BY <1>1, <1>2 DEF Spend

\* The referenced servers come and go.
LEMMA ServersTyped ==
    ASSUME ServersTypeOK, NEW s \in Servers, BecomeReady(s) \/ Destroy(s) \/ ObjectGoes(s)
    PROVE  ServersTypeOK'
  <1>1. srvObj' \in [Servers -> {"pending", "ready", "gone"}]
    BY DEF ServersTypeOK, BecomeReady, Destroy, ObjectGoes
  <1>2. srvLive' \subseteq Servers
    BY DEF ServersTypeOK, BecomeReady, Destroy, ObjectGoes
  <1> QED BY <1>1, <1>2 DEF ServersTypeOK

\* A step that leaves the worker alone, and the IP what it was or gone.
LEMMA EnvironmentKeeps ==
    ASSUME IndInv, UNCHANGED <<pc, obj, snap, status, nextID>>, ServersTypeOK',
           phase' \in Phases, spec' \in Specs, seen' \in Copies,
           used' \in [Disturbances -> Nat],
           ip' \in IPs, ip'.id \in {ip.id, 0}
    PROVE  IndInv'
  <1>1. TypeOK'
    BY DEF IndInv, TypeOK
  <1>2. RightMoment'
    BY DEF IndInv, RightMoment
  <1> QED BY <1>1, <1>2 DEF IndInv

\* A step of the worker.
LEMMA WorkerKeeps ==
    ASSUME IndInv, UNCHANGED <<servers, spec, seen>>,
           phase' \in Phases, status' \in {status, obj.status},
           used' \in [Disturbances -> Nat],
           ip' \in IPs, nextID' \in Nat \ {0},
           obj' \in Copies, snap' \in IPs, pc' \in PCs, RightMoment'
    PROVE  IndInv'
  <1>1. status' \in Statuses
    BY DEF IndInv, TypeOK, Copies
  <1>2. ServersTypeOK'
    BY DEF IndInv, TypeOK, ServersTypeOK, servers
  <1>3. TypeOK'
    BY <1>1, <1>2 DEF IndInv, TypeOK
  <1> QED BY <1>3 DEF IndInv

\* A step of the worker towards a call that needs no right moment.
LEMMA GoesOnKeeps ==
    ASSUME IndInv, UNCHANGED <<servers, spec, seen>>,
           phase' \in Phases, status' \in {status, obj.status},
           used' \in [Disturbances -> Nat],
           ip' \in IPs, nextID' \in Nat \ {0}, GoesOn
    PROVE  IndInv'
  <1>1. RightMoment' /\ obj' \in Copies /\ snap' \in IPs /\ pc' \in PCs
    BY DEF GoesOn, RightMoment
  <1> QED BY <1>1, WorkerKeeps

-----------------------------------------------------------------------------
(* The invariant holds at the start and every step keeps it.               *)

\* A fresh object and no IP.
LEMMA InitIndInv == Init => IndInv
  <1> SUFFICES ASSUME Init PROVE IndInv
    OBVIOUS
  <1>1. spec \in Specs
    BY SpecsAssumption DEF Init
  <1>2. ServersTypeOK
    BY DEF Init, ServersInit, ServersTypeOK
  <1>3. phase \in Phases /\ seen \in Copies
    BY <1>1, NoneFacts DEF Init, Current, Copies, Phases
  <1>4. pc \in PCs /\ used \in [Disturbances -> Nat] /\ nextID \in Nat \ {0}
    BY DEF Init, PCs
  <1>5. TypeOK
    BY <1>1, <1>2, <1>3, <1>4, NoneFacts DEF Init, TypeOK
  <1>6. RightMoment
    BY DEF Init, RightMoment
  <1> QED BY <1>5, <1>6 DEF IndInv

\* Users, the cache and the referenced servers.
LEMMA ObjectStepsIndInv ==
    ASSUME IndInv, \/ EditRef \/ EditLabels \/ EditDescription \/ EditAutoDelete \/ DeleteObject
                   \/ ServerReady \/ ServerObjectGoes \/ CacheSync
    PROVE  IndInv'
  <1>1. /\ UNCHANGED <<pc, obj, snap, status, ip, nextID>>
        /\ seen' \in {seen, Current}
    BY DEF EditRef, EditLabels, EditDescription, EditAutoDelete, DeleteObject, ServerReady,
           ServerObjectGoes,
           CacheSync, hetzner, worker, object
  <1>2. phase' \in Phases
    BY DEF EditRef, EditLabels, EditDescription, EditAutoDelete, DeleteObject, ServerReady,
           ServerObjectGoes,
           CacheSync, object, IndInv, TypeOK, Phases
  <1>3. spec' \in Specs
    <2>1. spec \in Specs
      BY DEF IndInv, TypeOK
    <2>2. CASE EditRef
      BY <2>1, <2>2 DEF EditRef, Specs
    <2>3. CASE EditLabels \/ EditDescription
      BY <2>1, <2>3 DEF EditLabels, EditDescription, Specs
    <2>4. CASE EditAutoDelete
      BY <2>1, <2>4, AutoAssumption DEF EditAutoDelete, Specs
    <2> QED BY <2>1, <2>2, <2>3, <2>4
        DEF DeleteObject, ServerReady, ServerObjectGoes, CacheSync, object
  <1>4. seen' \in Copies
    BY <1>1 DEF IndInv, TypeOK, Current, Copies
  <1>5. used' \in [Disturbances -> Nat]
    <2>1. /\ used \in [Disturbances -> Nat]
          /\ {"ref", "labels", "auto", "delete"} \subseteq Disturbances
      BY DEF IndInv, TypeOK, Disturbances
    <2> QED BY <2>1, SpendTyped
        DEF EditRef, EditLabels, EditDescription, EditAutoDelete, DeleteObject, ServerReady,
            ServerObjectGoes,
            CacheSync
  <1>6. ServersTypeOK'
    <2>1. ServersTypeOK
      BY DEF IndInv, TypeOK
    <2>2. CASE UNCHANGED servers
      BY <2>1, <2>2 DEF servers, ServersTypeOK
    <2> QED BY <2>1, <2>2, ServersTyped
        DEF EditRef, EditLabels, EditDescription, EditAutoDelete, DeleteObject, ServerReady,
            ServerObjectGoes,
            CacheSync
  <1>7. ip' \in IPs /\ ip'.id \in {ip.id, 0}
    BY <1>1 DEF IndInv, TypeOK
  <1> QED BY <1>1, <1>2, <1>3, <1>4, <1>5, <1>6, <1>7, EnvironmentKeeps

\* Hetzner's side: a server goes and may take the IP along, an action
\* finishes, others act.
LEMMA HetznerStepsIndInv ==
    ASSUME IndInv, ServerDestroyed \/ Progress \/ External
    PROVE  IndInv'
  <1>1. UNCHANGED <<pc, obj, snap, status, nextID, phase, spec, seen>>
    BY DEF ServerDestroyed, Progress, External, worker, object
  <1>2. used' \in [Disturbances -> Nat]
    <2>1. used \in [Disturbances -> Nat] /\ {"server", "external"} \subseteq Disturbances
      BY DEF IndInv, TypeOK, Disturbances
    <2> QED BY <2>1, SpendTyped DEF ServerDestroyed, Progress, External
  <1>3. ServersTypeOK'
    <2>1. ServersTypeOK
      BY DEF IndInv, TypeOK
    <2>2. CASE UNCHANGED servers
      BY <2>1, <2>2 DEF servers, ServersTypeOK
    <2> QED BY <2>1, <2>2, ServersTyped DEF ServerDestroyed, Progress, External
  <1>4. ip' \in IPs /\ ip'.id \in {ip.id, 0}
    <2>1. ip \in IPs /\ srvLive \subseteq ServerIDs /\ 0 \in ServerIDs
      BY DEF IndInv, TypeOK, ServersTypeOK, ServerIDs
    <2>2. CASE ip' = NoIP
      BY <2>2, NoneFacts
    <2>3. CASE ip' = ip
      BY <2>1, <2>3
    <2>4. ASSUME NEW s \in ServerIDs, ip' = [ip EXCEPT !.assignee = s, !.op = "none", !.to = 0]
          PROVE  ip' \in IPs /\ ip'.id = ip.id
      BY <2>1, <2>4 DEF IPs
    <2>5. CASE ServerDestroyed
      <3>1. PICK s \in Servers :
              ip' = CASE ip.assignee = s /\ ip.auto -> NoIP
                      [] ip.assignee = s /\ ~ip.auto ->
                           [ip EXCEPT !.assignee = 0, !.op = "none", !.to = 0]
                      [] OTHER -> ip
        BY <2>5 DEF ServerDestroyed
      <3>2. ip.auto \in BOOLEAN
        BY <2>1 DEF IPs
      <3>3. \/ ip' = NoIP \/ ip' = ip
            \/ ip' = [ip EXCEPT !.assignee = 0, !.op = "none", !.to = 0]
        BY <3>1, <3>2
      <3> QED BY <2>1, <2>2, <2>3, <2>4, <3>3
    <2>6. CASE Progress
      <3> DEFINE s == IF ip.op = "assign" /\ ip.to \in srvLive THEN ip.to ELSE 0
      <3>1. s \in ServerIDs /\ ip' = [ip EXCEPT !.op = "none", !.to = 0, !.assignee = s]
        BY <2>1, <2>6 DEF Progress
      <3> HIDE DEF s
      <3> QED BY <2>1, <3>1 DEF IPs
    <2>7. ASSUME NEW s \in ServerIDs, ip' = [ip EXCEPT !.assignee = s]
          PROVE  ip' \in IPs /\ ip'.id = ip.id
      BY <2>1, <2>7 DEF IPs
    <2>8. CASE External
      <3>1. ip' = NoIP \/ \E s \in ServerIDs : ip' = [ip EXCEPT !.assignee = s]
        BY <2>1, <2>8 DEF External
      <3> QED BY <2>2, <2>7, <3>1
    <2> QED BY <2>5, <2>6, <2>8
  <1>5. phase' \in Phases /\ spec' \in Specs /\ seen' \in Copies
    BY <1>1 DEF IndInv, TypeOK
  <1> QED BY <1>1, <1>2, <1>3, <1>4, <1>5, EnvironmentKeeps

\* The steps of the worker that touch nothing but itself and the status.
LEMMA ReadStepsIndInv ==
    ASSUME IndInv, \/ Crash \/ CallFails \/ Reconcile \/ LookupByID \/ LookupByName
                   \/ RefreshAfterUpdate \/ RefreshAfterAssign \/ RefreshAfterDNS
                   \/ WriteStatus \/ WriteErrorStatus
    PROVE  IndInv'
  <1>1. /\ UNCHANGED <<servers, spec, seen, phase, ip, nextID>>
        /\ status' \in {status, obj.status}
    BY DEF Crash, CallFails, Reconcile, LookupByID, LookupByName, RefreshAfterUpdate,
           RefreshAfterAssign, RefreshAfterDNS, WriteStatus, WriteErrorStatus, object, hetzner
  <1>2. /\ obj \in Copies /\ seen \in Copies /\ ip \in IPs /\ ip' \in IPs
        /\ phase' \in Phases /\ nextID' \in Nat \ {0} /\ toIPInfo(ip) \in IPs
    BY <1>1, InfoFacts DEF IndInv, TypeOK
  <1>3. used' \in [Disturbances -> Nat]
    <2>1. used \in [Disturbances -> Nat] /\ {"error", "crash"} \subseteq Disturbances
      BY DEF IndInv, TypeOK, Disturbances
    <2> QED BY <2>1, SpendTyped
        DEF Crash, CallFails, Reconcile, LookupByID, LookupByName, RefreshAfterUpdate,
            RefreshAfterAssign, RefreshAfterDNS, WriteStatus, WriteErrorStatus
  <1>4. GoesOn => IndInv'
    BY <1>1, <1>2, <1>3, GoesOnKeeps
  <1>5. CASE Stop
    BY <1>4, <1>5, StopGoesOn
  <1>6. CASE Fail(obj)
    BY <1>2, <1>4, <1>6, FailGoesOn
  <1>7. CASE ensureMetadata(obj, toIPInfo(ip))
    BY <1>2, <1>4, <1>7, MetadataGoesOn
  <1>8. CASE Reconcile
    <2>1. CASE Call("write", [seen EXCEPT !.status.ready = FALSE], NoIP)
      <3>1. obj' \in Copies
        BY <1>2, <2>1 DEF Call, Copies, Statuses
      <3> QED BY <1>4, <2>1, <3>1, NoneFacts DEF Call, GoesOn, PCs
    <2>2. ASSUME NEW step \in {"unassignFirst", "lookupByID", "lookupByName"},
                 Call(step, seen, NoIP)
          PROVE  IndInv'
      BY <1>2, <1>4, <2>2, NoneFacts, CallGoesOn DEF PCs
    <2>3. CASE seen.status.id = 0 /\ Call("release", seen, NoIP)
      <3>1. RightMoment' /\ obj' \in Copies /\ snap' \in IPs /\ pc' \in PCs
        BY <1>2, <2>3, NoneFacts DEF Call, RightMoment, PCs
      <3> QED BY <1>1, <1>2, <1>3, <3>1, WorkerKeeps
    <2> QED BY <1>8, <2>1, <2>2, <2>3 DEF Reconcile
  <1>9. CASE LookupByID
    <2>1. CASE Call("lookupByName", obj, NoIP)
      BY <1>2, <1>4, <2>1, NoneFacts, CallGoesOn DEF PCs
    <2> QED BY <1>7, <1>9, <2>1 DEF LookupByID
  <1>10. CASE LookupByName
    <2>1. CASE ip.id = 0 /\ Call("create", obj, NoIP)
      <3>1. RightMoment' /\ obj' \in Copies /\ snap' \in IPs /\ pc' \in PCs
        BY <1>1, <1>2, <2>1, NoneFacts DEF Call, RightMoment, PCs
      <3> QED BY <1>1, <1>2, <1>3, <3>1, WorkerKeeps
    <2> QED BY <1>7, <1>10, <2>1 DEF LookupByName
  <1>11. CASE RefreshAfterUpdate
    BY <1>2, <1>4, <1>6, <1>11, AssignmentGoesOn DEF RefreshAfterUpdate
  <1>12. CASE RefreshAfterAssign
    BY <1>2, <1>4, <1>6, <1>12, DNSGoesOn DEF RefreshAfterAssign
  <1>13. CASE RefreshAfterDNS
    <2>1. CASE Call("write", syncStatus(obj, toIPInfo(ip)), NoIP)
      <3>1. syncStatus(obj, toIPInfo(ip)) \in Copies
        BY <1>2, SyncStatusTyped
      <3> QED BY <1>4, <2>1, <3>1, NoneFacts, CallGoesOn DEF PCs
    <2> QED BY <1>6, <1>13, <2>1 DEF RefreshAfterDNS
  <1> QED BY <1>5, <1>6, <1>8, <1>9, <1>10, <1>11, <1>12, <1>13
      DEF Crash, CallFails, WriteStatus, WriteErrorStatus

\* The steps of the worker that change the IP.
LEMMA ChangeStepsIndInv ==
    ASSUME IndInv, \/ CreateIP \/ UpdateIP \/ UnassignIP \/ AssignIP \/ ChangeDNSPtr
                   \/ UnassignBeforeDelete
    PROVE  IndInv'
  <1>1. UNCHANGED <<servers, spec, seen, phase, status, used>>
    BY DEF CreateIP, UpdateIP, UnassignIP, AssignIP, ChangeDNSPtr, UnassignBeforeDelete, object
  <1>2. /\ obj \in Copies /\ ip \in IPs /\ snap \in IPs /\ nextID \in Nat \ {0}
        /\ phase' \in Phases /\ used' \in [Disturbances -> Nat]
    BY <1>1 DEF IndInv, TypeOK
  <1>3. /\ obj.spec \in Specs /\ obj.spec.ref \in ServerIDs /\ obj.spec.labels \in Labels
        /\ 0 \in ServerIDs /\ obj.spec.desc \in Labels
    BY <1>2 DEF Copies, Specs, ServerIDs
  <1>4. ASSUME ip' \in IPs, nextID' \in Nat \ {0}, GoesOn
        PROVE  IndInv'
    BY <1>1, <1>2, <1>4, GoesOnKeeps
  <1>5. CASE UNCHANGED hetzner /\ (Fail(obj) \/ Stop)
    BY <1>2, <1>4, <1>5, FailGoesOn, StopGoesOn DEF hetzner
  <1>6. CASE CreateIP
    <2> DEFINE auto == obj.spec.kind = "primary" /\ obj.spec.auto = "on"
               new == [NoIP EXCEPT !.id = nextID, !.labels = obj.spec.labels,
                                   !.desc = obj.spec.desc, !.auto = auto]
               server == IF obj.spec.kind = "floating" THEN obj.spec.ref ELSE 0
    <2>1. auto \in BOOLEAN /\ server \in ServerIDs
      BY <1>3
    <2>2. new \in IPs
      <3> HIDE DEF auto
      <3> QED BY <1>2, <1>3, <2>1, NoneFacts DEF IPs
    <2>3. CASE /\ ip' \in IF server = 0 THEN {new} ELSE Assigning(new, server)
               /\ nextID' = nextID + 1
               /\ ensureMetadata(obj, toIPInfo(ip'))
      <3> HIDE DEF new, server
      <3>1. ip' \in IPs
        BY <2>1, <2>2, <2>3, AssigningFacts
      <3>2. nextID' \in Nat \ {0}
        BY <1>2, <2>3
      <3>3. GoesOn
        BY <1>2, <2>3, <3>1, InfoFacts, MetadataGoesOn
      <3> QED BY <1>4, <3>1, <3>2, <3>3
    <2> QED BY <1>5, <1>6, <2>3, Zenon DEF CreateIP
  <1>7. CASE UpdateIP
    <2> DEFINE l == IF LabelsChanged(obj, snap) THEN obj.spec.labels ELSE ip.labels
               d == IF DescriptionSent(obj, snap) THEN obj.spec.desc ELSE ip.desc
               a == IF AutoDeleteChanged(obj, snap) THEN obj.spec.auto = "on" ELSE ip.auto
    <2>1. l \in Labels /\ d \in Labels /\ a \in BOOLEAN
      BY <1>2, <1>3 DEF IPs
    <2>2. CASE /\ ip' = [ip EXCEPT !.labels = l, !.desc = d, !.auto = a]
               /\ nextID' = nextID /\ Call("refreshUpdate", obj, snap)
      <3> HIDE DEF l, d, a
      <3>1. ip' \in IPs
        BY <1>2, <2>1, <2>2 DEF IPs
      <3>2. GoesOn
        BY <1>2, <2>2, CallGoesOn DEF PCs
      <3> QED BY <1>2, <1>4, <2>2, <3>1, <3>2
    <2> QED BY <1>5, <1>7, <2>2, Zenon DEF UpdateIP, hetzner
  <1>8. CASE UnassignIP \/ UnassignBeforeDelete
    <2>1. CASE /\ ip' \in IF ip.assignee = 0 THEN {ip} ELSE Unassigning(ip)
               /\ nextID' = nextID /\ GoesOn
      BY <1>2, <1>4, <2>1, UnassigningFacts
    <2>2. Call("refreshAssign", [obj EXCEPT !.status.applied = 0], snap) => GoesOn
      <3>1. [obj EXCEPT !.status.applied = 0] \in Copies
        BY <1>2, <1>3, AppliedFacts
      <3> QED BY <1>2, <3>1, CallGoesOn DEF PCs
    <2>3. Call("assign", obj, snap) \/ Call("delete", obj, NoIP) => GoesOn
      BY <1>2, NoneFacts, CallGoesOn DEF PCs
    <2> QED BY <1>5, <1>8, <2>1, <2>2, <2>3 DEF UnassignIP, UnassignBeforeDelete, hetzner
  <1>9. CASE AssignIP
    <2>1. CASE /\ ip' \in Assigning(ip, obj.spec.ref) /\ nextID' = nextID
               /\ Call("refreshAssign", [obj EXCEPT !.status.applied = obj.spec.ref], snap)
      <3>1. [obj EXCEPT !.status.applied = obj.spec.ref] \in Copies
        BY <1>2, <1>3, AppliedFacts
      <3>2. GoesOn
        BY <1>2, <2>1, <3>1, CallGoesOn DEF PCs
      <3>3. ip' \in IPs
        BY <1>2, <1>3, <2>1, AssigningFacts
      <3> QED BY <1>2, <1>4, <2>1, <3>2, <3>3
    <2> QED BY <1>5, <1>9, <2>1 DEF AssignIP, hetzner
  <1>10. CASE ChangeDNSPtr
    <2>1. CASE /\ ip' = [ip EXCEPT !.dns = TRUE] /\ nextID' = nextID
               /\ Call("refreshDNS", obj, snap)
      <3>1. ip' \in IPs
        BY <1>2, <2>1 DEF IPs
      <3>2. GoesOn
        BY <1>2, <2>1, CallGoesOn DEF PCs
      <3> QED BY <1>2, <1>4, <2>1, <3>1, <3>2
    <2> QED BY <1>5, <1>10, <2>1 DEF ChangeDNSPtr, hetzner
  <1> QED BY <1>6, <1>7, <1>8, <1>9, <1>10

\* The IP is deleted, or was gone, before the object is let go.
LEMMA DeleteIndInv ==
    ASSUME IndInv, DeleteIP \/ Release
    PROVE  IndInv'
  <1>1. UNCHANGED <<servers, spec, seen, status, used, nextID>>
    BY DEF DeleteIP, Release, object, hetzner
  <1>2. /\ obj \in Copies /\ ip \in IPs /\ nextID' \in Nat \ {0}
        /\ used' \in [Disturbances -> Nat]
    BY <1>1 DEF IndInv, TypeOK
  <1>3. phase' \in Phases
    BY DEF IndInv, TypeOK, Phases, DeleteIP, Release, object
  <1>4. ip' \in IPs
    BY <1>2, NoneFacts DEF DeleteIP, Release, hetzner
  <1>5. CASE Stop
    BY <1>1, <1>2, <1>3, <1>4, <1>5, StopGoesOn, GoesOnKeeps
  <1>6. CASE /\ ip' = IF ip.id = obj.status.id THEN NoIP ELSE ip
             /\ Call("release", obj, NoIP)
    <2>1. obj' = obj /\ pc' = "release" /\ snap' = NoIP
      BY <1>6 DEF Call
    <2>2. obj.status.id = 0 \/ ip'.id # obj.status.id
      BY <1>6, NoneFacts
    <2>3. RightMoment' /\ obj' \in Copies /\ snap' \in IPs /\ pc' \in PCs
      BY <1>2, <2>1, <2>2, NoneFacts DEF RightMoment, PCs
    <2> QED BY <1>1, <1>2, <1>3, <1>4, <2>3, WorkerKeeps
  <1> QED BY <1>5, <1>6 DEF DeleteIP, Release

\* Every step keeps the invariant.
LEMMA NextIndInv == IndInv /\ [Next]_vars => IndInv'
  <1> SUFFICES ASSUME IndInv, [Next]_vars PROVE IndInv'
    OBVIOUS
  <1>1. CASE UNCHANGED vars
    BY <1>1 DEF vars, IndInv, TypeOK, ServersTypeOK, RightMoment
  <1>2. CASE Next
    BY <1>2, ObjectStepsIndInv, HetznerStepsIndInv, ReadStepsIndInv, ChangeStepsIndInv,
       DeleteIndInv
    DEF Next, Work
  <1> QED BY <1>1, <1>2

\* The worker is about to create an IP only where there is none, and about to
\* let the object go only after the IP of its copy.
THEOREM IPInvariant == Spec => []IndInv
  BY InitIndInv, NextIndInv, PTL DEF Spec

\* Every variable keeps its type: an IP is assigned to a server there is or to
\* none, and so is the server the status records.
THEOREM IPTypes == Spec => []TypeOK
  <1>1. IndInv => TypeOK
    BY DEF IndInv
  <1> QED BY <1>1, IPInvariant, PTL

\* Only the finalizer update lets the object go, and only with an up-to-date
\* copy: the IP it names is then gone.
LEMMA ReleaseIsLate ==
    ASSUME IndInv, [Next]_vars, phase' = "gone", phase # "gone"
    PROVE  status.id = 0 \/ ip.id # status.id
  <1>1. Release /\ obj = Current
    <2>1. Next
      BY DEF vars
    <2>2. CASE Work
      BY <2>2 DEF Work, Reconcile, LookupByID, LookupByName, CreateIP, UpdateIP,
         RefreshAfterUpdate, UnassignIP, AssignIP, RefreshAfterAssign, ChangeDNSPtr,
         RefreshAfterDNS, WriteStatus, WriteErrorStatus, UnassignBeforeDelete, DeleteIP,
         Release, object
    <2> QED BY <2>1, <2>2
        DEF Next, EditRef, EditLabels, EditDescription, EditAutoDelete, DeleteObject, ServerReady,
            ServerDestroyed, ServerObjectGoes, CacheSync, Crash, CallFails, Progress, External,
            object
  <1>2. obj.status = status /\ pc = "release"
    BY <1>1 DEF Release, Current
  <1> QED BY <1>2 DEF IndInv, RightMoment

\* README, "Safe Cleanup": whatever fails and in whatever order, the object of
\* an IP goes only after the IP its status names.
THEOREM IPRemovalSafe == Spec => IPGoesFirst
  <1>1. IndInv /\ [Next]_vars
          => [phase' = "gone" /\ phase # "gone" => status.id = 0 \/ ip.id # status.id]_vars
    BY ReleaseIsLate
  <1> QED BY <1>1, IPInvariant, PTL DEF Spec, IPGoesFirst

-----------------------------------------------------------------------------
(* Phases and IDs.                                                         *)

\* The reconcile goes on with what it knows of the IP, and not to delete.
Carries(o, v) ==
    /\ obj'.status.id \in {o.status.id, v.id} /\ snap'.id \in {v.id, 0}
    /\ pc' \notin DeleteCalls \cup {"idle"}

LEMMA FailCarries ==
    ASSUME NEW o \in Copies, NEW v, Fail(o)
    PROVE  Carries(o, v)
  <1>1. obj'.status.id = o.status.id
    BY DEF Fail, Call, Copies, Statuses
  <1> QED BY <1>1, NoneFacts DEF Fail, Call, Carries, DeleteCalls

\* A copy with another recorded server, or with the IP's own data.
LEMMA AppliedID ==
    ASSUME NEW o \in Copies, NEW s
    PROVE  [o EXCEPT !.status.applied = s].status.id = o.status.id
  BY DEF Copies, Statuses

LEMMA SyncStatusID ==
    ASSUME NEW o \in Copies, NEW p
    PROVE  syncStatus(o, p).status.id = p.id
  BY DEF syncStatus, Copies, Statuses

LEMMA CallCarries ==
    ASSUME NEW o, NEW v, NEW step \in PCs \ (DeleteCalls \cup {"idle"}), Call(step, o, v)
    PROVE  Carries(o, v)
  BY DEF Call, Carries

LEMMA MetadataCarries ==
    ASSUME NEW o \in Copies, NEW v \in IPs, ensureMetadata(o, v)
    PROVE  Carries(o, v)
  <1>1. {"update", "refreshUpdate"} \subseteq PCs \ (DeleteCalls \cup {"idle"})
    BY DEF PCs, DeleteCalls
  <1> QED BY <1>1, CallCarries DEF ensureMetadata

LEMMA AssignmentCarries ==
    ASSUME NEW o \in Copies, NEW v \in IPs, ensureAssignment(o, v)
    PROVE  Carries(o, v)
  <1>1. {"unassign", "assign", "refreshAssign"} \subseteq PCs \ (DeleteCalls \cup {"idle"})
    BY DEF PCs, DeleteCalls
  <1>2. CASE Call("refreshAssign", [o EXCEPT !.status.applied = o.spec.ref], v)
    <2>1. obj'.status.id = o.status.id /\ snap' = v /\ pc' = "refreshAssign"
      BY <1>2, AppliedID DEF Call
    <2> QED BY <1>1, <2>1 DEF Carries
  <1>3. ASSUME NEW step \in {"unassign", "assign", "refreshAssign"}, Call(step, o, v)
        PROVE  Carries(o, v)
    BY <1>1, <1>3, CallCarries
  <1> QED BY <1>2, <1>3 DEF ensureAssignment

LEMMA DNSCarries ==
    ASSUME NEW o \in Copies, NEW v \in IPs, ensureDNSPtr(o, v)
    PROVE  Carries(o, v)
  <1>1. {"dns", "refreshDNS"} \subseteq PCs \ (DeleteCalls \cup {"idle"})
    BY DEF PCs, DeleteCalls
  <1> QED BY <1>1, CallCarries DEF ensureDNSPtr

\* A step of the worker.
LEMMA WorkerLife ==
    ASSUME IndInv, LifeInv, UNCHANGED <<phase, seen>>, status' \in {status, obj.status},
           nextID' \in Nat, nextID' >= nextID,
           ip'.id < nextID', obj'.status.id < nextID', snap'.id < nextID',
           pc' \notin DeleteCalls \cup {"idle"} => phase # "gone",
           pc' \in DeleteCalls => (obj'.phase = "deleting" /\ seen.phase # "live")
    PROVE  LifeInv'
  <1>1. PhasesAgree'
    BY DEF LifeInv, PhasesAgree
  <1>2. IDsIssued'
    <2>1. /\ status.id \in Nat /\ obj.status.id \in Nat /\ seen.status.id \in Nat
          /\ nextID \in Nat
      BY DEF IndInv, TypeOK, Copies, Statuses
    <2> QED BY <2>1 DEF LifeInv, IDsIssued
  <1> QED BY <1>1, <1>2 DEF LifeInv

\* A step of a worker that reconciles.
LEMMA CarriesLife ==
    ASSUME IndInv, LifeInv, UNCHANGED <<phase, seen, status>>, phase # "gone",
           nextID' \in Nat, nextID' >= nextID, ip'.id < nextID',
           NEW o \in Copies, NEW v \in IPs, o.status.id < nextID', v.id < nextID',
           Carries(o, v)
    PROVE  LifeInv'
  <1>1. nextID \in Nat \ {0}
    BY DEF IndInv, TypeOK
  <1>2. obj'.status.id < nextID' /\ snap'.id < nextID'
    BY <1>1 DEF Carries
  <1>3. pc' \notin DeleteCalls
    BY DEF Carries
  <1> QED BY <1>2, <1>3, WorkerLife

\* The worker stops.
LEMMA StopLife ==
    ASSUME IndInv, LifeInv, Stop, UNCHANGED <<phase, seen, nextID>>,
           status' \in {status, obj.status}, ip'.id < nextID
    PROVE  LifeInv'
  <1>1. pc' = "idle" /\ obj'.status.id = 0 /\ snap'.id = 0
    BY DEF Stop, NoCopy, NoStatus, NoIP
  <1>2. nextID \in Nat /\ 0 < nextID
    BY DEF IndInv, TypeOK
  <1> QED BY <1>1, <1>2, WorkerLife DEF DeleteCalls

\* Users, the cache, the servers and Hetzner.
LEMMA EnvironmentLife ==
    ASSUME IndInv, LifeInv,
           \/ EditRef \/ EditLabels \/ EditDescription \/ EditAutoDelete \/ DeleteObject
           \/ ServerReady
           \/ ServerDestroyed \/ ServerObjectGoes \/ CacheSync \/ Progress \/ External
    PROVE  /\ UNCHANGED <<status, nextID>> /\ ip'.id \in {ip.id, 0}
           /\ LifeInv'
  <1>1. UNCHANGED <<pc, obj, snap, status, nextID>>
    BY DEF EditRef, EditLabels, EditDescription, EditAutoDelete, DeleteObject, ServerReady,
           ServerDestroyed,
           ServerObjectGoes, CacheSync, Progress, External, worker, object, hetzner
  <1>2. ip'.id \in {ip.id, 0}
    <2>1. ip \in IPs
      BY DEF IndInv, TypeOK
    <2>2. CASE ServerDestroyed
      <3>1. \/ ip' = NoIP \/ ip' = ip
            \/ ip' = [ip EXCEPT !.assignee = 0, !.op = "none", !.to = 0]
        <4>1. ip.auto \in BOOLEAN
          BY <2>1 DEF IPs
        <4> QED BY <2>2, <4>1 DEF ServerDestroyed
      <3> QED BY <2>1, <3>1, NoneFacts DEF IPs
    <2>3. CASE Progress
      BY <2>1, <2>3 DEF Progress, IPs
    <2>4. CASE External
      BY <2>1, <2>4, NoneFacts DEF External, IPs
    <2> QED BY <2>2, <2>3, <2>4
        DEF EditRef, EditLabels, EditDescription, EditAutoDelete, DeleteObject, ServerReady,
            ServerObjectGoes,
            CacheSync, hetzner
  <1>3. \/ UNCHANGED <<phase, seen>>
        \/ phase' = phase /\ seen' = Current
        \/ phase = "live" /\ phase' = "deleting" /\ seen' = seen
    BY DEF EditRef, EditLabels, EditDescription, EditAutoDelete, DeleteObject, ServerReady,
           ServerDestroyed,
           ServerObjectGoes, CacheSync, Progress, External, object
  <1>4. PhasesAgree'
    BY <1>1, <1>3 DEF LifeInv, PhasesAgree, Current
  <1>5. IDsIssued'
    <2>1. nextID \in Nat \ {0}
      BY DEF IndInv, TypeOK
    <2>2. ip'.id < nextID
      BY <1>2, <2>1 DEF LifeInv, IDsIssued
    <2>3. seen'.status.id \in {seen.status.id, status.id}
      BY <1>3 DEF Current
    <2> QED BY <1>1, <2>2, <2>3 DEF LifeInv, IDsIssued
  <1> QED BY <1>1, <1>2, <1>4, <1>5 DEF LifeInv

\* The steps of the worker before and after the calls for a live object.
LEMMA FrameLife ==
    ASSUME IndInv, LifeInv,
           \/ Crash \/ CallFails \/ Reconcile \/ WriteStatus \/ WriteErrorStatus
    PROVE  LifeInv'
  <1>1. UNCHANGED <<phase, seen, ip, nextID>> /\ status' \in {status, obj.status}
    BY DEF Crash, CallFails, Reconcile, WriteStatus, WriteErrorStatus, object, hetzner
  <1>2. /\ obj \in Copies /\ seen \in Copies /\ nextID \in Nat \ {0} /\ ip.id < nextID
        /\ NoIP \in IPs /\ NoIP.id < nextID
        /\ obj.status.id < nextID /\ seen.status.id < nextID
    BY NoneFacts DEF IndInv, TypeOK, LifeInv, IDsIssued
  <1>3. CASE Stop
    BY <1>1, <1>2, <1>3, StopLife
  <1>4. CASE CallFails /\ Fail(obj)
    <2>1. phase # "gone" /\ status' = status
      BY <1>4 DEF CallFails, LifeInv, PhasesAgree, DeleteCalls, object, Fail, Call, Stop
    <2> QED BY <1>1, <1>2, <1>4, <2>1, FailCarries, CarriesLife
  <1>5. CASE Reconcile
    <2>1. status' = status
      BY <1>5 DEF Reconcile, object
    <2>2. CASE /\ seen.phase = "deleting"
               /\ Call(IF seen.status.id = 0 THEN "release" ELSE "unassignFirst", seen, NoIP)
      <3>1. obj' = seen /\ snap' = NoIP /\ pc' \in DeleteCalls
        BY <2>2 DEF Call, DeleteCalls
      <3> QED BY <1>1, <1>2, <2>2, <3>1, WorkerLife
    <2>3. CASE seen.phase # "deleting"
      <3>1. phase # "gone"
        BY <1>2, <1>5, <2>3 DEF Reconcile, LifeInv, PhasesAgree, Copies, Phases
      <3>2. CASE Call("write", [seen EXCEPT !.status.ready = FALSE], NoIP)
        <4>1. obj'.status.id = seen.status.id /\ snap' = NoIP /\ pc' = "write"
          BY <1>2, <3>2 DEF Call, Copies, Statuses
        <4> QED BY <1>1, <1>2, <2>1, <3>1, <4>1, WorkerLife DEF DeleteCalls
      <3>3. ASSUME NEW step \in {"lookupByID", "lookupByName"}, Call(step, seen, NoIP)
            PROVE  LifeInv'
        <4>1. Carries(seen, NoIP)
          BY <3>3, CallCarries DEF PCs, DeleteCalls
        <4> QED BY <1>1, <1>2, <2>1, <3>1, <4>1, CarriesLife
      <3> QED BY <1>5, <2>3, <3>2, <3>3 DEF Reconcile
    <2> QED BY <1>5, <2>2, <2>3 DEF Reconcile
  <1> QED BY <1>3, <1>4, <1>5 DEF Crash, CallFails, WriteStatus, WriteErrorStatus

\* The calls for a live object.
LEMMA CallsLife ==
    ASSUME IndInv, LifeInv,
           \/ LookupByID \/ LookupByName \/ CreateIP \/ UpdateIP \/ RefreshAfterUpdate
           \/ UnassignIP \/ AssignIP \/ RefreshAfterAssign \/ ChangeDNSPtr \/ RefreshAfterDNS
    PROVE  /\ UNCHANGED <<phase, status>> /\ phase # "gone"
           /\ \/ ip'.id = ip.id /\ nextID' = nextID
              \/ CreateIP /\ ip'.id = nextID /\ nextID' = nextID + 1
           /\ LifeInv'
  <1>1. UNCHANGED <<phase, seen, status>> /\ phase # "gone"
    BY DEF LookupByID, LookupByName, CreateIP, UpdateIP, RefreshAfterUpdate, UnassignIP,
           AssignIP, RefreshAfterAssign, ChangeDNSPtr, RefreshAfterDNS, object,
           LifeInv, PhasesAgree, DeleteCalls
  <1>2. /\ obj \in Copies /\ ip \in IPs /\ snap \in IPs /\ nextID \in Nat \ {0}
        /\ ip.id < nextID /\ obj.status.id < nextID /\ snap.id < nextID
        /\ NoIP \in IPs /\ NoIP.id < nextID
        /\ toIPInfo(ip) \in IPs /\ toIPInfo(ip).id < nextID
    BY NoneFacts, InfoFacts DEF IndInv, TypeOK, LifeInv, IDsIssued
  <1>3. /\ obj.status.id \in Nat /\ ip.id \in Nat /\ snap.id \in Nat
        /\ obj.spec \in Specs /\ obj.spec.ref \in ServerIDs /\ obj.spec.labels \in Labels
        /\ 0 \in ServerIDs /\ obj.spec.desc \in Labels
    BY <1>2 DEF Copies, Statuses, IPs, Specs, ServerIDs
  <1>4. ASSUME NEW v \in IPs, v.id < nextID, Carries(obj, v), ip'.id = ip.id, nextID' = nextID
        PROVE  LifeInv'
    BY <1>1, <1>2, <1>4, CarriesLife
  <1>5. CASE Fail(obj) /\ ip'.id = ip.id /\ nextID' = nextID
    <2>1. Carries(obj, NoIP)
      BY <1>2, <1>5, FailCarries
    <2> QED BY <1>1, <1>2, <1>4, <1>5, <2>1
  <1>6. CASE LookupByID \/ LookupByName \/ RefreshAfterUpdate \/ RefreshAfterAssign
    <2>1. ip' = ip /\ nextID' = nextID
      BY <1>6 DEF LookupByID, LookupByName, RefreshAfterUpdate, RefreshAfterAssign, hetzner
    <2>2. CASE \/ ensureMetadata(obj, toIPInfo(ip)) \/ ensureAssignment(obj, toIPInfo(ip))
               \/ ensureDNSPtr(obj, toIPInfo(ip))
      BY <1>1, <1>2, <1>4, <2>1, <2>2, MetadataCarries, AssignmentCarries, DNSCarries
    <2>3. CASE Call("lookupByName", obj, NoIP) \/ Call("create", obj, NoIP)
      <3>1. {"lookupByName", "create"} \subseteq PCs \ (DeleteCalls \cup {"idle"})
        BY DEF PCs, DeleteCalls
      <3>2. Carries(obj, NoIP)
        BY <2>3, <3>1, CallCarries
      <3> QED BY <1>1, <1>2, <1>4, <2>1, <3>2
    <2> QED BY <1>1, <1>5, <1>6, <2>1, <2>2, <2>3
        DEF LookupByID, LookupByName, RefreshAfterUpdate, RefreshAfterAssign
  <1>7. CASE CreateIP
    <2> DEFINE auto == obj.spec.kind = "primary" /\ obj.spec.auto = "on"
               new == [NoIP EXCEPT !.id = nextID, !.labels = obj.spec.labels,
                                   !.desc = obj.spec.desc, !.auto = auto]
               server == IF obj.spec.kind = "floating" THEN obj.spec.ref ELSE 0
    <2>1. auto \in BOOLEAN /\ server \in ServerIDs
      BY <1>3
    <2>2. new \in IPs /\ new.id = nextID
      <3> HIDE DEF auto
      <3> QED BY <1>2, <1>3, <2>1 DEF IPs
    <2>3. CASE /\ ip' \in IF server = 0 THEN {new} ELSE Assigning(new, server)
               /\ nextID' = nextID + 1
               /\ ensureMetadata(obj, toIPInfo(ip'))
      <3> HIDE DEF new, server
      <3>1. ip' \in IPs /\ ip'.id = nextID
        BY <2>1, <2>2, <2>3, AssigningFacts
      <3>2. toIPInfo(ip') \in IPs /\ toIPInfo(ip').id = nextID
        BY <3>1, InfoFacts
      <3>3. Carries(obj, toIPInfo(ip'))
        BY <1>2, <2>3, <3>2, MetadataCarries
      <3>4. nextID' \in Nat /\ nextID' >= nextID /\ nextID < nextID' /\ obj.status.id < nextID'
        BY <1>2, <1>3, <2>3
      <3>5. LifeInv'
        BY <1>1, <1>2, <3>1, <3>2, <3>3, <3>4, CarriesLife
      <3> QED BY <1>1, <1>7, <2>3, <3>1, <3>5
    <2>4. CASE Fail(obj) /\ UNCHANGED hetzner
      BY <1>1, <1>5, <2>4 DEF hetzner
    <2> QED BY <1>7, <2>3, <2>4, Zenon DEF CreateIP
  <1>8. CASE UpdateIP \/ ChangeDNSPtr
    <2>1. nextID' = nextID /\ ip'.id = ip.id
      BY <1>2, <1>8 DEF UpdateIP, ChangeDNSPtr, IPs
    <2>2. CASE Call("refreshUpdate", obj, snap) \/ Call("refreshDNS", obj, snap)
      <3>1. {"refreshUpdate", "refreshDNS"} \subseteq PCs \ (DeleteCalls \cup {"idle"})
        BY DEF PCs, DeleteCalls
      <3>2. Carries(obj, snap)
        BY <2>2, <3>1, CallCarries
      <3> QED BY <1>1, <1>2, <1>4, <2>1, <3>2
    <2> QED BY <1>1, <1>5, <1>8, <2>1, <2>2 DEF UpdateIP, ChangeDNSPtr
  <1>9. CASE UnassignIP \/ AssignIP
    <2>1. nextID' = nextID /\ ip'.id = ip.id
      BY <1>2, <1>3, <1>9, AssigningFacts, UnassigningFacts DEF UnassignIP, AssignIP
    <2>2. ASSUME NEW s, Call("refreshAssign", [obj EXCEPT !.status.applied = s], snap)
          PROVE  LifeInv'
      <3>1. obj'.status.id = obj.status.id /\ snap' = snap /\ pc' = "refreshAssign"
        BY <1>2, <2>2, AppliedID DEF Call
      <3>2. Carries(obj, snap)
        BY <3>1 DEF Carries, DeleteCalls
      <3> QED BY <1>1, <1>2, <1>4, <2>1, <3>2
    <2>3. CASE Call("assign", obj, snap)
      <3>1. Carries(obj, snap)
        BY <2>3, CallCarries DEF PCs, DeleteCalls
      <3> QED BY <1>1, <1>2, <1>4, <2>1, <3>1
    <2> QED BY <1>1, <1>5, <1>9, <2>1, <2>2, <2>3 DEF UnassignIP, AssignIP
  <1>10. CASE RefreshAfterDNS
    <2>1. ip' = ip /\ nextID' = nextID
      BY <1>10 DEF RefreshAfterDNS, hetzner
    <2>2. CASE Call("write", syncStatus(obj, toIPInfo(ip)), NoIP)
      <3>1. obj'.status.id = toIPInfo(ip).id /\ snap'.id = 0 /\ pc' = "write"
        BY <1>2, <2>2, NoneFacts, SyncStatusID DEF Call
      <3>2. Carries(obj, toIPInfo(ip))
        BY <3>1 DEF Carries, DeleteCalls
      <3> QED BY <1>1, <1>2, <1>4, <2>1, <3>2
    <2> QED BY <1>1, <1>5, <1>10, <2>1, <2>2 DEF RefreshAfterDNS
  <1> QED BY <1>6, <1>7, <1>8, <1>9, <1>10

\* The calls for a deleted object.
LEMMA DeleteCallsLife ==
    ASSUME IndInv, LifeInv, UnassignBeforeDelete \/ DeleteIP
    PROVE  /\ UNCHANGED <<phase, status, nextID>> /\ ip'.id \in {ip.id, 0}
           /\ LifeInv'
  <1>1. UNCHANGED <<phase, seen, status, nextID>> /\ pc \in DeleteCalls
    BY DEF UnassignBeforeDelete, DeleteIP, object, hetzner, DeleteCalls
  <1>2. ip'.id \in {ip.id, 0}
    <2>1. ip \in IPs
      BY DEF IndInv, TypeOK
    <2> QED BY <2>1, NoneFacts, UnassigningFacts
        DEF UnassignBeforeDelete, DeleteIP, hetzner
  <1>3. /\ nextID \in Nat \ {0} /\ ip'.id < nextID /\ obj.status.id < nextID
        /\ NoIP.id < nextID /\ obj.phase = "deleting" /\ seen.phase # "live"
    BY <1>1, <1>2, NoneFacts DEF IndInv, TypeOK, LifeInv, IDsIssued, PhasesAgree
  <1>4. CASE Stop
    BY <1>1, <1>2, <1>3, <1>4, StopLife
  <1>5. CASE obj' = obj /\ snap' = NoIP /\ pc' \in DeleteCalls
    BY <1>1, <1>2, <1>3, <1>5, WorkerLife
  <1> QED BY <1>4, <1>5 DEF UnassignBeforeDelete, DeleteIP, Call, DeleteCalls

\* The finalizer is removed, or the update refused.
LEMMA ReleaseLife ==
    ASSUME IndInv, LifeInv, Release
    PROVE  LifeInv'
  <1>1. /\ UNCHANGED <<status, seen, ip, nextID>> /\ phase' \in {phase, "gone"}
        /\ pc = "release" /\ pc' = "idle" /\ obj'.status.id = 0 /\ snap'.id = 0
    BY DEF Release, Stop, hetzner, NoCopy, NoStatus, NoIP
  <1>2. PhasesAgree'
    BY <1>1 DEF LifeInv, PhasesAgree, DeleteCalls
  <1>3. IDsIssued'
    <2>1. nextID \in Nat \ {0}
      BY DEF IndInv, TypeOK
    <2> QED BY <1>1, <2>1 DEF LifeInv, IDsIssued
  <1> QED BY <1>1, <1>2, <1>3 DEF LifeInv, DeleteCalls

\* The copies of the object's phase agree, and nobody names an IP that
\* Hetzner has not given out.
THEOREM IPLife == Spec => []LifeInv
  <1>1. Init => LifeInv
    BY DEF Init, LifeInv, PhasesAgree, IDsIssued, DeleteCalls, Current, NoIP, NoStatus, NoCopy
  <1>2. IndInv /\ LifeInv /\ [Next]_vars => LifeInv'
    <2> SUFFICES ASSUME IndInv, LifeInv, [Next]_vars PROVE LifeInv'
      OBVIOUS
    <2>1. CASE UNCHANGED vars
      BY <2>1 DEF vars, LifeInv, PhasesAgree, IDsIssued
    <2>2. CASE Next
      BY <2>2, EnvironmentLife, FrameLife, CallsLife, DeleteCallsLife, ReleaseLife DEF Next, Work
    <2> QED BY <2>1, <2>2
  <1> QED BY <1>1, <1>2, IPInvariant, PTL DEF Spec

-----------------------------------------------------------------------------
(* The steps of ManagedResource.                                           *)

\* The IP stays or goes: nothing happens, or Destroy.
LEMMA StaysOrGoes ==
    ASSUME UNCHANGED <<phase, nextID>>, status'.id = status.id, ip'.id \in {ip.id, 0}
    PROVE  M!Next
  <1>1. UNCHANGED <<ManagedPhase, Recorded, Issued>>
    BY DEF ManagedPhase, Recorded, Issued
  <1>2. Held' \subseteq Held
    BY DEF Held
  <1> QED BY <1>1, <1>2 DEF M!Next, M!Destroy

\* An IP is created: Provision.
LEMMA Provisions ==
    ASSUME UNCHANGED <<phase, status>>, phase \in Phases \ {"gone"},
           nextID \in Nat \ {0}, nextID' = nextID + 1, ip.id = 0, ip'.id = nextID
    PROVE  M!Next
  <1>1. ManagedPhase \in {"guarded", "terminating"} /\ UNCHANGED <<ManagedPhase, Recorded>>
    BY DEF ManagedPhase, Recorded, Phases
  <1>2. Held = {} /\ Held' = {nextID}
    BY DEF Held
  <1>3. Issued' = Issued \cup {nextID} /\ nextID \notin Issued
    BY DEF Issued
  <1> QED BY <1>1, <1>2, <1>3 DEF M!Next, M!Provision

\* The status takes up an ID: Record.
LEMMA Records ==
    ASSUME UNCHANGED <<phase, ip, nextID>>, phase \in Phases \ {"gone"},
           nextID \in Nat \ {0}, status'.id \in Nat, status'.id < nextID
    PROVE  M!Next
  <1>1. ManagedPhase \in {"guarded", "terminating"} /\ UNCHANGED ManagedPhase
    BY DEF ManagedPhase, Phases
  <1>2. UNCHANGED <<Held, Issued>>
    BY DEF Held, Issued
  <1>3. Recorded' \in Issued \cup {0}
    BY DEF Recorded, Issued
  <1> QED BY <1>1, <1>2, <1>3 DEF M!Next, M!Record

\* The object is deleted: Terminate.
LEMMA Terminates ==
    ASSUME UNCHANGED <<status, ip, nextID>>, phase = "live", phase' = "deleting"
    PROVE  M!Next
  <1>1. ManagedPhase = "guarded" /\ ManagedPhase' = "terminating"
    BY DEF ManagedPhase
  <1>2. UNCHANGED <<Recorded, Held, Issued>>
    BY DEF Recorded, Held, Issued
  <1> QED BY <1>1, <1>2 DEF M!Next, M!Terminate

\* The object goes: Release.
LEMMA Releases ==
    ASSUME UNCHANGED <<status, ip, nextID>>, phase = "deleting", phase' = "gone",
           status.id = 0 \/ ip.id # status.id
    PROVE  M!Next
  <1>1. ManagedPhase = "terminating" /\ ManagedPhase' = "absent"
    BY DEF ManagedPhase
  <1>2. UNCHANGED <<Held, Issued>> /\ Recorded' = 0 /\ Recorded \notin Held
    BY DEF Recorded, Held, Issued
  <1> QED BY <1>1, <1>2 DEF M!Next, M!Release

-----------------------------------------------------------------------------
(* Every step of the controller is one of them.                            *)

\* The status write, for an object that still exists, and the release.
LEMMA EndsManaged ==
    ASSUME IndInv, LifeInv, WriteStatus \/ WriteErrorStatus \/ Release
    PROVE  M!Next
  <1>1. UNCHANGED <<ip, nextID>> /\ nextID \in Nat \ {0}
    BY DEF WriteStatus, WriteErrorStatus, Release, hetzner, IndInv, TypeOK
  <1>2. CASE WriteStatus \/ WriteErrorStatus
    <2>1. /\ phase' = phase /\ phase \in Phases \ {"gone"} /\ obj.status.id \in Nat
          /\ obj.status.id < nextID /\ (status' = obj.status \/ status' = status)
      BY <1>2 DEF WriteStatus, WriteErrorStatus, IndInv, TypeOK, LifeInv, PhasesAgree,
                  DeleteCalls, IDsIssued, Copies, Statuses
    <2>2. CASE status' = status
      BY <1>1, <2>1, <2>2, StaysOrGoes
    <2>3. CASE status' = obj.status
      BY <1>1, <2>1, <2>3, Records
    <2> QED BY <2>1, <2>2, <2>3
  <1>3. CASE Release
    <2>1. status' = status
      BY <1>3 DEF Release
    <2>2. CASE obj = Current
      <3>1. /\ phase' = "gone" /\ phase = "deleting" /\ obj.status = status
            /\ (obj.status.id = 0 \/ ip.id # obj.status.id)
        BY <1>3, <2>2 DEF Release, Current, LifeInv, DeleteCalls, IndInv, RightMoment
      <3> QED BY <1>1, <2>1, <3>1, Releases
    <2>3. CASE obj # Current
      BY <1>1, <1>3, <2>1, <2>3, StaysOrGoes DEF Release
    <2> QED BY <2>2, <2>3
  <1> QED BY <1>2, <1>3

\* Every other step.
LEMMA StepsManaged ==
    ASSUME IndInv, LifeInv, Next, ~WriteStatus, ~WriteErrorStatus, ~Release
    PROVE  M!Next
  <1>1. CASE DeleteObject
    BY <1>1, Terminates DEF DeleteObject, hetzner
  <1>2. CASE \/ EditRef \/ EditLabels \/ EditDescription \/ EditAutoDelete \/ ServerReady
             \/ ServerDestroyed
             \/ ServerObjectGoes \/ CacheSync \/ Progress \/ External
    <2>1. phase' = phase
      BY <1>2 DEF EditRef, EditLabels, EditDescription, EditAutoDelete, ServerReady,
                  ServerDestroyed,
                  ServerObjectGoes, CacheSync, Progress, External, object
    <2> QED BY <1>2, <2>1, EnvironmentLife, StaysOrGoes
  <1>3. CASE Crash \/ CallFails \/ Reconcile
    BY <1>3, StaysOrGoes DEF Crash, CallFails, Reconcile, object, hetzner
  <1>4. CASE \/ LookupByID \/ LookupByName \/ CreateIP \/ UpdateIP \/ RefreshAfterUpdate
             \/ UnassignIP \/ AssignIP \/ RefreshAfterAssign \/ ChangeDNSPtr \/ RefreshAfterDNS
    <2>1. phase \in Phases /\ nextID \in Nat \ {0} /\ (pc = "create" => ip.id = 0)
      BY DEF IndInv, TypeOK, RightMoment
    <2>2. /\ UNCHANGED <<phase, status>> /\ phase # "gone"
          /\ \/ ip'.id = ip.id /\ nextID' = nextID
             \/ CreateIP /\ ip'.id = nextID /\ nextID' = nextID + 1
      BY <1>4, CallsLife
    <2>3. CASE ip'.id = ip.id /\ nextID' = nextID
      BY <2>2, <2>3, StaysOrGoes
    <2>4. CASE CreateIP /\ ip'.id = nextID /\ nextID' = nextID + 1
      <3>1. ip.id = 0
        BY <2>1, <2>4 DEF CreateIP
      <3> QED BY <2>1, <2>2, <2>4, <3>1, Provisions
    <2> QED BY <2>2, <2>3, <2>4
  <1>5. CASE UnassignBeforeDelete \/ DeleteIP
    BY <1>5, DeleteCallsLife, StaysOrGoes
  <1> QED BY <1>1, <1>2, <1>3, <1>4, <1>5 DEF Next, Work

\* An IP is created only where there is none, under a new ID and for an
\* object that still exists; the status names only IDs that were issued; the
\* object goes only after the IP its status names: every step is one of
\* ManagedResource.
THEOREM IPManaged == Spec => KeepsManagedResource
  <1>1. IndInv /\ LifeInv /\ [Next]_vars => [M!Next]_(M!vars)
    <2> SUFFICES ASSUME IndInv, LifeInv, [Next]_vars PROVE [M!Next]_(M!vars)
      OBVIOUS
    <2>1. CASE UNCHANGED vars
      BY <2>1, StaysOrGoes DEF vars
    <2>2. CASE Next
      BY <2>2, EndsManaged, StepsManaged
    <2> QED BY <2>1, <2>2
  <1> QED BY <1>1, IPInvariant, IPLife, PTL DEF Spec, KeepsManagedResource
=============================================================================
