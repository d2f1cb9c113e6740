-------------------------- MODULE HCloudVolumeProofs --------------------------
(***************************************************************************)
(* Proofs about HCloudVolume for every number of servers and sizes and     *)
(* every Budget: type correctness, that the object is let go only after    *)
(* its volume, and that every step is one of ManagedResource.              *)
(***************************************************************************)
EXTENDS HCloudVolume, TLAPS

-----------------------------------------------------------------------------
(* The records.                                                            *)

\* Sizes and servers are numbers.
LEMMA NumberFacts == /\ Sizes \subseteq Nat /\ 1 \in Sizes /\ 0 \notin Sizes
                     /\ ServerIDs \subseteq Nat /\ 0 \in ServerIDs
  BY SizeAssumption, ServersAssumption DEF Sizes, ServerIDs, Servers

\* No volume, no status, no copy.
LEMMA NoneFacts ==
    /\ NoVolume \in Volumes /\ NoVolume.id = 0
    /\ NoStatus \in Statuses /\ NoCopy \in Copies
  BY NumberFacts DEF NoVolume, Volumes, NoStatus, Statuses, NoCopy, Copies, Phases, Specs

\* What a VolumeInfo keeps of a volume.
LEMMA InfoFacts ==
    ASSUME NEW v \in Volumes
    PROVE  toVolumeInfo(v) \in Volumes /\ toVolumeInfo(v).id = v.id
  BY NumberFacts DEF toVolumeInfo, Volumes

\* An accepted attach or detach, of the same volume.
LEMMA AttachingFacts ==
    ASSUME NEW v \in Volumes, NEW s \in ServerIDs, NEW w \in Attaching(v, s)
    PROVE  w \in Volumes /\ w.id = v.id
  BY NumberFacts DEF Attaching, Volumes

LEMMA DetachingFacts ==
    ASSUME NEW v \in Volumes
    PROVE  Detaching(v) \in Volumes /\ Detaching(v).id = v.id
  BY DEF Detaching, Volumes

-----------------------------------------------------------------------------
(* How a reconcile goes on.                                                *)

\* Every branch keeps the copy well-formed and makes neither the call that
\* creates the volume nor the one that lets the object go.
GoesOn == obj' \in Copies /\ snap' \in Volumes /\ pc' \in PCs \ {"create", "release"}

LEMMA FailGoesOn ==
    ASSUME NEW o \in Copies, Fail(o)
    PROVE  GoesOn
  <1>1. obj' \in Copies
    BY DEF Fail, Call, Copies, Statuses
  <1> QED BY <1>1, NoneFacts DEF Fail, Call, GoesOn, PCs

LEMMA SyncStatusGoesOn ==
    ASSUME NEW o \in Copies, NEW v \in Volumes, SyncStatus(o, v)
    PROVE  GoesOn
  <1> DEFINE new == [id |-> v.id, attached |-> v.server, size |-> v.size, ready |-> TRUE]
  <1>1. new \in Statuses
    BY DEF Volumes, Statuses
  <1>2. obj' = [o EXCEPT !.status = new] /\ pc' = "write" /\ snap' = NoVolume
    BY DEF SyncStatus, Call
  <1> HIDE DEF new
  <1>3. obj' \in Copies
    BY <1>1, <1>2 DEF Copies
  <1> QED BY <1>2, <1>3, NoneFacts DEF GoesOn, PCs

LEMMA CallGoesOn ==
    ASSUME NEW o \in Copies, NEW v \in Volumes, NEW step \in PCs \ {"create", "release"},
           Call(step, o, v)
    PROVE  GoesOn
  BY DEF Call, GoesOn

LEMMA EnsureAttachmentGoesOn ==
    ASSUME NEW o \in Copies, NEW v \in Volumes, EnsureAttachment(o, v)
    PROVE  GoesOn
  <1>1. {"attach", "detach"} \subseteq PCs \ {"create", "release"}
    BY DEF PCs
  <1> QED BY <1>1, SyncStatusGoesOn, CallGoesOn DEF EnsureAttachment

LEMMA ReconcileGoesOn ==
    ASSUME NEW o \in Copies, NEW v \in Volumes, reconcileHCloudVolume(o, v)
    PROVE  GoesOn
  <1>1. "resize" \in PCs \ {"create", "release"}
    BY DEF PCs
  <1> QED BY <1>1, FailGoesOn, EnsureAttachmentGoesOn, CallGoesOn DEF reconcileHCloudVolume

\* The worker stops.
LEMMA StopGoesOn ==
    ASSUME Stop
    PROVE  GoesOn
  BY NoneFacts DEF Stop, GoesOn, PCs

-----------------------------------------------------------------------------
(* Ways in which a step keeps the invariant.                               *)

\* The bookkeeping of disturbances.
LEMMA SpendTyped ==
    ASSUME used \in [Disturbances -> Nat], NEW d \in Disturbances, Spend(d)
    PROVE  used' \in [Disturbances -> Nat]
  <1>1. "any" \in Disturbances
    BY DEF Disturbances
  <1>2. used[d] + 1 \in Nat /\ used["any"] + 1 \in Nat
    BY <1>1
  <1> QED BY <1>1, <1>2 DEF Spend

\* The referenced servers come and go.
LEMMA ServersTyped ==
    ASSUME ServersTypeOK, NEW s \in Servers, BecomeReady(s) \/ Destroy(s) \/ ObjectGoes(s)
    PROVE  ServersTypeOK'
  <1>1. srvObj' \in [Servers -> {"pending", "ready", "gone"}]
    BY DEF ServersTypeOK, BecomeReady, Destroy, ObjectGoes
  <1>2. srvLive' \subseteq Servers
    BY DEF ServersTypeOK, BecomeReady, Destroy, ObjectGoes
  <1> QED BY <1>1, <1>2 DEF ServersTypeOK

\* A step that leaves the worker alone, and the volume what it was or gone.
LEMMA EnvironmentKeeps ==
    ASSUME IndInv, UNCHANGED <<pc, obj, snap, status, nextID>>, ServersTypeOK',
           phase' \in Phases, spec' \in Specs, seen' \in Copies,
           used' \in [Disturbances -> Nat],
           vol' \in Volumes, vol'.id \in {vol.id, 0}
    PROVE  IndInv'
  <1>1. TypeOK'
    BY DEF IndInv, TypeOK
  <1>2. RightMoment'
    BY DEF IndInv, RightMoment
  <1> QED BY <1>1, <1>2 DEF IndInv

\* A step of the worker.
LEMMA WorkerKeeps ==
    ASSUME IndInv, UNCHANGED <<servers, spec, seen>>,
           phase' \in Phases, status' \in {status, obj.status},
           used' \in [Disturbances -> Nat],
           vol' \in Volumes, nextID' \in Nat \ {0},
           obj' \in Copies, snap' \in Volumes, pc' \in PCs, RightMoment'
    PROVE  IndInv'
  <1>1. status' \in Statuses
    BY DEF IndInv, TypeOK, Copies
  <1>2. ServersTypeOK'
    BY DEF IndInv, TypeOK, ServersTypeOK, servers
  <1>3. TypeOK'
    BY <1>1, <1>2 DEF IndInv, TypeOK
  <1> QED BY <1>3 DEF IndInv

\* A step of the worker towards a call that needs no right moment.
LEMMA GoesOnKeeps ==
    ASSUME IndInv, UNCHANGED <<servers, spec, seen>>,
           phase' \in Phases, status' \in {status, obj.status},
           used' \in [Disturbances -> Nat],
           vol' \in Volumes, nextID' \in Nat \ {0}, GoesOn
    PROVE  IndInv'
  <1>1. RightMoment' /\ obj' \in Copies /\ snap' \in Volumes /\ pc' \in PCs
    BY DEF GoesOn, RightMoment
  <1> QED BY <1>1, WorkerKeeps

-----------------------------------------------------------------------------
(* The invariant holds at the start and every step keeps it.               *)

\* A fresh object and no volume.
LEMMA InitIndInv == Init => IndInv
  <1> SUFFICES ASSUME Init PROVE IndInv
    OBVIOUS
  <1>1. spec \in Specs
    BY RefsAssumption, NumberFacts DEF Init, Specs
  <1>2. ServersTypeOK
    BY DEF Init, ServersInit, ServersTypeOK
  <1>3. phase \in Phases /\ seen \in Copies
    BY <1>1, NoneFacts DEF Init, Current, Copies, Phases
  <1>4. pc \in PCs /\ used \in [Disturbances -> Nat] /\ nextID \in Nat \ {0}
    BY DEF Init, PCs
  <1>5. TypeOK
    BY <1>1, <1>2, <1>3, <1>4, NoneFacts DEF Init, TypeOK
  <1>6. RightMoment
    BY DEF Init, RightMoment
  <1> QED BY <1>5, <1>6 DEF IndInv

\* Users, the cache and the referenced servers.
LEMMA ObjectStepsIndInv ==
    ASSUME IndInv, \/ EditRef \/ EditSize \/ DeleteObject
                   \/ ServerReady \/ ServerObjectGoes \/ CacheSync
    PROVE  IndInv'
  <1>1. /\ UNCHANGED <<pc, obj, snap, status, vol, nextID>>
        /\ seen' \in {seen, Current}
    BY DEF EditRef, EditSize, DeleteObject, ServerReady, ServerObjectGoes, CacheSync,
           hetzner, worker, object
  <1>2. phase' \in Phases
    BY DEF EditRef, EditSize, DeleteObject, ServerReady, ServerObjectGoes, CacheSync,
           object, IndInv, TypeOK, Phases
  <1>3. spec' \in Specs
    BY DEF EditRef, EditSize, DeleteObject, ServerReady, ServerObjectGoes, CacheSync,
           object, IndInv, TypeOK, Specs
  <1>4. seen' \in Copies
    BY <1>1 DEF IndInv, TypeOK, Current, Copies
  <1>5. used' \in [Disturbances -> Nat]
    <2>1. used \in [Disturbances -> Nat] /\ {"ref", "size", "delete"} \subseteq Disturbances
      BY DEF IndInv, TypeOK, Disturbances
    <2> QED BY <2>1, SpendTyped
        DEF EditRef, EditSize, DeleteObject, ServerReady, ServerObjectGoes, CacheSync
  <1>6. ServersTypeOK'
    <2>1. ServersTypeOK
      BY DEF IndInv, TypeOK
    <2>2. CASE UNCHANGED servers
      BY <2>1, <2>2 DEF servers, ServersTypeOK
    <2> QED BY <2>1, <2>2, ServersTyped
        DEF EditRef, EditSize, DeleteObject, ServerReady, ServerObjectGoes, CacheSync
  <1>7. vol' \in Volumes /\ vol'.id \in {vol.id, 0}
    BY <1>1 DEF IndInv, TypeOK
  <1> QED BY <1>1, <1>2, <1>3, <1>4, <1>5, <1>6, <1>7, EnvironmentKeeps

\* Hetzner's side: a server goes, an action finishes, others act.
LEMMA HetznerStepsIndInv ==
    ASSUME IndInv, ServerDestroyed \/ Progress \/ External
    PROVE  IndInv'
  <1>1. UNCHANGED <<pc, obj, snap, status, nextID, phase, spec, seen>>
    BY DEF ServerDestroyed, Progress, External, worker, object
  <1>2. used' \in [Disturbances -> Nat]
    <2>1. used \in [Disturbances -> Nat] /\ {"server", "external"} \subseteq Disturbances
      BY DEF IndInv, TypeOK, Disturbances
    <2> QED BY <2>1, SpendTyped DEF ServerDestroyed, Progress, External
  <1>3. ServersTypeOK'
    <2>1. ServersTypeOK
      BY DEF IndInv, TypeOK
    <2>2. CASE UNCHANGED servers
      BY <2>1, <2>2 DEF servers, ServersTypeOK
    <2> QED BY <2>1, <2>2, ServersTyped DEF ServerDestroyed, Progress, External
  <1>4. vol' \in Volumes /\ vol'.id \in {vol.id, 0}
    <2>1. vol \in Volumes /\ srvLive \subseteq ServerIDs /\ 0 \in ServerIDs
      BY NumberFacts DEF IndInv, TypeOK, ServersTypeOK, ServerIDs
    <2>2. CASE ServerDestroyed
      BY <2>1, <2>2 DEF ServerDestroyed, Volumes
    <2>3. CASE Progress
      <3> DEFINE s == IF vol.op = "attach" /\ vol.to \in srvLive THEN vol.to ELSE 0
      <3>1. s \in ServerIDs /\ vol' = [vol EXCEPT !.op = "none", !.to = 0, !.server = s]
        BY <2>1, <2>3 DEF Progress
      <3> HIDE DEF s
      <3> QED BY <2>1, <3>1 DEF Volumes
    <2>4. CASE External
      <3>1. CASE vol' = NoVolume
        BY <3>1, NoneFacts
      <3>2. CASE vol' = Detaching(vol)
        BY <2>1, <3>2, DetachingFacts
      <3>3. CASE vol.size < MaxSize /\ vol' = [vol EXCEPT !.size = @ + 1]
        <4>1. vol.size + 1 \in Sizes
          BY <2>1, <3>3, SizeAssumption DEF Volumes, Sizes
        <4> QED BY <2>1, <3>3, <4>1 DEF Volumes
      <3> QED BY <2>4, <3>1, <3>2, <3>3 DEF External
    <2> QED BY <2>2, <2>3, <2>4
  <1>5. phase' \in Phases /\ spec' \in Specs /\ seen' \in Copies
    BY <1>1 DEF IndInv, TypeOK
  <1> QED BY <1>1, <1>2, <1>3, <1>4, <1>5, EnvironmentKeeps

\* The steps of the worker that touch nothing but itself and the status.
LEMMA ReadStepsIndInv ==
    ASSUME IndInv, \/ Crash \/ CallFails \/ Reconcile \/ LookupByID \/ LookupByName
                   \/ Refresh \/ WriteStatus \/ WriteErrorStatus \/ FetchForDeletion
    PROVE  IndInv'
  <1>1. /\ UNCHANGED <<servers, spec, seen, phase, vol, nextID>>
        /\ status' \in {status, obj.status}
    BY DEF Crash, CallFails, Reconcile, LookupByID, LookupByName, Refresh, WriteStatus,
           WriteErrorStatus, FetchForDeletion, object, hetzner
  <1>2. /\ obj \in Copies /\ seen \in Copies /\ vol \in Volumes /\ vol' \in Volumes
        /\ phase' \in Phases /\ nextID' \in Nat \ {0}
    BY <1>1 DEF IndInv, TypeOK
  <1>3. used' \in [Disturbances -> Nat]
    <2>1. used \in [Disturbances -> Nat] /\ {"error", "crash"} \subseteq Disturbances
      BY DEF IndInv, TypeOK, Disturbances
    <2> QED BY <2>1, SpendTyped
        DEF Crash, CallFails, Reconcile, LookupByID, LookupByName, Refresh, WriteStatus,
            WriteErrorStatus, FetchForDeletion
  <1>4. GoesOn => IndInv'
    BY <1>1, <1>2, <1>3, GoesOnKeeps
  <1>5. CASE Stop
    BY <1>4, <1>5, StopGoesOn
  <1>6. CASE Fail(obj)
    BY <1>2, <1>4, <1>6, FailGoesOn
  <1>7. CASE reconcileHCloudVolume(obj, toVolumeInfo(vol)) \/ EnsureAttachment(obj, toVolumeInfo(vol))
    BY <1>2, <1>4, <1>7, InfoFacts, ReconcileGoesOn, EnsureAttachmentGoesOn
  <1>8. CASE Reconcile
    <2>1. CASE Call("write", [seen EXCEPT !.status.ready = FALSE], NoVolume)
      <3>1. obj' \in Copies
        BY <1>2, <2>1 DEF Call, Copies, Statuses
      <3> QED BY <1>4, <2>1, <3>1, NoneFacts DEF Call, GoesOn, PCs
    <2>2. ASSUME NEW step \in {"fetch", "lookupByID", "lookupByName"}, Call(step, seen, NoVolume)
          PROVE  IndInv'
      BY <1>2, <1>4, <2>2, NoneFacts, CallGoesOn DEF PCs
    <2>3. CASE seen.status.id = 0 /\ Call("release", seen, NoVolume)
      <3>1. RightMoment' /\ obj' \in Copies /\ snap' \in Volumes /\ pc' \in PCs
        BY <1>2, <2>3, NoneFacts DEF Call, RightMoment, PCs
      <3> QED BY <1>1, <1>2, <1>3, <3>1, WorkerKeeps
    <2> QED BY <1>8, <2>1, <2>2, <2>3 DEF Reconcile
  <1>9. CASE LookupByID
    <2>1. CASE Call("lookupByName", obj, NoVolume)
      BY <1>2, <1>4, <2>1, NoneFacts, CallGoesOn DEF PCs
    <2> QED BY <1>7, <1>9, <2>1 DEF LookupByID
  <1>10. CASE LookupByName
    <2>1. CASE vol.id = 0 /\ Call("create", obj, NoVolume)
      <3>1. RightMoment' /\ obj' \in Copies /\ snap' \in Volumes /\ pc' \in PCs
        BY <1>1, <1>2, <2>1, NoneFacts DEF Call, RightMoment, PCs
      <3> QED BY <1>1, <1>2, <1>3, <3>1, WorkerKeeps
    <2> QED BY <1>7, <1>10, <2>1 DEF LookupByName
  <1>11. CASE FetchForDeletion
    <2>1. ASSUME NEW step \in {"delete", "detachFirst"}, Call(step, obj, NoVolume)
          PROVE  IndInv'
      BY <1>2, <1>4, <2>1, NoneFacts, CallGoesOn DEF PCs
    <2> QED BY <1>11, <2>1 DEF FetchForDeletion
  <1>12. CASE Refresh
    BY <1>6, <1>7, <1>12 DEF Refresh
  <1> QED BY <1>5, <1>6, <1>8, <1>9, <1>10, <1>11, <1>12
      DEF Crash, CallFails, WriteStatus, WriteErrorStatus

\* The steps of the worker that change the volume.
LEMMA ChangeStepsIndInv ==
    ASSUME IndInv, \/ CreateVolume \/ ResizeVolume \/ DetachVolume \/ AttachVolume
                   \/ DetachBeforeDelete
    PROVE  IndInv'
  <1>1. UNCHANGED <<servers, spec, seen, phase, status, used>>
    BY DEF CreateVolume, ResizeVolume, DetachVolume, AttachVolume, DetachBeforeDelete, object
  <1>2. /\ obj \in Copies /\ vol \in Volumes /\ snap \in Volumes /\ nextID \in Nat \ {0}
        /\ phase' \in Phases /\ used' \in [Disturbances -> Nat]
        /\ obj.spec \in Specs /\ obj.spec.ref \in ServerIDs /\ obj.spec.size \in Sizes
        /\ srvLive \subseteq ServerIDs
    BY <1>1 DEF IndInv, TypeOK, Copies, Specs, ServersTypeOK, ServerIDs
  <1>3. ASSUME vol' \in Volumes, nextID' \in Nat \ {0}, GoesOn
        PROVE  IndInv'
    BY <1>1, <1>2, <1>3, GoesOnKeeps
  <1>4. CASE UNCHANGED hetzner /\ (Fail(obj) \/ Stop)
    BY <1>2, <1>3, <1>4, FailGoesOn, StopGoesOn DEF hetzner
  <1>5. CASE CreateVolume
    <2> DEFINE new == [NoVolume EXCEPT !.id = nextID, !.size = obj.spec.size]
    <2>1. new \in Volumes
      BY <1>2, NoneFacts DEF NoVolume, Volumes
    <2>2. CASE /\ vol' \in IF obj.spec.ref = 0 THEN {new} ELSE Attaching(new, obj.spec.ref)
               /\ nextID' = nextID + 1
               /\ reconcileHCloudVolume(obj, toVolumeInfo(vol'))
      <3> HIDE DEF new
      <3>1. vol' \in Volumes
        BY <1>2, <2>1, <2>2, AttachingFacts
      <3>2. nextID' \in Nat \ {0}
        BY <1>2, <2>2
      <3>3. GoesOn
        BY <1>2, <2>2, <3>1, InfoFacts, ReconcileGoesOn
      <3> QED BY <1>3, <3>1, <3>2, <3>3
    <2> QED BY <1>4, <1>5, <2>2 DEF CreateVolume
  <1>6. CASE ResizeVolume
    <2>1. CASE /\ vol' \in {vol, [vol EXCEPT !.size = obj.spec.size]}
               /\ nextID' = nextID /\ Call("refresh", obj, snap)
      <3>1. vol' \in Volumes
        BY <1>2, <2>1 DEF Volumes
      <3>2. GoesOn
        BY <1>2, <2>1, CallGoesOn DEF PCs
      <3> QED BY <1>2, <1>3, <2>1, <3>1, <3>2
    <2> QED BY <1>4, <1>6, <2>1 DEF ResizeVolume, hetzner
  <1>7. CASE DetachVolume \/ DetachBeforeDelete
    <2>1. CASE vol' = Detaching(vol) /\ nextID' = nextID /\ GoesOn
      BY <1>2, <1>3, <2>1, DetachingFacts
    <2>2. SyncStatus(obj, snap) \/ Call("attach", obj, snap) \/ Call("delete", obj, NoVolume)
            => GoesOn
      BY <1>2, NoneFacts, SyncStatusGoesOn, CallGoesOn DEF PCs
    <2> QED BY <1>4, <1>7, <2>1, <2>2 DEF DetachVolume, DetachBeforeDelete, hetzner
  <1>8. CASE AttachVolume
    <2>1. CASE /\ vol' \in Attaching(vol, obj.spec.ref) /\ nextID' = nextID
               /\ SyncStatus(obj, [snap EXCEPT !.server = obj.spec.ref])
      <3> DEFINE v == [snap EXCEPT !.server = obj.spec.ref]
      <3>1. v \in Volumes /\ SyncStatus(obj, v)
        BY <1>2, <2>1 DEF Volumes
      <3> HIDE DEF v
      <3>2. GoesOn
        BY <1>2, <3>1, SyncStatusGoesOn
      <3> QED BY <1>2, <1>3, <2>1, <3>2, AttachingFacts
    <2> QED BY <1>4, <1>8, <2>1 DEF AttachVolume, hetzner
  <1> QED BY <1>5, <1>6, <1>7, <1>8

\* The volume is deleted, or was gone, before the object is let go.
LEMMA DeleteIndInv ==
    ASSUME IndInv, DeleteVolume \/ Release
    PROVE  IndInv'
  <1>1. UNCHANGED <<servers, spec, seen, status, used, nextID>>
    BY DEF DeleteVolume, Release, object, hetzner
  <1>2. /\ obj \in Copies /\ vol \in Volumes /\ nextID' \in Nat \ {0}
        /\ used' \in [Disturbances -> Nat]
    BY <1>1 DEF IndInv, TypeOK
  <1>3. phase' \in Phases
    BY DEF IndInv, TypeOK, Phases, DeleteVolume, Release, object
  <1>4. vol' \in Volumes
    BY <1>2, NoneFacts DEF DeleteVolume, Release, hetzner
  <1>5. CASE Stop
    BY <1>1, <1>2, <1>3, <1>4, <1>5, StopGoesOn, GoesOnKeeps
  <1>6. CASE /\ vol' = IF vol.id = obj.status.id THEN NoVolume ELSE vol
             /\ Call("release", obj, NoVolume)
    <2>1. obj' = obj /\ pc' = "release" /\ snap' = NoVolume
      BY <1>6 DEF Call
    <2>2. obj.status.id = 0 \/ vol'.id # obj.status.id
      BY <1>6, NoneFacts
    <2>3. RightMoment' /\ obj' \in Copies /\ snap' \in Volumes /\ pc' \in PCs
      BY <1>2, <2>1, <2>2, NoneFacts DEF RightMoment, PCs
    <2> QED BY <1>1, <1>2, <1>3, <1>4, <2>3, WorkerKeeps
  <1> QED BY <1>5, <1>6 DEF DeleteVolume, Release

\* Every step keeps the invariant.
LEMMA NextIndInv == IndInv /\ [Next]_vars => IndInv'
  <1> SUFFICES ASSUME IndInv, [Next]_vars PROVE IndInv'
    OBVIOUS
  <1>1. CASE UNCHANGED vars
    BY <1>1 DEF vars, IndInv, TypeOK, ServersTypeOK, RightMoment
  <1>2. CASE Next
    BY <1>2, ObjectStepsIndInv, HetznerStepsIndInv, ReadStepsIndInv, ChangeStepsIndInv,
       DeleteIndInv
    DEF Next, Work
  <1> QED BY <1>1, <1>2

\* The worker is about to create a volume only where there is none, and about
\* to let the object go only after the volume of its copy.
THEOREM VolumeInvariant == Spec => []IndInv
  BY InitIndInv, NextIndInv, PTL DEF Spec

\* Every variable keeps its type: sizes stay within the sizes users ask for,
\* servers within the servers there are.
THEOREM VolumeTypes == Spec => []TypeOK
  <1>1. IndInv => TypeOK
    BY DEF IndInv
  <1> QED BY <1>1, VolumeInvariant, PTL

\* Only the finalizer update lets the object go, and only with an up-to-date
\* copy: the volume it names is then gone.
LEMMA ReleaseIsLate ==
    ASSUME IndInv, [Next]_vars, phase' = "gone", phase # "gone"
    PROVE  status.id = 0 \/ vol.id # status.id
  <1>1. Release /\ obj = Current
    <2>1. Next
      BY DEF vars
    <2>2. CASE Work
      BY <2>2 DEF Work, Reconcile, LookupByID, LookupByName, CreateVolume, ResizeVolume,
         Refresh, DetachVolume, AttachVolume, WriteStatus, WriteErrorStatus, FetchForDeletion,
         DetachBeforeDelete, DeleteVolume, Release, object
    <2> QED BY <2>1, <2>2
        DEF Next, EditRef, EditSize, DeleteObject, ServerReady, ServerDestroyed,
            ServerObjectGoes, CacheSync, Crash, CallFails, Progress, External, object
  <1>2. obj.status = status /\ pc = "release"
    BY <1>1 DEF Release, Current
  <1> QED BY <1>2 DEF IndInv, RightMoment

\* README, "Safe Cleanup": whatever fails and in whatever order, the object of
\* a volume goes only after the volume its status names.
THEOREM VolumeRemovalSafe == Spec => VolumeGoesFirst
  <1>1. IndInv /\ [Next]_vars
          => [phase' = "gone" /\ phase # "gone" => status.id = 0 \/ vol.id # status.id]_vars
    BY ReleaseIsLate
  <1> QED BY <1>1, VolumeInvariant, PTL DEF Spec, VolumeGoesFirst

-----------------------------------------------------------------------------
(* Phases and IDs.                                                         *)

\* The reconcile goes on with what it knows of the volume, and not to delete.
Carries(o, v) ==
    /\ obj'.status.id \in {o.status.id, v.id} /\ snap'.id \in {v.id, 0}
    /\ pc' \notin DeleteCalls \cup {"idle"}

LEMMA FailCarries ==
    ASSUME NEW o \in Copies, NEW v, Fail(o)
    PROVE  Carries(o, v)
  <1>1. obj'.status.id = o.status.id
    BY DEF Fail, Call, Copies, Statuses
  <1> QED BY <1>1, NoneFacts DEF Fail, Call, Carries, DeleteCalls

LEMMA SyncStatusCarries ==
    ASSUME NEW o \in Copies, NEW v \in Volumes, SyncStatus(o, v)
    PROVE  Carries(o, v)
  <1>1. obj'.status.id = v.id
    BY DEF SyncStatus, Call, Copies
  <1> QED BY <1>1, NoneFacts DEF SyncStatus, Call, Carries, DeleteCalls

LEMMA CallCarries ==
    ASSUME NEW o, NEW v, NEW step \in PCs \ (DeleteCalls \cup {"idle"}), Call(step, o, v)
    PROVE  Carries(o, v)
  BY DEF Call, Carries

LEMMA EnsureAttachmentCarries ==
    ASSUME NEW o \in Copies, NEW v \in Volumes, EnsureAttachment(o, v)
    PROVE  Carries(o, v)
  <1>1. {"attach", "detach"} \subseteq PCs \ (DeleteCalls \cup {"idle"})
    BY DEF PCs, DeleteCalls
  <1> QED BY <1>1, SyncStatusCarries, CallCarries DEF EnsureAttachment

LEMMA ReconcileCarries ==
    ASSUME NEW o \in Copies, NEW v \in Volumes, reconcileHCloudVolume(o, v)
    PROVE  Carries(o, v)
  <1>1. "resize" \in PCs \ (DeleteCalls \cup {"idle"})
    BY DEF PCs, DeleteCalls
  <1> QED BY <1>1, FailCarries, EnsureAttachmentCarries, CallCarries DEF reconcileHCloudVolume

\* A step of the worker.
LEMMA WorkerLife ==
    ASSUME IndInv, LifeInv, UNCHANGED <<phase, seen>>, status' \in {status, obj.status},
           nextID' \in Nat, nextID' >= nextID,
           vol'.id < nextID', obj'.status.id < nextID', snap'.id < nextID',
           pc' \notin DeleteCalls \cup {"idle"} => phase # "gone",
           pc' \in DeleteCalls => (obj'.phase = "deleting" /\ seen.phase # "live")
    PROVE  LifeInv'
  <1>1. PhasesAgree'
    BY DEF LifeInv, PhasesAgree
  <1>2. IDsIssued'
    <2>1. /\ status.id \in Nat /\ obj.status.id \in Nat /\ seen.status.id \in Nat
          /\ nextID \in Nat
      BY DEF IndInv, TypeOK, Copies, Statuses
    <2> QED BY <2>1 DEF LifeInv, IDsIssued
  <1> QED BY <1>1, <1>2 DEF LifeInv

\* A step of a worker that reconciles.
LEMMA CarriesLife ==
    ASSUME IndInv, LifeInv, UNCHANGED <<phase, seen, status>>, phase # "gone",
           nextID' \in Nat, nextID' >= nextID, vol'.id < nextID',
           NEW o \in Copies, NEW v \in Volumes, o.status.id < nextID', v.id < nextID',
           Carries(o, v)
    PROVE  LifeInv'
  <1>1. nextID \in Nat \ {0}
    BY DEF IndInv, TypeOK
  <1>2. obj'.status.id < nextID' /\ snap'.id < nextID'
    BY <1>1 DEF Carries
  <1>3. pc' \notin DeleteCalls
    BY DEF Carries
  <1> QED BY <1>2, <1>3, WorkerLife

\* The worker stops.
LEMMA StopLife ==
    ASSUME IndInv, LifeInv, Stop, UNCHANGED <<phase, seen, nextID>>,
           status' \in {status, obj.status}, vol'.id < nextID
    PROVE  LifeInv'
  <1>1. pc' = "idle" /\ obj'.status.id = 0 /\ snap'.id = 0
    BY DEF Stop, NoCopy, NoStatus, NoVolume
  <1>2. nextID \in Nat /\ 0 < nextID
    BY DEF IndInv, TypeOK
  <1> QED BY <1>1, <1>2, WorkerLife DEF DeleteCalls

\* Users, the cache, the servers and Hetzner.
LEMMA EnvironmentLife ==
    ASSUME IndInv, LifeInv,
           \/ EditRef \/ EditSize \/ DeleteObject \/ ServerReady \/ ServerDestroyed
           \/ ServerObjectGoes \/ CacheSync \/ Progress \/ External
    PROVE  /\ UNCHANGED <<status, nextID>> /\ vol'.id \in {vol.id, 0}
           /\ LifeInv'
  <1>1. UNCHANGED <<pc, obj, snap, status, nextID>>
    BY DEF EditRef, EditSize, DeleteObject, ServerReady, ServerDestroyed, ServerObjectGoes,
           CacheSync, Progress, External, worker, object, hetzner
  <1>2. vol'.id \in {vol.id, 0}
    <2>1. vol \in Volumes
      BY DEF IndInv, TypeOK
    <2>2. CASE ServerDestroyed
      BY <2>1, <2>2 DEF ServerDestroyed, Volumes
    <2>3. CASE Progress
      BY <2>1, <2>3 DEF Progress, Volumes
    <2>4. CASE External
      BY <2>1, <2>4, NoneFacts, DetachingFacts DEF External, Volumes
    <2> QED BY <2>2, <2>3, <2>4
        DEF EditRef, EditSize, DeleteObject, ServerReady, ServerObjectGoes, CacheSync, hetzner
  <1>3. \/ UNCHANGED <<phase, seen>>
        \/ phase' = phase /\ seen' = Current
        \/ phase = "live" /\ phase' = "deleting" /\ seen' = seen
    BY DEF EditRef, EditSize, DeleteObject, ServerReady, ServerDestroyed, ServerObjectGoes,
           CacheSync, Progress, External, object
  <1>4. PhasesAgree'
    BY <1>1, <1>3 DEF LifeInv, PhasesAgree, Current
  <1>5. IDsIssued'
    <2>1. nextID \in Nat \ {0}
      BY DEF IndInv, TypeOK
    <2>2. vol'.id < nextID
      BY <1>2, <2>1 DEF LifeInv, IDsIssued
    <2>3. seen'.status.id \in {seen.status.id, status.id}
      BY <1>3 DEF Current
    <2> QED BY <1>1, <2>2, <2>3 DEF LifeInv, IDsIssued
  <1> QED BY <1>1, <1>2, <1>4, <1>5 DEF LifeInv

\* The steps of the worker before and after the calls for a live object.
LEMMA FrameLife ==
    ASSUME IndInv, LifeInv,
           \/ Crash \/ CallFails \/ Reconcile \/ WriteStatus \/ WriteErrorStatus
    PROVE  LifeInv'
  <1>1. UNCHANGED <<phase, seen, vol, nextID>> /\ status' \in {status, obj.status}
    BY DEF Crash, CallFails, Reconcile, WriteStatus, WriteErrorStatus, object, hetzner
  <1>2. /\ obj \in Copies /\ seen \in Copies /\ nextID \in Nat \ {0} /\ vol.id < nextID
        /\ NoVolume \in Volumes /\ NoVolume.id < nextID
        /\ obj.status.id < nextID /\ seen.status.id < nextID
    BY NoneFacts DEF IndInv, TypeOK, LifeInv, IDsIssued
  <1>3. CASE Stop
    BY <1>1, <1>2, <1>3, StopLife
  <1>4. CASE CallFails /\ Fail(obj)
    <2>1. phase # "gone" /\ status' = status
      BY <1>4 DEF CallFails, LifeInv, PhasesAgree, DeleteCalls, object, Fail, Call, Stop
    <2> QED BY <1>1, <1>2, <1>4, <2>1, FailCarries, CarriesLife
  <1>5. CASE Reconcile
    <2>1. status' = status
      BY <1>5 DEF Reconcile, object
    <2>2. CASE /\ seen.phase = "deleting"
               /\ Call(IF seen.status.id = 0 THEN "release" ELSE "fetch", seen, NoVolume)
      <3>1. obj' = seen /\ snap' = NoVolume /\ pc' \in DeleteCalls
        BY <2>2 DEF Call, DeleteCalls
      <3> QED BY <1>1, <1>2, <2>2, <3>1, WorkerLife
    <2>3. CASE seen.phase # "deleting"
      <3>1. phase # "gone"
        BY <1>2, <1>5, <2>3 DEF Reconcile, LifeInv, PhasesAgree, Copies, Phases
      <3>2. CASE Call("write", [seen EXCEPT !.status.ready = FALSE], NoVolume)
        <4>1. obj'.status.id = seen.status.id /\ snap' = NoVolume /\ pc' = "write"
          BY <1>2, <3>2 DEF Call, Copies, Statuses
        <4> QED BY <1>1, <1>2, <2>1, <3>1, <4>1, WorkerLife DEF DeleteCalls
      <3>3. ASSUME NEW step \in {"lookupByID", "lookupByName"}, Call(step, seen, NoVolume)
            PROVE  LifeInv'
        <4>1. Carries(seen, NoVolume)
          BY <3>3, CallCarries DEF PCs, DeleteCalls
        <4> QED BY <1>1, <1>2, <2>1, <3>1, <4>1, CarriesLife
      <3> QED BY <1>5, <2>3, <3>2, <3>3 DEF Reconcile
    <2> QED BY <1>5, <2>2, <2>3 DEF Reconcile
  <1> QED BY <1>3, <1>4, <1>5 DEF Crash, CallFails, WriteStatus, WriteErrorStatus

\* The calls for a live object.
LEMMA CallsLife ==
    ASSUME IndInv, LifeInv,
           \/ LookupByID \/ LookupByName \/ CreateVolume \/ ResizeVolume \/ Refresh
           \/ DetachVolume \/ AttachVolume
    PROVE  /\ UNCHANGED <<phase, status>> /\ phase # "gone"
           /\ \/ vol'.id = vol.id /\ nextID' = nextID
              \/ CreateVolume /\ vol'.id = nextID /\ nextID' = nextID + 1
           /\ LifeInv'
  <1>1. UNCHANGED <<phase, seen, status>> /\ phase # "gone"
    BY DEF LookupByID, LookupByName, CreateVolume, ResizeVolume, Refresh, DetachVolume,
           AttachVolume, object, LifeInv, PhasesAgree, DeleteCalls
  <1>2. /\ obj \in Copies /\ vol \in Volumes /\ snap \in Volumes /\ nextID \in Nat \ {0}
        /\ vol.id < nextID /\ obj.status.id < nextID /\ snap.id < nextID
        /\ obj.status.id \in Nat /\ vol.id \in Nat /\ snap.id \in Nat
        /\ NoVolume \in Volumes /\ NoVolume.id < nextID
        /\ toVolumeInfo(vol) \in Volumes /\ toVolumeInfo(vol).id < nextID
        /\ obj.spec.ref \in ServerIDs /\ obj.spec.size \in Sizes
    BY NoneFacts, InfoFacts
    DEF IndInv, TypeOK, LifeInv, IDsIssued, Copies, Statuses, Volumes, Specs
  <1>3. ASSUME NEW v \in Volumes, v.id < nextID, Carries(obj, v),
               vol'.id = vol.id, nextID' = nextID
        PROVE  LifeInv'
    BY <1>1, <1>2, <1>3, CarriesLife
  <1>4. CASE Fail(obj) /\ vol'.id = vol.id /\ nextID' = nextID
    <2>1. Carries(obj, NoVolume)
      BY <1>2, <1>4, FailCarries
    <2> QED BY <1>1, <1>2, <1>3, <1>4, <2>1
  <1>5. CASE LookupByID \/ LookupByName \/ Refresh
    <2>1. vol' = vol /\ nextID' = nextID
      BY <1>5 DEF LookupByID, LookupByName, Refresh, hetzner
    <2>2. CASE \/ reconcileHCloudVolume(obj, toVolumeInfo(vol))
               \/ EnsureAttachment(obj, toVolumeInfo(vol))
      BY <1>1, <1>2, <1>3, <2>1, <2>2, ReconcileCarries, EnsureAttachmentCarries
    <2>3. CASE Call("lookupByName", obj, NoVolume) \/ Call("create", obj, NoVolume)
      <3>1. {"lookupByName", "create"} \subseteq PCs \ (DeleteCalls \cup {"idle"})
        BY DEF PCs, DeleteCalls
      <3>2. Carries(obj, NoVolume)
        BY <2>3, <3>1, CallCarries
      <3> QED BY <1>1, <1>2, <1>3, <2>1, <3>2
    <2> QED BY <1>1, <1>4, <1>5, <2>1, <2>2, <2>3 DEF LookupByID, LookupByName, Refresh
  <1>6. CASE CreateVolume
    <2> DEFINE new == [NoVolume EXCEPT !.id = nextID, !.size = obj.spec.size]
    <2>1. new \in Volumes /\ new.id = nextID
      BY <1>2 DEF NoVolume, Volumes
    <2>2. CASE /\ vol' \in IF obj.spec.ref = 0 THEN {new} ELSE Attaching(new, obj.spec.ref)
               /\ nextID' = nextID + 1
               /\ reconcileHCloudVolume(obj, toVolumeInfo(vol'))
      <3> HIDE DEF new
      <3>1. vol' \in Volumes /\ vol'.id = nextID
        BY <1>2, <2>1, <2>2, AttachingFacts
      <3>2. toVolumeInfo(vol') \in Volumes /\ toVolumeInfo(vol').id = nextID
        BY <3>1, InfoFacts
      <3>3. Carries(obj, toVolumeInfo(vol'))
        BY <1>2, <2>2, <3>2, ReconcileCarries
      <3>4. nextID' \in Nat /\ nextID' >= nextID /\ nextID < nextID' /\ obj.status.id < nextID'
        BY <1>2, <2>2
      <3>5. LifeInv'
        BY <1>1, <1>2, <3>1, <3>2, <3>3, <3>4, CarriesLife
      <3> QED BY <1>1, <1>6, <2>2, <3>1, <3>5
    <2>3. CASE Fail(obj) /\ UNCHANGED hetzner
      BY <1>1, <1>4, <2>3 DEF hetzner
    <2> QED BY <1>6, <2>2, <2>3 DEF CreateVolume
  <1>7. CASE ResizeVolume
    <2>1. nextID' = nextID /\ vol'.id = vol.id
      BY <1>2, <1>7 DEF ResizeVolume, Volumes
    <2>2. CASE Call("refresh", obj, snap)
      <3>1. Carries(obj, snap)
        BY <2>2, CallCarries DEF PCs, DeleteCalls
      <3> QED BY <1>1, <1>2, <1>3, <2>1, <3>1
    <2> QED BY <1>1, <1>4, <1>7, <2>1, <2>2 DEF ResizeVolume
  <1>8. CASE DetachVolume
    <2>1. nextID' = nextID /\ vol'.id = vol.id
      BY <1>2, <1>8, DetachingFacts DEF DetachVolume
    <2>2. CASE SyncStatus(obj, snap) \/ Call("attach", obj, snap)
      <3>1. Carries(obj, snap)
        BY <1>2, <2>2, SyncStatusCarries, CallCarries DEF PCs, DeleteCalls
      <3> QED BY <1>1, <1>2, <1>3, <2>1, <3>1
    <2> QED BY <1>1, <1>4, <1>8, <2>1, <2>2 DEF DetachVolume
  <1>9. CASE AttachVolume
    <2>1. nextID' = nextID /\ vol'.id = vol.id
      BY <1>2, <1>9, AttachingFacts DEF AttachVolume
    <2>2. CASE SyncStatus(obj, [snap EXCEPT !.server = obj.spec.ref])
      <3> DEFINE v == [snap EXCEPT !.server = obj.spec.ref]
      <3>1. v \in Volumes /\ v.id = snap.id /\ SyncStatus(obj, v)
        BY <1>2, <2>2 DEF Volumes
      <3> HIDE DEF v
      <3>2. Carries(obj, v)
        BY <1>2, <3>1, SyncStatusCarries
      <3> QED BY <1>1, <1>2, <1>3, <2>1, <3>1, <3>2
    <2> QED BY <1>1, <1>4, <1>9, <2>1, <2>2 DEF AttachVolume
  <1> QED BY <1>5, <1>6, <1>7, <1>8, <1>9

\* The calls for a deleted object.
LEMMA DeleteCallsLife ==
    ASSUME IndInv, LifeInv, FetchForDeletion \/ DetachBeforeDelete \/ DeleteVolume
    PROVE  /\ UNCHANGED <<phase, status, nextID>> /\ vol'.id \in {vol.id, 0}
           /\ LifeInv'
  <1>1. UNCHANGED <<phase, seen, status, nextID>> /\ pc \in DeleteCalls
    BY DEF FetchForDeletion, DetachBeforeDelete, DeleteVolume, object, hetzner, DeleteCalls
  <1>2. vol'.id \in {vol.id, 0}
    <2>1. vol \in Volumes
      BY DEF IndInv, TypeOK
    <2> QED BY <2>1, NoneFacts, DetachingFacts
        DEF FetchForDeletion, DetachBeforeDelete, DeleteVolume, hetzner
  <1>3. /\ nextID \in Nat \ {0} /\ vol'.id < nextID /\ obj.status.id < nextID
        /\ NoVolume.id < nextID /\ obj.phase = "deleting" /\ seen.phase # "live"
    BY <1>1, <1>2, NoneFacts DEF IndInv, TypeOK, LifeInv, IDsIssued, PhasesAgree
  <1>4. CASE Stop
    BY <1>1, <1>2, <1>3, <1>4, StopLife
  <1>5. CASE obj' = obj /\ snap' = NoVolume /\ pc' \in DeleteCalls
    BY <1>1, <1>2, <1>3, <1>5, WorkerLife
  <1> QED BY <1>4, <1>5 DEF FetchForDeletion, DetachBeforeDelete, DeleteVolume, Call, DeleteCalls

\* The finalizer is removed, or the update refused.
LEMMA ReleaseLife ==
    ASSUME IndInv, LifeInv, Release
    PROVE  LifeInv'
  <1>1. /\ UNCHANGED <<status, seen, vol, nextID>> /\ phase' \in {phase, "gone"}
        /\ pc = "release" /\ pc' = "idle" /\ obj'.status.id = 0 /\ snap'.id = 0
    BY DEF Release, Stop, hetzner, NoCopy, NoStatus, NoVolume
  <1>2. PhasesAgree'
    BY <1>1 DEF LifeInv, PhasesAgree, DeleteCalls
  <1>3. IDsIssued'
    <2>1. nextID \in Nat \ {0}
      BY DEF IndInv, TypeOK
    <2> QED BY <1>1, <2>1 DEF LifeInv, IDsIssued
  <1> QED BY <1>1, <1>2, <1>3 DEF LifeInv, DeleteCalls

\* The copies of the object's phase agree, and nobody names a volume that
\* Hetzner has not given out.
THEOREM VolumeLife == Spec => []LifeInv
  <1>1. Init => LifeInv
    BY DEF Init, LifeInv, PhasesAgree, IDsIssued, DeleteCalls, Current, NoVolume, NoStatus, NoCopy
  <1>2. IndInv /\ LifeInv /\ [Next]_vars => LifeInv'
    <2> SUFFICES ASSUME IndInv, LifeInv, [Next]_vars PROVE LifeInv'
      OBVIOUS
    <2>1. CASE UNCHANGED vars
      BY <2>1 DEF vars, LifeInv, PhasesAgree, IDsIssued
    <2>2. CASE Next
      BY <2>2, EnvironmentLife, FrameLife, CallsLife, DeleteCallsLife, ReleaseLife DEF Next, Work
    <2> QED BY <2>1, <2>2
  <1> QED BY <1>1, <1>2, VolumeInvariant, PTL DEF Spec

-----------------------------------------------------------------------------
(* The steps of ManagedResource.                                           *)

\* The volume stays or goes: nothing happens, or Destroy.
LEMMA StaysOrGoes ==
    ASSUME UNCHANGED <<phase, nextID>>, status'.id = status.id, vol'.id \in {vol.id, 0}
    PROVE  M!Next
  <1>1. UNCHANGED <<ManagedPhase, Recorded, Issued>>
    BY DEF ManagedPhase, Recorded, Issued
  <1>2. Held' \subseteq Held
    BY DEF Held
  <1> QED BY <1>1, <1>2 DEF M!Next, M!Destroy

\* A volume is created: Provision.
LEMMA Provisions ==
    ASSUME UNCHANGED <<phase, status>>, phase \in Phases \ {"gone"},
           nextID \in Nat \ {0}, nextID' = nextID + 1, vol.id = 0, vol'.id = nextID
    PROVE  M!Next
  <1>1. ManagedPhase \in {"guarded", "terminating"} /\ UNCHANGED <<ManagedPhase, Recorded>>
    BY DEF ManagedPhase, Recorded, Phases
  <1>2. Held = {} /\ Held' = {nextID}
    BY DEF Held
  <1>3. Issued' = Issued \cup {nextID} /\ nextID \notin Issued
    BY DEF Issued
  <1> QED BY <1>1, <1>2, <1>3 DEF M!Next, M!Provision

\* The status takes up an ID: Record.
LEMMA Records ==
    ASSUME UNCHANGED <<phase, vol, nextID>>, phase \in Phases \ {"gone"},
           nextID \in Nat \ {0}, status'.id \in Nat, status'.id < nextID
    PROVE  M!Next
  <1>1. ManagedPhase \in {"guarded", "terminating"} /\ UNCHANGED ManagedPhase
    BY DEF ManagedPhase, Phases
  <1>2. UNCHANGED <<Held, Issued>>
    BY DEF Held, Issued
  <1>3. Recorded' \in Issued \cup {0}
    BY DEF Recorded, Issued
  <1> QED BY <1>1, <1>2, <1>3 DEF M!Next, M!Record

\* The object is deleted: Terminate.
LEMMA Terminates ==
    ASSUME UNCHANGED <<status, vol, nextID>>, phase = "live", phase' = "deleting"
    PROVE  M!Next
  <1>1. ManagedPhase = "guarded" /\ ManagedPhase' = "terminating"
    BY DEF ManagedPhase
  <1>2. UNCHANGED <<Recorded, Held, Issued>>
    BY DEF Recorded, Held, Issued
  <1> QED BY <1>1, <1>2 DEF M!Next, M!Terminate

\* The object goes: Release.
LEMMA Releases ==
    ASSUME UNCHANGED <<status, vol, nextID>>, phase = "deleting", phase' = "gone",
           status.id = 0 \/ vol.id # status.id
    PROVE  M!Next
  <1>1. ManagedPhase = "terminating" /\ ManagedPhase' = "absent"
    BY DEF ManagedPhase
  <1>2. UNCHANGED <<Held, Issued>> /\ Recorded' = 0 /\ Recorded \notin Held
    BY DEF Recorded, Held, Issued
  <1> QED BY <1>1, <1>2 DEF M!Next, M!Release

-----------------------------------------------------------------------------
(* Every step of the controller is one of them.                            *)

\* The status write, for an object that still exists, and the release.
LEMMA EndsManaged ==
    ASSUME IndInv, LifeInv, WriteStatus \/ WriteErrorStatus \/ Release
    PROVE  M!Next
  <1>1. UNCHANGED <<vol, nextID>> /\ nextID \in Nat \ {0}
    BY DEF WriteStatus, WriteErrorStatus, Release, hetzner, IndInv, TypeOK
  <1>2. CASE WriteStatus \/ WriteErrorStatus
    <2>1. /\ phase' = phase /\ phase \in Phases \ {"gone"} /\ obj.status.id \in Nat
          /\ obj.status.id < nextID /\ (status' = obj.status \/ status' = status)
      BY <1>2 DEF WriteStatus, WriteErrorStatus, IndInv, TypeOK, LifeInv, PhasesAgree,
                  DeleteCalls, IDsIssued, Copies, Statuses
    <2>2. CASE status' = status
      BY <1>1, <2>1, <2>2, StaysOrGoes
    <2>3. CASE status' = obj.status
      BY <1>1, <2>1, <2>3, Records
    <2> QED BY <2>1, <2>2, <2>3
  <1>3. CASE Release
    <2>1. status' = status
      BY <1>3 DEF Release
    <2>2. CASE obj = Current
      <3>1. /\ phase' = "gone" /\ phase = "deleting" /\ obj.status = status
            /\ (obj.status.id = 0 \/ vol.id # obj.status.id)
        BY <1>3, <2>2 DEF Release, Current, LifeInv, DeleteCalls, IndInv, RightMoment
      <3> QED BY <1>1, <2>1, <3>1, Releases
    <2>3. CASE obj # Current
      BY <1>1, <1>3, <2>1, <2>3, StaysOrGoes DEF Release
    <2> QED BY <2>2, <2>3
  <1> QED BY <1>2, <1>3

\* Every other step.
LEMMA StepsManaged ==
    ASSUME IndInv, LifeInv, Next, ~WriteStatus, ~WriteErrorStatus, ~Release
    PROVE  M!Next
  <1>1. CASE DeleteObject
    BY <1>1, Terminates DEF DeleteObject, hetzner
  <1>2. CASE \/ EditRef \/ EditSize \/ ServerReady \/ ServerDestroyed \/ ServerObjectGoes
             \/ CacheSync \/ Progress \/ External
    <2>1. phase' = phase
      BY <1>2 DEF EditRef, EditSize, ServerReady, ServerDestroyed, ServerObjectGoes, CacheSync,
                  Progress, External, object
    <2> QED BY <1>2, <2>1, EnvironmentLife, StaysOrGoes
  <1>3. CASE Crash \/ CallFails \/ Reconcile
    BY <1>3, StaysOrGoes DEF Crash, CallFails, Reconcile, object, hetzner
  <1>4. CASE \/ LookupByID \/ LookupByName \/ CreateVolume \/ ResizeVolume \/ Refresh
             \/ DetachVolume \/ AttachVolume
    <2>1. phase \in Phases /\ nextID \in Nat \ {0} /\ (pc = "create" => vol.id = 0)
      BY DEF IndInv, TypeOK, RightMoment
    <2>2. /\ UNCHANGED <<phase, status>> /\ phase # "gone"
          /\ \/ vol'.id = vol.id /\ nextID' = nextID
             \/ CreateVolume /\ vol'.id = nextID /\ nextID' = nextID + 1
      BY <1>4, CallsLife
    <2>3. CASE vol'.id = vol.id /\ nextID' = nextID
      BY <2>2, <2>3, StaysOrGoes
    <2>4. CASE CreateVolume /\ vol'.id = nextID /\ nextID' = nextID + 1
      <3>1. vol.id = 0
        BY <2>1, <2>4 DEF CreateVolume
      <3> QED BY <2>1, <2>2, <2>4, <3>1, Provisions
    <2> QED BY <2>2, <2>3, <2>4
  <1>5. CASE FetchForDeletion \/ DetachBeforeDelete \/ DeleteVolume
    BY <1>5, DeleteCallsLife, StaysOrGoes
  <1> QED BY <1>1, <1>2, <1>3, <1>4, <1>5 DEF Next, Work

\* A volume is created only where there is none, under a new ID and for an
\* object that still exists; the status names only IDs that were issued; the
\* object goes only after the volume its status names: every step is one of
\* ManagedResource.
THEOREM VolumeManaged == Spec => KeepsManagedResource
  <1>1. IndInv /\ LifeInv /\ [Next]_vars => [M!Next]_(M!vars)
    <2> SUFFICES ASSUME IndInv, LifeInv, [Next]_vars PROVE [M!Next]_(M!vars)
      OBVIOUS
    <2>1. CASE UNCHANGED vars
      BY <2>1, StaysOrGoes DEF vars
    <2>2. CASE Next
      BY <2>2, EndsManaged, StepsManaged
    <2> QED BY <2>1, <2>2
  <1> QED BY <1>1, VolumeInvariant, VolumeLife, PTL DEF Spec, KeepsManagedResource
=============================================================================
