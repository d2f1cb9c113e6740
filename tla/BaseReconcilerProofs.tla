------------------------- MODULE BaseReconcilerProofs -------------------------
(***************************************************************************)
(* Proofs about BaseReconciler for every RetrySteps, EarlyRecord, MayPend  *)
(* and Budget: type correctness, at most one Hetzner resource per object,  *)
(* nothing created for an unguarded object, safe removal, that the         *)
(* skeleton implements ManagedResource, and what the conditions say.       *)
(***************************************************************************)
EXTENDS BaseReconciler, TLAPS

-----------------------------------------------------------------------------
(* The API server's operations, field by field.                            *)

\* The next resource version is one.
LEMMA NextVersion ==
    ASSUME NEW o \in Objects(Statuses)
    PROVE  o.rv \in Nat /\ o.rv + 1 \in Nat /\ o.rv + 1 > o.rv
  <1>1. o.rv \in Nat
    BY DEF Objects
  <1> QED BY <1>1

\* A status write keeps everything but status and version, and moves the
\* version exactly when the object changes.
LEMMA WithStatusFacts ==
    ASSUME NEW o \in Objects(Statuses), NEW st \in Statuses
    PROVE  /\ WithStatus(o, st) \in Objects(Statuses)
           /\ WithStatus(o, st).exists = o.exists
           /\ WithStatus(o, st).deleting = o.deleting
           /\ WithStatus(o, st).finalizer = o.finalizer
           /\ WithStatus(o, st).status = st
           /\ WithStatus(o, st).rv >= o.rv
           /\ WithStatus(o, st).rv = o.rv => WithStatus(o, st) = o
  <1>1. CASE o.status = st
    BY <1>1, NextVersion DEF WithStatus, Objects
  <1>2. CASE o.status # st
    <2> DEFINE n == o.rv + 1
               w == [o EXCEPT !.status = st, !.rv = n]
    <2>1. WithStatus(o, st) = w
      BY <1>2 DEF WithStatus, Objects
    <2>2. n \in Nat /\ n >= o.rv /\ n # o.rv
      BY NextVersion
    <2> HIDE DEF n
    <2>3. /\ w \in Objects(Statuses) /\ w.rv = n
          /\ w.exists = o.exists /\ w.deleting = o.deleting
          /\ w.finalizer = o.finalizer /\ w.status = st
      BY <2>2 DEF Objects
    <2> HIDE DEF w
    <2> QED BY <2>1, <2>2, <2>3
  <1> QED BY <1>1, <1>2

\* Adding the finalizer changes the finalizer and the version.
LEMMA WithFinalizerFacts ==
    ASSUME NEW o \in Objects(Statuses)
    PROVE  /\ WithFinalizer(o) \in Objects(Statuses)
           /\ WithFinalizer(o).exists = o.exists
           /\ WithFinalizer(o).deleting = o.deleting
           /\ WithFinalizer(o).finalizer = TRUE
           /\ WithFinalizer(o).status = o.status
           /\ WithFinalizer(o).rv = o.rv + 1
  <1> DEFINE n == o.rv + 1
  <1>1. n \in Nat
    BY NextVersion
  <1>2. WithFinalizer(o) = [o EXCEPT !.finalizer = TRUE, !.rv = n]
    BY DEF WithFinalizer, Objects
  <1> HIDE DEF n
  <1>3. /\ [o EXCEPT !.finalizer = TRUE, !.rv = n] \in Objects(Statuses)
        /\ [o EXCEPT !.finalizer = TRUE, !.rv = n].rv = n
    BY <1>1 DEF Objects
  <1>4. /\ [o EXCEPT !.finalizer = TRUE, !.rv = n].exists = o.exists
        /\ [o EXCEPT !.finalizer = TRUE, !.rv = n].deleting = o.deleting
        /\ [o EXCEPT !.finalizer = TRUE, !.rv = n].finalizer = TRUE
        /\ [o EXCEPT !.finalizer = TRUE, !.rv = n].status = o.status
    BY DEF Objects
  <1>5. n = o.rv + 1
    BY DEF n
  <1> QED BY <1>2, <1>3, <1>4, <1>5

\* An edit moves the version and nothing else the skeleton looks at.
LEMMA EditFacts ==
    ASSUME NEW o \in Objects(Statuses)
    PROVE  /\ [o EXCEPT !.rv = @ + 1] \in Objects(Statuses)
           /\ [o EXCEPT !.rv = @ + 1].exists = o.exists
           /\ [o EXCEPT !.rv = @ + 1].deleting = o.deleting
           /\ [o EXCEPT !.rv = @ + 1].finalizer = o.finalizer
           /\ [o EXCEPT !.rv = @ + 1].status = o.status
           /\ [o EXCEPT !.rv = @ + 1].rv = o.rv + 1
  <1> DEFINE n == o.rv + 1
  <1>1. n \in Nat
    BY NextVersion
  <1>2. [o EXCEPT !.rv = @ + 1] = [o EXCEPT !.rv = n]
    BY DEF Objects
  <1> HIDE DEF n
  <1>3. /\ [o EXCEPT !.rv = n] \in Objects(Statuses)
        /\ [o EXCEPT !.rv = n].rv = n
        /\ [o EXCEPT !.rv = n].exists = o.exists
        /\ [o EXCEPT !.rv = n].deleting = o.deleting
        /\ [o EXCEPT !.rv = n].finalizer = o.finalizer
        /\ [o EXCEPT !.rv = n].status = o.status
    BY <1>1 DEF Objects
  <1>4. n = o.rv + 1
    BY DEF n
  <1> QED BY <1>2, <1>3, <1>4

\* The shape of an object that is not there, and of one just created.
LEMMA AbsentFacts ==
    ASSUME NEW rv \in Nat
    PROVE  /\ Absent(rv, NoStatus) \in Objects(Statuses)
           /\ Absent(rv, NoStatus).exists = FALSE
           /\ Absent(rv, NoStatus).deleting = FALSE
           /\ Absent(rv, NoStatus).finalizer = FALSE
           /\ Absent(rv, NoStatus).status.id = 0
           /\ Absent(rv, NoStatus).rv = rv
           /\ Fresh(rv, NoStatus) \in Objects(Statuses)
           /\ Fresh(rv, NoStatus).exists = TRUE
           /\ Fresh(rv, NoStatus).deleting = FALSE
           /\ Fresh(rv, NoStatus).finalizer = FALSE
           /\ Fresh(rv, NoStatus).status.id = 0
           /\ Fresh(rv, NoStatus).rv = rv
  BY DEF Absent, Fresh, NoStatus, Statuses, Objects

\* Deleting a guarded object only marks it.
LEMMA DeletedFacts ==
    ASSUME NEW o \in Objects(Statuses)
    PROVE  /\ Deleted(o, NoStatus) \in Objects(Statuses)
           /\ Deleted(o, NoStatus).rv = o.rv + 1
           /\ o.finalizer => /\ Deleted(o, NoStatus).exists = o.exists
                             /\ Deleted(o, NoStatus).deleting = TRUE
                             /\ Deleted(o, NoStatus).finalizer = TRUE
                             /\ Deleted(o, NoStatus).status = o.status
           /\ ~o.finalizer => Deleted(o, NoStatus) = Absent(o.rv + 1, NoStatus)
  <1> DEFINE n == o.rv + 1
  <1>1. n \in Nat
    BY NextVersion
  <1>2. CASE o.finalizer
    <2> DEFINE d == [o EXCEPT !.deleting = TRUE, !.rv = n]
    <2>1. Deleted(o, NoStatus) = d
      BY <1>2 DEF Deleted, Objects
    <2>2. n = o.rv + 1
      OBVIOUS
    <2> HIDE DEF n
    <2>3. /\ d \in Objects(Statuses) /\ d.rv = n /\ d.exists = o.exists
          /\ d.deleting = TRUE /\ d.finalizer = o.finalizer /\ d.status = o.status
      BY <1>1 DEF Objects
    <2>4. d.finalizer = TRUE
      BY <1>2, <2>3 DEF Objects
    <2> HIDE DEF d
    <2> QED BY <1>2, <2>1, <2>2, <2>3, <2>4
  <1>3. CASE ~o.finalizer
    BY <1>1, <1>3, AbsentFacts DEF Deleted
  <1> QED BY <1>2, <1>3

\* The in-memory object: copying a status or a version into it.
LEMMA ObjFacts ==
    ASSUME NEW o \in Objects(Statuses), NEW st \in Statuses, NEW v \in Nat
    PROVE  /\ [o EXCEPT !.status = st] \in Objects(Statuses)
           /\ [o EXCEPT !.status = st].status = st
           /\ [o EXCEPT !.rv = v] \in Objects(Statuses)
           /\ [o EXCEPT !.rv = v].status = o.status
           /\ [o EXCEPT !.status.synced = FALSE, !.status.ready = FALSE] \in Objects(Statuses)
           /\ [o EXCEPT !.status.synced = FALSE, !.status.ready = FALSE].status.id = o.status.id
  BY DEF Objects, Statuses

\* The same for the conditions of a pending return.
LEMMA PendFacts ==
    ASSUME NEW o \in Objects(Statuses)
    PROVE  /\ [o EXCEPT !.status.ready = FALSE, !.status.synced = TRUE] \in Objects(Statuses)
           /\ [o EXCEPT !.status.ready = FALSE, !.status.synced = TRUE].status.id = o.status.id
  BY DEF Objects, Statuses

\* The same for a newly created resource's ID.
LEMMA ObjIDFacts ==
    ASSUME NEW o \in Objects(Statuses), NEW i \in Nat
    PROVE  /\ [o EXCEPT !.status.id = i, !.status.ready = FALSE] \in Objects(Statuses)
           /\ [o EXCEPT !.status.id = i, !.status.ready = FALSE].status.id = i
  BY DEF Objects, Statuses

\* Bookkeeping of disturbances keeps its type.
LEMMA SpendType ==
    ASSUME TypeOK, NEW d \in Disturbances, Spend(d)
    PROVE  used' \in [Disturbances -> Nat]
  BY DEF TypeOK, Spend

\* The worker at rest, and the number of attempts it starts with.
LEMMA RestTypes ==
    /\ 0 \in 0..RetrySteps /\ RetrySteps \in 0..RetrySteps
    /\ "idle" \in PCs /\ Outcomes = {"none", "ok", "failed", "unsaved"}
  BY RetryAssumption DEF PCs, Outcomes

\* The worker's empty object.
LEMMA NoObjFacts ==
    /\ NoObj \in Objects(Statuses) /\ ~NoObj.exists /\ ~NoObj.deleting
    /\ ~NoObj.finalizer /\ NoObj.status.id = 0 /\ NoObj.rv = 0
  BY AbsentFacts DEF NoObj

-----------------------------------------------------------------------------
(* The invariant holds at the start and every step keeps it.               *)

\* The empty cluster and the empty project satisfy the invariant.
LEMMA InitIndInv == Init => IndInv
  <1> SUFFICES ASSUME Init PROVE IndInv
    OBVIOUS
  <1>1. TypeOK
    <2>1. used \in [Disturbances -> Nat]
      BY DEF Init
    <2> QED BY <2>1, NoObjFacts, RestTypes DEF Init, TypeOK
  <1>2. IDsIssued /\ CacheTrails
    BY NoObjFacts DEF Init, IDsIssued, CacheTrails, Shape
  <1>3. CopyTrails /\ CacheGuarded /\ GuardedWhileWorking /\ CreateOnEmpty
    BY NoObjFacts DEF Init, CopyTrails, UpdateSteps, CacheGuarded, GuardedWhileWorking,
                      DomainSteps, CreateOnEmpty
  <1>4. DeletedBeforeRemoval /\ NoDuplicate
    BY DEF Init, DeletedBeforeRemoval, NoDuplicate
  <1> QED BY <1>1, <1>2, <1>3, <1>4 DEF IndInv

\* A new object is unguarded and names nothing; the cache still trails it.
LEMMA UserCreateIndInv == IndInv /\ UserCreate => IndInv'
  <1> SUFFICES ASSUME IndInv, UserCreate PROVE IndInv'
    OBVIOUS
  <1> DEFINE n == api.rv + 1
  <1>1. /\ api' = Fresh(n, NoStatus) /\ ~api.exists
        /\ UNCHANGED <<cache, cloud, nextID, pc, obj, found, failed, tries, outcome>>
    BY DEF UserCreate, hetzner, worker
  <1>2. n \in Nat /\ n > api.rv /\ api.rv \in Nat /\ cache.rv \in Nat
    BY NextVersion DEF IndInv, TypeOK
  <1> HIDE DEF n
  <1>7a. /\ api' \in Objects(Statuses) /\ api'.exists /\ ~api'.deleting
        /\ ~api'.finalizer /\ api'.status.id = 0 /\ api'.rv = n
    BY <1>1, <1>2, AbsentFacts
  <1>3. TypeOK'
    BY <1>1, <1>2, AbsentFacts, SpendType DEF IndInv, TypeOK, UserCreate, Disturbances
  <1>4. IDsIssued' /\ CacheTrails'
    <2>1. IDsIssued'
      BY <1>1, <1>7a DEF IndInv, IDsIssued
    <2>2. CacheTrails'
      BY <1>1, <1>2, <1>7a DEF IndInv, CacheTrails, Shape
    <2> QED BY <2>1, <2>2
  <1>5. CopyTrails' /\ CacheGuarded' /\ GuardedWhileWorking'
    BY <1>1 DEF IndInv, CopyTrails, CacheGuarded, GuardedWhileWorking
  <1>6. CreateOnEmpty' /\ DeletedBeforeRemoval' /\ NoDuplicate'
    BY <1>1 DEF IndInv, CreateOnEmpty, DeletedBeforeRemoval, NoDuplicate
  <1> QED BY <1>3, <1>4, <1>5, <1>6 DEF IndInv

\* An edit outdates every copy and changes nothing the invariant is about.
LEMMA UserEditIndInv == IndInv /\ UserEdit => IndInv'
  <1> SUFFICES ASSUME IndInv, UserEdit PROVE IndInv'
    OBVIOUS
  <1>1. UNCHANGED <<cache, cloud, nextID, pc, obj, found, failed, tries, outcome>>
    BY DEF UserEdit, hetzner, worker
  <1>2. /\ api' \in Objects(Statuses) /\ api'.exists = api.exists
        /\ api'.deleting = api.deleting /\ api'.finalizer = api.finalizer
        /\ api'.status = api.status /\ api'.rv = api.rv + 1
    BY EditFacts DEF UserEdit, IndInv, TypeOK
  <1>3. api.rv \in Nat /\ cache.rv \in Nat
    BY NextVersion DEF IndInv, TypeOK
  <1>4. TypeOK'
    BY <1>1, <1>2, SpendType DEF IndInv, TypeOK, UserEdit, Disturbances
  <1>5. IDsIssued' /\ CacheTrails'
    BY <1>1, <1>2, <1>3 DEF IndInv, IDsIssued, CacheTrails, Shape
  <1>6. CopyTrails' /\ CacheGuarded' /\ GuardedWhileWorking'
    BY <1>1, <1>2 DEF IndInv, CopyTrails, CacheGuarded, GuardedWhileWorking
  <1>7. CreateOnEmpty' /\ DeletedBeforeRemoval' /\ NoDuplicate'
    BY <1>1 DEF IndInv, CreateOnEmpty, DeletedBeforeRemoval, NoDuplicate
  <1> QED BY <1>4, <1>5, <1>6, <1>7 DEF IndInv

\* kubectl delete marks a guarded object and removes an unguarded one.
LEMMA UserDeleteIndInv == IndInv /\ UserDelete => IndInv'
  <1> SUFFICES ASSUME IndInv, UserDelete PROVE IndInv'
    OBVIOUS
  <1>1. UNCHANGED <<cache, cloud, nextID, pc, obj, found, failed, tries, outcome>>
    BY DEF UserDelete, hetzner, worker
  <1>2. api \in Objects(Statuses) /\ api' = Deleted(api, NoStatus) /\ api.exists
    BY DEF UserDelete, IndInv, TypeOK
  <1>3. api.rv \in Nat /\ cache.rv \in Nat /\ api.rv + 1 \in Nat
    BY NextVersion DEF IndInv, TypeOK
  <1>4. TypeOK'
    BY <1>1, <1>2, DeletedFacts, SpendType DEF IndInv, TypeOK, UserDelete, Disturbances
  <1>5. /\ cache.rv <= api'.rv /\ cache.rv # api'.rv
        /\ Shape(api)
    <2>1. api'.rv = api.rv + 1
      BY <1>2, DeletedFacts
    <2> QED BY <1>3, <2>1 DEF IndInv, CacheTrails
  <1>6. ASSUME api.finalizer
        PROVE  IDsIssued' /\ CacheTrails' /\ CopyTrails' /\ CacheGuarded' /\ GuardedWhileWorking'
    <2>1. api'.exists /\ api'.deleting /\ api'.finalizer /\ api'.status = api.status
      BY <1>2, <1>6, DeletedFacts
    <2>2. IDsIssued' /\ CacheTrails'
      BY <1>1, <1>2, <1>5, <2>1 DEF IndInv, IDsIssued, CacheTrails, Shape
    <2>3. CopyTrails' /\ CacheGuarded' /\ GuardedWhileWorking'
      BY <1>1, <2>1 DEF IndInv, CopyTrails, CacheGuarded, GuardedWhileWorking
    <2> QED BY <2>2, <2>3
  <1>7. ASSUME ~api.finalizer
        PROVE  IDsIssued' /\ CacheTrails' /\ CopyTrails' /\ CacheGuarded' /\ GuardedWhileWorking'
    <2>1. /\ ~api'.exists /\ ~api'.deleting /\ ~api'.finalizer /\ api'.status.id = 0
      <3> DEFINE n == api.rv + 1
      <3>1. n \in Nat /\ api' = Absent(n, NoStatus)
        BY <1>2, <1>3, <1>7, DeletedFacts
      <3> HIDE DEF n
      <3> QED BY <3>1, AbsentFacts
    <2>2. IDsIssued' /\ CacheTrails'
      BY <1>1, <1>5, <2>1 DEF IndInv, IDsIssued, CacheTrails, Shape
    <2>3. CopyTrails' /\ CacheGuarded' /\ GuardedWhileWorking'
      BY <1>1, <1>7 DEF IndInv, CopyTrails, CacheGuarded, GuardedWhileWorking
    <2> QED BY <2>2, <2>3
  <1>8. CreateOnEmpty' /\ DeletedBeforeRemoval' /\ NoDuplicate'
    BY <1>1 DEF IndInv, CreateOnEmpty, DeletedBeforeRemoval, NoDuplicate
  <1> QED BY <1>4, <1>6, <1>7, <1>8 DEF IndInv

\* The watch catches up: a copy the worker holds trails the new cache too.
LEMMA CacheSyncIndInv == IndInv /\ CacheSync => IndInv'
  <1> SUFFICES ASSUME IndInv, CacheSync PROVE IndInv'
    OBVIOUS
  <1>1. /\ UNCHANGED <<api, cloud, nextID, pc, obj, found, failed, tries, outcome, used>>
        /\ cache' = api /\ cache # api
    BY DEF CacheSync, hetzner, worker
  <1>2. api.rv \in Nat /\ cache.rv \in Nat /\ obj.rv \in Nat
    BY NextVersion DEF IndInv, TypeOK
  <1>3. cache.rv < api.rv
    BY <1>1, <1>2 DEF IndInv, CacheTrails
  <1>4. TypeOK' /\ IDsIssued' /\ CacheTrails'
    BY <1>1, <1>2 DEF IndInv, TypeOK, IDsIssued, CacheTrails, Shape
  <1>5. CopyTrails' /\ CacheGuarded'
    BY <1>1, <1>2, <1>3 DEF IndInv, CopyTrails, CacheGuarded, CacheTrails, Shape
  <1>6. GuardedWhileWorking' /\ CreateOnEmpty' /\ DeletedBeforeRemoval' /\ NoDuplicate'
    BY <1>1 DEF IndInv, GuardedWhileWorking, CreateOnEmpty, DeletedBeforeRemoval, NoDuplicate
  <1> QED BY <1>4, <1>5, <1>6 DEF IndInv

\* A resource that disappears takes nothing from the invariant.
LEMMA ExternalDeleteIndInv == IndInv /\ ExternalDelete => IndInv'
  <1> SUFFICES ASSUME IndInv, ExternalDelete PROVE IndInv'
    OBVIOUS
  <1>1. /\ UNCHANGED <<api, cache, nextID, pc, obj, found, failed, tries, outcome>>
        /\ cloud' \subseteq cloud
    BY DEF ExternalDelete, kube, worker
  <1>2. TypeOK'
    BY <1>1, SpendType DEF IndInv, TypeOK, ExternalDelete, Disturbances
  <1>3. IDsIssued' /\ CacheTrails' /\ CopyTrails' /\ CacheGuarded' /\ GuardedWhileWorking'
    BY <1>1 DEF IndInv, IDsIssued, CacheTrails, CopyTrails, CacheGuarded, GuardedWhileWorking
  <1>4. CreateOnEmpty' /\ DeletedBeforeRemoval' /\ NoDuplicate'
    BY <1>1 DEF IndInv, CreateOnEmpty, DeletedBeforeRemoval, NoDuplicate
  <1> QED BY <1>2, <1>3, <1>4 DEF IndInv

\* A restarted worker holds nothing and lists the objects afresh.
LEMMA CrashIndInv == IndInv /\ Crash => IndInv'
  <1> SUFFICES ASSUME IndInv, Crash PROVE IndInv'
    OBVIOUS
  <1>1. /\ UNCHANGED <<api, cloud, nextID>> /\ cache' = api
        /\ pc' = "idle" /\ obj' = NoObj /\ found' = 0 /\ failed' = FALSE
        /\ tries' = 0 /\ outcome' = "none"
    BY DEF Crash, hetzner
  <1>2. TypeOK'
    <2>1. used' \in [Disturbances -> Nat]
      BY SpendType DEF IndInv, Crash, Disturbances
    <2> QED BY <1>1, <2>1, NoObjFacts, RestTypes DEF IndInv, TypeOK
  <1>3. IDsIssued' /\ CacheTrails'
    BY <1>1, NoObjFacts, NextVersion DEF IndInv, TypeOK, IDsIssued, CacheTrails, Shape
  <1>4. CopyTrails' /\ CacheGuarded' /\ GuardedWhileWorking'
    BY <1>1 DEF IndInv, CopyTrails, UpdateSteps, CacheGuarded, CacheTrails, Shape,
                GuardedWhileWorking, DomainSteps
  <1>5. CreateOnEmpty' /\ DeletedBeforeRemoval' /\ NoDuplicate'
    BY <1>1 DEF IndInv, CreateOnEmpty, DeletedBeforeRemoval, NoDuplicate
  <1> QED BY <1>2, <1>3, <1>4, <1>5 DEF IndInv

-----------------------------------------------------------------------------
(* Three ways in which a worker's step keeps the invariant.                *)

\* What a write to the store has to respect.
SafeWrite ==
    /\ api' \in Objects(Statuses) /\ Shape(api)'
    /\ api'.status.id < nextID
    /\ api'.rv >= api.rv
    /\ api'.rv = api.rv => api' = api
    /\ CacheGuarded'

\* Such a write leaves the cache trailing.
LEMMA SafeWriteTrails ==
    ASSUME IndInv, SafeWrite, cache' = cache
    PROVE  CacheTrails'
  <1>1. api.rv \in Nat /\ cache.rv \in Nat /\ api'.rv \in Nat
    BY NextVersion DEF IndInv, TypeOK, SafeWrite
  <1>2. cache.rv <= api'.rv /\ (cache.rv = api'.rv => cache = api')
    BY <1>1 DEF IndInv, CacheTrails, SafeWrite
  <1>3. Shape(cache)'
    BY DEF IndInv, CacheTrails, Shape
  <1> QED BY <1>2, <1>3 DEF SafeWrite, CacheTrails

\* Ending a reconcile.
LEMMA FinishKeeps ==
    ASSUME IndInv, NEW r \in Outcomes, Finish(r), SafeWrite,
           cache' = cache, nextID' = nextID, cloud' \subseteq cloud,
           used' \in [Disturbances -> Nat]
    PROVE  IndInv'
  <1>1. /\ pc' = "idle" /\ obj' = NoObj /\ found' = 0 /\ failed' = FALSE
        /\ tries' = 0 /\ outcome' = r
    BY DEF Finish
  <1>2. TypeOK'
    BY <1>1, NoObjFacts, RestTypes DEF IndInv, TypeOK, SafeWrite
  <1>3. IDsIssued'
    BY <1>1, NoObjFacts DEF IndInv, IDsIssued, SafeWrite
  <1>4. CacheTrails' /\ CacheGuarded'
    BY SafeWriteTrails DEF SafeWrite
  <1>5. CopyTrails' /\ GuardedWhileWorking' /\ CreateOnEmpty' /\ DeletedBeforeRemoval'
    BY <1>1 DEF CopyTrails, UpdateSteps, GuardedWhileWorking, DomainSteps, CreateOnEmpty,
                DeletedBeforeRemoval
  <1>6. NoDuplicate'
    BY DEF IndInv, NoDuplicate
  <1> QED BY <1>2, <1>3, <1>4, <1>5, <1>6 DEF IndInv

\* Going on within Resource.Reconcile and its status writes.
LEMMA DomainKeeps ==
    ASSUME IndInv, pc \in DomainSteps, pc' \in DomainSteps, SafeWrite,
           api'.exists = api.exists, api'.finalizer = api.finalizer,
           UNCHANGED <<cache, cloud, nextID, outcome>>,
           pc' = "create" => cloud = {},
           obj' \in Objects(Statuses), obj'.status.id < nextID,
           found' \in Nat, found' < nextID, failed' \in BOOLEAN,
           tries' \in 0..RetrySteps, used' \in [Disturbances -> Nat]
    PROVE  IndInv'
  <1>1. TypeOK'
    BY DEF IndInv, TypeOK, SafeWrite, DomainSteps, PCs
  <1>2. IDsIssued'
    BY DEF IndInv, IDsIssued, SafeWrite
  <1>3. CacheTrails' /\ CacheGuarded'
    BY SafeWriteTrails DEF SafeWrite
  <1>4. CopyTrails' /\ DeletedBeforeRemoval'
    BY DEF CopyTrails, UpdateSteps, DeletedBeforeRemoval, DomainSteps
  <1>5. GuardedWhileWorking' /\ CreateOnEmpty' /\ NoDuplicate'
    BY DEF IndInv, GuardedWhileWorking, CreateOnEmpty, NoDuplicate
  <1> QED BY <1>1, <1>2, <1>3, <1>4, <1>5 DEF IndInv

\* A step that leaves the store alone, and a status write, are safe.
LEMMA NoWriteSafe ==
    ASSUME IndInv, UNCHANGED <<api, cache>>
    PROVE  SafeWrite
  BY NextVersion DEF IndInv, TypeOK, SafeWrite, IDsIssued, CacheTrails, Shape, CacheGuarded

\* A status write of an issued ID on a guarded object.
LEMMA StatusWriteSafe ==
    ASSUME IndInv, pc \in DomainSteps, cache' = cache,
           api' = WithStatus(api, obj.status)
    PROVE  /\ SafeWrite
           /\ api'.exists = api.exists /\ api'.finalizer = api.finalizer
  <1>1. api \in Objects(Statuses) /\ obj.status \in Statuses /\ api.rv \in Nat
    BY DEF IndInv, TypeOK, Objects
  <1>2. /\ api' \in Objects(Statuses) /\ api'.exists = api.exists
        /\ api'.deleting = api.deleting /\ api'.finalizer = api.finalizer
        /\ api'.status = obj.status /\ api'.rv >= api.rv
        /\ api'.rv = api.rv => api' = api
    BY <1>1, WithStatusFacts
  <1>3. api.exists /\ api.finalizer
    BY DEF IndInv, GuardedWhileWorking
  <1>4. Shape(api)' /\ CacheGuarded'
    BY <1>2, <1>3 DEF IndInv, CacheTrails, Shape, CacheGuarded
  <1>5. api'.status.id < nextID
    BY <1>2 DEF IndInv, IDsIssued
  <1> QED BY <1>2, <1>4, <1>5 DEF SafeWrite

\* The error path keeps the recorded ID and starts a fresh retry.
LEMMA FailFacts ==
    ASSUME IndInv, Fail
    PROVE  /\ obj' \in Objects(Statuses) /\ obj'.status.id = obj.status.id
           /\ failed' \in BOOLEAN /\ tries' \in 0..RetrySteps
           /\ pc' = "writeStatus" /\ found' = found /\ outcome' = outcome
  <1>1. obj \in Objects(Statuses) /\ NoStatus \in Statuses
    BY DEF IndInv, TypeOK, NoStatus, Statuses
  <1> QED BY <1>1, ObjFacts, RestTypes DEF Fail

\* Taking the error path (base.go, after Resource.Reconcile failed).
LEMMA FailKeeps ==
    ASSUME IndInv, pc \in DomainSteps, Fail, SafeWrite,
           api'.exists = api.exists, api'.finalizer = api.finalizer,
           UNCHANGED <<cache, cloud, nextID>>, used' \in [Disturbances -> Nat]
    PROVE  IndInv'
  <1>1. pc' \in DomainSteps /\ pc' # "create"
    BY FailFacts DEF DomainSteps
  <1>2. obj'.status.id < nextID /\ found' \in Nat /\ found' < nextID
    BY FailFacts DEF IndInv, IDsIssued, TypeOK
  <1> QED BY <1>1, <1>2, FailFacts, DomainKeeps

-----------------------------------------------------------------------------
(* The worker's steps.                                                     *)

\* The worker starts from the cache: its copy trails the store, and an object
\* it goes on to work for is guarded in the store as well.
LEMMA ReconcileIndInv == IndInv /\ Reconcile => IndInv'
  <1> SUFFICES ASSUME IndInv, Reconcile PROVE IndInv'
    OBVIOUS
  <1>1. /\ UNCHANGED <<api, cache, cloud, nextID, found, failed, tries, outcome, used>>
        /\ obj' = cache /\ cache.exists
    BY DEF Reconcile, kube, hetzner
  <1>2. \/ pc' = "delete" /\ cache.deleting /\ cache.finalizer
        \/ pc' = "addFinalizer" /\ ~cache.deleting /\ ~cache.finalizer
        \/ pc' \in {"lookupByID", "lookupByName"} /\ ~cache.deleting /\ cache.finalizer
    BY DEF Reconcile
  <1>3. cache \in Objects(Statuses) /\ cache.rv \in Nat
    BY NextVersion DEF IndInv, TypeOK
  <1>4. TypeOK'
    BY <1>1, <1>2, <1>3 DEF IndInv, TypeOK, PCs
  <1>5. IDsIssued' /\ CacheTrails' /\ CacheGuarded' /\ NoDuplicate'
    BY <1>1 DEF IndInv, IDsIssued, CacheTrails, CacheGuarded, NoDuplicate
  <1>6. CopyTrails'
    <2>1. cache.deleting \in BOOLEAN /\ cache.finalizer \in BOOLEAN
      BY <1>3 DEF Objects
    <2> QED BY <1>1, <1>2, <1>3, <2>1 DEF CopyTrails, UpdateSteps
  <1>7. GuardedWhileWorking'
    BY <1>1, <1>2 DEF IndInv, CacheGuarded, GuardedWhileWorking, DomainSteps
  <1>8. CreateOnEmpty' /\ DeletedBeforeRemoval'
    BY <1>2 DEF CreateOnEmpty, DeletedBeforeRemoval
  <1> QED BY <1>4, <1>5, <1>6, <1>7, <1>8 DEF IndInv

\* The pending return goes straight to the status write, for an object that
\* is guarded in the store as well, and keeps the ID the cache names.
LEMMA PendIndInv == IndInv /\ Pend => IndInv'
  <1> SUFFICES ASSUME IndInv, Pend PROVE IndInv'
    OBVIOUS
  <1>1. /\ UNCHANGED <<api, cache, cloud, nextID, found, failed, outcome>>
        /\ obj' = [cache EXCEPT !.status.ready = FALSE, !.status.synced = TRUE]
        /\ cache.finalizer /\ ~cache.deleting
        /\ pc' = "writeStatus" /\ tries' = RetrySteps /\ Spend("pending")
    BY DEF Pend, kube, hetzner
  <1>2. /\ obj' \in Objects(Statuses) /\ obj'.status.id = cache.status.id
        /\ tries' \in 0..RetrySteps
    BY <1>1, PendFacts, RestTypes DEF IndInv, TypeOK
  <1>3. used' \in [Disturbances -> Nat]
    BY <1>1, SpendType DEF IndInv, Disturbances
  <1>4. TypeOK'
    BY <1>1, <1>2, <1>3 DEF IndInv, TypeOK, PCs
  <1>5. IDsIssued' /\ CacheTrails' /\ CacheGuarded' /\ NoDuplicate'
    BY <1>1, <1>2 DEF IndInv, IDsIssued, CacheTrails, CacheGuarded, NoDuplicate
  <1>6. GuardedWhileWorking'
    BY <1>1 DEF IndInv, CacheGuarded, GuardedWhileWorking
  <1>7. CopyTrails' /\ CreateOnEmpty' /\ DeletedBeforeRemoval'
    BY <1>1 DEF CopyTrails, UpdateSteps, CreateOnEmpty, DeletedBeforeRemoval
  <1> QED BY <1>4, <1>5, <1>6, <1>7 DEF IndInv

\* Resource.Delete leaves no resource under the ID of the worker's copy.
LEMMA DeleteExternalIndInv == IndInv /\ DeleteExternal => IndInv'
  <1> SUFFICES ASSUME IndInv, DeleteExternal PROVE IndInv'
    OBVIOUS
  <1>1. pc = "delete" /\ UNCHANGED <<api, cache, nextID>>
    BY DEF DeleteExternal, kube
  <1>2. CASE /\ cloud' = cloud \ {obj.status.id}
             /\ Goto("removeFinalizer") /\ UNCHANGED used
    <2>1. /\ UNCHANGED <<obj, found, failed, tries, outcome, used>>
          /\ pc' = "removeFinalizer"
      BY <1>2 DEF Goto
    <2>2. TypeOK' /\ IDsIssued' /\ CacheTrails' /\ CacheGuarded' /\ NoDuplicate'
      BY <1>1, <1>2, <2>1
      DEF IndInv, TypeOK, PCs, IDsIssued, CacheTrails, CacheGuarded, NoDuplicate
    <2>3. CopyTrails'
      BY <1>1, <2>1 DEF IndInv, CopyTrails, UpdateSteps
    <2>4. GuardedWhileWorking' /\ CreateOnEmpty' /\ DeletedBeforeRemoval'
      BY <1>2, <2>1 DEF GuardedWhileWorking, DomainSteps, CreateOnEmpty, DeletedBeforeRemoval
    <2> QED BY <2>2, <2>3, <2>4 DEF IndInv
  <1>3. ASSUME Finish("none"), cloud' \subseteq cloud, used' \in [Disturbances -> Nat]
        PROVE  IndInv'
    BY <1>1, <1>3, NoWriteSafe, FinishKeeps, RestTypes
  <1>4. CASE Spend("error") /\ UNCHANGED cloud /\ Finish("none")
    BY <1>3, <1>4, SpendType DEF IndInv, Disturbances
  <1>5. CASE Spend("lost") /\ cloud' = cloud \ {obj.status.id} /\ Finish("none")
    BY <1>3, <1>5, SpendType DEF IndInv, Disturbances
  <1> QED BY <1>2, <1>4, <1>5 DEF DeleteExternal

\* When the store accepts the version of the worker's copy, the copy is the
\* object in the store.
LEMMA AcceptedCopy ==
    ASSUME IndInv, pc \in UpdateSteps, Accepts(api, obj.rv)
    PROVE  obj = api /\ cache = api
  <1>1. api.rv \in Nat /\ cache.rv \in Nat /\ obj.rv \in Nat
    BY NextVersion DEF IndInv, TypeOK
  <1>2. obj.rv <= cache.rv /\ cache.rv <= api.rv /\ obj.rv = api.rv
    BY DEF IndInv, CopyTrails, CacheTrails, Accepts
  <1>3. obj.rv = cache.rv /\ cache.rv = api.rv
    BY <1>1, <1>2
  <1> QED BY <1>3 DEF IndInv, CopyTrails, CacheTrails

\* The finalizer goes only if the copy is still the object in the store.
LEMMA RemoveFinalizerIndInv == IndInv /\ RemoveFinalizer => IndInv'
  <1> SUFFICES ASSUME IndInv, RemoveFinalizer PROVE IndInv'
    OBVIOUS
  <1>1. /\ pc = "removeFinalizer" /\ UNCHANGED <<cache, cloud, nextID>>
        /\ Finish("none")
    BY DEF RemoveFinalizer, hetzner
  <1>2. ASSUME SafeWrite, used' \in [Disturbances -> Nat]
        PROVE  IndInv'
    BY <1>1, <1>2, FinishKeeps, RestTypes
  <1>3. CASE Accepts(api, obj.rv) /\ api' = WithoutFinalizer(api, NoStatus) /\ UNCHANGED used
    <2> DEFINE n == api.rv + 1
    <2>1. n \in Nat /\ n > api.rv /\ api.rv \in Nat
      BY NextVersion DEF IndInv, TypeOK
    <2>2. api' = Absent(n, NoStatus)
      BY <1>3 DEF WithoutFinalizer
    <2> HIDE DEF n
    <2>3. /\ api' \in Objects(Statuses) /\ ~api'.exists /\ ~api'.deleting
          /\ ~api'.finalizer /\ api'.status.id = 0 /\ api'.rv = n
      BY <2>1, <2>2, AbsentFacts
    <2>4. cache.deleting
      BY <1>1, <1>3, AcceptedCopy DEF IndInv, CopyTrails, UpdateSteps
    <2>5. CacheGuarded' /\ Shape(api)'
      BY <1>1, <2>3, <2>4 DEF CacheGuarded, Shape
    <2>6. api'.rv >= api.rv /\ api'.rv # api.rv /\ api'.status.id < nextID
      BY <2>1, <2>3 DEF IndInv, IDsIssued
    <2>7. SafeWrite
      BY <2>3, <2>5, <2>6 DEF SafeWrite
    <2> QED BY <1>2, <1>3, <2>7 DEF IndInv, TypeOK
  <1>4. CASE ~Accepts(api, obj.rv) /\ UNCHANGED <<api, used>>
    BY <1>1, <1>2, <1>4, NoWriteSafe DEF IndInv, TypeOK
  <1>5. CASE Spend("error") /\ UNCHANGED api
    BY <1>1, <1>2, <1>5, NoWriteSafe, SpendType DEF IndInv, Disturbances
  <1> QED BY <1>3, <1>4, <1>5 DEF RemoveFinalizer

\* The finalizer is added only to an object not marked for deletion.
LEMMA AddFinalizerIndInv == IndInv /\ AddFinalizer => IndInv'
  <1> SUFFICES ASSUME IndInv, AddFinalizer PROVE IndInv'
    OBVIOUS
  <1>1. /\ pc = "addFinalizer" /\ UNCHANGED <<cache, cloud, nextID>>
        /\ Finish("none")
    BY DEF AddFinalizer, hetzner
  <1>2. ASSUME SafeWrite, used' \in [Disturbances -> Nat]
        PROVE  IndInv'
    BY <1>1, <1>2, FinishKeeps, RestTypes
  <1>3. CASE Accepts(api, obj.rv) /\ api' = WithFinalizer(api) /\ UNCHANGED used
    <2>1. api \in Objects(Statuses) /\ api.rv \in Nat /\ api.exists
      BY <1>3, NextVersion DEF IndInv, TypeOK, Accepts
    <2>2. /\ api' \in Objects(Statuses) /\ api'.exists = api.exists
          /\ api'.deleting = api.deleting /\ api'.finalizer
          /\ api'.status = api.status /\ api'.rv = api.rv + 1
      BY <1>3, <2>1, WithFinalizerFacts
    <2>3. CacheGuarded' /\ Shape(api)'
      BY <2>1, <2>2 DEF CacheGuarded, Shape
    <2>4. api'.rv >= api.rv /\ api'.rv # api.rv /\ api'.status.id < nextID
      BY <2>1, <2>2 DEF IndInv, IDsIssued
    <2>5. SafeWrite
      BY <2>2, <2>3, <2>4 DEF SafeWrite
    <2> QED BY <1>2, <1>3, <2>5 DEF IndInv, TypeOK
  <1>4. CASE ~Accepts(api, obj.rv) /\ UNCHANGED <<api, used>>
    BY <1>1, <1>2, <1>4, NoWriteSafe DEF IndInv, TypeOK
  <1>5. CASE Spend("error") /\ UNCHANGED api
    BY <1>1, <1>2, <1>5, NoWriteSafe, SpendType DEF IndInv, Disturbances
  <1> QED BY <1>3, <1>4, <1>5 DEF AddFinalizer

\* A lookup by ID takes an issued ID or goes on to the name.
LEMMA LookupByIDIndInv == IndInv /\ LookupByID => IndInv'
  <1> SUFFICES ASSUME IndInv, LookupByID PROVE IndInv'
    OBVIOUS
  <1>1. /\ pc = "lookupByID" /\ pc \in DomainSteps
        /\ UNCHANGED <<api, cache, cloud, nextID>>
    BY DEF LookupByID, DomainSteps, kube, hetzner
  <1>2. /\ SafeWrite /\ obj \in Objects(Statuses) /\ obj.status.id < nextID
        /\ failed \in BOOLEAN /\ tries \in 0..RetrySteps
        /\ used \in [Disturbances -> Nat] /\ found \in Nat /\ found < nextID
        /\ cloud \subseteq Nat
    BY <1>1, NoWriteSafe DEF IndInv, TypeOK, IDsIssued
  <1>3. CASE /\ obj.status.id \in cloud
             /\ found' = obj.status.id /\ pc' = "converge"
             /\ UNCHANGED <<obj, failed, tries, outcome, used>>
    <2>1. found' \in Nat /\ found' < nextID /\ pc' \in DomainSteps /\ pc' # "create"
      BY <1>2, <1>3 DEF DomainSteps
    <2> QED BY <1>1, <1>2, <1>3, <2>1, DomainKeeps
  <1>4. CASE obj.status.id \notin cloud /\ Goto("lookupByName") /\ UNCHANGED used
    <2>1. /\ pc' \in DomainSteps /\ pc' # "create"
          /\ UNCHANGED <<obj, found, failed, tries, outcome, used>>
      BY <1>4 DEF DomainSteps, Goto
    <2> QED BY <1>1, <1>2, <2>1, DomainKeeps
  <1>5. CASE Spend("error") /\ Fail
    BY <1>1, <1>2, <1>5, FailKeeps, SpendType DEF IndInv, Disturbances
  <1> QED BY <1>3, <1>4, <1>5 DEF LookupByID

\* A lookup by name that finds nothing has seen an empty project.
LEMMA LookupByNameIndInv == IndInv /\ LookupByName => IndInv'
  <1> SUFFICES ASSUME IndInv, LookupByName PROVE IndInv'
    OBVIOUS
  <1>1. /\ pc = "lookupByName" /\ pc \in DomainSteps
        /\ UNCHANGED <<api, cache, cloud, nextID>>
    BY DEF LookupByName, DomainSteps, kube, hetzner
  <1>2. /\ SafeWrite /\ obj \in Objects(Statuses) /\ obj.status.id < nextID
        /\ failed \in BOOLEAN /\ tries \in 0..RetrySteps
        /\ used \in [Disturbances -> Nat] /\ found \in Nat /\ found < nextID
    BY <1>1, NoWriteSafe DEF IndInv, TypeOK, IDsIssued
  <1>3. ASSUME NEW i \in cloud, found' = i, pc' = "converge",
               UNCHANGED <<obj, failed, tries, outcome, used>>
        PROVE  IndInv'
    <2>1. found' \in Nat /\ found' < nextID /\ pc' \in DomainSteps /\ pc' # "create"
      BY <1>3 DEF DomainSteps, IndInv, TypeOK, IDsIssued
    <2> QED BY <1>1, <1>2, <1>3, <2>1, DomainKeeps
  <1>4. CASE cloud = {} /\ Goto("create") /\ UNCHANGED used
    <2>1. /\ pc' \in DomainSteps /\ cloud = {}
          /\ UNCHANGED <<obj, found, failed, tries, outcome, used>>
      BY <1>4 DEF DomainSteps, Goto
    <2> QED BY <1>1, <1>2, <2>1, DomainKeeps
  <1>5. CASE Spend("error") /\ Fail
    BY <1>1, <1>2, <1>5, FailKeeps, SpendType DEF IndInv, Disturbances
  <1> QED BY <1>3, <1>4, <1>5 DEF LookupByName

\* The one step that makes a resource: it finds the project empty.
LEMMA CreateIndInv == IndInv /\ Create => IndInv'
  <1> SUFFICES ASSUME IndInv, Create PROVE IndInv'
    OBVIOUS
  <1>1. pc = "create" /\ pc \in DomainSteps /\ UNCHANGED <<api, cache>> /\ cloud = {}
    BY DEF Create, DomainSteps, kube, IndInv, CreateOnEmpty
  <1>2. /\ SafeWrite /\ obj \in Objects(Statuses) /\ nextID \in Nat /\ nextID > 0
        /\ failed \in BOOLEAN /\ tries \in 0..RetrySteps /\ found \in Nat
        /\ used \in [Disturbances -> Nat] /\ api \in Objects(Statuses)
        /\ cache \in Objects(Statuses)
    BY <1>1, NoWriteSafe DEF IndInv, TypeOK, IDsIssued
  <1>3. /\ api.status.id \in Nat /\ cache.status.id \in Nat /\ obj.status.id \in Nat
    BY <1>2 DEF Objects, Statuses
  <1>4. ASSUME CloudCreate, pc' \in {"saveID", "converge", "writeStatus"},
               obj' \in Objects(Statuses), obj'.status.id \in {obj.status.id, nextID},
               found' \in {found, nextID}, failed' \in BOOLEAN,
               tries' \in 0..RetrySteps, used' \in [Disturbances -> Nat],
               outcome' = outcome
        PROVE  IndInv'
    <2>1. cloud' = {nextID} /\ nextID' = nextID + 1
      BY <1>1, <1>4 DEF CloudCreate
    <2>2. TypeOK'
      BY <1>1, <1>2, <1>4, <2>1 DEF IndInv, TypeOK, PCs
    <2>3. IDsIssued'
      BY <1>1, <1>2, <1>3, <1>4, <2>1 DEF IndInv, IDsIssued
    <2>4. CacheTrails' /\ CacheGuarded'
      BY <1>1, <1>2, SafeWriteTrails DEF SafeWrite
    <2>5. CopyTrails' /\ DeletedBeforeRemoval' /\ CreateOnEmpty'
      BY <1>4 DEF CopyTrails, UpdateSteps, DeletedBeforeRemoval, CreateOnEmpty
    <2>6. GuardedWhileWorking' /\ NoDuplicate'
      BY <1>1, <2>1 DEF IndInv, GuardedWhileWorking, NoDuplicate
    <2> QED BY <2>2, <2>3, <2>4, <2>5, <2>6 DEF IndInv
  <1>5. CASE /\ CloudCreate
             /\ found' = nextID
             /\ IF EarlyRecord
                THEN /\ obj' = [obj EXCEPT !.status.id = nextID, !.status.ready = FALSE]
                     /\ tries' = RetrySteps /\ pc' = "saveID"
                ELSE pc' = "converge" /\ UNCHANGED <<obj, tries>>
             /\ UNCHANGED <<failed, outcome, used>>
    <2>1. CASE EarlyRecord
      <3>0. obj' = [obj EXCEPT !.status.id = nextID, !.status.ready = FALSE]
        BY <1>5, <2>1
      <3>1. obj' \in Objects(Statuses) /\ obj'.status.id = nextID
        BY <1>2, <3>0, ObjIDFacts
      <3> QED BY <1>2, <1>4, <1>5, <2>1, <3>1, RestTypes
    <2>2. CASE ~EarlyRecord
      BY <1>2, <1>4, <1>5, <2>2
    <2> QED BY <2>1, <2>2
  <1>6. CASE Spend("error") /\ UNCHANGED hetzner /\ Fail
    BY <1>1, <1>2, <1>6, FailKeeps, SpendType DEF IndInv, Disturbances, hetzner
  <1>7. CASE Spend("lost") /\ CloudCreate /\ Fail
    <2>1. used' \in [Disturbances -> Nat]
      BY <1>7, SpendType DEF IndInv, Disturbances
    <2> QED BY <1>4, <1>7, <2>1, FailFacts
  <1> QED BY <1>5, <1>6, <1>7 DEF Create

\* The early status write (update<Kind>StatusWithRetry) records an issued ID.
LEMMA SaveIDIndInv == IndInv /\ SaveID => IndInv'
  <1> SUFFICES ASSUME IndInv, SaveID PROVE IndInv'
    OBVIOUS
  <1>1. /\ pc = "saveID" /\ pc \in DomainSteps
        /\ UNCHANGED <<cache, cloud, nextID>>
    BY DEF SaveID, DomainSteps, hetzner
  <1>2. /\ obj \in Objects(Statuses) /\ obj.status.id < nextID
        /\ failed \in BOOLEAN /\ tries \in 0..RetrySteps
        /\ used \in [Disturbances -> Nat] /\ found \in Nat /\ found < nextID
    BY DEF IndInv, TypeOK, IDsIssued
  <1>3. CASE /\ cache.exists /\ Accepts(api, cache.rv)
             /\ api' = WithStatus(api, obj.status)
             /\ Goto("converge") /\ UNCHANGED used
    <2>1. /\ pc' \in DomainSteps /\ pc' # "create"
          /\ UNCHANGED <<obj, found, failed, tries, outcome, used>>
      BY <1>3 DEF DomainSteps, Goto
    <2> QED BY <1>1, <1>2, <1>3, <2>1, StatusWriteSafe, DomainKeeps
  <1>4. CASE /\ cache.exists /\ ~Accepts(api, cache.rv) /\ tries > 1
             /\ tries' = tries - 1
             /\ UNCHANGED <<api, pc, obj, found, failed, outcome, used>>
    <2>1. tries' \in 0..RetrySteps
      BY <1>2, <1>4, RetryAssumption
    <2> QED BY <1>1, <1>2, <1>4, <2>1, NoWriteSafe, DomainKeeps
  <1>5. CASE /\ ~cache.exists \/ (~Accepts(api, cache.rv) /\ tries = 1)
             /\ Fail /\ UNCHANGED <<api, used>>
    BY <1>1, <1>2, <1>5, NoWriteSafe, FailKeeps
  <1>6. CASE Spend("error") /\ Fail /\ UNCHANGED api
    BY <1>1, <1>6, NoWriteSafe, FailKeeps, SpendType DEF IndInv, Disturbances
  <1>7. CASE /\ cache.exists /\ Accepts(api, cache.rv)
             /\ Spend("lost") /\ api' = WithStatus(api, obj.status) /\ Fail
    BY <1>1, <1>7, StatusWriteSafe, FailKeeps, SpendType DEF IndInv, Disturbances
  <1> QED BY <1>3, <1>4, <1>5, <1>6, <1>7 DEF SaveID

\* The rest of Resource.Reconcile changes only the copy's status.
LEMMA ConvergeIndInv == IndInv /\ Converge => IndInv'
  <1> SUFFICES ASSUME IndInv, Converge PROVE IndInv'
    OBVIOUS
  <1>1. /\ pc = "converge" /\ pc \in DomainSteps
        /\ UNCHANGED <<api, cache, cloud, nextID>>
    BY DEF Converge, DomainSteps, kube, hetzner
  <1>2. /\ SafeWrite /\ obj \in Objects(Statuses)
        /\ failed \in BOOLEAN /\ used \in [Disturbances -> Nat]
        /\ found \in Nat /\ found < nextID
    BY <1>1, NoWriteSafe DEF IndInv, TypeOK, IDsIssued
  <1>3. CASE /\ obj' = [obj EXCEPT !.status = [id |-> found, ready |-> TRUE, synced |-> TRUE]]
             /\ tries' = RetrySteps /\ pc' = "writeStatus"
             /\ UNCHANGED <<found, failed, outcome, used>>
    <2> DEFINE st == [id |-> found, ready |-> TRUE, synced |-> TRUE]
    <2>1. st \in Statuses /\ st.id = found
      BY <1>2 DEF Statuses
    <2>2. obj' = [obj EXCEPT !.status = st]
      BY <1>3
    <2> HIDE DEF st
    <2>3. obj' \in Objects(Statuses) /\ obj'.status = st
      BY <1>2, <2>1, <2>2, ObjFacts
    <2>4. pc' \in DomainSteps /\ pc' # "create" /\ obj'.status.id < nextID
      BY <1>2, <1>3, <2>1, <2>3 DEF DomainSteps
    <2> QED BY <1>1, <1>2, <1>3, <2>3, <2>4, RestTypes, DomainKeeps
  <1>4. CASE Spend("error") /\ Fail
    BY <1>1, <1>2, <1>4, FailKeeps, SpendType DEF IndInv, Disturbances
  <1> QED BY <1>3, <1>4 DEF Converge

\* The base's status write, with its retries on conflict.
LEMMA WriteStatusIndInv == IndInv /\ WriteStatus => IndInv'
  <1> SUFFICES ASSUME IndInv, WriteStatus PROVE IndInv'
    OBVIOUS
  <1>1. /\ pc = "writeStatus" /\ pc \in DomainSteps
        /\ UNCHANGED <<cache, cloud, nextID>>
    BY DEF WriteStatus, DomainSteps, hetzner
  <1>2. /\ obj \in Objects(Statuses) /\ obj.status.id < nextID
        /\ failed \in BOOLEAN /\ tries \in 0..RetrySteps
        /\ used \in [Disturbances -> Nat] /\ found \in Nat /\ found < nextID
        /\ cache.rv \in Nat
    BY NextVersion DEF IndInv, TypeOK, IDsIssued
  <1>3. CASE /\ Accepts(api, obj.rv)
             /\ api' = WithStatus(api, obj.status)
             /\ Finish(IF failed THEN "failed" ELSE "ok") /\ UNCHANGED used
    <2>1. (IF failed THEN "failed" ELSE "ok") \in Outcomes
      BY DEF Outcomes
    <2> QED BY <1>1, <1>2, <1>3, <2>1, StatusWriteSafe, FinishKeeps
  <1>4. CASE /\ api.exists /\ ~Accepts(api, obj.rv) /\ cache.exists /\ tries > 1
             /\ obj' = [obj EXCEPT !.rv = cache.rv]
             /\ tries' = tries - 1
             /\ UNCHANGED <<api, pc, found, failed, outcome, used>>
    <2>1. tries' \in 0..RetrySteps
      BY <1>2, <1>4, RetryAssumption
    <2>2. obj' \in Objects(Statuses) /\ obj'.status = obj.status
      BY <1>2, <1>4, ObjFacts DEF Objects
    <2>3. obj'.status.id < nextID
      BY <1>2, <2>2
    <2> QED BY <1>1, <1>2, <1>4, <2>1, <2>2, <2>3, NoWriteSafe, DomainKeeps
  <1>5. CASE /\ ~api.exists \/ (~Accepts(api, obj.rv) /\ (~cache.exists \/ tries = 1))
             /\ Finish("unsaved") /\ UNCHANGED <<api, used>>
    BY <1>1, <1>2, <1>5, NoWriteSafe, FinishKeeps, RestTypes
  <1>6. CASE Spend("error") /\ Finish("unsaved") /\ UNCHANGED api
    <2>1. used' \in [Disturbances -> Nat]
      BY <1>6, SpendType DEF IndInv, Disturbances
    <2> QED BY <1>1, <1>6, <2>1, NoWriteSafe, FinishKeeps, RestTypes
  <1>7. CASE /\ Accepts(api, obj.rv)
             /\ Spend("lost") /\ api' = WithStatus(api, obj.status) /\ Finish("unsaved")
    <2>1. used' \in [Disturbances -> Nat]
      BY <1>7, SpendType DEF IndInv, Disturbances
    <2> QED BY <1>1, <1>7, <2>1, StatusWriteSafe, FinishKeeps, RestTypes
  <1> QED BY <1>3, <1>4, <1>5, <1>6, <1>7 DEF WriteStatus

-----------------------------------------------------------------------------
(* The theorems.                                                           *)

\* Every step of the specification keeps the invariant.
LEMMA NextIndInv == IndInv /\ [Next]_vars => IndInv'
  <1> SUFFICES ASSUME IndInv, [Next]_vars PROVE IndInv'
    OBVIOUS
  <1>1. CASE UNCHANGED vars
    BY <1>1 DEF vars, IndInv, TypeOK, IDsIssued, CacheTrails, Shape, CopyTrails, CacheGuarded,
                GuardedWhileWorking, CreateOnEmpty, DeletedBeforeRemoval, NoDuplicate
  <1>2. CASE Next
    BY <1>2, UserCreateIndInv, UserEditIndInv, UserDeleteIndInv, CacheSyncIndInv,
       ExternalDeleteIndInv, CrashIndInv, ReconcileIndInv, PendIndInv, DeleteExternalIndInv,
       RemoveFinalizerIndInv, AddFinalizerIndInv, LookupByIDIndInv, LookupByNameIndInv,
       CreateIndInv, SaveIDIndInv, ConvergeIndInv, WriteStatusIndInv
    DEF Next, Work
  <1> QED BY <1>1, <1>2

\* The inductive invariant holds in every reachable state.
THEOREM InductiveInvariant == Spec => []IndInv
  BY InitIndInv, NextIndInv, PTL DEF Spec

\* Every variable keeps its type, whatever is lost, repeated or crashes.
THEOREM TypeCorrect == Spec => []TypeOK
  <1>1. IndInv => TypeOK
    BY DEF IndInv
  <1> QED BY <1>1, InductiveInvariant, PTL

\* There is never more than one Hetzner resource per object, for any number
\* of crashes, lost answers, stale reads and retries.
THEOREM NeverDuplicates == Spec => []NoDuplicate
  <1>1. IndInv => NoDuplicate
    BY DEF IndInv
  <1> QED BY <1>1, InductiveInvariant, PTL

\* Resource.Reconcile runs only for an object that the store still guards.
THEOREM AlwaysGuarded == Spec => []GuardedWhileWorking
  <1>1. IndInv => GuardedWhileWorking
    BY DEF IndInv
  <1> QED BY <1>1, InductiveInvariant, PTL

\* Only two steps make the object disappear, and only one of them can do it
\* to a guarded object.
LEMMA RemovalStep ==
    ASSUME IndInv, [Next]_vars, api.exists, ~api'.exists
    PROVE  \/ UserDelete /\ ~api.finalizer
           \/ RemoveFinalizer /\ Accepts(api, obj.rv)
  <1>1. CASE UNCHANGED vars
    BY <1>1 DEF vars
  <1>2. CASE UserCreate
    BY <1>2 DEF UserCreate
  <1>3. CASE UserEdit
    BY <1>3, EditFacts DEF UserEdit, IndInv, TypeOK
  <1>4. CASE UserDelete
    BY <1>4, DeletedFacts DEF UserDelete, IndInv, TypeOK
  <1>5. CASE CacheSync \/ ExternalDelete \/ Crash
    BY <1>5 DEF CacheSync, ExternalDelete, Crash, kube
  <1>6. CASE \/ Reconcile \/ Pend \/ DeleteExternal \/ LookupByID \/ LookupByName
             \/ Create \/ Converge
    BY <1>6 DEF Reconcile, Pend, DeleteExternal, LookupByID, LookupByName, Create, Converge, kube
  <1>7. CASE RemoveFinalizer
    BY <1>7 DEF RemoveFinalizer
  <1>8. CASE AddFinalizer
    BY <1>8, WithFinalizerFacts DEF AddFinalizer, IndInv, TypeOK
  <1>9. CASE SaveID \/ WriteStatus
    <2>1. obj.status \in Statuses /\ api \in Objects(Statuses)
      BY DEF IndInv, TypeOK, Objects
    <2> QED BY <1>9, <2>1, WithStatusFacts DEF SaveID, WriteStatus
  <1> QED BY <1>1, <1>2, <1>3, <1>4, <1>5, <1>6, <1>7, <1>8, <1>9 DEF Next, Work

\* At that moment the resource the status names is gone.
LEMMA RemovalFindsItGone ==
    ASSUME IndInv, [Next]_vars, api.exists, ~api'.exists
    PROVE  api.status.id \notin cloud /\ api.status.id \notin cloud'
  <1>1. CASE UserDelete /\ ~api.finalizer
    <2>1. api.status.id = 0 /\ cloud' = cloud
      BY <1>1 DEF IndInv, CacheTrails, Shape, UserDelete, hetzner
    <2> QED BY <2>1 DEF IndInv, IDsIssued
  <1>2. CASE RemoveFinalizer /\ Accepts(api, obj.rv)
    <2>1. pc = "removeFinalizer" /\ cloud' = cloud
      BY <1>2 DEF RemoveFinalizer, hetzner
    <2>2. obj = api
      BY <1>2, <2>1, AcceptedCopy DEF UpdateSteps
    <2> QED BY <2>1, <2>2 DEF IndInv, DeletedBeforeRemoval
  <1> QED BY <1>1, <1>2, RemovalStep

\* The object is let go only when the resource its status names is gone.
THEOREM RemovalSafe == Spec => RemovalIsSafe
  <1>1. IndInv /\ [Next]_vars =>
          [api.exists /\ ~api'.exists => api.status.id \notin cloud]_vars
    BY RemovalFindsItGone
  <1> QED BY <1>1, InductiveInvariant, PTL DEF Spec, RemovalIsSafe

-----------------------------------------------------------------------------
(* The skeleton implements ManagedResource.                                *)

\* Nothing the abstract specification looks at changes.
LEMMA AbstractStutter ==
    ASSUME /\ api'.exists = api.exists /\ api'.deleting = api.deleting
           /\ api'.finalizer = api.finalizer /\ api'.status.id = api.status.id,
           cloud' = cloud, nextID' = nextID
    PROVE  UNCHANGED Abstract!vars
  BY DEF Abstract!vars, Phase

\* A status write is a Record of an issued ID, under the finalizer.
LEMMA AbstractRecord ==
    ASSUME IndInv, pc \in DomainSteps, api' = WithStatus(api, obj.status),
           cloud' = cloud, nextID' = nextID
    PROVE  Abstract!Record
  <1>1. api \in Objects(Statuses) /\ obj.status \in Statuses /\ obj.status.id \in Nat
    BY DEF IndInv, TypeOK, Objects, Statuses
  <1>2. /\ api'.exists = api.exists /\ api'.deleting = api.deleting
        /\ api'.finalizer = api.finalizer /\ api'.status = obj.status
    BY <1>1, WithStatusFacts
  <1>3. api.exists /\ api.finalizer
    BY DEF IndInv, GuardedWhileWorking
  <1>4. Phase \in {"guarded", "terminating"} /\ Phase' = Phase
    BY <1>2, <1>3 DEF Phase
  <1>5. api'.status.id \in 1..(nextID - 1) \cup {0}
    BY <1>1, <1>2 DEF IndInv, IDsIssued, TypeOK
  <1> QED BY <1>4, <1>5 DEF Abstract!Record

\* Every step of the skeleton is a step of ManagedResource or a stutter.
LEMMA StepSimulation ==
    ASSUME IndInv, [Next]_vars
    PROVE  [Abstract!Next]_Abstract!vars
  <1>1. api \in Objects(Statuses) /\ Shape(api) /\ nextID \in Nat /\ nextID > 0
    BY DEF IndInv, TypeOK, CacheTrails, IDsIssued
  <1>2. CASE UNCHANGED vars \/ CacheSync \/ Crash \/ Reconcile \/ Pend \/ LookupByID
               \/ LookupByName \/ Converge
    <2>1. UNCHANGED <<api, cloud, nextID>>
      BY <1>2 DEF vars, CacheSync, Crash, Reconcile, Pend, LookupByID, LookupByName, Converge,
                  kube, hetzner
    <2> QED BY <2>1, AbstractStutter
  <1>3. CASE UserCreate
    <2> DEFINE n == api.rv + 1
    <2>1. /\ n \in Nat /\ api' = Fresh(n, NoStatus) /\ ~api.exists
          /\ UNCHANGED <<cloud, nextID>>
      BY <1>1, <1>3, NextVersion DEF UserCreate, hetzner
    <2> HIDE DEF n
    <2>2. api'.exists /\ ~api'.finalizer /\ api'.status.id = 0
      BY <2>1, AbsentFacts
    <2>3. Phase = "absent" /\ Phase' = "unguarded"
      BY <2>1, <2>2 DEF Phase
    <2>4. Abstract!Apply
      BY <2>1, <2>2, <2>3 DEF Abstract!Apply
    <2> QED BY <2>4 DEF Abstract!Next
  <1>4. CASE UserEdit
    BY <1>1, <1>4, EditFacts, AbstractStutter DEF UserEdit, hetzner
  <1>5. CASE UserDelete
    <2>1. /\ api' = Deleted(api, NoStatus) /\ api.exists /\ ~api.deleting
          /\ UNCHANGED <<cloud, nextID>>
      BY <1>5 DEF UserDelete, hetzner
    <2>2. CASE api.finalizer
      <3>1. api'.exists /\ api'.deleting /\ api'.finalizer /\ api'.status = api.status
        BY <1>1, <2>1, <2>2, DeletedFacts
      <3>2. Phase = "guarded" /\ Phase' = "terminating"
        BY <2>1, <2>2, <3>1 DEF Phase
      <3>3. Abstract!Terminate
        BY <2>1, <3>1, <3>2 DEF Abstract!Terminate
      <3> QED BY <3>3 DEF Abstract!Next
    <2>3. CASE ~api.finalizer
      <3> DEFINE n == api.rv + 1
      <3>1. n \in Nat /\ api' = Absent(n, NoStatus)
        BY <1>1, <2>1, <2>3, DeletedFacts, NextVersion
      <3> HIDE DEF n
      <3>2. ~api'.exists /\ api'.status.id = 0
        BY <3>1, AbsentFacts
      <3>3. Phase = "unguarded" /\ Phase' = "absent"
        BY <2>1, <2>3, <3>2 DEF Phase
      <3>4. Abstract!Withdraw
        BY <2>1, <3>2, <3>3 DEF Abstract!Withdraw
      <3> QED BY <3>4 DEF Abstract!Next
    <2> QED BY <2>2, <2>3
  <1>6. CASE ExternalDelete \/ DeleteExternal
    <2>1. UNCHANGED <<api, nextID>> /\ cloud' \subseteq cloud
      BY <1>6 DEF ExternalDelete, DeleteExternal, kube
    <2>2. Phase' = Phase
      BY <2>1 DEF Phase
    <2>3. Abstract!Destroy
      BY <2>1, <2>2 DEF Abstract!Destroy
    <2> QED BY <2>3 DEF Abstract!Next
  <1>7. CASE RemoveFinalizer
    <2>1. UNCHANGED <<cloud, nextID>> /\ pc = "removeFinalizer"
      BY <1>7 DEF RemoveFinalizer, hetzner
    <2>2. CASE UNCHANGED api
      BY <2>1, <2>2, AbstractStutter
    <2>3. CASE Accepts(api, obj.rv) /\ api' = WithoutFinalizer(api, NoStatus)
      <3> DEFINE n == api.rv + 1
      <3>1. n \in Nat /\ api' = Absent(n, NoStatus)
        BY <1>1, <2>3, NextVersion DEF WithoutFinalizer
      <3> HIDE DEF n
      <3>2. ~api'.exists /\ api'.status.id = 0
        BY <3>1, AbsentFacts
      <3>3. api.exists /\ api.deleting /\ api.finalizer
        BY <2>1, <2>3, AcceptedCopy DEF IndInv, CopyTrails, UpdateSteps
      <3>4. api.status.id \notin cloud
        BY <3>2, <3>3, RemovalFindsItGone
      <3>5. Phase = "terminating" /\ Phase' = "absent"
        BY <3>2, <3>3 DEF Phase
      <3>6. Abstract!Release
        BY <2>1, <3>2, <3>4, <3>5 DEF Abstract!Release
      <3> QED BY <3>6 DEF Abstract!Next
    <2> QED BY <1>7, <2>2, <2>3 DEF RemoveFinalizer
  <1>8. CASE AddFinalizer
    <2>1. UNCHANGED <<cloud, nextID>> /\ pc = "addFinalizer"
      BY <1>8 DEF AddFinalizer, hetzner
    <2>2. CASE UNCHANGED api
      BY <2>1, <2>2, AbstractStutter
    <2>3. CASE Accepts(api, obj.rv) /\ api' = WithFinalizer(api)
      <3>1. api.exists /\ ~api.deleting /\ ~api.finalizer
        BY <2>1, <2>3, AcceptedCopy DEF IndInv, CopyTrails, UpdateSteps
      <3>2. /\ api'.exists /\ ~api'.deleting /\ api'.finalizer
            /\ api'.status = api.status
        BY <1>1, <2>3, <3>1, WithFinalizerFacts
      <3>3. Phase = "unguarded" /\ Phase' = "guarded"
        BY <3>1, <3>2 DEF Phase
      <3>4. Abstract!Guard
        BY <2>1, <3>2, <3>3 DEF Abstract!Guard
      <3> QED BY <3>4 DEF Abstract!Next
    <2> QED BY <1>8, <2>2, <2>3 DEF AddFinalizer
  <1>9. CASE Create
    <2>1. UNCHANGED api /\ pc = "create" /\ cloud = {}
      BY <1>9 DEF Create, kube, IndInv, CreateOnEmpty
    <2>2. CASE UNCHANGED <<cloud, nextID>>
      BY <2>1, <2>2, AbstractStutter
    <2>3. CASE CloudCreate
      <3>1. cloud' = {nextID} /\ nextID' = nextID + 1
        BY <2>1, <2>3 DEF CloudCreate
      <3>2. Phase \in {"guarded", "terminating"} /\ Phase' = Phase
        BY <2>1 DEF IndInv, GuardedWhileWorking, DomainSteps, Phase
      <3>3. /\ cloud' \cap 1..(nextID - 1) = {}
            /\ 1..(nextID' - 1) = 1..(nextID - 1) \cup cloud'
        BY <1>1, <3>1
      <3>4. Abstract!Provision
        BY <2>1, <3>1, <3>2, <3>3 DEF Abstract!Provision
      <3> QED BY <3>4 DEF Abstract!Next
    <2> QED BY <1>9, <2>2, <2>3 DEF Create, hetzner
  <1>10. CASE SaveID \/ WriteStatus
    <2>1. UNCHANGED <<cloud, nextID>> /\ pc \in DomainSteps
      BY <1>10 DEF SaveID, WriteStatus, DomainSteps, hetzner
    <2>2. CASE UNCHANGED api
      BY <2>1, <2>2, AbstractStutter
    <2>3. CASE api' = WithStatus(api, obj.status)
      BY <2>1, <2>3, AbstractRecord DEF Abstract!Next
    <2> QED BY <1>10, <2>2, <2>3 DEF SaveID, WriteStatus
  <1> QED BY <1>2, <1>3, <1>4, <1>5, <1>6, <1>7, <1>8, <1>9, <1>10 DEF Next, Work

\* The reconcile skeleton, for every budget of crashes, lost answers and
\* failures, keeps the promises of ManagedResource.
THEOREM Refinement == Spec => ImplementsManagedResource
  <1>1. Init => Abstract!Init
    <2> SUFFICES ASSUME Init PROVE Abstract!Init
      OBVIOUS
    <2>1. ~api.exists /\ api.status.id = 0 /\ cloud = {} /\ nextID = 1
      BY NoObjFacts DEF Init
    <2> QED BY <2>1 DEF Abstract!Init, Phase
  <1>2. IndInv /\ [Next]_vars => [Abstract!Next]_Abstract!vars
    BY StepSimulation
  <1> QED BY <1>1, <1>2, InductiveInvariant, PTL DEF Spec, ImplementsManagedResource, Abstract!Spec

-----------------------------------------------------------------------------
(* What the status conditions promise: an object that shows Ready=True (or, *)
(* where no reference can be pending, Synced=True) names every resource it  *)
(* has, and a failed reconcile leaves an object that is neither Ready nor   *)
(* Synced.  ReportInv is added to IndInv.                                   *)

-----------------------------------------------------------------------------
(* The statuses the API server and the worker write.                       *)

\* An object that is gone, just created or just dropped reports nothing.
LEMMA EmptyStatus ==
    ASSUME NEW rv
    PROVE  /\ Absent(rv, NoStatus).status = NoStatus /\ ~Absent(rv, NoStatus).finalizer
           /\ ~Absent(rv, NoStatus).deleting /\ ~Absent(rv, NoStatus).exists
           /\ Fresh(rv, NoStatus).status = NoStatus /\ ~Fresh(rv, NoStatus).finalizer
           /\ ~Fresh(rv, NoStatus).deleting /\ NoObj.status = NoStatus
           /\ ~NoStatus.ready /\ ~NoStatus.synced
  BY DEF Absent, Fresh, NoObj, NoStatus

\* The error path of Reconcile forces both conditions to False.
LEMMA FailShows ==
    ASSUME obj \in Objects(Statuses), Fail
    PROVE  /\ failed' = TRUE /\ pc' = "writeStatus"
           /\ ~obj'.status.ready /\ ~obj'.status.synced
           /\ found' = found /\ outcome' = outcome
  BY DEF Fail, Objects, Statuses

\* Disturbances are counted, never forgotten.
LEMMA SpendGrows ==
    ASSUME TypeOK, NEW d \in Disturbances, Spend(d)
    PROVE  Undisturbed' => Undisturbed
  <1>1. used \in [Disturbances -> Nat] /\ "external" \in Disturbances
    BY DEF TypeOK, Disturbances
  <1>2. CASE d = "external"
    BY <1>1, <1>2 DEF Spend, Undisturbed
  <1>3. CASE d # "external"
    BY <1>1, <1>3 DEF Spend, Undisturbed
  <1> QED BY <1>2, <1>3

\* A copy that reports an existing resource names the only one there is.
LEMMA ReportNames ==
    ASSUME IDsIssued, NoDuplicate, NEW o, Reports(o), ReportsResource(o)
    PROVE  o.status.id # 0 /\ cloud \subseteq {o.status.id}
  BY DEF IDsIssued, NoDuplicate, Reports

-----------------------------------------------------------------------------
(* Ways in which a step keeps ReportInv.                                   *)

\* The user's steps: the store keeps its status or starts from an empty one.
LEMMA UserKeepsReports ==
    ASSUME IndInv, ReportInv,
           UNCHANGED <<cache, cloud, nextID, pc, obj, found, failed, tries, outcome>>,
           Undisturbed' => Undisturbed,
           \/ /\ api'.status = api.status /\ api'.finalizer = api.finalizer
              /\ api.deleting => api'.deleting
              /\ api'.exists => api.exists
           \/ api'.status = NoStatus /\ ~api'.finalizer
    PROVE  ReportInv'
  <1>1. ~NoStatus.ready /\ ~NoStatus.synced
    BY EmptyStatus
  <1>2. DeletionSeen'
    BY <1>1 DEF ReportInv, DeletionSeen, ReportsResource
  <1>3. CopiesReport'
    BY <1>1 DEF ReportInv, CopiesReport, Reports, ReportsResource
  <1>4. FailureShown' /\ FailingNeverReady'
    BY <1>1 DEF ReportInv, FailureShown, FailingNeverReady
  <1>5. ReportedIsRecorded'
    BY <1>1 DEF ReportInv, ReportedIsRecorded, ReportsResource, Undisturbed
  <1> QED BY <1>2, <1>3, <1>4, <1>5 DEF ReportInv

\* A step within Resource.Reconcile or its status writes.
LEMMA DomainKeepsReports ==
    ASSUME IndInv, ReportInv, IndInv', pc \in DomainSteps, pc' \in DomainSteps,
           UNCHANGED cache, Undisturbed' => Undisturbed,
           cloud \subseteq cloud',
           api'.finalizer = api.finalizer, api'.deleting = api.deleting,
           api'.status \in {api.status, obj.status},
           failed' => pc' = "writeStatus" /\ ~obj'.status.ready /\ ~obj'.status.synced,
           Undisturbed /\ pc' \in {"saveID", "converge"} => found' \in cloud',
           Undisturbed => Reports(obj)'
    PROVE  ReportInv'
  <1>1. pc # "idle" /\ pc' \notin {"idle", "delete", "removeFinalizer"}
    BY DEF DomainSteps
  <1>2. api.finalizer
    BY DEF IndInv, GuardedWhileWorking
  <1>3. DeletionSeen'
    BY <1>1, <1>2 DEF ReportInv, DeletionSeen, ReportsResource
  <1>4. CopiesReport'
    BY DEF ReportInv, CopiesReport, Reports, ReportsResource
  <1>5. ReportedIsRecorded'
    <2> SUFFICES ASSUME ReportsResource(api)', Undisturbed'
                 PROVE  api'.status.id # 0 /\ cloud' \subseteq {api'.status.id}
      BY DEF ReportedIsRecorded, Undisturbed
    <2>1. Reports(api)'
      BY <1>4 DEF CopiesReport
    <2> QED BY <2>1 DEF IndInv, IDsIssued, NoDuplicate, Reports
  <1>6. FailureShown' /\ FailingNeverReady'
    BY <1>1 DEF FailureShown, FailingNeverReady
  <1> QED BY <1>3, <1>4, <1>5, <1>6 DEF ReportInv

\* The end of a reconcile: the store keeps what it had, takes the worker's
\* status, or loses the object.
LEMMA FinishKeepsReports ==
    ASSUME IndInv, ReportInv, IndInv', NEW r, Finish(r), UNCHANGED cache,
           pc # "idle", Undisturbed' => Undisturbed,
           \/ api' = api /\ r # "failed" /\ pc \in DomainSteps /\ cloud' = cloud
           \/ api' = api /\ r # "failed" /\ pc \in UpdateSteps /\ cloud' \subseteq cloud
              /\ (pc # "delete" => cloud' = cloud)
           \/ /\ api'.finalizer = api.finalizer /\ api'.deleting = api.deleting
              /\ api'.status = obj.status /\ pc = "writeStatus" /\ cloud' = cloud
              /\ r = "failed" => failed
           \/ ~api'.finalizer /\ api'.status = NoStatus /\ r # "failed" /\ cloud' = cloud
              /\ cache.deleting
    PROVE  ReportInv'
  <1>1. pc' = "idle" /\ obj' = NoObj /\ failed' = FALSE /\ outcome' = r
    BY DEF Finish
  <1>2. ~NoStatus.ready /\ ~NoStatus.synced
    BY EmptyStatus
  <1>3. DeletionSeen'
    BY <1>1, <1>2
    DEF ReportInv, DeletionSeen, ReportsResource, IndInv, GuardedWhileWorking, DomainSteps
  <1>4. CopiesReport'
    <2> SUFFICES ASSUME Undisturbed, Undisturbed'
                 PROVE  /\ cache.finalizer /\ ~cache.deleting => Reports(cache)'
                        /\ ~cache.deleting => Reports(api)'
      BY <1>1 DEF CopiesReport, DomainSteps
    <2>1. /\ cache.finalizer /\ ~cache.deleting => Reports(cache)
          /\ ~cache.deleting => Reports(api)
          /\ pc \in DomainSteps => Reports(obj)
      BY DEF ReportInv, CopiesReport
    <2>2. CASE cloud' = cloud
      BY <1>2, <2>1, <2>2 DEF Reports, ReportsResource, DomainSteps
    <2>3. CASE pc = "delete" /\ api' = api
      <3>1. cache.finalizer /\ ~cache.deleting => api.finalizer
        BY DEF IndInv, CacheGuarded
      <3>2. api.finalizer => cache.deleting
        BY <2>3 DEF ReportInv, DeletionSeen, ReportsResource
      <3>3. ~api.finalizer => ~ReportsResource(api)
        BY DEF ReportInv, DeletionSeen, ReportsResource
      <3> QED BY <2>3, <3>1, <3>2, <3>3 DEF Reports
    <2> QED BY <2>2, <2>3
  <1>5. ReportedIsRecorded'
    <2> SUFFICES ASSUME api'.exists, ReportsResource(api)', Undisturbed', Undisturbed
                 PROVE  api'.status.id # 0 /\ cloud' \subseteq {api'.status.id}
      BY DEF ReportedIsRecorded, Undisturbed
    <2>1. CASE api' = api
      BY <2>1 DEF ReportInv, ReportedIsRecorded, Undisturbed
    <2>2. CASE api'.status = obj.status /\ pc = "writeStatus" /\ cloud' = cloud
      <3>1. Reports(obj)
        BY <2>2 DEF ReportInv, CopiesReport, DomainSteps
      <3>2. ReportsResource(obj)
        BY <2>2 DEF ReportsResource
      <3> QED BY <2>2, <3>1, <3>2, ReportNames DEF IndInv
    <2> QED BY <1>2, <2>1, <2>2 DEF ReportsResource
  <1>6. FailureShown' /\ FailingNeverReady'
    BY <1>1 DEF ReportInv, FailureShown, FailingNeverReady
  <1> QED BY <1>3, <1>4, <1>5, <1>6 DEF ReportInv

-----------------------------------------------------------------------------
(* The environment's steps.                                                *)

\* Creating, editing and deleting the object.
LEMMA UserStepsReport ==
    ASSUME IndInv, ReportInv, UserCreate \/ UserEdit \/ UserDelete
    PROVE  ReportInv'
  <1>1. /\ UNCHANGED <<cache, cloud, nextID, pc, obj, found, failed, tries, outcome>>
        /\ Undisturbed' => Undisturbed
    BY SpendGrows DEF UserCreate, UserEdit, UserDelete, hetzner, worker, IndInv, Disturbances
  <1>2. api \in Objects(Statuses)
    BY DEF IndInv, TypeOK
  <1>3. CASE UserCreate
    <2>1. api'.status = NoStatus /\ ~api'.finalizer
      BY <1>3, EmptyStatus DEF UserCreate
    <2> QED BY <1>1, <2>1, UserKeepsReports
  <1>4. CASE UserEdit
    <2>1. /\ api'.status = api.status /\ api'.finalizer = api.finalizer
          /\ api'.deleting = api.deleting /\ api'.exists = api.exists
      BY <1>2, <1>4, EditFacts DEF UserEdit
    <2> QED BY <1>1, <2>1, UserKeepsReports
  <1>5. CASE UserDelete
    <2>1. api' = Deleted(api, NoStatus) /\ api.exists
      BY <1>5 DEF UserDelete
    <2>2. CASE api.finalizer
      <3>1. /\ api'.status = api.status /\ api'.finalizer = TRUE /\ api'.deleting
        BY <1>2, <2>1, <2>2, DeletedFacts
      <3>2. api'.finalizer = api.finalizer
        BY <1>2, <2>2, <3>1 DEF Objects
      <3> QED BY <1>1, <2>1, <3>1, <3>2, UserKeepsReports
    <2>3. CASE ~api.finalizer
      <3> DEFINE n == api.rv + 1
      <3>0. api' = Absent(n, NoStatus)
        BY <1>2, <2>1, <2>3, DeletedFacts
      <3> HIDE DEF n
      <3>1. api'.status = NoStatus /\ ~api'.finalizer
        BY <3>0, EmptyStatus
      <3> QED BY <1>1, <3>1, UserKeepsReports
    <2> QED BY <2>2, <2>3
  <1> QED BY <1>3, <1>4, <1>5

\* The watch catches up, and a restart lists afresh: what the new cache
\* reports is what the store reports.
LEMMA FreshCacheReports ==
    ASSUME IndInv, ReportInv, cache' = api, UNCHANGED <<api, cloud, nextID>>,
           Undisturbed' => Undisturbed,
           \/ UNCHANGED <<pc, obj, found, failed, outcome>>
           \/ pc' = "idle" /\ failed' = FALSE /\ outcome' = "none"
    PROVE  ReportInv'
  <1>1. ReportsResource(api) /\ cache.deleting => api.deleting
    BY DEF ReportInv, DeletionSeen, ReportsResource
  <1>2. DeletionSeen'
    BY DEF ReportInv, DeletionSeen, ReportsResource
  <1>3. CopiesReport'
    <2> SUFFICES ASSUME Undisturbed, Undisturbed'
                 PROVE  /\ pc' \in {"saveID", "converge"} => found' \in cloud'
                        /\ pc' \in DomainSteps => Reports(obj)'
                        /\ cache'.finalizer /\ ~cache'.deleting => Reports(cache)'
                        /\ ~cache'.deleting \/ pc' \in DomainSteps => Reports(api)'
      BY DEF CopiesReport
    <2>1. /\ pc' \in {"saveID", "converge"} => found' \in cloud'
          /\ pc' \in DomainSteps => Reports(obj)'
      BY DEF ReportInv, CopiesReport, Reports, DomainSteps
    <2>2. ~api.deleting => Reports(api)
      BY <1>1 DEF ReportInv, CopiesReport, Reports
    <2>3. pc' \in DomainSteps => Reports(api)
      BY DEF ReportInv, CopiesReport, DomainSteps
    <2> QED BY <2>1, <2>2, <2>3 DEF Reports
  <1>4. FailureShown' /\ FailingNeverReady' /\ ReportedIsRecorded'
    BY DEF ReportInv, FailureShown, FailingNeverReady, ReportedIsRecorded, Undisturbed
  <1> QED BY <1>2, <1>3, <1>4 DEF ReportInv

\* The environment's other steps.
LEMMA OtherStepsReport ==
    ASSUME IndInv, ReportInv, CacheSync \/ ExternalDelete \/ Crash
    PROVE  ReportInv'
  <1>1. CASE CacheSync
    <2>1. /\ cache' = api
          /\ UNCHANGED <<api, cloud, nextID, pc, obj, found, failed, outcome, used>>
      BY <1>1 DEF CacheSync, hetzner, worker
    <2>2. Undisturbed' => Undisturbed
      BY <2>1 DEF Undisturbed
    <2> QED BY <2>1, <2>2, FreshCacheReports
  <1>2. CASE Crash
    <2>1. /\ cache' = api /\ UNCHANGED <<api, cloud, nextID>>
          /\ pc' = "idle" /\ failed' = FALSE /\ outcome' = "none"
          /\ Undisturbed' => Undisturbed
      BY <1>2, SpendGrows DEF Crash, hetzner, IndInv, Disturbances
    <2> QED BY <2>1, FreshCacheReports
  <1>3. CASE ExternalDelete
    <2>1. /\ UNCHANGED <<api, cache, pc, obj, found, failed, outcome>>
          /\ Spend("external")
      BY <1>3 DEF ExternalDelete, kube, worker
    <2>2. ~Undisturbed'
      <3>1. used \in [Disturbances -> Nat] /\ "external" \in Disturbances
        BY DEF IndInv, TypeOK, Disturbances
      <3> QED BY <2>1, <3>1 DEF Spend, Undisturbed
    <2>3. DeletionSeen' /\ FailureShown' /\ FailingNeverReady'
      BY <2>1 DEF ReportInv, DeletionSeen, FailureShown, FailingNeverReady
    <2>4. CopiesReport' /\ ReportedIsRecorded'
      BY <2>2 DEF CopiesReport, ReportedIsRecorded, Undisturbed
    <2> QED BY <2>3, <2>4 DEF ReportInv
  <1> QED BY <1>1, <1>2, <1>3

-----------------------------------------------------------------------------
(* The worker's steps.                                                     *)

\* The worker starts from the cache, which reports what is there.
LEMMA ReconcileReports ==
    ASSUME IndInv, ReportInv, Reconcile
    PROVE  ReportInv'
  <1>1. /\ UNCHANGED <<api, cache, cloud, nextID, found, failed, tries, outcome, used>>
        /\ obj' = cache /\ pc = "idle"
    BY DEF Reconcile, kube, hetzner
  <1>2. \/ pc' = "delete" /\ cache.deleting /\ cache.finalizer
        \/ pc' = "addFinalizer" /\ ~cache.deleting /\ ~cache.finalizer
        \/ pc' \in {"lookupByID", "lookupByName"} /\ ~cache.deleting /\ cache.finalizer
    BY DEF Reconcile
  <1>3. DeletionSeen'
    BY <1>1, <1>2 DEF ReportInv, DeletionSeen, ReportsResource
  <1>4. CopiesReport'
    BY <1>1, <1>2 DEF ReportInv, CopiesReport, Reports, Undisturbed, DomainSteps
  <1>5. FailureShown' /\ FailingNeverReady' /\ ReportedIsRecorded'
    BY <1>1, <1>2 DEF ReportInv, FailureShown, FailingNeverReady, ReportedIsRecorded
  <1> QED BY <1>3, <1>4, <1>5 DEF ReportInv

\* The pending return reports no resource: Synced=True alone does not count
\* for a kind that may take it.
LEMMA PendReports ==
    ASSUME IndInv, ReportInv, Pend
    PROVE  ReportInv'
  <1>1. /\ UNCHANGED <<api, cache, cloud, nextID, found, failed, outcome>>
        /\ obj' = [cache EXCEPT !.status.ready = FALSE, !.status.synced = TRUE]
        /\ cache.finalizer /\ ~cache.deleting /\ MayPend
        /\ pc = "idle" /\ pc' = "writeStatus"
        /\ Spend("pending")
    BY DEF Pend, kube, hetzner
  <1>2. Undisturbed' => Undisturbed
    BY <1>1, SpendGrows DEF IndInv, Disturbances
  <1>3. ~obj'.status.ready /\ ~failed /\ ~failed'
    BY <1>1 DEF IndInv, TypeOK, Objects, Statuses, ReportInv, FailureShown
  <1>4. DeletionSeen'
    BY <1>1 DEF ReportInv, DeletionSeen, ReportsResource
  <1>5. CopiesReport'
    BY <1>1, <1>2, <1>3 DEF ReportInv, CopiesReport, Reports, ReportsResource
  <1>6. FailureShown' /\ FailingNeverReady'
    BY <1>1, <1>3 DEF FailureShown, FailingNeverReady
  <1>7. ReportedIsRecorded'
    BY <1>1, <1>2 DEF ReportInv, ReportedIsRecorded, ReportsResource, Undisturbed
  <1> QED BY <1>4, <1>5, <1>6, <1>7 DEF ReportInv

\* Resource.Delete: by then neither the cache nor the store counts on the
\* resource any more.
LEMMA DeleteExternalReports ==
    ASSUME IndInv, ReportInv, DeleteExternal
    PROVE  ReportInv'
  <1>1. pc = "delete" /\ UNCHANGED <<api, cache, nextID>> /\ cloud' \subseteq cloud
    BY DEF DeleteExternal, kube
  <1>2. IndInv'
    BY DeleteExternalIndInv
  <1>3. CASE Goto("removeFinalizer") /\ UNCHANGED used
    <2>1. pc' = "removeFinalizer" /\ UNCHANGED <<obj, found, failed, outcome>>
      BY <1>3 DEF Goto
    <2>2. DeletionSeen'
      BY <1>1, <2>1 DEF ReportInv, DeletionSeen, ReportsResource
    <2>3. CopiesReport'
      <3>1. cache.finalizer /\ ~cache.deleting => api.finalizer
        BY DEF IndInv, CacheGuarded
      <3>2. api.finalizer => cache.deleting
        BY <1>1 DEF ReportInv, DeletionSeen, ReportsResource
      <3>3. ~api.finalizer => ~ReportsResource(api)
        BY DEF ReportInv, DeletionSeen, ReportsResource
      <3> QED BY <1>1, <2>1, <3>1, <3>2, <3>3 DEF CopiesReport, Reports, DomainSteps
    <2>4. FailureShown' /\ FailingNeverReady'
      BY <1>1, <2>1 DEF ReportInv, FailureShown, FailingNeverReady
    <2>5. ReportedIsRecorded'
      BY <1>1, <1>3 DEF ReportInv, ReportedIsRecorded
    <2> QED BY <2>2, <2>3, <2>4, <2>5 DEF ReportInv
  <1>4. CASE Finish("none") /\ (Spend("error") \/ Spend("lost"))
    <2>1. Undisturbed' => Undisturbed
      BY <1>4, SpendGrows DEF IndInv, Disturbances
    <2> QED BY <1>1, <1>2, <1>4, <2>1, FinishKeepsReports DEF UpdateSteps
  <1> QED BY <1>3, <1>4 DEF DeleteExternal

\* The two finalizer updates.
LEMMA FinalizerStepsReport ==
    ASSUME IndInv, ReportInv, RemoveFinalizer \/ AddFinalizer
    PROVE  ReportInv'
  <1>1. /\ pc \in {"removeFinalizer", "addFinalizer"} /\ pc \in UpdateSteps
        /\ UNCHANGED <<cache, cloud, nextID>> /\ Finish("none")
        /\ pc # "idle" /\ pc # "delete"
    BY DEF RemoveFinalizer, AddFinalizer, hetzner, UpdateSteps
  <1>2. IndInv' /\ (Undisturbed' => Undisturbed)
    <2>1. IndInv'
      BY RemoveFinalizerIndInv, AddFinalizerIndInv
    <2>2. CASE UNCHANGED used
      BY <2>1, <2>2 DEF Undisturbed
    <2>3. CASE Spend("error")
      BY <2>1, <2>3, SpendGrows DEF IndInv, Disturbances
    <2> QED BY <2>1, <2>2, <2>3 DEF RemoveFinalizer, AddFinalizer
  <1>3. CASE UNCHANGED api
    BY <1>1, <1>2, <1>3, FinishKeepsReports
  <1>4. CASE RemoveFinalizer /\ Accepts(api, obj.rv) /\ api' = WithoutFinalizer(api, NoStatus)
    <2>1. cache.deleting
      BY <1>1, <1>4, AcceptedCopy DEF IndInv, CopyTrails, RemoveFinalizer
    <2> DEFINE n == api.rv + 1
    <2>2. api' = Absent(n, NoStatus)
      BY <1>4 DEF WithoutFinalizer
    <2> HIDE DEF n
    <2>3. ~api'.finalizer /\ api'.status = NoStatus
      BY <2>2, EmptyStatus
    <2> QED BY <1>1, <1>2, <2>1, <2>3, FinishKeepsReports
  <1>5. CASE AddFinalizer /\ Accepts(api, obj.rv) /\ api' = WithFinalizer(api)
    <2>1. /\ api'.finalizer /\ api'.status = api.status /\ api'.deleting = api.deleting
          /\ ~api.finalizer /\ ~cache.deleting /\ ~cache.finalizer /\ cache = api
      <3>1. pc = "addFinalizer" /\ api \in Objects(Statuses)
        BY <1>5 DEF AddFinalizer, IndInv, TypeOK
      <3>2. obj = api /\ cache = api
        BY <1>1, <1>5, AcceptedCopy
      <3> QED BY <1>1, <1>5, <3>1, <3>2, WithFinalizerFacts DEF IndInv, CopyTrails
    <2>2. ~ReportsResource(api)
      BY <2>1 DEF ReportInv, DeletionSeen, ReportsResource
    <2>3. pc' = "idle" /\ failed' = FALSE /\ outcome' = "none"
      BY <1>1 DEF Finish
    <2>4. DeletionSeen' /\ FailureShown' /\ FailingNeverReady'
      BY <1>1, <2>1, <2>2, <2>3 DEF DeletionSeen, FailureShown, FailingNeverReady
    <2>5. CopiesReport' /\ ReportedIsRecorded'
      BY <1>1, <2>1, <2>2, <2>3
      DEF CopiesReport, ReportedIsRecorded, Reports, ReportsResource, DomainSteps
    <2> QED BY <2>4, <2>5 DEF ReportInv
  <1> QED BY <1>3, <1>4, <1>5 DEF RemoveFinalizer, AddFinalizer

\* Every way into the error path, from a step that may have written the
\* status or created the resource before it failed.
LEMMA FailReports ==
    ASSUME IndInv, ReportInv, IndInv', Fail, pc \in DomainSteps, UNCHANGED cache,
           Undisturbed' => Undisturbed, cloud \subseteq cloud',
           api'.finalizer = api.finalizer, api'.deleting = api.deleting,
           api'.status \in {api.status, obj.status}
    PROVE  ReportInv'
  <1>1. /\ pc' = "writeStatus" /\ pc' \in DomainSteps
        /\ ~obj'.status.ready /\ ~obj'.status.synced
    BY FailShows DEF IndInv, TypeOK, DomainSteps
  <1>2. Reports(obj)' /\ pc' \notin {"saveID", "converge"}
    BY <1>1 DEF Reports, ReportsResource
  <1> QED BY <1>1, <1>2, DomainKeepsReports

\* The status write of a worker in Resource.Reconcile.
LEMMA WrittenStatus ==
    ASSUME IndInv, api' = WithStatus(api, obj.status)
    PROVE  /\ api'.finalizer = api.finalizer /\ api'.deleting = api.deleting
           /\ api'.status = obj.status
  <1>1. api \in Objects(Statuses) /\ obj.status \in Statuses
    BY DEF IndInv, TypeOK, Objects
  <1> QED BY <1>1, WithStatusFacts

\* Looking the resource up: what the worker takes is there.
LEMMA LookupReports ==
    ASSUME IndInv, ReportInv, LookupByID \/ LookupByName
    PROVE  ReportInv'
  <1>1. /\ pc \in {"lookupByID", "lookupByName"} /\ pc \in DomainSteps
        /\ UNCHANGED <<api, cache, cloud, nextID>> /\ IndInv'
    BY LookupByIDIndInv, LookupByNameIndInv
    DEF LookupByID, LookupByName, DomainSteps, kube, hetzner
  <1>2. ~failed /\ (Undisturbed => Reports(obj))
    BY <1>1 DEF ReportInv, FailureShown, CopiesReport
  <1>3. CASE Spend("error") /\ Fail
    <2>1. Undisturbed' => Undisturbed
      BY <1>3, SpendGrows DEF IndInv, Disturbances
    <2> QED BY <1>1, <1>3, <2>1, FailReports
  <1>4. CASE /\ pc' \in {"converge", "lookupByName", "create"}
             /\ UNCHANGED <<obj, failed, used>>
             /\ pc' = "converge" => found' \in cloud
    <2>1. pc' \in DomainSteps /\ (Undisturbed' => Undisturbed)
      BY <1>4 DEF DomainSteps, Undisturbed
    <2>2. Undisturbed => Reports(obj)'
      BY <1>1, <1>2, <1>4 DEF Reports
    <2> QED BY <1>1, <1>2, <1>4, <2>1, <2>2, DomainKeepsReports
  <1> QED BY <1>3, <1>4 DEF LookupByID, LookupByName, Goto

\* Creating it: nothing was there, so nothing was reported.
LEMMA CreateReports ==
    ASSUME IndInv, ReportInv, Create
    PROVE  ReportInv'
  <1>1. /\ pc = "create" /\ pc \in DomainSteps /\ UNCHANGED <<api, cache>>
        /\ cloud = {} /\ IndInv'
    BY CreateIndInv DEF Create, DomainSteps, kube, IndInv, CreateOnEmpty
  <1>2. ~failed /\ (Undisturbed => ~ReportsResource(obj))
    BY <1>1 DEF ReportInv, FailureShown, CopiesReport, Reports
  <1>3. CASE Fail /\ (Spend("error") \/ Spend("lost"))
    <2>1. Undisturbed' => Undisturbed
      BY <1>3, SpendGrows DEF IndInv, Disturbances
    <2> QED BY <1>1, <1>3, <2>1, FailReports
  <1>4. CASE /\ CloudCreate /\ found' = nextID
             /\ IF EarlyRecord
                THEN /\ obj' = [obj EXCEPT !.status.id = nextID, !.status.ready = FALSE]
                     /\ tries' = RetrySteps /\ pc' = "saveID"
                ELSE pc' = "converge" /\ UNCHANGED <<obj, tries>>
             /\ UNCHANGED <<failed, outcome, used>>
    <2>1. ReportsResource(obj)' => ReportsResource(obj)
      <3>1. obj \in Objects(Statuses) /\ obj.status \in Statuses
        BY DEF IndInv, TypeOK, Objects
      <3>2. CASE EarlyRecord
        BY <1>4, <3>1, <3>2 DEF Objects, Statuses, ReportsResource
      <3>3. CASE ~EarlyRecord
        BY <1>4, <3>3 DEF ReportsResource
      <3> QED BY <3>2, <3>3
    <2>2. /\ pc' \in DomainSteps /\ (Undisturbed' => Undisturbed)
          /\ found' \in cloud' /\ ~failed'
      BY <1>2, <1>4 DEF DomainSteps, Undisturbed, CloudCreate
    <2>3. Undisturbed => Reports(obj)'
      BY <1>2, <2>1 DEF Reports
    <2> QED BY <1>1, <2>2, <2>3, DomainKeepsReports
  <1> QED BY <1>3, <1>4 DEF Create

\* The early save of the ID, accepted, refused, lost or failing.
LEMMA SaveIDReports ==
    ASSUME IndInv, ReportInv, SaveID
    PROVE  ReportInv'
  <1>1. /\ pc = "saveID" /\ pc \in DomainSteps
        /\ UNCHANGED <<cache, cloud, nextID>> /\ IndInv'
    BY SaveIDIndInv DEF SaveID, DomainSteps, hetzner
  <1>2. ~failed /\ (Undisturbed => Reports(obj) /\ found \in cloud)
    BY <1>1 DEF ReportInv, FailureShown, CopiesReport
  <1>3. /\ api'.finalizer = api.finalizer /\ api'.deleting = api.deleting
        /\ api'.status \in {api.status, obj.status}
    BY WrittenStatus DEF SaveID
  <1>4. CASE Fail /\ (UNCHANGED used \/ Spend("error") \/ Spend("lost"))
    <2>1. Undisturbed' => Undisturbed
      BY <1>4, SpendGrows DEF IndInv, Disturbances, Undisturbed
    <2> QED BY <1>1, <1>3, <1>4, <2>1, FailReports
  <1>5. CASE pc' \in {"converge", "saveID"} /\ UNCHANGED <<obj, found, failed, used>>
    <2>1. pc' \in DomainSteps /\ (Undisturbed' => Undisturbed)
      BY <1>5 DEF DomainSteps, Undisturbed
    <2>2. Undisturbed => Reports(obj)' /\ found' \in cloud'
      BY <1>1, <1>2, <1>5 DEF Reports
    <2> QED BY <1>1, <1>2, <1>3, <1>5, <2>1, <2>2, DomainKeepsReports
  <1> QED BY <1>1, <1>4, <1>5 DEF SaveID, Goto

\* The success of Resource.Reconcile reports the resource the worker holds.
LEMMA ConvergeReports ==
    ASSUME IndInv, ReportInv, Converge
    PROVE  ReportInv'
  <1>1. /\ pc = "converge" /\ pc \in DomainSteps
        /\ UNCHANGED <<api, cache, cloud, nextID>> /\ IndInv'
    BY ConvergeIndInv DEF Converge, DomainSteps, kube, hetzner
  <1>2. ~failed /\ (Undisturbed => found \in cloud)
    BY <1>1 DEF ReportInv, FailureShown, CopiesReport
  <1>3. CASE Spend("error") /\ Fail
    <2>1. Undisturbed' => Undisturbed
      BY <1>3, SpendGrows DEF IndInv, Disturbances
    <2> QED BY <1>1, <1>3, <2>1, FailReports
  <1>4. CASE /\ obj' = [obj EXCEPT !.status = [id |-> found, ready |-> TRUE, synced |-> TRUE]]
             /\ pc' = "writeStatus" /\ UNCHANGED <<failed, used>>
    <2>1. obj'.status.id = found
      BY <1>4 DEF IndInv, TypeOK, Objects
    <2>2. pc' \in DomainSteps /\ (Undisturbed' => Undisturbed)
      BY <1>4 DEF DomainSteps, Undisturbed
    <2>3. Undisturbed => Reports(obj)'
      BY <1>1, <1>2, <2>1 DEF Reports
    <2> QED BY <1>1, <1>2, <1>4, <2>2, <2>3, DomainKeepsReports
  <1> QED BY <1>3, <1>4 DEF Converge

\* The base's status write: a failed reconcile writes both conditions False.
LEMMA WriteStatusReports ==
    ASSUME IndInv, ReportInv, WriteStatus
    PROVE  ReportInv'
  <1>1. /\ pc = "writeStatus" /\ pc \in DomainSteps /\ pc # "idle"
        /\ UNCHANGED <<cache, cloud, nextID>> /\ IndInv'
    BY WriteStatusIndInv DEF WriteStatus, DomainSteps, hetzner
  <1>2. Undisturbed' => Undisturbed
    <2>1. CASE UNCHANGED used
      BY <2>1 DEF Undisturbed
    <2>2. CASE Spend("error") \/ Spend("lost")
      BY <2>2, SpendGrows DEF IndInv, Disturbances
    <2> QED BY <2>1, <2>2 DEF WriteStatus
  <1>3. ASSUME NEW r, Finish(r), api' = WithStatus(api, obj.status), r = "failed" => failed
        PROVE  ReportInv'
    BY <1>1, <1>2, <1>3, WrittenStatus, FinishKeepsReports
  <1>4. CASE Finish("unsaved") /\ UNCHANGED api
    BY <1>1, <1>2, <1>4, FinishKeepsReports
  <1>5. CASE obj' = [obj EXCEPT !.rv = cache.rv] /\ UNCHANGED <<api, pc, failed>>
    <2>1. obj'.status = obj.status
      BY <1>5 DEF IndInv, TypeOK, Objects
    <2>2. /\ failed' => ~obj'.status.ready /\ ~obj'.status.synced
          /\ Undisturbed => Reports(obj)'
      BY <1>1, <1>5, <2>1
      DEF ReportInv, FailureShown, CopiesReport, Reports, ReportsResource
    <2> QED BY <1>1, <1>2, <1>5, <2>2, DomainKeepsReports
  <1> QED BY <1>3, <1>4, <1>5 DEF WriteStatus

-----------------------------------------------------------------------------
(* The theorems.                                                           *)

\* The reports hold at the start and every step keeps them.
LEMMA ReportsInductive ==
    /\ Init => ReportInv
    /\ IndInv /\ ReportInv /\ [Next]_vars => ReportInv'
  <1>1. Init => ReportInv
    BY EmptyStatus DEF Init, ReportInv, DeletionSeen, CopiesReport, Reports, ReportsResource,
                       FailureShown, ReportedIsRecorded, FailingNeverReady, DomainSteps, NoObj
  <1>2. ASSUME IndInv, ReportInv, Next
        PROVE  ReportInv'
    BY <1>2, UserStepsReport, OtherStepsReport, ReconcileReports, PendReports, DeleteExternalReports,
       FinalizerStepsReport, LookupReports, CreateReports, SaveIDReports, ConvergeReports,
       WriteStatusReports
    DEF Next, Work
  <1>3. ASSUME ReportInv, UNCHANGED vars
        PROVE  ReportInv'
    BY <1>3 DEF vars, ReportInv, DeletionSeen, CopiesReport, Reports, FailureShown,
                ReportedIsRecorded, FailingNeverReady, Undisturbed
  <1> QED BY <1>1, <1>2, <1>3

\* The inductive invariant about the status conditions.
THEOREM ReportInvariant == Spec => []ReportInv
  BY InductiveInvariant, ReportsInductive, PTL DEF Spec

\* Deleting an object that shows Ready=True leaks nothing, as long as nobody
\* deletes resources behind the operator's back: its status names every
\* resource there is, for any number of crashes, failures, lost answers and
\* pending references.  Where no reference can be pending, Synced=True is enough.
THEOREM ReportedNamesAll == Spec => []ReportedIsRecorded
  <1>1. ReportInv => ReportedIsRecorded
    BY DEF ReportInv
  <1> QED BY <1>1, ReportInvariant, PTL

\* After a reconcile that failed and whose status write was accepted, the
\* object shows neither Ready nor Synced until the worker acts again.
THEOREM FailureNeverShowsReady == Spec => []FailingNeverReady
  <1>1. ReportInv => FailingNeverReady
    BY DEF ReportInv
  <1> QED BY <1>1, ReportInvariant, PTL
=============================================================================
