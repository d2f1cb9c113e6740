---------------------------- MODULE BaseReconciler ----------------------------
(***************************************************************************)
(* The reconcile skeleton every HCloud kind shares                         *)
(* (src/internal/reconcile/base.go), driving the Resource contract the way *)
(* the controllers implement it: look the Hetzner resource up by the ID in *)
(* status, then by name, create it, bring it in line, record its ID.       *)
(*                                                                         *)
(* One object, the one worker that controller-runtime runs for it, the     *)
(* informer cache the worker reads from, and the Hetzner project.  Every   *)
(* remote call is a step of its own, so the object can change, the cache   *)
(* can lag and the process can die between any two calls.                  *)
(***************************************************************************)
EXTENDS KubeObject

CONSTANTS
    RetrySteps,   \* attempts of retry.DefaultRetry (5 in client-go)
    EarlyRecord,  \* TRUE: the kind saves a created ID before it goes on
                  \* (network, server); FALSE: it sets the ID in status only
                  \* after all its other steps succeeded (volume, load
                  \* balancer, IPs, certificate, placement group)
    MayPend,      \* TRUE: the kind refers to another object and returns
                  \* without error while that one is not ready (volume, IPs,
                  \* load balancer)
    Budget        \* how often each kind of disturbance may happen

\* "user"     : kubectl create / edit / delete
\* "external" : somebody deletes the Hetzner resource behind the operator
\* "error"    : a remote call fails without effect
\* "lost"     : a remote call takes effect but its answer is an error
\* "crash"    : the operator process dies and is restarted
\* "pending"  : a reconcile finds the object's reference not ready
Disturbances == {"user", "external", "error", "lost", "crash", "pending"}

ASSUME RetryAssumption == RetrySteps \in Nat \ {0}
ASSUME EarlyAssumption == EarlyRecord \in BOOLEAN
ASSUME PendAssumption == MayPend \in BOOLEAN /\ (MayPend => ~EarlyRecord)
ASSUME BudgetAssumption == Budget \in [Disturbances -> Nat]

VARIABLES
    api,      \* the object in the API server
    cache,    \* the informer's copy of it: some earlier version of api
    cloud,    \* IDs of the Hetzner resources that bear the object's name
    nextID,   \* the ID Hetzner gives to the next resource
    pc,       \* the call the worker is about to make
    obj,      \* the worker's in-memory object
    found,    \* ID of the Hetzner resource the worker holds, 0 for nil
    failed,   \* Resource.Reconcile returned an error
    tries,    \* attempts left of the running RetryOnConflict
    outcome,  \* how the last reconcile ended
    used      \* disturbances so far

kube    == <<api, cache>>
hetzner == <<cloud, nextID>>
worker  == <<pc, obj, found, failed, tries, outcome>>
vars    == <<api, cache, cloud, nextID, pc, obj, found, failed, tries, outcome, used>>

Statuses == [id : Nat, ready : BOOLEAN, synced : BOOLEAN]
NoStatus == [id |-> 0, ready |-> FALSE, synced |-> FALSE]
NoObj    == Absent(0, NoStatus)

PCs == {"idle", "delete", "removeFinalizer", "addFinalizer", "lookupByID",
        "lookupByName", "create", "saveID", "converge", "writeStatus"}

Outcomes == {"none", "ok", "failed", "unsaved"}

TypeOK ==
    /\ api \in Objects(Statuses) /\ cache \in Objects(Statuses)
    /\ cloud \in SUBSET Nat /\ nextID \in Nat
    /\ pc \in PCs /\ obj \in Objects(Statuses) /\ found \in Nat
    /\ failed \in BOOLEAN /\ tries \in 0..RetrySteps /\ outcome \in Outcomes
    /\ used \in [Disturbances -> Nat]

Init ==
    /\ api = NoObj /\ cache = NoObj
    /\ cloud = {} /\ nextID = 1
    /\ pc = "idle" /\ obj = NoObj /\ found = 0 /\ failed = FALSE
    /\ tries = 0 /\ outcome = "none"
    /\ used = [d \in Disturbances |-> 0]

Spend(d) ==
    /\ used[d] < Budget[d]
    /\ used' = [used EXCEPT ![d] = @ + 1]

-----------------------------------------------------------------------------
(* The environment: users, the watch that feeds the cache, Hetzner's other *)
(* clients, crashes.                                                       *)

UserCreate ==
    /\ ~api.exists
    /\ Spend("user")
    /\ api' = Fresh(api.rv + 1, NoStatus)
    /\ UNCHANGED <<cache, hetzner, worker>>

\* A change of spec or metadata: all that matters here is the new version.
UserEdit ==
    /\ api.exists
    /\ Spend("user")
    /\ api' = [api EXCEPT !.rv = @ + 1]
    /\ UNCHANGED <<cache, hetzner, worker>>

UserDelete ==
    /\ api.exists /\ ~api.deleting
    /\ Spend("user")
    /\ api' = Deleted(api, NoStatus)
    /\ UNCHANGED <<cache, hetzner, worker>>

CacheSync ==
    /\ cache # api
    /\ cache' = api
    /\ UNCHANGED <<api, hetzner, worker, used>>

ExternalDelete ==
    /\ cloud # {}
    /\ Spend("external")
    /\ \E i \in cloud : cloud' = cloud \ {i}
    /\ UNCHANGED <<kube, nextID, worker>>

\* The restarted manager lists the objects afresh before it starts workers.
Crash ==
    /\ Spend("crash")
    /\ pc' = "idle" /\ obj' = NoObj /\ found' = 0 /\ failed' = FALSE
    /\ tries' = 0 /\ outcome' = "none"
    /\ cache' = api
    /\ UNCHANGED <<api, hetzner>>

-----------------------------------------------------------------------------
(* The worker.                                                             *)

\* The reconcile ends and the worker forgets the object.  The key is queued
\* again in every case: an error and Requeue at once, success after a delay.
Finish(result) ==
    /\ pc' = "idle" /\ obj' = NoObj /\ found' = 0 /\ failed' = FALSE
    /\ tries' = 0 /\ outcome' = result

\* Goes to the next call with nothing else changed.
Goto(step) ==
    /\ pc' = step
    /\ UNCHANGED <<obj, found, failed, tries, outcome>>

\* Mutant: delegates to the kind without waiting for the finalizer.
ReconcileUnguarded ==
    /\ pc = "idle"
    /\ cache.exists
    /\ obj' = cache
    /\ pc' = CASE cache.deleting -> "delete"
               [] OTHER -> IF cache.status.id # 0 THEN "lookupByID" ELSE "lookupByName"
    /\ UNCHANGED <<kube, hetzner, found, failed, tries, outcome, used>>

\* b.Get and the branches that make no call.
Reconcile ==
    /\ pc = "idle"
    /\ cache.exists
    /\ ~(cache.deleting /\ ~cache.finalizer)
    /\ obj' = cache
    /\ pc' = CASE cache.deleting -> "delete"
               [] ~cache.deleting /\ ~cache.finalizer -> "addFinalizer"
               [] OTHER -> IF cache.status.id # 0 THEN "lookupByID" ELSE "lookupByName"
    /\ UNCHANGED <<kube, hetzner, found, failed, tries, outcome, used>>

\* The reference is missing or not ready: the kind sets Ready=False and returns
\* before it looks at Hetzner, without an error, so the base adds Synced=True.
Pend ==
    /\ MayPend
    /\ pc = "idle"
    /\ cache.exists /\ cache.finalizer /\ ~cache.deleting
    /\ Spend("pending")
    /\ obj' = [cache EXCEPT !.status.ready = FALSE, !.status.synced = TRUE]
    /\ tries' = RetrySteps /\ pc' = "writeStatus"
    /\ UNCHANGED <<kube, hetzner, found, failed, outcome>>

\* Mutant: the resource must be there to be deleted.
DeleteExternalNotIdempotent ==
    /\ pc = "delete"
    /\ UNCHANGED <<kube, nextID, used>>
    /\ \/ /\ obj.status.id = 0 \/ obj.status.id \in cloud
          /\ cloud' = cloud \ {obj.status.id}
          /\ Goto("removeFinalizer")
       \/ /\ obj.status.id # 0 /\ obj.status.id \notin cloud
          /\ UNCHANGED cloud /\ Finish("none")

\* Mutant: the error of the delete call is dropped.
DeleteExternalIgnoresError ==
    /\ pc = "delete"
    /\ UNCHANGED <<kube, nextID>>
    /\ Goto("removeFinalizer")
    /\ \/ cloud' = cloud \ {obj.status.id} /\ UNCHANGED used
       \/ Spend("error") /\ UNCHANGED cloud

\* Resource.Delete: nothing to do without a recorded ID; otherwise an
\* idempotent delete by ID.
DeleteExternal ==
    /\ pc = "delete"
    /\ UNCHANGED <<kube, nextID>>
    /\ \/ /\ cloud' = cloud \ {obj.status.id}
          /\ Goto("removeFinalizer") /\ UNCHANGED used
       \/ /\ obj.status.id # 0
          /\ Spend("error") /\ UNCHANGED cloud /\ Finish("none")
       \/ /\ obj.status.id # 0
          /\ Spend("lost") /\ cloud' = cloud \ {obj.status.id} /\ Finish("none")

\* Mutant: a patch without resourceVersion, so the store cannot refuse it.
RemoveFinalizerUnchecked ==
    /\ pc = "removeFinalizer"
    /\ UNCHANGED <<cache, hetzner, used>>
    /\ Finish("none")
    /\ IF api.exists /\ api.deleting THEN api' = WithoutFinalizer(api, NoStatus)
                                     ELSE UNCHANGED api

\* RemoveFinalizer and Update.
RemoveFinalizer ==
    /\ pc = "removeFinalizer"
    /\ UNCHANGED <<cache, hetzner>>
    /\ Finish("none")
    /\ \/ Accepts(api, obj.rv) /\ api' = WithoutFinalizer(api, NoStatus) /\ UNCHANGED used
       \/ ~Accepts(api, obj.rv) /\ UNCHANGED <<api, used>>
       \/ Spend("error") /\ UNCHANGED api

\* AddFinalizer and Update, then Requeue.
AddFinalizer ==
    /\ pc = "addFinalizer"
    /\ UNCHANGED <<cache, hetzner>>
    /\ Finish("none")
    /\ \/ Accepts(api, obj.rv) /\ api' = WithFinalizer(api) /\ UNCHANGED used
       \/ ~Accepts(api, obj.rv) /\ UNCHANGED <<api, used>>
       \/ Spend("error") /\ UNCHANGED api

\* Mutant: the base leaves Ready to the domain logic.
FailKeepsReady ==
    /\ failed' = TRUE
    /\ obj' = [obj EXCEPT !.status.synced = FALSE]
    /\ tries' = RetrySteps
    /\ pc' = "writeStatus"
    /\ UNCHANGED <<found, outcome>>

\* The error path of Reconcile: force both conditions to False and go on to
\* the best-effort status write.
Fail ==
    /\ failed' = TRUE
    /\ obj' = [obj EXCEPT !.status.synced = FALSE, !.status.ready = FALSE]
    /\ tries' = RetrySteps
    /\ pc' = "writeStatus"
    /\ UNCHANGED <<found, outcome>>

\* Mutant: a recorded ID that is gone from Hetzner is an error.
LookupByIDMustFind ==
    /\ pc = "lookupByID"
    /\ UNCHANGED <<kube, hetzner, used>>
    /\ \/ /\ obj.status.id \in cloud
          /\ found' = obj.status.id /\ pc' = "converge"
          /\ UNCHANGED <<obj, failed, tries, outcome>>
       \/ obj.status.id \notin cloud /\ Fail

LookupByID ==
    /\ pc = "lookupByID"
    /\ UNCHANGED <<kube, hetzner>>
    /\ \/ /\ obj.status.id \in cloud
          /\ found' = obj.status.id /\ pc' = "converge"
          /\ UNCHANGED <<obj, failed, tries, outcome, used>>
       \/ obj.status.id \notin cloud /\ Goto("lookupByName") /\ UNCHANGED used
       \/ Spend("error") /\ Fail

\* Mutant: nothing recorded, so create.
LookupByNameSkipped ==
    /\ pc = "lookupByName"
    /\ UNCHANGED <<kube, hetzner, used>>
    /\ Goto("create")

LookupByName ==
    /\ pc = "lookupByName"
    /\ UNCHANGED <<kube, hetzner>>
    /\ \/ \E i \in cloud :
            /\ found' = i /\ pc' = "converge"
            /\ UNCHANGED <<obj, failed, tries, outcome, used>>
       \/ cloud = {} /\ Goto("create") /\ UNCHANGED used
       \/ Spend("error") /\ Fail

CloudCreate ==
    /\ cloud' = cloud \cup {nextID}
    /\ nextID' = nextID + 1

Create ==
    /\ pc = "create"
    /\ UNCHANGED kube
    /\ \/ /\ CloudCreate
          /\ found' = nextID
          /\ IF EarlyRecord
             THEN /\ obj' = [obj EXCEPT !.status.id = nextID, !.status.ready = FALSE]
                  /\ tries' = RetrySteps /\ pc' = "saveID"
             ELSE pc' = "converge" /\ UNCHANGED <<obj, tries>>
          /\ UNCHANGED <<failed, outcome, used>>
       \/ Spend("error") /\ UNCHANGED hetzner /\ Fail
       \/ Spend("lost") /\ CloudCreate /\ Fail

\* Mutant: retries one time too many.
SaveIDOneTooMany ==
    /\ pc = "saveID"
    /\ UNCHANGED <<cache, hetzner, used>>
    /\ \/ /\ Accepts(api, cache.rv)
          /\ api' = WithStatus(api, obj.status)
          /\ Goto("converge")
       \/ /\ ~Accepts(api, cache.rv) /\ tries >= 0
          /\ tries' = tries - 1
          /\ UNCHANGED <<api, pc, obj, found, failed, outcome>>

\* update<Kind>StatusWithRetry: each attempt takes the cached object, puts
\* the desired status into it and writes it.  obj keeps its old version.
SaveID ==
    /\ pc = "saveID"
    /\ UNCHANGED <<cache, hetzner>>
    /\ \/ /\ cache.exists /\ Accepts(api, cache.rv)
          /\ api' = WithStatus(api, obj.status)
          /\ Goto("converge") /\ UNCHANGED used
       \/ /\ cache.exists /\ ~Accepts(api, cache.rv) /\ tries > 1
          /\ tries' = tries - 1
          /\ UNCHANGED <<api, pc, obj, found, failed, outcome, used>>
       \/ /\ ~cache.exists \/ (~Accepts(api, cache.rv) /\ tries = 1)
          /\ Fail /\ UNCHANGED <<api, used>>
       \/ Spend("error") /\ Fail /\ UNCHANGED api
       \/ /\ cache.exists /\ Accepts(api, cache.rv)
          /\ Spend("lost") /\ api' = WithStatus(api, obj.status) /\ Fail

\* Mutant: the ID of an adopted resource is not put into status.
ConvergeForgetsID ==
    /\ pc = "converge"
    /\ UNCHANGED <<kube, hetzner, used>>
    /\ obj' = [obj EXCEPT !.status.ready = TRUE, !.status.synced = TRUE]
    /\ tries' = RetrySteps /\ pc' = "writeStatus"
    /\ UNCHANGED <<found, failed, outcome>>

\* The rest of Resource.Reconcile.  It ends with the ID in status and
\* Ready=True, and the base adds Synced=True.
Converge ==
    /\ pc = "converge"
    /\ UNCHANGED <<kube, hetzner>>
    /\ \/ /\ obj' = [obj EXCEPT !.status = [id |-> found, ready |-> TRUE, synced |-> TRUE]]
          /\ tries' = RetrySteps /\ pc' = "writeStatus"
          /\ UNCHANGED <<found, failed, outcome, used>>
       \/ Spend("error") /\ Fail

\* updateStatusWithRetry: after a conflict the worker takes the version, and
\* only the version, from the cache and writes its own status again.
WriteStatus ==
    /\ pc = "writeStatus"
    /\ UNCHANGED <<cache, hetzner>>
    /\ \/ /\ Accepts(api, obj.rv)
          /\ api' = WithStatus(api, obj.status)
          /\ Finish(IF failed THEN "failed" ELSE "ok") /\ UNCHANGED used
       \/ /\ api.exists /\ ~Accepts(api, obj.rv) /\ cache.exists /\ tries > 1
          /\ obj' = [obj EXCEPT !.rv = cache.rv]
          /\ tries' = tries - 1
          /\ UNCHANGED <<api, pc, found, failed, outcome, used>>
       \/ /\ ~api.exists \/ (~Accepts(api, obj.rv) /\ (~cache.exists \/ tries = 1))
          /\ Finish("unsaved") /\ UNCHANGED <<api, used>>
       \/ Spend("error") /\ Finish("unsaved") /\ UNCHANGED api
       \/ /\ Accepts(api, obj.rv)
          /\ Spend("lost") /\ api' = WithStatus(api, obj.status) /\ Finish("unsaved")

Work ==
    \/ Reconcile \/ Pend \/ DeleteExternal \/ RemoveFinalizer \/ AddFinalizer
    \/ LookupByID \/ LookupByName \/ Create \/ SaveID \/ Converge \/ WriteStatus

Next ==
    \/ UserCreate \/ UserEdit \/ UserDelete \/ CacheSync
    \/ ExternalDelete \/ Crash
    \/ Work

Spec == Init /\ [][Next]_vars

\* The queue holds the key as long as the object exists, so the worker keeps
\* going; the watch delivers every change in the end.
Fairness == WF_vars(Work) /\ WF_vars(CacheSync)

FairSpec == Spec /\ Fairness

-----------------------------------------------------------------------------
(* Properties.                                                             *)

\* There is never more than one Hetzner resource for the object, whatever
\* crashes, lost answers and stale reads happen around the create call: the
\* lookup by name that precedes it finds what an earlier reconcile left.
NoDuplicate == \A i, j \in cloud : i = j

DomainSteps == {"lookupByID", "lookupByName", "create", "saveID", "converge",
                "writeStatus"}

\* Resource.Reconcile only ever runs for an object that, in the API server
\* and not just in the cached copy the worker read, exists and still holds
\* the finalizer: nothing is created in Hetzner for an object that is gone.
GuardedWhileWorking ==
    pc \in DomainSteps => api.exists /\ api.finalizer

\* The object is let go only when the resource its status names, at the
\* moment of removal, is gone.  The worker decides on a cached copy; the
\* version check of the finalizer update is what makes the decision safe.
RemovalIsSafe ==
    [][api.exists /\ ~api'.exists => api.status.id \notin cloud]_vars

\* The object reports that it has its resource: Ready=True, or Synced=True for
\* a kind whose reconciles never end before the resource is looked up.
ReportsResource(o) == o.status.ready \/ (o.status.synced /\ ~MayPend)

\* Deleting an object that shows Ready=True never leaks its resource, as long
\* as nobody deletes resources behind the operator's back: the status names
\* every resource there is.  Where no reference can be pending, Synced=True
\* says as much.
ReportedIsRecorded ==
    api.exists /\ ReportsResource(api) /\ used["external"] = 0
        => api.status.id # 0 /\ cloud \subseteq {api.status.id}

\* After a reconcile that failed and whose status write was accepted, the
\* object is neither Ready nor Synced until the worker acts again.
FailingNeverReady ==
    outcome = "failed" /\ pc = "idle"
        => ~api.status.ready /\ ~api.status.synced

\* A deleted object goes away: the worker gets through Delete and the
\* finalizer update once the disturbances have stopped.
DeletionCompletes == (api.exists /\ api.deleting) ~> ~api.exists

\* An object that stays gets a resource, recorded and reported, again and
\* again: also after a crash, a lost answer or an external deletion.
Converges ==
    []<>(\/ ~api.exists \/ api.deleting
         \/ /\ cloud = {api.status.id}
            /\ api.status.ready /\ api.status.synced)

\* The abstract life of the object and its resource.
Phase ==
    CASE ~api.exists -> "absent"
      [] api.exists /\ ~api.finalizer -> "unguarded"
      [] api.exists /\ api.finalizer /\ ~api.deleting -> "guarded"
      [] OTHER -> "terminating"

Abstract == INSTANCE ManagedResource
    WITH phase <- Phase, recorded <- api.status.id, cloud <- cloud,
         issued <- 1..(nextID - 1)

\* The skeleton, with its cache, retries, crashes and lost answers, keeps
\* every promise of ManagedResource.
ImplementsManagedResource == Abstract!Spec

\* README, "Safe Cleanup": the Hetzner infrastructure is destroyed before
\* the object may go.  It does not hold: with a failed call or a crash between
\* the creation and the record of the ID, a deletion leaves the resource.
NoOrphan == ~api.exists /\ pc = "idle" => cloud = {}

-----------------------------------------------------------------------------
(* The inductive invariant behind NoDuplicate, GuardedWhileWorking,         *)
(* RemovalIsSafe and ImplementsManagedResource.                             *)

\* IDs are issued in order and nobody names one that was not issued.
IDsIssued ==
    /\ nextID > 0
    /\ \A i \in cloud : 0 < i /\ i < nextID
    /\ api.status.id < nextID /\ cache.status.id < nextID
    /\ obj.status.id < nextID /\ found < nextID

\* Only an existing, guarded object can be marked for deletion or name a
\* resource.
Shape(o) ==
    /\ o.finalizer => o.exists
    /\ o.deleting => o.finalizer
    /\ ~o.finalizer => o.status.id = 0

\* The cache trails the store, and a version stands for one content.
CacheTrails ==
    /\ Shape(api) /\ Shape(cache)
    /\ cache.rv <= api.rv
    /\ cache.rv = api.rv => cache = api

\* So does the copy the worker means to write back with a version check.
UpdateSteps == {"delete", "removeFinalizer", "addFinalizer"}
CopyTrails ==
    pc \in UpdateSteps =>
        /\ obj.exists
        /\ obj.deleting = (pc # "addFinalizer")
        /\ obj.finalizer = (pc # "addFinalizer")
        /\ obj.rv <= cache.rv
        /\ obj.rv = cache.rv => obj = cache

\* An object that the cache shows guarded and not yet deleted is still
\* guarded: only the worker removes finalizers, and only after it saw the
\* object being deleted.
CacheGuarded ==
    cache.finalizer /\ ~cache.deleting => api.exists /\ api.finalizer

CreateOnEmpty == pc = "create" => cloud = {}

DeletedBeforeRemoval == pc = "removeFinalizer" => obj.status.id \notin cloud

IndInv ==
    /\ TypeOK /\ IDsIssued /\ CacheTrails /\ CopyTrails /\ CacheGuarded
    /\ GuardedWhileWorking /\ CreateOnEmpty /\ DeletedBeforeRemoval
    /\ NoDuplicate

-----------------------------------------------------------------------------
(* The inductive invariant behind ReportedIsRecorded and FailingNeverReady  *)
(* (together with IndInv).                                                  *)

\* Nobody has deleted a resource behind the operator's back.
Undisturbed == used["external"] = 0

\* A resource the object reports: it is there.
Reports(o) == ReportsResource(o) => o.status.id \in cloud

\* Conditions are set only under the finalizer, and a guarded object that the
\* cache or the worker has seen in deletion is being deleted in the store.
DeletionSeen ==
    /\ ReportsResource(api) => api.finalizer
    /\ api.finalizer /\ cache.deleting => api.deleting
    /\ api.finalizer /\ pc \in {"delete", "removeFinalizer"}
         => api.deleting /\ cache.deleting

\* Until the deletion reaches the worker, every copy that reports
\* a resource names one that exists.
CopiesReport ==
    Undisturbed =>
        /\ pc \in {"saveID", "converge"} => found \in cloud
        /\ pc \in DomainSteps => Reports(obj)
        /\ cache.finalizer /\ ~cache.deleting => Reports(cache)
        /\ ~cache.deleting \/ pc \in DomainSteps => Reports(api)

\* A failed reconcile is on its way to write both conditions as False.
FailureShown ==
    failed => pc = "writeStatus" /\ ~obj.status.ready /\ ~obj.status.synced

ReportInv ==
    /\ DeletionSeen /\ CopiesReport /\ FailureShown
    /\ ReportedIsRecorded /\ FailingNeverReady
=============================================================================
