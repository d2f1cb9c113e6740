----------------------------- MODULE HCloudVolume -----------------------------
(***************************************************************************)
(* The domain logic of the HCloudVolume controller                         *)
(* (src/internal/controller/hcloudvolume_controller.go) against the        *)
(* Hetzner volume it drives: creation, growth, the attachment that         *)
(* spec.serverRef asks for, and the detach that precedes deletion.         *)
(*                                                                         *)
(* Attach and detach are asynchronous in Hetzner; the volume is locked     *)
(* while one runs and the operator does not wait for it.                   *)
(*                                                                         *)
(* The finalizer is set and version conflicts are BaseReconciler's         *)
(* subject: reads come from a cache that may lag, and a status write is    *)
(* retried until the cache has caught up, so that it carries the current   *)
(* version, or fails for good.                                             *)
(***************************************************************************)
EXTENDS ServerRefs

CONSTANTS
    InitRefs,     \* what spec.serverRef may be when the object is created
    MaxSize,      \* sizes 1..MaxSize stand for gigabytes
    ExternalOps,  \* what others may do to the volume
    Budget        \* how often each kind of disturbance may happen

\* "ref", "size" : an edit of that field of the spec
\* "delete"      : the volume object is deleted
\* "server"      : a referenced server is deleted
\* "external"    : one of ExternalOps
\* "error"       : a remote call fails without effect
\* "crash"       : the operator process dies and is restarted
\* "any"         : all of them together
Disturbances == {"ref", "size", "delete", "server", "external", "error", "crash", "any"}

ASSUME RefsAssumption == InitRefs \subseteq ServerIDs
ASSUME SizeAssumption == MaxSize \in Nat \ {0}
ASSUME OpsAssumption == ExternalOps \subseteq {"delete", "detach", "grow"}
ASSUME BudgetAssumption == Budget \in [Disturbances -> Nat]

VARIABLES
    phase,    \* of the object: live, deleting, gone
    spec,     \* serverRef (0: none) and size
    status,
    seen,     \* phase, spec and status as the informer cache shows them
    vol,      \* the Hetzner volume that bears the object's name
    nextID,   \* the ID of the next volume
    pc,       \* the call the worker is about to make
    obj,      \* its copy of spec and status
    snap,     \* its VolumeInfo
    used      \* disturbances so far

servers == <<srvObj, srvLive>>
object  == <<phase, spec, status, seen>>
hetzner == <<vol, nextID>>
worker  == <<pc, obj, snap>>
vars    == <<srvObj, srvLive, phase, spec, status, seen, vol, nextID, pc, obj,
             snap, used>>

Sizes    == 1..MaxSize
NoVolume == [id |-> 0, size |-> 0, server |-> 0, op |-> "none", to |-> 0]
NoStatus == [id |-> 0, attached |-> 0, size |-> 0, ready |-> FALSE]
NoCopy   == [phase |-> "live", spec |-> [ref |-> 0, size |-> 1], status |-> NoStatus]

Phases   == {"live", "deleting", "gone"}
Specs    == [ref : ServerIDs, size : Sizes]
Statuses == [id : Nat, attached : ServerIDs, size : Sizes \cup {0}, ready : BOOLEAN]
Copies   == [phase : Phases, spec : Specs, status : Statuses]
Volumes  == [id : Nat, size : Sizes \cup {0}, server : ServerIDs,
             op : {"none", "attach", "detach"}, to : ServerIDs]

PCs == {"idle", "lookupByID", "lookupByName", "create", "resize", "refresh",
        "detach", "attach", "write", "writeError", "fetch", "detachFirst",
        "delete", "release"}

TypeOK ==
    /\ ServersTypeOK
    /\ phase \in Phases /\ spec \in Specs /\ status \in Statuses /\ seen \in Copies
    /\ vol \in Volumes /\ nextID \in Nat \ {0}
    /\ pc \in PCs /\ obj \in Copies /\ snap \in Volumes
    /\ used \in [Disturbances -> Nat]

Current == [phase |-> phase, spec |-> spec, status |-> status]

Init ==
    /\ ServersInit
    /\ phase = "live" /\ spec \in [ref : InitRefs, size : {1}] /\ status = NoStatus
    /\ seen = Current
    /\ vol = NoVolume /\ nextID = 1
    /\ pc = "idle" /\ obj = NoCopy /\ snap = NoVolume
    /\ used = [d \in Disturbances |-> 0]

Spend(d) ==
    /\ used[d] < Budget[d] /\ used["any"] < Budget["any"]
    /\ used' = [used EXCEPT ![d] = @ + 1, !["any"] = @ + 1]

-----------------------------------------------------------------------------
(* Users, referenced servers, the cache, crashes.                          *)

EditRef ==
    /\ phase = "live" /\ Spend("ref")
    /\ \E r \in ServerIDs \ {spec.ref} : spec' = [spec EXCEPT !.ref = r]
    /\ UNCHANGED <<servers, phase, status, seen, hetzner, worker>>

\* The CRD's validation lets the size only grow.
EditSize ==
    /\ phase = "live" /\ Spend("size")
    /\ \E n \in Sizes : n > spec.size /\ spec' = [spec EXCEPT !.size = n]
    /\ UNCHANGED <<servers, phase, status, seen, hetzner, worker>>

DeleteObject ==
    /\ phase = "live" /\ Spend("delete")
    /\ phase' = "deleting"
    /\ UNCHANGED <<servers, spec, status, seen, hetzner, worker>>

ServerReady ==
    /\ \E s \in Servers : BecomeReady(s)
    /\ UNCHANGED <<object, hetzner, worker, used>>

\* Hetzner detaches the volumes of a server that is deleted.
ServerDestroyed ==
    /\ Spend("server")
    /\ \E s \in Servers :
         /\ Destroy(s)
         /\ vol' = IF vol.server = s THEN [vol EXCEPT !.server = 0, !.op = "none", !.to = 0]
                                     ELSE vol
    /\ UNCHANGED <<object, nextID, worker>>

ServerObjectGoes ==
    /\ \E s \in Servers : ObjectGoes(s)
    /\ UNCHANGED <<object, hetzner, worker, used>>

CacheSync ==
    /\ seen # Current
    /\ seen' = Current
    /\ UNCHANGED <<servers, phase, spec, status, hetzner, worker, used>>

Stop == pc' = "idle" /\ obj' = NoCopy /\ snap' = NoVolume

Crash ==
    /\ pc # "idle" /\ Spend("crash")
    /\ Stop
    /\ UNCHANGED <<servers, object, hetzner>>

-----------------------------------------------------------------------------
(* Hetzner's side.                                                         *)

Unlocked == vol.op = "none"

\* An accepted attach: the volume may name its server at once or only when
\* the action has finished.
Attaching(v, s) ==
    {[v EXCEPT !.op = "attach", !.to = s, !.server = shown] : shown \in {0, s}}

\* An accepted detach; a volume that hangs nowhere stays as it is, as in the
\* repository's own stand-in for Hetzner.
Detaching(v) == IF v.server = 0 THEN v ELSE [v EXCEPT !.op = "detach"]

Progress ==
    /\ vol.op # "none"
    /\ vol' = [vol EXCEPT !.op = "none", !.to = 0,
                          !.server = IF vol.op = "attach" /\ vol.to \in srvLive
                                     THEN vol.to ELSE 0]
    /\ UNCHANGED <<servers, object, nextID, worker, used>>

External ==
    /\ vol.id # 0 /\ Unlocked
    /\ Spend("external")
    /\ \/ "delete" \in ExternalOps /\ vol' = NoVolume
       \/ "detach" \in ExternalOps /\ vol.server # 0 /\ vol' = Detaching(vol)
       \/ "grow" \in ExternalOps /\ vol.size < MaxSize /\ vol' = [vol EXCEPT !.size = @ + 1]
    /\ UNCHANGED <<servers, object, nextID, worker>>

-----------------------------------------------------------------------------
(* How a reconcile goes on.                                                *)

Call(step, o, v) == pc' = step /\ obj' = o /\ snap' = v

\* An error of Resource.Reconcile: the base writes the status with both
\* conditions False.
Fail(o) == Call("writeError", [o EXCEPT !.status.ready = FALSE], NoVolume)

\* Mutant: records the volume where the server belongs.
SyncStatusWrongField(o, v) ==
    Call("write",
         [o EXCEPT !.status = [id |-> v.id, attached |-> v.id + NumServers, size |-> v.size,
                               ready |-> TRUE]],
         NoVolume)

\* The end of reconcileHCloudVolume.
SyncStatus(o, v) ==
    Call("write",
         [o EXCEPT !.status = [id |-> v.id, attached |-> v.server, size |-> v.size,
                               ready |-> TRUE]],
         NoVolume)

\* Mutant: a volume that is attached somewhere is left alone.
EnsureAnyAttachment(o, v) ==
    IF v.server = 0 /\ o.spec.ref # 0 THEN Call("attach", o, v) ELSE SyncStatus(o, v)

\* spec.ref is the ID of the server here: Reconcile has resolved it.
EnsureAttachment(o, v) ==
    CASE v.server = o.spec.ref -> SyncStatus(o, v)
      [] v.server # o.spec.ref /\ v.server # 0 -> Call("detach", o, v)
      [] OTHER -> Call("attach", o, v)

reconcileHCloudVolume(o, v) ==
    CASE v.size < o.spec.size -> Call("resize", o, v)
      [] v.size > o.spec.size -> Fail(o)
      [] OTHER -> EnsureAttachment(o, v)

toVolumeInfo(v) == [v EXCEPT !.op = "none", !.to = 0]

-----------------------------------------------------------------------------
(* The worker's steps, one per remote call.                                *)

\* Any call may fail without effect.  A failed Delete leaves the status alone.
CallFails ==
    /\ Spend("error")
    /\ \/ pc \in {"lookupByID", "lookupByName", "create", "resize", "refresh",
                  "detach", "attach"} /\ Fail(obj)
       \/ pc \in {"fetch", "detachFirst", "delete", "release"} /\ Stop
    /\ UNCHANGED <<servers, object, hetzner>>

Reconcile ==
    /\ pc = "idle" /\ seen.phase # "gone"
    /\ CASE seen.phase = "deleting" ->
              Call(IF seen.status.id = 0 THEN "release" ELSE "fetch", seen, NoVolume)
         [] seen.phase = "live" /\ Pending(seen.spec.ref) ->
              Call("write", [seen EXCEPT !.status.ready = FALSE], NoVolume)
         [] OTHER ->
              Call(IF seen.status.id # 0 THEN "lookupByID" ELSE "lookupByName", seen, NoVolume)
    /\ UNCHANGED <<servers, object, hetzner, used>>

\* Mutant: a recorded ID that is not found leads straight to a new volume.
LookupByIDCreates ==
    /\ pc = "lookupByID"
    /\ IF vol.id = obj.status.id THEN reconcileHCloudVolume(obj, toVolumeInfo(vol))
                                 ELSE Call("create", obj, NoVolume)
    /\ UNCHANGED <<servers, object, hetzner, used>>

LookupByID ==
    /\ pc = "lookupByID"
    /\ IF vol.id = obj.status.id THEN reconcileHCloudVolume(obj, toVolumeInfo(vol))
                                 ELSE Call("lookupByName", obj, NoVolume)
    /\ UNCHANGED <<servers, object, hetzner, used>>

LookupByName ==
    /\ pc = "lookupByName"
    /\ IF vol.id # 0 THEN reconcileHCloudVolume(obj, toVolumeInfo(vol))
                     ELSE Call("create", obj, NoVolume)
    /\ UNCHANGED <<servers, object, hetzner, used>>

CreateVolume ==
    /\ pc = "create"
    /\ LET new == [NoVolume EXCEPT !.id = nextID, !.size = obj.spec.size]
       IN  \/ /\ obj.spec.ref \notin srvLive \cup {0}
              /\ Fail(obj) /\ UNCHANGED hetzner
           \/ /\ obj.spec.ref \in srvLive \cup {0}
              /\ vol' \in IF obj.spec.ref = 0 THEN {new} ELSE Attaching(new, obj.spec.ref)
              /\ nextID' = nextID + 1
              /\ reconcileHCloudVolume(obj, toVolumeInfo(vol'))
    /\ UNCHANGED <<servers, object, used>>

ResizeVolume ==
    /\ pc = "resize"
    /\ \/ /\ vol.id # snap.id \/ (vol.size < obj.spec.size /\ ~Unlocked)
          /\ Fail(obj) /\ UNCHANGED vol
       \/ /\ vol.id = snap.id /\ (vol.size < obj.spec.size => Unlocked)
          /\ vol' = IF vol.size < obj.spec.size THEN [vol EXCEPT !.size = obj.spec.size] ELSE vol
          /\ Call("refresh", obj, snap)
    /\ UNCHANGED <<servers, object, nextID, used>>

Refresh ==
    /\ pc = "refresh"
    /\ IF vol.id = snap.id THEN EnsureAttachment(obj, toVolumeInfo(vol)) ELSE Fail(obj)
    /\ UNCHANGED <<servers, object, hetzner, used>>

\* DetachVolume; the VolumeInfo keeps its old server.
DetachVolume ==
    /\ pc = "detach"
    /\ \/ /\ vol.id # snap.id \/ ~Unlocked
          /\ Fail(obj) /\ UNCHANGED vol
       \/ /\ vol.id = snap.id /\ Unlocked
          /\ vol' = Detaching(vol)
          /\ IF obj.spec.ref = 0 THEN SyncStatus(obj, snap) ELSE Call("attach", obj, snap)
    /\ UNCHANGED <<servers, object, nextID, used>>

\* AttachVolume; the VolumeInfo takes the new server without a look.
AttachVolume ==
    /\ pc = "attach"
    /\ LET ok == vol.id = snap.id /\ obj.spec.ref \in srvLive /\ Unlocked /\ vol.server = 0
       IN  \/ ~ok /\ Fail(obj) /\ UNCHANGED vol
           \/ /\ ok
              /\ vol' \in Attaching(vol, obj.spec.ref)
              /\ SyncStatus(obj, [snap EXCEPT !.server = obj.spec.ref])
    /\ UNCHANGED <<servers, object, nextID, used>>

\* The base's status write after success.
WriteStatus ==
    /\ pc = "write"
    /\ Stop
    /\ \/ seen = Current /\ status' = obj.status /\ UNCHANGED used
       \/ Spend("error") /\ UNCHANGED status
    /\ UNCHANGED <<servers, phase, spec, seen, hetzner>>

\* The base's best-effort write after an error.
WriteErrorStatus ==
    /\ pc = "writeError"
    /\ Stop
    /\ \/ seen = Current /\ status' = obj.status /\ UNCHANGED used
       \/ Spend("error") /\ UNCHANGED status
    /\ UNCHANGED <<servers, phase, spec, seen, hetzner>>

\* detachVolumeIfAttached, its GetVolume: what Hetzner says wins, but a
\* volume that is gone or shows no server leaves the recorded one.
FetchForDeletion ==
    /\ pc = "fetch"
    /\ LET attached == IF vol.id = obj.status.id /\ vol.server # 0
                       THEN vol.server ELSE obj.status.attached
       IN  Call(IF attached = 0 THEN "delete" ELSE "detachFirst", obj, NoVolume)
    /\ UNCHANGED <<servers, object, hetzner, used>>

DetachBeforeDelete ==
    /\ pc = "detachFirst"
    /\ \/ /\ vol.id # obj.status.id \/ ~Unlocked
          /\ Stop /\ UNCHANGED vol
       \/ /\ vol.id = obj.status.id /\ Unlocked
          /\ vol' = Detaching(vol)
          /\ Call("delete", obj, NoVolume)
    /\ UNCHANGED <<servers, object, nextID, used>>

\* Mutant: the volume must be there to be deleted.
DeleteVolumeNotIdempotent ==
    /\ pc = "delete"
    /\ IF vol.id = obj.status.id /\ vol.server = 0 /\ Unlocked
       THEN vol' = NoVolume /\ Call("release", obj, NoVolume)
       ELSE Stop /\ UNCHANGED vol
    /\ UNCHANGED <<servers, object, nextID, used>>

\* DeleteVolume: nothing to do when it is gone; Hetzner refuses while the
\* volume is attached or locked.
DeleteVolume ==
    /\ pc = "delete"
    /\ \/ /\ vol.id = obj.status.id /\ (vol.server # 0 \/ ~Unlocked)
          /\ Stop /\ UNCHANGED vol
       \/ /\ vol.id = obj.status.id => vol.server = 0 /\ Unlocked
          /\ vol' = IF vol.id = obj.status.id THEN NoVolume ELSE vol
          /\ Call("release", obj, NoVolume)
    /\ UNCHANGED <<servers, object, nextID, used>>

\* RemoveFinalizer and Update: refused when the worker's copy is outdated.
Release ==
    /\ pc = "release"
    /\ Stop
    /\ phase' = IF obj = Current THEN "gone" ELSE phase
    /\ UNCHANGED <<servers, spec, status, seen, hetzner, used>>

Work ==
    \/ Reconcile \/ LookupByID \/ LookupByName \/ CreateVolume \/ ResizeVolume
    \/ Refresh \/ DetachVolume \/ AttachVolume \/ WriteStatus \/ WriteErrorStatus
    \/ FetchForDeletion \/ DetachBeforeDelete \/ DeleteVolume \/ Release

Next ==
    \/ EditRef \/ EditSize \/ DeleteObject
    \/ ServerReady \/ ServerDestroyed \/ ServerObjectGoes
    \/ CacheSync \/ Crash \/ CallFails \/ Progress \/ External
    \/ Work

Spec == Init /\ [][Next]_vars

\* The key is queued again after every reconcile, Hetzner finishes its
\* actions, the watch delivers, servers come up and deleted ones go away.
Fairness ==
    /\ WF_vars(Work) /\ WF_vars(Progress) /\ WF_vars(CacheSync)
    /\ WF_vars(ServerReady) /\ WF_vars(ServerObjectGoes)

FairSpec == Spec /\ Fairness

-----------------------------------------------------------------------------
(* Properties.                                                             *)

\* Once the spec and the world stop changing, the volume has the size the
\* spec asks for, hangs on the server the spec names and nowhere else, and
\* the status says so: detach and attach, which the operator does not wait
\* for and Hetzner refuses while the other one runs, end in the right order.
\* (A volume that somebody else made larger is reported and left alone.)  And
\* the operator comes to rest: it does not detach and attach, or create, for
\* ever.
VolumeConverges ==
    /\ <>[](pc \notin {"create", "resize", "detach", "attach"})
    /\ <>[](phase = "live" /\ ~Pending(spec.ref) /\ vol.size <= spec.size
              => /\ vol.id # 0 /\ vol.size = spec.size /\ vol.server = spec.ref
                 /\ status.id = vol.id /\ status.attached = vol.server
                 /\ status.ready)

\* The object is let go only when the volume its status names is gone.
VolumeGoesFirst ==
    [][phase' = "gone" /\ phase # "gone" => status.id = 0 \/ vol.id # status.id]_vars

\* README, "Safe Cleanup": a deleted object goes, after its volume, also when
\* its server is deleted at the same time, when the detach has not finished by
\* the time the delete is sent, and when a call fails or the operator dies
\* halfway.  The one way to be stuck for ever is a volume that is gone while the
\* status still names a server: every attempt then fails at the detach.
DeletionCompletes ==
    /\ <>[](phase = "deleting" => vol.id # status.id /\ status.attached # 0)
    /\ VolumeGoesFirst

-----------------------------------------------------------------------------
(* The object and its Hetzner resource, as ManagedResource sees them.      *)

ManagedPhase == IF phase = "live" THEN "guarded"
                ELSE IF phase = "deleting" THEN "terminating" ELSE "absent"
Recorded     == IF phase = "gone" THEN 0 ELSE status.id

Held   == {vol.id} \ {0}
Issued == 1..nextID - 1

M == INSTANCE ManagedResource WITH
        phase <- ManagedPhase, recorded <- Recorded, cloud <- Held, issued <- Issued

\* Every step is one that ManagedResource allows of a guarded object: a
\* volume is created only where there is none, under a new ID and for an
\* object that still exists, the status takes up only IDs that were issued,
\* and the object goes only after the volume its status names.
KeepsManagedResource == [][M!Next]_(M!vars)

-----------------------------------------------------------------------------
(* The inductive invariant behind TypeOK and VolumeGoesFirst.               *)

\* The object is let go after the volume of the worker's copy, and a volume is
\* created only where there is none.
RightMoment ==
    /\ pc = "create" => vol.id = 0
    /\ pc = "release" => obj.status.id = 0 \/ vol.id # obj.status.id

IndInv == TypeOK /\ RightMoment

-----------------------------------------------------------------------------
(* What KeepsManagedResource needs besides.                                *)

DeleteCalls == {"fetch", "detachFirst", "delete", "release"}

\* What the store, the cache and the worker know of the object's phase: the
\* cache trails, a worker that deletes was shown the deletion, and one that
\* reconciles works for an object that is still there, because nobody else
\* can remove the finalizer.
PhasesAgree ==
    /\ phase = "live" => seen.phase = "live"
    /\ seen.phase = "live" => phase # "gone"
    /\ pc \in DeleteCalls => seen.phase # "live"
    /\ pc \notin DeleteCalls \cup {"idle"} => phase # "gone"

\* Nobody names a volume that Hetzner has not given out.
IDsIssued ==
    /\ vol.id < nextID /\ status.id < nextID /\ seen.status.id < nextID
    /\ obj.status.id < nextID /\ snap.id < nextID

LifeInv ==
    /\ PhasesAgree /\ IDsIssued
    /\ pc \in DeleteCalls => obj.phase = "deleting"
=============================================================================
