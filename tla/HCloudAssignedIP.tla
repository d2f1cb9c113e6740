--------------------------- MODULE HCloudAssignedIP ---------------------------
(***************************************************************************)
(* The domain logic that the HCloudPrimaryIP and HCloudFloatingIP          *)
(* controllers share line by line                                          *)
(* (src/internal/controller/hcloud{primary,floating}ip_controller.go):     *)
(* creation, metadata, the assignment that spec.serverRef asks for,        *)
(* reverse DNS, and the unassignment that precedes deletion.  They differ  *)
(* in what they create (a floating IP is created with its server), in the  *)
(* description, which only floating IPs have, and in autoDelete, which     *)
(* only primary IPs have: Hetzner deletes such an IP together with the     *)
(* server it is assigned to.                                               *)
(*                                                                         *)
(* Assign and unassign are asynchronous in Hetzner, the IP is locked while *)
(* one runs and the operator does not wait.  As in HCloudVolume the        *)
(* finalizer is set, reads come from a cache that may lag, and a status    *)
(* write is retried until the cache has caught up or fails for good.       *)
(***************************************************************************)
EXTENDS ServerRefs

CONSTANTS
    InitSpecs,    \* the objects users create
    MaxLabels,    \* values 0..MaxLabels of labels and description, 0: none
    AutoDeletes,  \* values of spec.autoDelete that users change it to
    ExternalOps,  \* what others may do to the IP
    Budget        \* how often each kind of disturbance may happen

\* "ref", "labels", "auto" : an edit of that field of the spec ("labels": of
\*                           the labels or the description)
\* "delete"                : the IP object is deleted
\* "server"                : a referenced server is deleted
\* "external"              : one of ExternalOps
\* "error"                 : a remote call fails or is refused, without effect
\* "crash"                 : the operator process dies and is restarted
\* "any"                   : all of them together
Disturbances == {"ref", "labels", "auto", "delete", "server", "external", "error",
                 "crash", "any"}

ASSUME LabelsAssumption == MaxLabels \in Nat
ASSUME AutoAssumption == AutoDeletes \subseteq {"unset", "off", "on"} /\ AutoDeletes # {}
ASSUME OpsAssumption == ExternalOps \subseteq {"delete", "assign", "unassign"}
ASSUME BudgetAssumption == Budget \in [Disturbances -> Nat]

VARIABLES
    phase,    \* of the object: live, deleting, gone
    spec,     \* the object's kind, serverRef (0: none), labels, description,
              \* autoDelete, whether dnsPtr is set
    status,   \* the ID, appliedAssigneeID / appliedServerID, Ready
    seen,     \* phase, spec and status as the informer cache shows them
    ip,       \* the Hetzner IP that bears the object's name
    nextID,   \* the ID of the next IP
    pc,       \* the call the worker is about to make
    obj,      \* its copy of spec and status
    snap,     \* its PrimaryIPInfo / FloatingIPInfo
    used      \* disturbances so far

servers == <<srvObj, srvLive>>
object  == <<phase, spec, status, seen>>
hetzner == <<ip, nextID>>
worker  == <<pc, obj, snap>>
vars    == <<srvObj, srvLive, phase, spec, status, seen, ip, nextID, pc, obj,
             snap, used>>

Labels   == 0..MaxLabels
NoIP     == [id |-> 0, assignee |-> 0, labels |-> 0, desc |-> 0, auto |-> FALSE,
             dns |-> FALSE, op |-> "none", to |-> 0]
NoStatus == [id |-> 0, applied |-> 0, ready |-> FALSE]
NoSpec   == [kind |-> "primary", ref |-> 0, labels |-> 0, desc |-> 0, auto |-> "unset",
             dns |-> FALSE]
NoCopy   == [phase |-> "live", spec |-> NoSpec, status |-> NoStatus]

Phases   == {"live", "deleting", "gone"}
Specs    == [kind : {"primary", "floating"}, ref : ServerIDs, labels : Labels,
             desc : Labels, auto : {"unset", "off", "on"}, dns : BOOLEAN]
ASSUME SpecsAssumption ==
    InitSpecs \subseteq {s \in Specs : /\ s.kind = "floating" => s.auto = "unset"
                                     /\ s.kind = "primary" => s.desc = 0}
Statuses == [id : Nat, applied : ServerIDs, ready : BOOLEAN]
Copies   == [phase : Phases, spec : Specs, status : Statuses]
IPs      == [id : Nat, assignee : ServerIDs, labels : Labels, desc : Labels,
             auto : BOOLEAN, dns : BOOLEAN, op : {"none", "assign", "unassign"}, to : ServerIDs]

PCs == {"idle", "lookupByID", "lookupByName", "create", "update", "refreshUpdate",
        "unassign", "assign", "refreshAssign", "dns", "refreshDNS", "write",
        "writeError", "unassignFirst", "delete", "release"}

TypeOK ==
    /\ ServersTypeOK
    /\ phase \in Phases /\ spec \in Specs /\ status \in Statuses /\ seen \in Copies
    /\ ip \in IPs /\ nextID \in Nat \ {0}
    /\ pc \in PCs /\ obj \in Copies /\ snap \in IPs
    /\ used \in [Disturbances -> Nat]

Current == [phase |-> phase, spec |-> spec, status |-> status]

Init ==
    /\ ServersInit
    /\ phase = "live" /\ status = NoStatus
    /\ spec \in InitSpecs
    /\ seen = Current
    /\ ip = NoIP /\ nextID = 1
    /\ pc = "idle" /\ obj = NoCopy /\ snap = NoIP
    /\ used = [d \in Disturbances |-> 0]

Spend(d) ==
    /\ used[d] < Budget[d] /\ used["any"] < Budget["any"]
    /\ used' = [used EXCEPT ![d] = @ + 1, !["any"] = @ + 1]

-----------------------------------------------------------------------------
(* Users, referenced servers, the cache, crashes.                          *)

EditRef ==
    /\ phase = "live" /\ Spend("ref")
    /\ \E r \in ServerIDs \ {spec.ref} : spec' = [spec EXCEPT !.ref = r]
    /\ UNCHANGED <<servers, phase, status, seen, hetzner, worker>>

EditLabels ==
    /\ phase = "live" /\ Spend("labels")
    /\ \E l \in Labels \ {spec.labels} : spec' = [spec EXCEPT !.labels = l]
    /\ UNCHANGED <<servers, phase, status, seen, hetzner, worker>>

EditDescription ==
    /\ phase = "live" /\ spec.kind = "floating" /\ Spend("labels")
    /\ \E d \in Labels \ {spec.desc} : spec' = [spec EXCEPT !.desc = d]
    /\ UNCHANGED <<servers, phase, status, seen, hetzner, worker>>

EditAutoDelete ==
    /\ phase = "live" /\ spec.kind = "primary" /\ Spend("auto")
    /\ \E a \in AutoDeletes \ {spec.auto} : spec' = [spec EXCEPT !.auto = a]
    /\ UNCHANGED <<servers, phase, status, seen, hetzner, worker>>

DeleteObject ==
    /\ phase = "live" /\ Spend("delete")
    /\ phase' = "deleting"
    /\ UNCHANGED <<servers, spec, status, seen, hetzner, worker>>

ServerReady ==
    /\ \E s \in Servers : BecomeReady(s)
    /\ UNCHANGED <<object, hetzner, worker, used>>

ServerDestroyed ==
    /\ Spend("server")
    /\ \E s \in Servers :
         /\ Destroy(s)
         /\ ip' = CASE ip.assignee = s /\ ip.auto -> NoIP
                    [] ip.assignee = s /\ ~ip.auto ->
                         [ip EXCEPT !.assignee = 0, !.op = "none", !.to = 0]
                    [] OTHER -> ip
    /\ UNCHANGED <<object, nextID, worker>>

ServerObjectGoes ==
    /\ \E s \in Servers : ObjectGoes(s)
    /\ UNCHANGED <<object, hetzner, worker, used>>

CacheSync ==
    /\ seen # Current
    /\ seen' = Current
    /\ UNCHANGED <<servers, phase, spec, status, hetzner, worker, used>>

Stop == pc' = "idle" /\ obj' = NoCopy /\ snap' = NoIP

Crash ==
    /\ pc # "idle" /\ Spend("crash")
    /\ Stop
    /\ UNCHANGED <<servers, object, hetzner>>

-----------------------------------------------------------------------------
(* Hetzner's side.                                                         *)

Unlocked == ip.op = "none"

\* An accepted assignment shows at once or only when the action has finished.
Assigning(p, s) ==
    {[p EXCEPT !.op = "assign", !.to = s, !.assignee = shown] : shown \in {0, s}}
Unassigning(p) ==
    {[p EXCEPT !.op = "unassign", !.assignee = shown] : shown \in {0, p.assignee}}

Progress ==
    /\ ip.op # "none"
    /\ ip' = [ip EXCEPT !.op = "none", !.to = 0,
                        !.assignee = IF ip.op = "assign" /\ ip.to \in srvLive
                                     THEN ip.to ELSE 0]
    /\ UNCHANGED <<servers, object, nextID, worker, used>>

External ==
    /\ ip.id # 0 /\ Unlocked
    /\ Spend("external")
    /\ \/ "delete" \in ExternalOps /\ ip' = NoIP
       \/ /\ "assign" \in ExternalOps /\ ip.assignee = 0
          /\ \E s \in srvLive : ip' = [ip EXCEPT !.assignee = s]
       \/ /\ "unassign" \in ExternalOps /\ ip.assignee # 0
          /\ ip' = [ip EXCEPT !.assignee = 0]
    /\ UNCHANGED <<servers, object, nextID, worker>>

-----------------------------------------------------------------------------
(* How a reconcile goes on.                                                *)

Call(step, o, p) == pc' = step /\ obj' = o /\ snap' = p

\* An error of Resource.Reconcile: the base writes the status with both
\* conditions False.
Fail(o) == Call("writeError", [o EXCEPT !.status.ready = FALSE], NoIP)

toIPInfo(p) == [p EXCEPT !.op = "none", !.to = 0]

LabelsChanged(o, p) == p.labels # o.spec.labels
DescriptionChanged(o, p) == o.spec.kind = "floating" /\ p.desc # o.spec.desc
AutoDeleteChanged(o, p) ==
    o.spec.kind = "primary" /\ o.spec.auto # "unset" /\ p.auto # (o.spec.auto = "on")

ensureMetadata(o, p) ==
    Call(IF LabelsChanged(o, p) \/ DescriptionChanged(o, p) \/ AutoDeleteChanged(o, p)
         THEN "update" ELSE "refreshUpdate", o, p)

\* UpdateFloatingIP: a changed description, unless it is empty: hcloud-go leaves
\* an empty one out of the request.
DescriptionSent(o, p) == DescriptionChanged(o, p) /\ o.spec.desc # 0

\* Mutant: an IP whose reference is removed keeps its server.
ensureAssignmentKeeps(o, p) ==
    CASE o.spec.ref = 0 \/ p.assignee = o.spec.ref -> Call("refreshAssign", o, p)
      [] o.spec.ref # 0 /\ p.assignee \notin {0, o.spec.ref} -> Call("unassign", o, p)
      [] OTHER -> Call("assign", o, p)

\* spec.ref is the ID of the server here: resolveTargetServerID came before.
ensureAssignment(o, p) ==
    CASE o.spec.ref = 0 ->
           IF o.status.applied # 0 /\ p.assignee = o.status.applied
           THEN Call("unassign", o, p) ELSE Call("refreshAssign", o, p)
      [] o.spec.ref # 0 /\ p.assignee = o.spec.ref ->
           Call("refreshAssign", [o EXCEPT !.status.applied = o.spec.ref], p)
      [] o.spec.ref # 0 /\ p.assignee \notin {0, o.spec.ref} -> Call("unassign", o, p)
      [] OTHER -> Call("assign", o, p)

ensureDNSPtr(o, p) ==
    Call(IF o.spec.dns /\ ~p.dns THEN "dns" ELSE "refreshDNS", o, p)

\* Mutant: records the IP where the server belongs.
syncStatusWrongField(o, p) ==
    [o EXCEPT !.status.id = p.id, !.status.ready = TRUE, !.status.applied = p.id + NumServers]

\* syncPrimaryIPStatus / syncFloatingIPStatus: a missing assignee leaves the
\* recorded one.
syncStatus(o, p) ==
    [o EXCEPT !.status.id = p.id, !.status.ready = TRUE,
              !.status.applied = IF p.assignee # 0 THEN p.assignee ELSE @]

-----------------------------------------------------------------------------
(* The worker's steps, one per remote call.                                *)

\* Any call may fail without effect.  A failed Delete leaves the status alone.
CallFails ==
    /\ Spend("error")
    /\ \/ pc \in {"lookupByID", "lookupByName", "create", "update", "refreshUpdate",
                  "unassign", "assign", "refreshAssign", "dns", "refreshDNS"} /\ Fail(obj)
       \/ pc \in {"unassignFirst", "delete", "release"} /\ Stop
    /\ UNCHANGED <<servers, object, hetzner>>

Reconcile ==
    /\ pc = "idle" /\ seen.phase # "gone"
    /\ CASE seen.phase = "deleting" ->
              Call(IF seen.status.id = 0 THEN "release" ELSE "unassignFirst", seen, NoIP)
         [] seen.phase = "live" /\ Pending(seen.spec.ref) ->
              Call("write", [seen EXCEPT !.status.ready = FALSE], NoIP)
         [] OTHER ->
              Call(IF seen.status.id # 0 THEN "lookupByID" ELSE "lookupByName", seen, NoIP)
    /\ UNCHANGED <<servers, object, hetzner, used>>

LookupByID ==
    /\ pc = "lookupByID"
    /\ IF ip.id = obj.status.id THEN ensureMetadata(obj, toIPInfo(ip))
                                ELSE Call("lookupByName", obj, NoIP)
    /\ UNCHANGED <<servers, object, hetzner, used>>

LookupByName ==
    /\ pc = "lookupByName"
    /\ IF ip.id # 0 THEN ensureMetadata(obj, toIPInfo(ip)) ELSE Call("create", obj, NoIP)
    /\ UNCHANGED <<servers, object, hetzner, used>>

CreateIP ==
    /\ pc = "create"
    /\ LET new    == [NoIP EXCEPT !.id = nextID, !.labels = obj.spec.labels,
                                  !.desc = obj.spec.desc,
                                  !.auto = obj.spec.kind = "primary" /\ obj.spec.auto = "on"]
           server == IF obj.spec.kind = "floating" THEN obj.spec.ref ELSE 0
       IN  \/ /\ server \notin srvLive \cup {0}
              /\ Fail(obj) /\ UNCHANGED hetzner
           \/ /\ server \in srvLive \cup {0}
              /\ ip' \in IF server = 0 THEN {new} ELSE Assigning(new, server)
              /\ nextID' = nextID + 1
              /\ ensureMetadata(obj, toIPInfo(ip'))
    /\ UNCHANGED <<servers, object, used>>

UpdateIP ==
    /\ pc = "update"
    /\ \/ /\ ip.id # snap.id
          /\ Fail(obj) /\ UNCHANGED ip
       \/ /\ ip.id = snap.id
          /\ ip' = [ip EXCEPT
                      !.labels = IF LabelsChanged(obj, snap) THEN obj.spec.labels ELSE @,
                      !.desc = IF DescriptionSent(obj, snap) THEN obj.spec.desc ELSE @,
                      !.auto = IF AutoDeleteChanged(obj, snap) THEN obj.spec.auto = "on" ELSE @]
          /\ Call("refreshUpdate", obj, snap)
    /\ UNCHANGED <<servers, object, nextID, used>>

RefreshAfterUpdate ==
    /\ pc = "refreshUpdate"
    /\ IF ip.id = snap.id THEN ensureAssignment(obj, toIPInfo(ip)) ELSE Fail(obj)
    /\ UNCHANGED <<servers, object, hetzner, used>>

\* UnassignPrimaryIP / UnassignFloatingIP from ensureAssignment: no-op when
\* nothing is assigned.
UnassignIP ==
    /\ pc = "unassign"
    /\ \/ /\ ip.id # snap.id \/ (ip.assignee # 0 /\ ~Unlocked)
          /\ Fail(obj) /\ UNCHANGED ip
       \/ /\ ip.id = snap.id /\ (ip.assignee # 0 => Unlocked)
          /\ ip' \in IF ip.assignee = 0 THEN {ip} ELSE Unassigning(ip)
          /\ IF obj.spec.ref = 0
             THEN Call("refreshAssign", [obj EXCEPT !.status.applied = 0], snap)
             ELSE Call("assign", obj, snap)
    /\ UNCHANGED <<servers, object, nextID, used>>

AssignIP ==
    /\ pc = "assign"
    /\ LET ok == ip.id = snap.id /\ obj.spec.ref \in srvLive /\ Unlocked /\ ip.assignee = 0
       IN  \/ ~ok /\ Fail(obj) /\ UNCHANGED ip
           \/ /\ ok
              /\ ip' \in Assigning(ip, obj.spec.ref)
              /\ Call("refreshAssign", [obj EXCEPT !.status.applied = obj.spec.ref], snap)
    /\ UNCHANGED <<servers, object, nextID, used>>

RefreshAfterAssign ==
    /\ pc = "refreshAssign"
    /\ IF ip.id = snap.id THEN ensureDNSPtr(obj, toIPInfo(ip)) ELSE Fail(obj)
    /\ UNCHANGED <<servers, object, hetzner, used>>

ChangeDNSPtr ==
    /\ pc = "dns"
    /\ \/ ip.id # snap.id /\ Fail(obj) /\ UNCHANGED ip
       \/ /\ ip.id = snap.id
          /\ ip' = [ip EXCEPT !.dns = TRUE]
          /\ Call("refreshDNS", obj, snap)
    /\ UNCHANGED <<servers, object, nextID, used>>

RefreshAfterDNS ==
    /\ pc = "refreshDNS"
    /\ IF ip.id = snap.id THEN Call("write", syncStatus(obj, toIPInfo(ip)), NoIP) ELSE Fail(obj)
    /\ UNCHANGED <<servers, object, hetzner, used>>

\* The base's status write after success.
WriteStatus ==
    /\ pc = "write"
    /\ Stop
    /\ \/ seen = Current /\ status' = obj.status /\ UNCHANGED used
       \/ Spend("error") /\ UNCHANGED status
    /\ UNCHANGED <<servers, phase, spec, seen, hetzner>>

\* The base's best-effort write after an error.
WriteErrorStatus ==
    /\ pc = "writeError"
    /\ Stop
    /\ \/ seen = Current /\ status' = obj.status /\ UNCHANGED used
       \/ Spend("error") /\ UNCHANGED status
    /\ UNCHANGED <<servers, phase, spec, seen, hetzner>>

\* Mutant: deletes without giving the IP back first.
UnassignSkipped ==
    /\ pc = "unassignFirst"
    /\ Call("delete", obj, NoIP)
    /\ UNCHANGED <<servers, object, hetzner, used>>

\* Delete: the IP has to be there to be unassigned.
UnassignBeforeDelete ==
    /\ pc = "unassignFirst"
    /\ \/ /\ ip.id # obj.status.id \/ (ip.assignee # 0 /\ ~Unlocked)
          /\ Stop /\ UNCHANGED ip
       \/ /\ ip.id = obj.status.id /\ (ip.assignee # 0 => Unlocked)
          /\ ip' \in IF ip.assignee = 0 THEN {ip} ELSE Unassigning(ip)
          /\ Call("delete", obj, NoIP)
    /\ UNCHANGED <<servers, object, nextID, used>>

\* Nothing to do when it is gone; refused while assigned or locked.
DeleteIP ==
    /\ pc = "delete"
    /\ \/ /\ ip.id = obj.status.id /\ (ip.assignee # 0 \/ ~Unlocked)
          /\ Stop /\ UNCHANGED ip
       \/ /\ ip.id = obj.status.id => ip.assignee = 0 /\ Unlocked
          /\ ip' = IF ip.id = obj.status.id THEN NoIP ELSE ip
          /\ Call("release", obj, NoIP)
    /\ UNCHANGED <<servers, object, nextID, used>>

\* RemoveFinalizer and Update: refused when the worker's copy is outdated.
Release ==
    /\ pc = "release"
    /\ Stop
    /\ phase' = IF obj = Current THEN "gone" ELSE phase
    /\ UNCHANGED <<servers, spec, status, seen, hetzner, used>>

Work ==
    \/ Reconcile \/ LookupByID \/ LookupByName \/ CreateIP
    \/ UpdateIP \/ RefreshAfterUpdate \/ UnassignIP \/ AssignIP \/ RefreshAfterAssign
    \/ ChangeDNSPtr \/ RefreshAfterDNS \/ WriteStatus \/ WriteErrorStatus
    \/ UnassignBeforeDelete \/ DeleteIP \/ Release

Next ==
    \/ EditRef \/ EditLabels \/ EditDescription \/ EditAutoDelete \/ DeleteObject
    \/ ServerReady \/ ServerDestroyed \/ ServerObjectGoes
    \/ CacheSync \/ Crash \/ CallFails \/ Progress \/ External
    \/ Work

Spec == Init /\ [][Next]_vars

\* As in HCloudVolume: the key is queued again after every reconcile, Hetzner
\* finishes its actions, the watch delivers, servers come up and deleted ones
\* go away.
Fairness ==
    /\ WF_vars(Work) /\ WF_vars(Progress) /\ WF_vars(CacheSync)
    /\ WF_vars(ServerReady) /\ WF_vars(ServerObjectGoes)

FairSpec == Spec /\ Fairness

-----------------------------------------------------------------------------
(* Properties.                                                             *)

DescriptionStays == spec.desc = 0 /\ ip.desc # 0

\* Once the spec and the world stop changing, the operator stops calling
\* Hetzner (it does not assign and unassign for ever), and the IP has the
\* metadata the spec asks for, is assigned to the server the spec names or to
\* none, and the status names it: also when others assign or delete it, and
\* when the operator died between an assignment and its record.  The exception
\* is the description of a floating IP that is taken out of the spec: it stays
\* in Hetzner, and its update is sent on every reconcile.
IPConverges ==
    /\ <>[](/\ pc \notin {"create", "unassign", "assign", "dns"}
            /\ pc = "update" => DescriptionStays)
    /\ <>[](phase = "live" /\ ~Pending(spec.ref)
              => /\ ip.id # 0 /\ status.id = ip.id /\ status.ready
                 /\ ip.labels = spec.labels /\ (spec.dns => ip.dns)
                 /\ ip.desc = spec.desc \/ DescriptionStays
                 /\ spec.kind = "primary" /\ spec.auto # "unset" => ip.auto = (spec.auto = "on")
                 /\ ip.assignee = spec.ref
                 /\ spec.ref # 0 => status.applied = spec.ref)

\* The object is let go only when the IP its status names is gone.
IPGoesFirst ==
    [][phase' = "gone" /\ phase # "gone" => status.id = 0 \/ ip.id # status.id]_vars

\* README, "Safe Cleanup": a deleted object goes, after its IP, also when the
\* unassignment has not finished by the time the delete is sent, when calls
\* fail, and when the operator dies halfway.  The one way to be stuck for ever
\* is an IP that is gone while the status names it (autoDelete took it with
\* its server, others deleted it, or the operator itself did and the finalizer
\* update failed): every attempt then fails at the unassignment.
DeletionCompletes ==
    /\ <>[](phase = "deleting" => status.id # 0 /\ ip.id # status.id)
    /\ IPGoesFirst

-----------------------------------------------------------------------------
(* The object and its Hetzner resource, as ManagedResource sees them.      *)

ManagedPhase == IF phase = "live" THEN "guarded"
                ELSE IF phase = "deleting" THEN "terminating" ELSE "absent"
Recorded     == IF phase = "gone" THEN 0 ELSE status.id

Held   == {ip.id} \ {0}
Issued == 1..nextID - 1

M == INSTANCE ManagedResource WITH
        phase <- ManagedPhase, recorded <- Recorded, cloud <- Held, issued <- Issued

\* Every step is one that ManagedResource allows of a guarded object: an IP
\* is created only where there is none, under a new ID and for an object that
\* still exists, the status takes up only IDs that were issued, and the
\* object goes only after the IP its status names.
KeepsManagedResource == [][M!Next]_(M!vars)

-----------------------------------------------------------------------------
(* The inductive invariant behind TypeOK and IPGoesFirst.                  *)

\* The object is let go after the IP of the worker's copy, and an IP is
\* created only where there is none.
RightMoment ==
    /\ pc = "create" => ip.id = 0
    /\ pc = "release" => obj.status.id = 0 \/ ip.id # obj.status.id

IndInv == TypeOK /\ RightMoment

-----------------------------------------------------------------------------
(* What KeepsManagedResource needs besides.                                *)

DeleteCalls == {"unassignFirst", "delete", "release"}

\* What the store, the cache and the worker know of the object's phase: the
\* cache trails, a worker that deletes was shown the deletion, and one that
\* reconciles works for an object that is still there, because nobody else
\* can remove the finalizer.
PhasesAgree ==
    /\ phase = "live" => seen.phase = "live"
    /\ seen.phase = "live" => phase # "gone"
    /\ pc \in DeleteCalls => seen.phase # "live"
    /\ pc \notin DeleteCalls \cup {"idle"} => phase # "gone"

\* Nobody names an IP that Hetzner has not given out.
IDsIssued ==
    /\ ip.id < nextID /\ status.id < nextID /\ seen.status.id < nextID
    /\ obj.status.id < nextID /\ snap.id < nextID

LifeInv ==
    /\ PhasesAgree /\ IDsIssued
    /\ pc \in DeleteCalls => obj.phase = "deleting"
=============================================================================
