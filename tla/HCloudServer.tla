----------------------------- MODULE HCloudServer -----------------------------
(***************************************************************************)
(* The domain logic of the HCloudServer controller                         *)
(* (src/internal/controller/hcloudserver_controller.go) against the        *)
(* Hetzner server it drives: creation and adoption, the resize state       *)
(* machine (power off, change type, power on), the private network that    *)
(* spec.networkRef asks for, and the placement group.                      *)
(*                                                                         *)
(* Power operations are asynchronous on Hetzner's side and the operator    *)
(* never waits for them: it looks at the server's state again in a later   *)
(* reconcile.  Every remote call of a reconcile is a step, so the spec,    *)
(* the server and the process can change between two of them.              *)
(*                                                                         *)
(* Finalizer, deletion and version conflicts are BaseReconciler's subject: *)
(* the object exists here, reads come from a cache that may lag, and a     *)
(* status write is retried until the cache has caught up, so that it       *)
(* carries the current version, or fails for good.                         *)
(***************************************************************************)
EXTENDS Naturals

CONSTANTS
    NumTypes,     \* server types 1..NumTypes
    NumNets,      \* HCloudNetworks 1..NumNets
    NumPGs,       \* HCloudPlacementGroups 1..NumPGs
    Reverts,      \* TRUE: users may also go back to a smaller type
    ExternalOps,  \* what others may do to the server
    Budget        \* how often each kind of disturbance may happen

\* "type", "net", "pg" : an edit of that field of the spec
\* "external"          : one of ExternalOps
\* "error"             : a remote call fails without effect
\* "crash"             : the operator process dies and is restarted
Disturbances == {"type", "net", "pg", "external", "error", "crash"}

ASSUME SizesAssumption == NumTypes \in Nat \ {0} /\ NumNets \in Nat /\ NumPGs \in Nat
ASSUME RevertsAssumption == Reverts \in BOOLEAN
ASSUME OpsAssumption == ExternalOps \subseteq {"delete", "powerOff", "rebuild", "glitch"}
ASSUME BudgetAssumption == Budget \in [Disturbances -> Nat]

VARIABLES
    spec,      \* of the object: serverType, networkRef, placementGroupRef (0: none)
    status,    \* of the object
    seen,      \* spec and status as the informer cache shows them
    netReady,  \* networks whose status has an ID
    pgReady,   \* placement groups whose status has an ID
    srv,       \* the Hetzner server that bears the object's name
    nextID,    \* the ID of the next server
    pc,        \* the call the worker is about to make
    obj,       \* its copy of spec and status
    snap,      \* its ServerInfo
    panicked,  \* the process died of a nil ServerInfo
    ran,       \* history: the types servers of this name were running at
    used       \* disturbances so far

object  == <<spec, status, seen, netReady, pgReady>>
hetzner == <<srv, nextID, ran>>
worker  == <<pc, obj, snap>>
vars    == <<spec, status, seen, netReady, pgReady, srv, nextID, pc, obj, snap,
             panicked, ran, used>>

Types == 1..NumTypes
Nets  == 1..NumNets
PGs   == 1..NumPGs

States == {"none", "initializing", "starting", "running", "stopping", "off",
           "migrating", "rebuilding", "deleting", "unknown"}
\* The action Hetzner is carrying out on the server; it is locked meanwhile.
Ops == {"none", "create", "powerOff", "powerOn", "changeType", "delete",
        "rebuild", "glitch"}

NoServer == [id |-> 0, type |-> 0, state |-> "none", nets |-> {}, pg |-> 0,
             op |-> "none", newType |-> 0]
NoStatus == [id |-> 0, applied |-> 0, net |-> 0, pg |-> 0, ready |-> FALSE]

Specs    == [type : Types, net : Nets \cup {0}, pg : PGs \cup {0}]
Statuses == [id : Nat, applied : Types \cup {0}, net : Nets \cup {0},
             pg : PGs \cup {0}, ready : BOOLEAN]
Copies   == [spec : Specs, status : Statuses]
Servers  == [id : Nat, type : Types \cup {0}, state : States, nets : SUBSET Nets,
             pg : PGs \cup {0}, op : Ops, newType : Types \cup {0}]

PCs == {"idle", "lookupByID", "lookupByName", "create", "powerOff", "changeType",
        "powerOn", "refreshPower", "detach", "refreshDetach", "attach",
        "refreshAttach", "write", "writeError"}

TypeOK ==
    /\ spec \in Specs /\ status \in Statuses /\ seen \in Copies
    /\ netReady \subseteq Nets /\ pgReady \subseteq PGs
    /\ srv \in Servers /\ nextID \in Nat \ {0} /\ ran \subseteq Types
    /\ pc \in PCs /\ obj \in Copies /\ snap \in Servers
    /\ panicked \in BOOLEAN
    /\ used \in [Disturbances -> Nat]

NoCopy == [spec |-> [type |-> 1, net |-> 0, pg |-> 0], status |-> NoStatus]

Init ==
    /\ spec \in [type : {1}, net : Nets \cup {0}, pg : PGs \cup {0}]
    /\ status = NoStatus
    /\ seen = [spec |-> spec, status |-> status]
    /\ netReady = {} /\ pgReady = {}
    /\ srv = NoServer /\ nextID = 1 /\ ran = {}
    /\ pc = "idle" /\ obj = NoCopy /\ snap = NoServer
    /\ panicked = FALSE
    /\ used = [d \in Disturbances |-> 0]

Spend(d) ==
    /\ used[d] < Budget[d]
    /\ used' = [used EXCEPT ![d] = @ + 1]

-----------------------------------------------------------------------------
(* Users and the controllers of the referenced objects.                    *)

EditType ==
    /\ Spend("type")
    /\ \E t \in Types :
         /\ t # spec.type /\ (t > spec.type \/ Reverts)
         /\ spec' = [spec EXCEPT !.type = t]
    /\ UNCHANGED <<status, seen, netReady, pgReady, hetzner, worker, panicked>>

EditNetwork ==
    /\ Spend("net")
    /\ \E n \in (Nets \cup {0}) \ {spec.net} : spec' = [spec EXCEPT !.net = n]
    /\ UNCHANGED <<status, seen, netReady, pgReady, hetzner, worker, panicked>>

EditPlacementGroup ==
    /\ Spend("pg")
    /\ \E g \in (PGs \cup {0}) \ {spec.pg} : spec' = [spec EXCEPT !.pg = g]
    /\ UNCHANGED <<status, seen, netReady, pgReady, hetzner, worker, panicked>>

NetworkReady ==
    /\ \E n \in Nets \ netReady : netReady' = netReady \cup {n}
    /\ UNCHANGED <<spec, status, seen, pgReady, hetzner, worker, panicked, used>>

PlacementGroupReady ==
    /\ \E g \in PGs \ pgReady : pgReady' = pgReady \cup {g}
    /\ UNCHANGED <<spec, status, seen, netReady, hetzner, worker, panicked, used>>

CaughtUp == seen = [spec |-> spec, status |-> status]

CacheSync ==
    /\ ~CaughtUp
    /\ seen' = [spec |-> spec, status |-> status]
    /\ UNCHANGED <<spec, status, netReady, pgReady, hetzner, worker, panicked, used>>

Stop ==
    /\ pc' = "idle" /\ obj' = NoCopy /\ snap' = NoServer

Crash ==
    /\ pc # "idle"
    /\ Spend("crash")
    /\ Stop
    /\ UNCHANGED <<object, hetzner, panicked>>

-----------------------------------------------------------------------------
(* Hetzner's side.                                                         *)

\* An accepted action shows in the server's state only after a while.
Begin == [powerOff |-> "stopping", powerOn |-> "starting", changeType |-> "migrating",
          delete |-> "deleting", rebuild |-> "rebuilding", glitch |-> "unknown"]

Progress ==
    /\ srv.op # "none"
    /\ \/ /\ srv.op \in DOMAIN Begin /\ srv.state # Begin[srv.op]
          /\ srv' = [srv EXCEPT !.state = Begin[srv.op]]
       \/ /\ srv.op = "create" /\ srv.state = "initializing"
          /\ srv' = [srv EXCEPT !.state = "starting"]
       \/ /\ srv.op = "powerOff" /\ srv.state = "stopping"
          /\ srv' = [srv EXCEPT !.state = "off", !.op = "none"]
       \/ /\ srv.op = "changeType" /\ srv.state = "migrating"
          /\ srv' = [srv EXCEPT !.state = "off", !.op = "none",
                                !.type = srv.newType, !.newType = 0]
       \/ /\ srv.op \in {"create", "powerOn", "rebuild", "glitch"}
          /\ srv.state \in {"starting", "rebuilding", "unknown"}
          /\ srv' = [srv EXCEPT !.state = "running", !.op = "none"]
       \/ /\ srv.op = "delete" /\ srv.state = "deleting"
          /\ srv' = NoServer
    /\ ran' = IF srv'.state = "running" THEN ran \cup {srv'.type} ELSE ran
    /\ UNCHANGED <<object, nextID, worker, panicked, used>>

\* Somebody else works on the server, in the console or through the API.
External ==
    /\ srv.state = "running" /\ srv.op = "none"
    /\ Spend("external")
    /\ \E op \in ExternalOps : srv' = [srv EXCEPT !.op = op]
    /\ UNCHANGED <<object, nextID, ran, worker, panicked>>

Unlocked == srv.id # 0 /\ srv.op = "none"

-----------------------------------------------------------------------------
(* How a reconcile goes on.                                                *)

toServerInfo(s) == [s EXCEPT !.op = "none", !.newType = 0]

\* Resource.Reconcile returns an error: the base forces Ready to False and
\* tries to write what the status has become so far.
Fail(o) ==
    /\ obj' = [o EXCEPT !.status.ready = FALSE]
    /\ pc' = "writeError" /\ snap' = NoServer

\* updateServerStatusWithRetry with Ready as given; applyServerStatus came
\* before it.
WriteBack(o, s, ready) ==
    /\ obj' = [o EXCEPT !.status.id = s.id, !.status.ready = ready]
    /\ pc' = "write" /\ snap' = NoServer

Call(step, o, s) == pc' = step /\ obj' = o /\ snap' = s

\* Mutant: records the server where the type belongs.
syncStatusWrongField(o, s) ==
    WriteBack([o EXCEPT !.status.applied = s.id + NumTypes], s, s.state = "running")

\* Mutant: records the type before the server runs at it.
syncStatusTooEarly(o, s) ==
    WriteBack([o EXCEPT !.status.applied = o.spec.type], s, s.state = "running")

\* The reasons of the network lifecycle that syncStatus keeps on the Ready
\* condition all come with Ready=True.
syncStatus(o, s) ==
    LET running == s.type = o.spec.type /\ s.state = "running"
    IN  WriteBack([o EXCEPT !.status.applied = IF running THEN o.spec.type ELSE @], s, running)

\* Mutant: no check of the placement group.
SettleAnyPlacementGroup(o, s) == syncStatus([o EXCEPT !.status.pg = s.pg], s)

\* syncPlacementGroupStatus, then syncStatus unless it blocks.
Settle(o, s) ==
    \/ /\ o.spec.pg # 0 /\ o.spec.pg \notin pgReady
       /\ Fail(o)
    \/ /\ o.spec.pg # 0 /\ o.spec.pg \in pgReady /\ s.pg # o.spec.pg
       /\ obj' = [o EXCEPT !.status.pg = s.pg, !.status.ready = FALSE]
       /\ pc' = "write" /\ snap' = NoServer
    \/ /\ o.spec.pg = 0 \/ (o.spec.pg \in pgReady /\ s.pg = o.spec.pg)
       /\ syncStatus([o EXCEPT !.status.pg = s.pg], s)

\* The part of ensureServerNetworkAttachment that follows the removal of an
\* outdated attachment, if there was one.
AttachTarget(o, s) ==
    \/ o.spec.net \notin s.nets /\ Call("attach", o, s)
    \/ o.spec.net \in s.nets /\ Settle([o EXCEPT !.status.net = o.spec.net], s)

\* Mutant: a server that has a managed network counts as attached.
ensureAnyNetworkAttachment(o, s) ==
    \/ o.spec.net = 0 /\ o.status.net # 0 /\ Call("detach", o, s)
    \/ o.spec.net = 0 /\ o.status.net = 0 /\ Settle(o, s)
    \/ o.spec.net # 0 /\ o.spec.net \notin netReady /\ Fail(o)
    \/ /\ o.spec.net \in netReady
       /\ \/ o.status.net # 0 /\ Settle(o, s)
          \/ o.status.net = 0 /\ AttachTarget(o, s)

ensureServerNetworkAttachment(o, s) ==
    \/ o.spec.net = 0 /\ o.status.net # 0 /\ Call("detach", o, s)
    \/ o.spec.net = 0 /\ o.status.net = 0 /\ Settle(o, s)
    \/ o.spec.net # 0 /\ o.spec.net \notin netReady /\ Fail(o)
    \/ /\ o.spec.net # 0 /\ o.spec.net \in netReady
       /\ \/ o.status.net \notin {0, o.spec.net} /\ Call("detach", o, s)
          \/ o.status.net \in {0, o.spec.net} /\ AttachTarget(o, s)

reconcileServerTypeMismatch(o, s) ==
    \/ s.state = "running" /\ Call("powerOff", o, s)
    \/ s.state = "off" /\ Call("changeType", o, s)
    \/ /\ s.state \in {"initializing", "starting", "stopping", "migrating", "rebuilding"}
       /\ WriteBack(o, s, FALSE)
    \/ s.state \in {"deleting", "unknown"} /\ Fail(o)

\* Mutant: nobody switches the server on again.
reconcileWithoutPowerOn(o, s) ==
    \/ s.type # o.spec.type /\ reconcileServerTypeMismatch(o, s)
    \/ s.type = o.spec.type /\ ensureServerNetworkAttachment(o, s)

reconcileExistingServer(o, s) ==
    \/ s.type # o.spec.type /\ reconcileServerTypeMismatch(o, s)
    \/ /\ s.type = o.spec.type
       /\ \/ /\ o.status.applied # o.spec.type /\ s.state = "off"
             /\ Call("powerOn", o, s)
          \/ /\ ~(o.status.applied # o.spec.type /\ s.state = "off")
             /\ ensureServerNetworkAttachment(o, s)

-----------------------------------------------------------------------------
(* The worker's steps, one per remote call.                                *)

\* Any call may fail without effect.
CallFails ==
    /\ pc \notin {"idle", "write", "writeError"}
    /\ Spend("error")
    /\ Fail(obj)
    /\ UNCHANGED <<object, hetzner, panicked>>

Reconcile ==
    /\ pc = "idle"
    /\ Call(IF seen.status.id # 0 THEN "lookupByID" ELSE "lookupByName", seen, NoServer)
    /\ UNCHANGED <<object, hetzner, panicked, used>>

LookupByID ==
    /\ pc = "lookupByID"
    /\ \/ srv.id = obj.status.id /\ reconcileExistingServer(obj, toServerInfo(srv))
       \/ srv.id # obj.status.id /\ Call("lookupByName", obj, NoServer)
    /\ UNCHANGED <<object, hetzner, panicked, used>>

\* Adoption by name, or creation, which needs the placement group's ID.
LookupByName ==
    /\ pc = "lookupByName"
    /\ \/ /\ srv.id # 0
          /\ reconcileExistingServer([obj EXCEPT !.status.id = srv.id], toServerInfo(srv))
       \/ /\ srv.id = 0 /\ obj.spec.pg # 0 /\ obj.spec.pg \notin pgReady
          /\ Fail(obj)
       \/ /\ srv.id = 0 /\ (obj.spec.pg = 0 \/ obj.spec.pg \in pgReady)
          /\ Call("create", obj, NoServer)
    /\ UNCHANGED <<object, hetzner, panicked, used>>

\* CreateServer is answered before the server runs, so the record of
\* appliedServerType that follows for a server that is already running
\* (lines 158-160) never applies.
CreateServer ==
    /\ pc = "create"
    /\ LET new == [NoServer EXCEPT !.id = nextID, !.type = obj.spec.type,
                                   !.state = "initializing", !.pg = obj.spec.pg,
                                   !.op = "create"]
       IN  /\ srv' = new /\ nextID' = nextID + 1
           /\ WriteBack([obj EXCEPT !.status.pg = IF new.pg # 0 THEN new.pg ELSE @], new, TRUE)
    /\ UNCHANGED <<object, ran, panicked, used>>

\* PowerOffServer: no-op when off or on the way there; refused when locked.
PowerOffServer ==
    /\ pc = "powerOff"
    /\ \/ /\ srv.id # snap.id \/ (srv.state \notin {"off", "stopping"} /\ ~Unlocked)
          /\ Fail(obj) /\ UNCHANGED srv
       \/ /\ srv.id = snap.id /\ srv.state \in {"off", "stopping"}
          /\ Call("refreshPower", obj, snap) /\ UNCHANGED srv
       \/ /\ srv.id = snap.id /\ srv.state \notin {"off", "stopping"} /\ Unlocked
          /\ srv' = [srv EXCEPT !.op = "powerOff"]
          /\ Call("refreshPower", obj, snap)
    /\ UNCHANGED <<object, nextID, ran, panicked, used>>

PowerOnServer ==
    /\ pc = "powerOn"
    /\ \/ /\ srv.id # snap.id \/ (srv.state \notin {"running", "starting"} /\ ~Unlocked)
          /\ Fail(obj) /\ UNCHANGED srv
       \/ /\ srv.id = snap.id /\ srv.state \in {"running", "starting"}
          /\ Call("refreshPower", obj, snap) /\ UNCHANGED srv
       \/ /\ srv.id = snap.id /\ srv.state \notin {"running", "starting"} /\ Unlocked
          /\ srv' = [srv EXCEPT !.op = "powerOn"]
          /\ Call("refreshPower", obj, snap)
    /\ UNCHANGED <<object, nextID, ran, panicked, used>>

\* ChangeServerType: Hetzner refuses it unless the server is off.
ChangeServerType ==
    /\ pc = "changeType"
    /\ \/ /\ \/ srv.id # snap.id
             \/ srv.type # obj.spec.type /\ (srv.state # "off" \/ ~Unlocked)
          /\ Fail(obj) /\ UNCHANGED srv
       \/ /\ srv.id = snap.id /\ srv.type = obj.spec.type
          /\ Call("refreshPower", obj, snap) /\ UNCHANGED srv
       \/ /\ srv.id = snap.id /\ srv.type # obj.spec.type /\ srv.state = "off" /\ Unlocked
          /\ srv' = [srv EXCEPT !.op = "changeType", !.newType = obj.spec.type]
          /\ Call("refreshPower", obj, snap)
    /\ UNCHANGED <<object, nextID, ran, panicked, used>>

\* Mutant: the type counts as applied as soon as it was changed.
RefreshPowerApplies ==
    /\ pc = "refreshPower"
    /\ srv.id = snap.id
    /\ WriteBack([obj EXCEPT !.status.applied = obj.spec.type], srv, FALSE)
    /\ UNCHANGED <<object, hetzner, panicked, used>>

\* GetServer after a power operation.  applyServerStatus dereferences the
\* answer: a server that has gone meanwhile takes the process down.
RefreshPower ==
    /\ pc = "refreshPower"
    /\ \/ srv.id = snap.id /\ WriteBack(obj, srv, FALSE) /\ UNCHANGED panicked
       \/ srv.id # snap.id /\ panicked' = TRUE /\ Stop
    /\ UNCHANGED <<object, hetzner, used>>

\* DetachServerFromNetwork: no-op when not attached.
DetachServerFromNetwork ==
    /\ pc = "detach"
    /\ \/ /\ srv.id # snap.id \/ (obj.status.net \in srv.nets /\ ~Unlocked)
          /\ Fail(obj) /\ UNCHANGED srv
       \/ /\ srv.id = snap.id /\ (obj.status.net \in srv.nets => Unlocked)
          /\ srv' = [srv EXCEPT !.nets = @ \ {obj.status.net}]
          /\ Call("refreshDetach", obj, snap)
    /\ UNCHANGED <<object, nextID, ran, panicked, used>>

\* A server that has gone leaves the old ServerInfo in use.
Refreshed == IF srv.id = snap.id THEN toServerInfo(srv) ELSE snap

RefreshDetach ==
    /\ pc = "refreshDetach"
    /\ LET o == [obj EXCEPT !.status.net = 0]
       IN  \/ obj.spec.net = 0 /\ WriteBack(o, Refreshed, TRUE)
           \/ obj.spec.net # 0 /\ AttachTarget(o, Refreshed)
    /\ UNCHANGED <<object, hetzner, panicked, used>>

AttachServerToNetwork ==
    /\ pc = "attach"
    /\ \/ /\ srv.id # snap.id \/ (obj.spec.net \notin srv.nets /\ ~Unlocked)
          /\ Fail(obj) /\ UNCHANGED srv
       \/ /\ srv.id = snap.id /\ (obj.spec.net \notin srv.nets => Unlocked)
          /\ srv' = [srv EXCEPT !.nets = @ \cup {obj.spec.net}]
          /\ Call("refreshAttach", obj, snap)
    /\ UNCHANGED <<object, nextID, ran, panicked, used>>

RefreshAttach ==
    /\ pc = "refreshAttach"
    /\ WriteBack([obj EXCEPT !.status.net = obj.spec.net], Refreshed, TRUE)
    /\ UNCHANGED <<object, hetzner, panicked, used>>

\* The domain's status write; when it fails, Reconcile fails.  The base's own
\* write repeats the same content with Synced=True.
WriteStatus ==
    /\ pc = "write"
    /\ \/ CaughtUp /\ status' = obj.status /\ Stop /\ UNCHANGED used
       \/ Spend("error") /\ Fail(obj) /\ UNCHANGED status
    /\ UNCHANGED <<spec, seen, netReady, pgReady, hetzner, panicked>>

\* The base's best-effort write after an error.
WriteErrorStatus ==
    /\ pc = "writeError"
    /\ \/ CaughtUp /\ status' = obj.status /\ UNCHANGED used
       \/ Spend("error") /\ UNCHANGED status
    /\ Stop
    /\ UNCHANGED <<spec, seen, netReady, pgReady, hetzner, panicked>>

Work ==
    \/ Reconcile \/ LookupByID \/ LookupByName \/ CreateServer
    \/ PowerOffServer \/ PowerOnServer \/ ChangeServerType \/ RefreshPower
    \/ DetachServerFromNetwork \/ RefreshDetach
    \/ AttachServerToNetwork \/ RefreshAttach
    \/ WriteStatus \/ WriteErrorStatus

Next ==
    \/ EditType \/ EditNetwork \/ EditPlacementGroup
    \/ NetworkReady \/ PlacementGroupReady \/ CacheSync
    \/ Crash \/ CallFails \/ Progress \/ External
    \/ Work

Spec == Init /\ [][Next]_vars

\* The worker is requeued after every reconcile, Hetzner finishes its
\* actions, the watch delivers, and the referenced objects become ready.
Fairness ==
    /\ WF_vars(Work) /\ WF_vars(Progress) /\ WF_vars(CacheSync)
    /\ WF_vars(NetworkReady) /\ WF_vars(PlacementGroupReady)

FairSpec == Spec /\ Fairness

-----------------------------------------------------------------------------
(* Properties.                                                             *)

\* docs/architecture.md: status.appliedServerType names a type that the spec
\* asked for and a server of this object was seen running at.
AppliedTypeRan == status.applied # 0 => status.applied \in ran

\* A server that was switched off for a type change is never forgotten: when
\* it is off at the type the spec asks for, the recorded type still lags, and
\* that is what makes the next reconcile switch it on.
NeverStrandedOff ==
    srv.state = "off" /\ srv.op = "none" /\ srv.type = spec.type
        => status.applied # spec.type

\* Once the spec and the world stop changing, the server ends up running at
\* the type the spec asks for, and the status says so.
TypeConverges ==
    <>[](srv.type = spec.type /\ srv.state = "running" /\ status.applied = spec.type)

\* The network the spec asks for ends up attached and recorded.
NetworkConverges ==
    <>[](spec.net # 0 => spec.net \in srv.nets /\ status.net = spec.net)

\* A server outside the placement group the spec asks for ends up reported,
\* and one that has everything it should have ends up Ready.
ReadyConverges ==
    <>[](status.ready <=> spec.pg = 0 \/ srv.pg = spec.pg)

\* README: spec.networkRef governs attach, migrate and detach, so no network
\* stays attached that the spec no longer asks for.  It does not hold: a
\* reconcile that starts before the cache shows the record of the first
\* network overwrites that record, and nobody detaches the network again.
NoStrayNetwork == <>[](srv.nets \subseteq {spec.net})

\* The nil that GetServer documents for a missing server is never used.  It
\* does not hold: the refresh after a power operation is not checked.
NeverPanics == ~panicked

-----------------------------------------------------------------------------
(* The inductive invariants behind AppliedTypeRan and NeverStrandedOff.     *)

SnapCalls == {"powerOff", "changeType", "powerOn", "refreshPower", "detach",
              "refreshDetach", "attach", "refreshAttach"}

\* The worker looks for an ID only if it has one, and a server it was shown is
\* still the one of that name or has gone: nobody else creates servers.
WorkerHolds ==
    /\ pc = "lookupByID" => obj.status.id # 0
    /\ pc = "attach" => obj.spec.net # 0
    /\ pc \in SnapCalls => snap.id # 0 /\ srv.id \in {snap.id, 0}

\* A server has a type, and one that changes it another.
ServerHolds ==
    /\ srv.id = 0 => srv = NoServer
    /\ srv.id # 0 => srv.type # 0
    /\ srv.op = "changeType" => srv.newType # 0

\* The types recorded or about to be.
Applied == {status.applied, seen.status.applied, obj.status.applied}

\* Whoever shows or recorded a running server at a type had it running.
RunsRecorded ==
    /\ srv.state = "running" => srv.type \in ran
    /\ snap.state = "running" => snap.type \in ran
    /\ \A t \in Applied : t # 0 => t \in ran

IndInv == TypeOK /\ WorkerHolds /\ ServerHolds /\ RunsRecorded

\* The types asked for, in the object, in the cache and in the worker's copy.
Wanted == {spec.type, seen.spec.type} \cup IF pc = "idle" THEN {} ELSE {obj.spec.type}

\* Users never ask for a smaller type again, and nobody else switches servers
\* off.
UpgradesOnly == ~Reverts /\ "powerOff" \notin ExternalOps

\* Then the types only go up: recorded, reached, asked for.
TypesGoUp ==
    /\ seen.spec.type <= spec.type /\ obj.spec.type <= seen.spec.type
    /\ \A w \in Wanted : srv.type <= w /\ srv.newType <= w /\ \A t \in Applied : t <= w
    /\ srv.id # 0 => \A t \in Applied : t <= srv.type

\* A server is switched off, and off, only on the way to a greater type, or at
\* a type greater than what is recorded.
OffForResize ==
    /\ srv.op = "changeType" => srv.state \in {"off", "migrating"} /\ srv.type < srv.newType
    /\ pc = "powerOff" /\ srv.id = snap.id => srv.op # "changeType" /\ srv.type < obj.spec.type
    /\ srv.op = "powerOff" => \A w \in Wanted : srv.type < w
    /\ srv.state = "off"
         => (\A w \in Wanted : srv.type < w) \/ (\A t \in Applied : t < srv.type)

ResizeInv == TypesGoUp /\ OffForResize
=============================================================================
