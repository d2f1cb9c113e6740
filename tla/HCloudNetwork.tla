---------------------------- MODULE HCloudNetwork ----------------------------
(***************************************************************************)
(* The domain logic of the HCloudNetwork controller                        *)
(* (src/internal/controller/hcloudnetwork_controller.go): creation, the    *)
(* status write that saves the new ID before anything else, and the loop   *)
(* that adds one Cloud subnet per zone of spec.networkZones.               *)
(*                                                                         *)
(* Whether a zone has a subnet is decided three times, on three answers of *)
(* Hetzner: by the loop on its NetworkInfo, by AddNetworkCloudSubnet on a  *)
(* fresh look, and by the refresh that follows.  Adding is asynchronous:   *)
(* a subnet shows at once or (late) when the action has finished, and the  *)
(* network is locked until then.                                           *)
(***************************************************************************)
EXTENDS ReconcileWorker, Sequences, FiniteSetsExt

CONSTANTS
    NumZones,
    ZoneLists,    \* what spec.networkZones may be
    ExternalOps   \* what others may do to the network

ASSUME ZonesAssumption == NumZones \in Nat /\ ZoneLists \subseteq Seq(1..NumZones)
ASSUME OpsAssumption == ExternalOps \subseteq {"delete", "addSubnet", "removeSubnet"}

VARIABLES
    net,      \* the Hetzner network that bears the object's name
    nextID,   \* the ID of the next network
    late      \* Hetzner shows a subnet only when the action has finished

hetzner == <<net, nextID, late>>
vars    == <<phase, spec, status, seen, pc, obj, info, used, net, nextID, late>>

Zones    == 1..NumZones
NoNet    == [id |-> 0, subnets |-> [z \in Zones |-> 0], adding |-> 0]
NoStatus == [id |-> 0, zones |-> {}, ready |-> FALSE]

Statuses == [id : Nat, zones : SUBSET Zones, ready : BOOLEAN]
Nets     == [id : Nat, subnets : [Zones -> Nat], adding : Zones \cup {0}]
Infos    == [id : Nat, zones : SUBSET Zones]
Copies   == [phase : Phases, spec : ZoneLists, status : Statuses]
Objects  == [phase : Phases, spec : ZoneLists, status : Statuses, plan : Nat]
PCs      == {"idle", "lookupByID", "lookupByName", "create", "saveID", "check",
             "addSubnet", "refresh", "write", "delete", "release"}

TypeOK ==
    /\ phase \in Phases /\ spec \in ZoneLists /\ status \in Statuses /\ seen \in Copies
    /\ pc \in PCs
    /\ obj \in Objects \cup {NoObj} /\ info \in Infos \cup {NoInfo}
    /\ used \in [Disturbances -> Nat]
    /\ net \in Nets
    /\ nextID \in Nat \ {0} /\ late \in BOOLEAN

Init ==
    /\ spec \in ZoneLists /\ status = NoStatus
    /\ WorkerInit
    /\ net = NoNet /\ nextID = 1 /\ late \in BOOLEAN

-----------------------------------------------------------------------------
(* Users, others, Hetzner.                                                 *)

\* networkZones may be given later but not changed.
EditZones ==
    /\ spec = <<>>
    /\ \E l \in ZoneLists : Edit(l)
    /\ UNCHANGED hetzner

Present(n) == {z \in Zones : n.subnets[z] > 0}

Progress ==
    /\ net.adding # 0
    /\ net' = [net EXCEPT !.subnets[net.adding] = @ + IF late THEN 1 ELSE 0, !.adding = 0]
    /\ UNCHANGED <<object, worker, used, nextID, late>>

External ==
    /\ net.id # 0 /\ net.adding = 0
    /\ Spend("external")
    /\ \/ "delete" \in ExternalOps /\ net' = NoNet
       \/ /\ "addSubnet" \in ExternalOps
          /\ \E z \in Zones : net' = [net EXCEPT !.subnets[z] = @ + 1]
       \/ /\ "removeSubnet" \in ExternalOps
          /\ \E z \in Present(net) : net' = [net EXCEPT !.subnets[z] = @ - 1]
    /\ UNCHANGED <<object, worker, nextID, late>>

-----------------------------------------------------------------------------
(* How a reconcile goes on.                                                *)

toNetworkInfo(n) == [id |-> n.id, zones |-> Present(n)]

\* Mutant: the zones are taken from the spec, whatever Hetzner has.
FinishUnchecked(o, n) ==
    Done([o EXCEPT !.status = [id |-> n.id, zones |-> Range(o.spec), ready |-> TRUE]])

\* Mutant: the number of zones is taken for the zones.
FinishCountsZones(o, n) ==
    Done([o EXCEPT !.status = [id |-> n.id, zones |-> {Len(o.spec)}, ready |-> TRUE]])

\* The end of reconcileHCloudNetwork.
Finish(o, n) ==
    Done([o EXCEPT !.status = [id |-> n.id, zones |-> n.zones, ready |-> TRUE]])

\* Mutant: the loop adds its subnets without a look.
AddSubnetsBlindly(o, n) ==
    IF o.plan > Len(o.spec) THEN Finish(o, n) ELSE Call("addSubnet", o, n)

\* The loop over spec.networkZones, from position o.plan on.
AddSubnets(o, n) ==
    LET todo == {i \in o.plan..Len(o.spec) : o.spec[i] \notin n.zones}
    IN  IF todo = {} THEN Finish(o, n)
                     ELSE Call("check", [o EXCEPT !.plan = Min(todo)], n)

-----------------------------------------------------------------------------
(* The worker's steps.                                                     *)

Reconcile ==
    /\ pc = "idle" /\ seen.phase # "gone"
    /\ LET step == CASE seen.phase = "live" /\ seen.status.id # 0 -> "lookupByID"
                     [] seen.phase = "live" /\ seen.status.id = 0 -> "lookupByName"
                     [] seen.phase = "deleting" /\ seen.status.id # 0 -> "delete"
                     [] OTHER -> "release"
       IN  Call(step, Taken(1), NoInfo)
    /\ UNCHANGED <<object, used, hetzner>>

LookupByID ==
    /\ pc = "lookupByID"
    /\ IF net.id = obj.status.id THEN AddSubnets(obj, toNetworkInfo(net))
                                 ELSE Call("lookupByName", obj, NoInfo)
    /\ UNCHANGED <<object, used, hetzner>>

LookupByName ==
    /\ pc = "lookupByName"
    /\ IF net.id # 0 THEN AddSubnets(obj, toNetworkInfo(net))
                     ELSE Call("create", obj, NoInfo)
    /\ UNCHANGED <<object, used, hetzner>>

CreateNetwork ==
    /\ pc = "create"
    /\ net' = [NoNet EXCEPT !.id = nextID] /\ nextID' = nextID + 1
    /\ Call("saveID",
            [obj EXCEPT !.status = [id |-> nextID, zones |-> {}, ready |-> FALSE]],
            toNetworkInfo(net'))
    /\ UNCHANGED <<object, used, late>>

\* updateNetworkStatusWithRetry.
SaveID ==
    /\ pc = "saveID"
    /\ seen = Current /\ status' = obj.status
    /\ AddSubnets(obj, info)
    /\ UNCHANGED <<phase, spec, seen, used, hetzner>>

\* AddNetworkCloudSubnet, its GetByID.
CheckSubnet ==
    /\ pc = "check"
    /\ CASE net.id # info.id -> Fail(obj)
         [] net.id = info.id /\ obj.spec[obj.plan] \in Present(net) -> Call("refresh", obj, info)
         [] OTHER -> Call("addSubnet", obj, info)
    /\ UNCHANGED <<object, used, hetzner>>

AddSubnet ==
    /\ pc = "addSubnet"
    /\ LET z == obj.spec[obj.plan]
       IN  \/ /\ net.id # info.id \/ net.adding # 0
              /\ Fail(obj) /\ UNCHANGED net
           \/ /\ net.id = info.id /\ net.adding = 0
              /\ net' = [net EXCEPT !.adding = z, !.subnets[z] = @ + IF late THEN 0 ELSE 1]
              /\ Call("refresh", obj, info)
    /\ UNCHANGED <<object, used, nextID, late>>

\* GetNetwork after a subnet was added.
Refresh ==
    /\ pc = "refresh"
    /\ IF net.id # info.id THEN Fail(obj)
                           ELSE AddSubnets([obj EXCEPT !.plan = @ + 1], toNetworkInfo(net))
    /\ UNCHANGED <<object, used, hetzner>>

\* Mutant: the network must be there to be deleted.
DeleteNetworkNotIdempotent ==
    /\ pc = "delete"
    /\ IF net.id = obj.status.id /\ net.adding = 0
       THEN net' = NoNet /\ Call("release", obj, NoInfo)
       ELSE Stop /\ UNCHANGED net
    /\ UNCHANGED <<object, used, nextID, late>>

\* DeleteNetwork: nothing to do when it is gone, refused while it is locked.
DeleteNetwork ==
    /\ pc = "delete"
    /\ \/ /\ net.id = obj.status.id /\ net.adding # 0
          /\ Stop /\ UNCHANGED net
       \/ /\ net.id = obj.status.id => net.adding = 0
          /\ net' = IF net.id = obj.status.id THEN NoNet ELSE net
          /\ Call("release", obj, NoInfo)
    /\ UNCHANGED <<object, used, nextID, late>>

Work ==
    \/ Reconcile \/ LookupByID \/ LookupByName \/ CreateNetwork \/ SaveID
    \/ CheckSubnet \/ AddSubnet \/ Refresh \/ DeleteNetwork
    \/ WriteStatus /\ UNCHANGED hetzner
    \/ Release /\ UNCHANGED hetzner

Next ==
    \/ EditZones \/ Progress \/ External \/ Work
    \/ /\ \/ DeleteObject \/ CacheSync \/ Crash
          \/ CallFails({"lookupByID", "lookupByName", "create", "saveID", "check",
                        "addSubnet", "refresh"},
                       {"delete", "release"})
       /\ UNCHANGED hetzner

Spec == Init /\ [][Next]_vars

\* The key is queued again after every reconcile, Hetzner finishes its
\* actions, the watch delivers.
FairSpec == Spec /\ WF_vars(Work) /\ WF_vars(Progress) /\ WF_vars(CacheSync /\ UNCHANGED hetzner)

-----------------------------------------------------------------------------
(* Properties.                                                             *)

\* Where Hetzner shows a subnet as soon as it accepts it, no failed call, no
\* crash and no stale NetworkInfo makes the operator add a second subnet to a
\* zone; only others who add one between its look and its call can.
OneSubnetPerZone ==
    ~late => \A z \in Zones : net.subnets[z] <= 1 + used["external"]

\* Once the spec and the world stop changing, every zone of the spec has its
\* subnet, the status lists exactly the zones that have one, the ID is recorded
\* and the operator is at rest: a loop that was interrupted in the middle is
\* completed later, and one that is complete is not run again.
ZonesConverge ==
    <>[](/\ pc \notin {"create", "addSubnet"}
         /\ phase = "live"
              => /\ net.id # 0 /\ Range(spec) \subseteq Present(net)
                 /\ status = [id |-> net.id, zones |-> Present(net), ready |-> TRUE])

\* The object is let go only when the network its status names is gone.
NetworkGoesFirst ==
    [][phase' = "gone" /\ phase # "gone" => status.id = 0 \/ net.id # status.id]_vars

\* README, "Safe Cleanup": a deleted object goes, after its network.
DeletionCompletes == <>[](phase # "deleting") /\ NetworkGoesFirst

-----------------------------------------------------------------------------
(* The object and its Hetzner resource, as ManagedResource sees them.      *)

Held   == {net.id} \ {0}
Issued == 1..nextID - 1

M == INSTANCE ManagedResource WITH
        phase <- ManagedPhase, recorded <- Recorded, cloud <- Held, issued <- Issued

\* Every step is one that ManagedResource allows of a guarded object: a
\* network is created only where there is none, under a new ID and for an
\* object that still exists, the status takes up only IDs that were issued,
\* and the object goes only after the network its status names.
KeepsManagedResource == [][M!Next]_(M!vars)

-----------------------------------------------------------------------------
(* The inductive invariant behind TypeOK, OneSubnetPerZone and              *)
(* NetworkGoesFirst.                                                        *)

DeleteCalls == {"delete", "release"}

\* What the worker holds at each call: within the loop, a position of
\* spec.networkZones and the network it works on.
WorkerHolds ==
    /\ pc # "idle" => obj \in Objects /\ obj.plan > 0
    /\ pc \in {"saveID", "check", "addSubnet", "refresh"} => info \in Infos
    /\ pc \in {"check", "addSubnet", "refresh"} => obj.plan \in 1..Len(obj.spec)
    /\ pc \in DeleteCalls => obj.phase = "deleting"

\* A network is created only where there is none, and the object is let go
\* after the network of the worker's copy.
RightMoment ==
    /\ pc = "create" => net.id = 0
    /\ pc = "release" => obj.status.id = 0 \/ net.id # obj.status.id

\* The zone about to get a subnet had none when AddNetworkCloudSubnet looked:
\* whatever it has now was added by others.
AddsMissing ==
    ~late /\ pc = "addSubnet"
        => net.subnets[obj.spec[obj.plan]] <= used["external"]

IndInv ==
    /\ TypeOK /\ PhasesAgree(DeleteCalls) /\ WorkerHolds /\ RightMoment
    /\ AddsMissing /\ OneSubnetPerZone

\* What KeepsManagedResource needs besides: nobody names a network that Hetzner
\* has not given out.
IDsIssued ==
    /\ net.id < nextID /\ status.id < nextID /\ seen.status.id < nextID
    /\ pc # "idle" => obj.status.id < nextID
    /\ pc = "saveID" => info.id < nextID
=============================================================================
