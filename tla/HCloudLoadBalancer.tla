-------------------------- MODULE HCloudLoadBalancer --------------------------
(***************************************************************************)
(* The domain logic of the HCloudLoadBalancer controller                   *)
(* (src/internal/controller/hcloudloadbalancer_controller.go) and of       *)
(* SyncLoadBalancerServices (src/internal/hcloud/loadbalancer_service.go), *)
(* together with what they depend on: the servers a label selector picks   *)
(* (ServerRefs) and the certificate an HTTPS service names                 *)
(* (CertificateRef).                                                       *)
(*                                                                         *)
(* Servers are attached and detached one call at a time, then services are *)
(* deleted, added and updated one call at a time; each call may find the   *)
(* load balancer still locked by the one before.                           *)
(***************************************************************************)
EXTENDS ReconcileWorker, ServerRefs, FiniteSets

CONSTANTS
    NumPorts,
    InitReady,     \* the servers that are up at the start
    LBSpecs,       \* what the spec may be
    ExternalOps    \* what others may do to the load balancer

Ports == 1..NumPorts

\* dest  : the settings that are compared as they are, the protocol among them
\*         (0: no such service)
\* https : whether certificateRefs names the certificate
\* hc    : no health check, one with every field given, or one that is not
\*         read back as it was given: Hetzner fills in the field it leaves out,
\*         and tls = false is not read back at all
WantedServices == [dest : Nat, https : BOOLEAN, hc : {"nil", "full", "partial"}]

Specs == [all : BOOLEAN,   \* no serverSelector: every server
          services : [Ports -> WantedServices]]

NeedsCert(s) == \E p \in Ports : s.services[p].https

ASSUME ReadyAssumption == InitReady \subseteq Servers
ASSUME SpecsAssumption ==
    /\ NumPorts \in Nat
    /\ LBSpecs \subseteq Specs
    /\ \A s \in LBSpecs : Cardinality({p \in Ports : s.services[p].https}) <= 1
    /\ \A s, t \in LBSpecs : \A p \in Ports :
         s.services[p].https # t.services[p].https => s.services[p].dest # t.services[p].dest
ASSUME OpsAssumption == ExternalOps \subseteq {"delete", "target", "service"}

VARIABLES
    match,      \* the servers whose labels the selector matches
    certPhase, certID, cert, nextCert,   \* see CertificateRef
    lb,         \* the Hetzner load balancer that bears the object's name
    nextID      \* the ID of the next load balancer

servers     == <<srvObj, srvLive, match>>
certificate == <<certPhase, certID, cert, nextCert>>
hetzner     == <<srvObj, srvLive, match, certPhase, certID, cert, nextCert, lb, nextID>>
vars        == <<phase, spec, status, seen, pc, obj, info, used, srvObj, srvLive, match,
                 certPhase, certID, cert, nextCert, lb, nextID>>

\* A service in Hetzner always has a health check, a default one if need be.
NoService == [dest |-> 0, cert |-> 0, hc |-> "default"]
Services  == [dest : Nat, cert : Nat, hc : {"default", "full", "partial"}]
Exists(svc) == svc.dest # 0
LBs       == [id : Nat, targets : SUBSET Servers, services : [Ports -> Services],
              busy : BOOLEAN]
NoLB      == [id |-> 0, targets |-> {}, services |-> [p \in Ports |-> NoService],
              busy |-> FALSE]
NoStatus  == [id |-> 0, attached |-> {}, ready |-> FALSE]
NoPlan    == [targets |-> {}, cert |-> 0]

Statuses == [id : Nat, attached : SUBSET Servers, ready : BOOLEAN]
\* What the worker still has to do, and the services it found.
Infos    == [id : Nat, attach : SUBSET Servers, detach : SUBSET Servers,
             drop : SUBSET Ports, add : SUBSET Ports, update : SUBSET Ports]
Copies   == [phase : Phases, spec : LBSpecs, status : Statuses]
Objects  == [phase : Phases, spec : LBSpecs, status : Statuses,
             plan : [targets : SUBSET Servers, cert : Nat]]
PCs      == {"idle", "resolve", "lookupByID", "lookupByName", "create", "attach", "detach",
             "fetchServices", "dropService", "putService", "refresh", "write", "delete",
             "release"}

TypeOK ==
    /\ ServersTypeOK /\ match \subseteq Servers
    /\ certPhase \in Phases /\ certID \in Nat /\ nextCert \in Nat \ {0}
    /\ cert \in [id : Nat, ready : BOOLEAN]
    /\ phase \in Phases /\ spec \in LBSpecs /\ status \in Statuses /\ seen \in Copies
    /\ pc \in PCs
    /\ obj \in Objects \cup {NoObj} /\ info \in Infos \cup {NoInfo}
    /\ used \in [Disturbances -> Nat]
    /\ lb \in LBs
    /\ nextID \in Nat \ {0}

InUse == cert.id # 0 /\ \E p \in Ports : lb.services[p].cert = cert.id

C == INSTANCE CertificateRef WITH inUse <- InUse

Init ==
    /\ srvLive = InitReady /\ match = Servers
    /\ srvObj = [s \in Servers |-> IF s \in InitReady THEN "ready" ELSE "pending"]
    /\ certPhase = "live" /\ certID = 1 /\ nextCert = 2
    /\ cert = [id |-> 1, ready |-> TRUE]
    /\ spec \in LBSpecs /\ status = NoStatus
    /\ WorkerInit
    /\ lb = NoLB /\ nextID = 1

-----------------------------------------------------------------------------
(* Users, servers, the certificate, Hetzner, others.                       *)

EditLoadBalancer ==
    /\ \E s \in LBSpecs : Edit(s)
    /\ UNCHANGED hetzner

ServerReady ==
    /\ \E s \in Servers : BecomeReady(s)
    /\ UNCHANGED <<object, worker, used, match, certificate, lb, nextID>>

Relabel ==
    /\ Spend("refs")
    /\ \E s \in match : match' = match \ {s}
    /\ UNCHANGED <<object, worker, srvObj, srvLive, certificate, lb, nextID>>

\* A server that is deleted is a target no more.
ServerDestroyed ==
    /\ Spend("refs")
    /\ \E s \in Servers : Destroy(s) /\ lb' = [lb EXCEPT !.targets = @ \ {s}]
    /\ UNCHANGED <<object, worker, match, certificate, nextID>>

ServerObjectGoes ==
    /\ \E s \in Servers : ObjectGoes(s)
    /\ UNCHANGED <<object, worker, used, match, certificate, lb, nextID>>

\* What the certificate's controller does when it is left alone.
CertificateProceeds ==
    /\ \/ certPhase = "live" /\ (C!Appears \/ C!Issued \/ C!Record(cert.id))
       \/ certPhase = "deleting" /\ certID = cert.id /\ C!Destroyed
       \/ C!CertObjectGoes
    /\ UNCHANGED <<object, worker, used, servers, lb, nextID>>

\* The certificate object is deleted, the certificate is, or its ID is lost.
CertificateDisturbed ==
    /\ Spend("refs")
    /\ C!CertDeleted \/ C!Destroyed \/ C!Record(0)
    /\ UNCHANGED <<object, worker, servers, lb, nextID>>

Progress ==
    /\ lb.busy
    /\ lb' = [lb EXCEPT !.busy = FALSE]
    /\ UNCHANGED <<object, worker, used, servers, certificate, nextID>>

External ==
    /\ lb.id # 0 /\ ~lb.busy
    /\ Spend("external")
    /\ \/ "delete" \in ExternalOps /\ lb' = NoLB
       \/ /\ "target" \in ExternalOps
          /\ \E s \in srvLive :
               lb' = [lb EXCEPT !.targets = IF s \in @ THEN @ \ {s} ELSE @ \cup {s}]
       \/ /\ "service" \in ExternalOps
          /\ \E p \in Ports, c \in {0} \cup {i \in {cert.id} : cert.ready} :
               lb' = [lb EXCEPT !.services[p] =
                        IF Exists(@) THEN NoService
                        ELSE [NoService EXCEPT !.dest = 1, !.cert = c]]
    /\ UNCHANGED <<object, worker, servers, certificate, nextID>>

-----------------------------------------------------------------------------
(* Services.                                                               *)

\* The services the spec asks for; id is the certificate resolved for it.
loadBalancerServicesFromSpec(services, id) ==
    [p \in Ports |-> [dest |-> services[p].dest, hc |-> services[p].hc,
                      cert |-> IF services[p].https THEN id ELSE 0]]

serviceInfoFromSDK(svc) == [svc EXCEPT !.hc = IF @ = "partial" THEN "filledIn" ELSE @]

servicesEqual(have, want) ==
    /\ have.dest = want.dest /\ have.cert = want.cert
    /\ want.hc = "nil" \/ have.hc = want.hc

\* What AddService makes of the options it gets.
AddedService(want) ==
    [dest |-> want.dest, cert |-> want.cert,
     hc |-> IF want.hc = "nil" THEN "default" ELSE want.hc]

\* What UpdateService may make of them: without a health check the service
\* keeps the one it has, and without certificates no HTTP options are sent, so
\* that Hetzner may drop the old certificate or keep it.
UpdatedServices(old, want) ==
    {[dest |-> want.dest, cert |-> c, hc |-> IF want.hc = "nil" THEN old.hc ELSE want.hc] :
        c \in IF want.cert = 0 THEN {0, old.cert} ELSE {want.cert}}

-----------------------------------------------------------------------------
(* How a reconcile goes on.                                                *)

\* Mutant: servers without an ID are selected too.
getSelectedServerIDsUnready(s) ==
    {IF srvObj[x] = "pending" THEN 0 ELSE x : x \in {y \in Servers : s.all \/ y \in match}}

getSelectedServerIDs(s) == {x \in Servers : srvObj[x] = "ready" /\ (s.all \/ x \in match)}

toLoadBalancerInfo(l) == [id |-> l.id, targets |-> l.targets]

\* The loops, one call at a time, each in any order.
Proceed(o, i) ==
    LET step == CASE i.attach # {} -> "attach"
                  [] i.attach = {} /\ i.detach # {} -> "detach"
                  [] OTHER -> "fetchServices"
    IN  Call(step, o, i)

ProceedServices(o, i) ==
    LET step == CASE i.drop # {} -> "dropService"
                  [] i.drop = {} /\ i.add \cup i.update # {} -> "putService"
                  [] OTHER -> "refresh"
    IN  Call(step, o, i)

\* Mutant: targets are only ever added.
ReconcileTargetsOnlyAdds(o, l) ==
    Proceed(o, [id |-> l.id, attach |-> o.plan.targets \ l.targets, detach |-> {},
                drop |-> {}, add |-> {}, update |-> {}])

\* reconcileLoadBalancerWithServices, once the load balancer is found.
ReconcileTargets(o, l) ==
    Proceed(o, [id |-> l.id, attach |-> o.plan.targets \ l.targets,
                detach |-> l.targets \ o.plan.targets,
                drop |-> {}, add |-> {}, update |-> {}])

Lookup(o) == Call(IF o.status.id = 0 THEN "lookupByName" ELSE "lookupByID", o, NoInfo)

\* A certificate that is not there or cannot be used yet.
Pend(o) == Done([o EXCEPT !.status.ready = FALSE])

-----------------------------------------------------------------------------
(* The worker's steps.                                                     *)

Reconcile ==
    /\ pc = "idle" /\ seen.phase # "gone"
    /\ LET o == Taken([NoPlan EXCEPT !.targets = getSelectedServerIDs(seen.spec)])
       IN  CASE seen.phase = "deleting" ->
                  Call(IF seen.status.id = 0 THEN "release" ELSE "delete", Taken(NoPlan), NoInfo)
             [] seen.phase = "live" /\ ~NeedsCert(seen.spec) -> Lookup(o)
             [] seen.phase = "live" /\ NeedsCert(seen.spec) /\ (certPhase = "gone" \/ certID = 0) ->
                  Pend(o)
             [] OTHER -> Call("resolve", [o EXCEPT !.plan.cert = certID], NoInfo)
    /\ UNCHANGED <<object, used, hetzner>>

\* Mutant: takes a certificate that is not issued yet.
ResolveCertificateUnissued ==
    /\ pc = "resolve"
    /\ IF cert.id = obj.plan.cert THEN Lookup(obj) ELSE Pend(obj)
    /\ UNCHANGED <<object, used, hetzner>>

\* resolveCertificateIDs, its GetCertificate.
ResolveCertificate ==
    /\ pc = "resolve"
    /\ IF cert.id = obj.plan.cert /\ cert.ready THEN Lookup(obj) ELSE Pend(obj)
    /\ UNCHANGED <<object, used, hetzner>>

LookupByID ==
    /\ pc = "lookupByID"
    /\ IF lb.id = obj.status.id THEN ReconcileTargets(obj, toLoadBalancerInfo(lb))
                                ELSE Call("lookupByName", obj, NoInfo)
    /\ UNCHANGED <<object, used, hetzner>>

LookupByName ==
    /\ pc = "lookupByName"
    /\ IF lb.id # 0 THEN ReconcileTargets(obj, toLoadBalancerInfo(lb)) ELSE Call("create", obj, NoInfo)
    /\ UNCHANGED <<object, used, hetzner>>

CreateLoadBalancer ==
    /\ pc = "create"
    /\ lb' = [NoLB EXCEPT !.id = nextID] /\ nextID' = nextID + 1
    /\ ReconcileTargets(obj, toLoadBalancerInfo(lb'))
    /\ UNCHANGED <<object, used, servers, certificate>>

\* A call that changes the load balancer is refused when that is gone or
\* locked; an accepted one leaves it locked until Progress.
Unlocked     == lb.id = info.id /\ ~lb.busy
Changed(new) == lb' = [new EXCEPT !.busy = TRUE]

AttachServerToLoadBalancer ==
    /\ pc = "attach"
    /\ \E s \in info.attach :
         LET ok == Unlocked /\ s \in srvLive /\ s \notin lb.targets
         IN  \/ ~ok /\ Fail(obj) /\ UNCHANGED lb
             \/ /\ ok /\ Changed([lb EXCEPT !.targets = @ \cup {s}])
                /\ Proceed(obj, [info EXCEPT !.attach = @ \ {s}])
    /\ UNCHANGED <<object, used, servers, certificate, nextID>>

\* A server that is gone needs no detaching.
DetachServerFromLoadBalancer ==
    /\ pc = "detach"
    /\ \E s \in info.detach :
         LET ok   == lb.id = info.id /\ (s \in srvLive => Unlocked /\ s \in lb.targets)
             rest == [info EXCEPT !.detach = @ \ {s}]
         IN  \/ ~ok /\ Fail(obj) /\ UNCHANGED lb
             \/ ok /\ s \in srvLive /\ Changed([lb EXCEPT !.targets = @ \ {s}]) /\ Proceed(obj, rest)
             \/ ok /\ s \notin srvLive /\ UNCHANGED lb /\ Proceed(obj, rest)
    /\ UNCHANGED <<object, used, servers, certificate, nextID>>

Desired == loadBalancerServicesFromSpec(obj.spec.services, obj.plan.cert)

\* Mutant: services that are not listed are left alone.
FetchServicesKeepsUnlisted ==
    /\ pc = "fetchServices"
    /\ LET want(p) == Desired[p]
           have(p) == serviceInfoFromSDK(lb.services[p])
           same(p) == servicesEqual(have(p), want(p))
       IN  IF lb.id # info.id THEN Fail(obj) ELSE
           ProceedServices(obj, [info EXCEPT
               !.drop   = {},
               !.add    = {p \in Ports : ~Exists(have(p)) /\ Exists(want(p))},
               !.update = {p \in Ports : Exists(have(p)) /\ Exists(want(p)) /\ ~same(p)}])
    /\ UNCHANGED <<object, used, hetzner>>

\* SyncLoadBalancerServices, its GetByID and its two maps.
FetchServices ==
    /\ pc = "fetchServices"
    /\ LET want(p) == Desired[p]
           have(p) == serviceInfoFromSDK(lb.services[p])
           same(p) == servicesEqual(have(p), want(p))
       IN  IF lb.id # info.id THEN Fail(obj) ELSE
           ProceedServices(obj, [info EXCEPT
               !.drop   = {p \in Ports : Exists(have(p)) /\ ~Exists(want(p))},
               !.add    = {p \in Ports : ~Exists(have(p)) /\ Exists(want(p))},
               !.update = {p \in Ports : Exists(have(p)) /\ Exists(want(p)) /\ ~same(p)}])
    /\ UNCHANGED <<object, used, hetzner>>

DeleteService ==
    /\ pc = "dropService"
    /\ \E p \in info.drop :
         LET ok == Unlocked /\ Exists(lb.services[p])
         IN  \/ ~ok /\ Fail(obj) /\ UNCHANGED lb
             \/ /\ ok /\ Changed([lb EXCEPT !.services[p] = NoService])
                /\ ProceedServices(obj, [info EXCEPT !.drop = @ \ {p}])
    /\ UNCHANGED <<object, used, servers, certificate, nextID>>

CertThere(want) == want.cert # 0 => cert.id = want.cert

AddService ==
    /\ pc = "putService"
    /\ \E p \in info.add :
         LET want == Desired[p]
             ok   == Unlocked /\ ~Exists(lb.services[p]) /\ CertThere(want)
         IN  \/ ~ok /\ Fail(obj) /\ UNCHANGED lb
             \/ /\ ok
                /\ Changed([lb EXCEPT !.services[p] = AddedService(want)])
                /\ ProceedServices(obj, [info EXCEPT !.add = @ \ {p}])
    /\ UNCHANGED <<object, used, servers, certificate, nextID>>

UpdateService ==
    /\ pc = "putService"
    /\ \E p \in info.update :
         LET want == Desired[p]
             ok   == Unlocked /\ Exists(lb.services[p]) /\ CertThere(want)
         IN  \/ ~ok /\ Fail(obj) /\ UNCHANGED lb
             \/ /\ ok
                /\ \E svc \in UpdatedServices(lb.services[p], want) :
                     Changed([lb EXCEPT !.services[p] = svc])
                /\ ProceedServices(obj, [info EXCEPT !.update = @ \ {p}])
    /\ UNCHANGED <<object, used, servers, certificate, nextID>>

\* The refresh and the status, where the ID is recorded for the first time.
Refresh ==
    /\ pc = "refresh"
    /\ IF lb.id # info.id THEN Fail(obj)
       ELSE Done([obj EXCEPT !.status = [id |-> lb.id, attached |-> lb.targets, ready |-> TRUE]])
    /\ UNCHANGED <<object, used, hetzner>>

\* Mutant: the load balancer must be there to be deleted.
DeleteLoadBalancerNotIdempotent ==
    /\ pc = "delete"
    /\ IF lb.id = obj.status.id /\ ~lb.busy
       THEN lb' = NoLB /\ Call("release", obj, NoInfo)
       ELSE Stop /\ UNCHANGED lb
    /\ UNCHANGED <<object, used, servers, certificate, nextID>>

\* DeleteLoadBalancer: nothing to do when it is gone, refused while locked.
DeleteLoadBalancer ==
    /\ pc = "delete"
    /\ \/ /\ lb.id = obj.status.id /\ lb.busy
          /\ Stop /\ UNCHANGED lb
       \/ /\ lb.id = obj.status.id => ~lb.busy
          /\ lb' = IF lb.id = obj.status.id THEN NoLB ELSE lb
          /\ Call("release", obj, NoInfo)
    /\ UNCHANGED <<object, used, servers, certificate, nextID>>

Work ==
    \/ Reconcile \/ ResolveCertificate \/ LookupByID \/ LookupByName \/ CreateLoadBalancer
    \/ AttachServerToLoadBalancer \/ DetachServerFromLoadBalancer
    \/ FetchServices \/ DeleteService \/ AddService \/ UpdateService \/ Refresh
    \/ DeleteLoadBalancer
    \/ WriteStatus /\ UNCHANGED hetzner
    \/ Release /\ UNCHANGED hetzner

Next ==
    \/ EditLoadBalancer \/ ServerReady \/ Relabel \/ ServerDestroyed \/ ServerObjectGoes
    \/ CertificateProceeds \/ CertificateDisturbed \/ Progress \/ External \/ Work
    \/ /\ \/ DeleteObject \/ CacheSync \/ Crash
          \/ CallFails({"resolve", "lookupByID", "lookupByName", "create", "attach", "detach",
                        "fetchServices", "dropService", "putService", "refresh"},
                       {"delete", "release"})
       /\ UNCHANGED hetzner

Spec == Init /\ [][Next]_vars

\* The key is queued again after every reconcile, Hetzner finishes what it
\* accepted, the watch delivers, servers come up and deleted ones go away, and
\* the certificate's controller works.
FairSpec ==
    /\ Spec
    /\ WF_vars(Work) /\ WF_vars(Progress) /\ WF_vars(CacheSync /\ UNCHANGED hetzner)
    /\ WF_vars(ServerReady) /\ WF_vars(ServerObjectGoes) /\ WF_vars(CertificateProceeds)

-----------------------------------------------------------------------------
(* Properties.                                                             *)

CertUsable == certPhase # "gone" /\ certID # 0 /\ certID = cert.id /\ cert.ready

\* An update took the service out of HTTPS and Hetzner kept its certificate.
KeptCert(p) ==
    /\ Exists(lb.services[p]) /\ lb.services[p].dest = spec.services[p].dest
    /\ lb.services[p].cert # 0 /\ ~spec.services[p].https

Serves(p, want) ==
    IF Exists(want)
    THEN /\ lb.services[p].dest = want.dest
         /\ lb.services[p].cert = want.cert \/ KeptCert(p)
         /\ want.hc # "nil" => lb.services[p].hc = want.hc
    ELSE ~Exists(lb.services[p])

\* Hetzner shows the service as the spec gives it; otherwise its update is sent
\* on every reconcile.
Exact(p) == spec.services[p].hc # "partial" /\ ~KeptCert(p)
AllExact == \A p \in Ports : Exact(p)

\* Once the spec and the world stop changing, the targets are the servers the
\* selector picks and the services are the listed ones with the current
\* certificate, although every change is a call of its own that others, a lock,
\* a vanished server or a crash may stop: what one reconcile left half done the
\* next ones complete.  The operator then comes to rest and the status says so,
\* unless a service is not Exact: the update that is sent on every reconcile
\* may leave the load balancer locked for the calls of the other services and
\* of the next reconcile, which then fail.  Where the certificate cannot be
\* used, Ready is False.
LBConverges ==
    <>[](/\ AllExact => pc \notin {"create", "attach", "detach", "dropService", "putService"}
         /\ phase = "live"
              => IF NeedsCert(spec) /\ ~CertUsable THEN ~status.ready
                 ELSE /\ lb.id # 0 /\ lb.targets = getSelectedServerIDs(spec)
                      /\ \A p \in Ports :
                           (\A q \in Ports \ {p} : Exact(q))
                             => Serves(p, loadBalancerServicesFromSpec(spec.services, cert.id)[p])
                      /\ AllExact => status = [id |-> lb.id, attached |-> lb.targets,
                                               ready |-> TRUE])

\* The object is let go only when the load balancer its status names is gone.
LBGoesFirst ==
    [][phase' = "gone" /\ phase # "gone" => status.id = 0 \/ lb.id # status.id]_vars

\* README, "Safe Cleanup": a deleted object goes, after its load balancer: it
\* is not for ever being deleted.
DeletionCompletes ==
    /\ <>[](phase # "deleting")
    /\ LBGoesFirst

\* A deleted certificate goes once no load balancer refers to it: a service
\* that is taken out of the spec, or a load balancer that is deleted, lets go
\* of it in Hetzner, whatever fails or crashes on the way.  Two load balancers
\* may keep it: one with a service that went from HTTPS to plain, for which
\* nothing tells Hetzner to drop the certificate, and one whose object was
\* deleted before its ID was recorded.
CertificateFreed ==
    <>[](certPhase = "deleting"
           => \/ phase = "live" /\ NeedsCert(spec)
              \/ phase = "live" /\ \E p \in Ports : KeptCert(p)
              \/ phase = "gone" /\ lb.id # 0)

\* No service refers to a certificate that is gone, replaced or not issued yet,
\* although the reconcile looks at the certificate once, before its first call
\* to the load balancer, and sends its ID many calls later.
ServicesUsable ==
    \A p \in Ports : lb.services[p].cert # 0 => lb.services[p].cert = cert.id /\ cert.ready

\* The other side of CertificateRef, which the certificate's controller
\* implements: a service takes a certificate into use only when it is ready,
\* and nothing the load balancer does counts as any other step of the
\* certificate.
KeepsCertificateRef == [][C!Next]_(C!vars)

-----------------------------------------------------------------------------
(* The object and its Hetzner resource, as ManagedResource sees them.      *)

Held   == {lb.id} \ {0}
Issued == 1..nextID - 1

M == INSTANCE ManagedResource WITH
        phase <- ManagedPhase, recorded <- Recorded, cloud <- Held, issued <- Issued

\* Every step is one that ManagedResource allows of a guarded object: a load
\* balancer is created only where there is none, under a new ID and for an
\* object that still exists, the status takes up only IDs that were issued,
\* and the object goes only after the load balancer its status names.
KeepsManagedResource == [][M!Next]_(M!vars)

-----------------------------------------------------------------------------
(* The inductive invariant behind TypeOK, ServicesUsable and LBGoesFirst.   *)

InfoCalls == {"attach", "detach", "fetchServices", "dropService", "putService", "refresh"}
LBCalls   == {"lookupByID", "lookupByName", "create"} \cup InfoCalls

\* What the worker holds at each call.
WorkerHolds ==
    /\ pc # "idle" => obj \in Objects
    /\ pc \in InfoCalls => info \in Infos

\* Nobody names a certificate that Hetzner has not given out.
IDsIssued ==
    /\ cert.id < nextCert /\ certID < nextCert
    /\ pc # "idle" => obj.plan.cert < nextCert

\* The certificate of a reconcile that has come to the load balancer was seen
\* ready: it still is, or is gone.
ResolvedReady ==
    pc \in LBCalls /\ obj.plan.cert # 0 /\ obj.plan.cert = cert.id => cert.ready

\* A load balancer is created only where there is none, and the object is let
\* go after the load balancer of the worker's copy.
RightMoment ==
    /\ pc = "create" => lb.id = 0
    /\ pc = "release" => obj.status.id = 0 \/ lb.id # obj.status.id

IndInv ==
    /\ TypeOK /\ WorkerHolds /\ IDsIssued /\ ResolvedReady /\ RightMoment
    /\ ServicesUsable

-----------------------------------------------------------------------------
(* What KeepsManagedResource needs besides.                                *)

DeleteCalls == {"delete", "release"}

\* Nobody names a load balancer that Hetzner has not given out.
LBsIssued ==
    /\ lb.id < nextID /\ status.id < nextID /\ seen.status.id < nextID
    /\ pc # "idle" => obj.status.id < nextID

LifeInv ==
    /\ PhasesAgree(DeleteCalls) /\ LBsIssued
    /\ pc \in DeleteCalls => obj.phase = "deleting"
=============================================================================
