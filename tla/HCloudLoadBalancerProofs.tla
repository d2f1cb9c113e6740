----------------------- MODULE HCloudLoadBalancerProofs -----------------------
(***************************************************************************)
(* Proofs about HCloudLoadBalancer for every number of servers and ports,  *)
(* every set of specs and every Budget: type correctness, that a service   *)
(* only ever names a certificate that exists and is issued, that the       *)
(* object is let go only after its load balancer, and that every step is   *)
(* one of CertificateRef and one of ManagedResource.                       *)
(***************************************************************************)
EXTENDS HCloudLoadBalancer, TLAPS

-----------------------------------------------------------------------------
(* The steps that all kinds share: types.                                  *)

\* The bookkeeping of disturbances keeps its type and only grows.
LEMMA SpendFacts ==
    ASSUME used \in [Disturbances -> Nat], NEW d \in Disturbances, Spend(d)
    PROVE  /\ used' \in [Disturbances -> Nat]
           /\ \A e \in Disturbances : used'[e] >= used[e]
           /\ used'[d] > used[d]
  <1>1. "any" \in Disturbances
    BY DEF Disturbances
  <1>2. CASE d = "any"
    BY <1>1, <1>2 DEF Spend
  <1>3. CASE d # "any"
    BY <1>1, <1>3 DEF Spend
  <1> QED BY <1>2, <1>3

\* At the start nothing has happened.
LEMMA WorkerInitTyped ==
    ASSUME NEW S, NEW T, spec \in S, status \in T, NEW D, "idle" \notin D, WorkerInit
    PROVE  ObjectTyped(S, T) /\ PhasesAgree(D)
  BY DEF WorkerInit, ObjectTyped, Current, Phases, PhasesAgree

\* The user's and the cache's steps keep the types and leave the worker alone.
LEMMA ObjectStepsTyped ==
    ASSUME NEW S, NEW T, ObjectTyped(S, T),
           (\E s \in S : Edit(s)) \/ DeleteObject \/ CacheSync
    PROVE  /\ ObjectTyped(S, T)' /\ UNCHANGED worker
           /\ status' = status /\ (seen' = seen \/ seen' = Current)
           /\ phase' = phase \/ (phase = "live" /\ phase' = "deleting")
           /\ phase' = phase \/ seen' = seen
  <1>1. ASSUME NEW s \in S, Edit(s)
        PROVE  ObjectTyped(S, T)'
    BY <1>1, SpendFacts DEF Edit, ObjectTyped, Disturbances
  <1>2. CASE DeleteObject
    BY <1>2, SpendFacts DEF DeleteObject, ObjectTyped, Phases, Disturbances
  <1>3. CASE CacheSync
    BY <1>3 DEF CacheSync, ObjectTyped, Current
  <1> QED BY <1>1, <1>2, <1>3 DEF Edit, DeleteObject, CacheSync

\* A worker that stops or moves on leaves the object alone, unless it writes
\* the status or lets the object go.
LEMMA WorkerStepsTyped ==
    ASSUME NEW S, NEW T, ObjectTyped(S, T),
           \/ WriteStatus /\ obj.status \in T
           \/ Release \/ Crash
           \/ UNCHANGED <<object, used>>
    PROVE  ObjectTyped(S, T)'
  <1>1. CASE WriteStatus /\ obj.status \in T
    BY <1>1, SpendFacts DEF WriteStatus, ObjectTyped, Disturbances
  <1>2. CASE Release
    BY <1>2 DEF Release, ObjectTyped, Phases
  <1>3. CASE Crash
    BY <1>3, SpendFacts DEF Crash, object, ObjectTyped, Disturbances
  <1>4. CASE UNCHANGED <<object, used>>
    BY <1>4 DEF object, ObjectTyped
  <1> QED BY <1>1, <1>2, <1>3, <1>4

\* So does a failed call.
LEMMA CallFailsTyped ==
    ASSUME NEW S, NEW T, ObjectTyped(S, T), NEW R, NEW D, CallFails(R, D)
    PROVE  /\ ObjectTyped(S, T)' /\ UNCHANGED object
           /\ \/ pc \in R /\ Fail(obj)
              \/ pc \in D /\ Stop
  BY SpendFacts DEF CallFails, object, ObjectTyped, Disturbances

-----------------------------------------------------------------------------
(* The steps that all kinds share: phases.                                 *)

\* The steps of the object keep what is known of the phases.
LEMMA ObjectStepsAgree ==
    ASSUME NEW S, NEW T, ObjectTyped(S, T), NEW D, PhasesAgree(D),
           (\E s \in S : Edit(s)) \/ DeleteObject \/ CacheSync
    PROVE  PhasesAgree(D)'
  BY DEF Edit, DeleteObject, CacheSync, PhasesAgree, ObjectTyped, Current, worker

\* Release lets an object go that the worker was shown in deletion.
LEMMA ReleaseAgrees ==
    ASSUME NEW D, PhasesAgree(D), "release" \in D, Release
    PROVE  PhasesAgree(D)'
  BY DEF Release, Stop, PhasesAgree

\* A step of the worker that leaves the object's phase and its cached copy:
\* it goes on, stops, or starts according to the phase the cache shows.
LEMMA WorkerStepAgrees ==
    ASSUME NEW D, PhasesAgree(D), UNCHANGED <<phase, seen>>,
           pc' \in D => pc \in D \/ seen.phase # "live",
           pc' \notin D \cup {"idle"} => pc \notin D \cup {"idle"} \/ seen.phase = "live"
    PROVE  PhasesAgree(D)'
  BY DEF PhasesAgree

-----------------------------------------------------------------------------
(* The records.                                                            *)

Plans == [targets : SUBSET Servers, cert : Nat]

\* No service, no load balancer, no status, no plan.
LEMMA NoneFacts ==
    /\ NoService \in Services /\ NoService.cert = 0
    /\ NoLB \in LBs /\ NoLB.id = 0 /\ \A p \in Ports : NoLB.services[p].cert = 0
    /\ NoStatus \in Statuses /\ NoPlan \in Plans /\ NoPlan.cert = 0
  <1>1. NoService \in Services /\ NoService.cert = 0
    BY DEF NoService, Services
  <1>2. NoLB \in LBs /\ NoLB.id = 0 /\ \A p \in Ports : NoLB.services[p].cert = 0
    <2> HIDE DEF NoService
    <2> QED BY <1>1 DEF NoLB, LBs
  <1>3. NoStatus \in Statuses
    BY DEF NoStatus, Statuses
  <1>4. NoPlan \in Plans /\ NoPlan.cert = 0
    BY DEF NoPlan, Plans
  <1> QED BY <1>1, <1>2, <1>3, <1>4

\* The worker's copies of the object.
LEMMA CopyFacts ==
    ASSUME NEW o \in Objects
    PROVE  /\ o.status \in Statuses /\ o.spec \in LBSpecs /\ o.plan \in Plans
           /\ o.plan.cert \in Nat /\ o.plan.targets \subseteq Servers
           /\ [o EXCEPT !.status.ready = FALSE] \in Objects
           /\ [o EXCEPT !.status.ready = FALSE].plan = o.plan
  BY DEF Objects, Statuses, Plans

LEMMA NewStatusFacts ==
    ASSUME NEW o \in Objects, NEW st \in Statuses
    PROVE  /\ [o EXCEPT !.status = st] \in Objects
           /\ [o EXCEPT !.status = st].plan = o.plan
  BY DEF Objects

LEMMA NewCertFacts ==
    ASSUME NEW o \in Objects, NEW c \in Nat
    PROVE  /\ [o EXCEPT !.plan.cert = c] \in Objects
           /\ [o EXCEPT !.plan.cert = c].plan.cert = c
  BY DEF Objects

LEMMA TakenFacts ==
    ASSUME seen \in Copies, NEW plan \in Plans
    PROVE  /\ Taken(plan) \in Objects /\ Taken(plan).plan = plan
           /\ Taken(plan).status = seen.status
  BY DEF Taken, Copies, Objects, Plans

\* TypeOK says of the object what the shared lemmas need.
LEMMA ObjectIsTyped ==
    ASSUME TypeOK
    PROVE  ObjectTyped(LBSpecs, Statuses)
  BY DEF TypeOK, ObjectTyped, Copies

\* The services of a load balancer change one at a time.
LEMMA ServiceFacts ==
    ASSUME NEW l \in LBs, NEW p \in Ports, NEW svc \in Services
    PROVE  /\ [l EXCEPT !.services[p] = svc] \in LBs
           /\ [l EXCEPT !.services[p] = svc].id = l.id
           /\ \A q \in Ports : [l EXCEPT !.services[p] = svc].services[q]
                                 = IF q = p THEN svc ELSE l.services[q]
  <1> DEFINE s == [l.services EXCEPT ![p] = svc]
  <1>1. s \in [Ports -> Services] /\ \A q \in Ports : s[q] = IF q = p THEN svc ELSE l.services[q]
    BY DEF LBs
  <1>2. [l EXCEPT !.services[p] = svc] = [l EXCEPT !.services = s]
    BY DEF LBs
  <1> HIDE DEF s
  <1> QED BY <1>1, <1>2 DEF LBs

\* So do its targets.
LEMMA TargetsFacts ==
    ASSUME NEW l \in LBs, NEW T \in SUBSET Servers
    PROVE  /\ [l EXCEPT !.targets = T] \in LBs
           /\ [l EXCEPT !.targets = T].id = l.id
           /\ [l EXCEPT !.targets = T].services = l.services
  BY DEF LBs

\* An accepted call locks the load balancer, Progress unlocks it.
LEMMA BusyFacts ==
    ASSUME NEW l \in LBs, NEW b \in BOOLEAN
    PROVE  /\ [l EXCEPT !.busy = b] \in LBs
           /\ [l EXCEPT !.busy = b].id = l.id
           /\ [l EXCEPT !.busy = b].services = l.services
  BY DEF LBs

\* What the spec asks for on a port.
LEMMA DesiredFacts ==
    ASSUME obj \in Objects, NEW p \in Ports
    PROVE  /\ Desired[p].dest \in Nat /\ Desired[p].hc \in {"nil", "full", "partial"}
           /\ Desired[p].cert \in {0, obj.plan.cert}
  <1>1. obj.spec.services \in [Ports -> WantedServices]
    BY SpecsAssumption DEF Objects, Specs
  <1>2. obj.spec.services[p].dest \in Nat /\ obj.spec.services[p].hc \in {"nil", "full", "partial"}
    BY <1>1 DEF WantedServices
  <1> QED BY <1>2 DEF Desired, loadBalancerServicesFromSpec

\* What becomes of a service that is added or updated: its certificate is the
\* wanted one, or the old one where none is wanted.
LEMMA StoredFacts ==
    ASSUME obj \in Objects, NEW p \in Ports, NEW old \in Services,
           NEW svc \in {AddedService(Desired[p])} \cup UpdatedServices(old, Desired[p])
    PROVE  /\ svc \in Services
           /\ \/ svc.cert = Desired[p].cert
              \/ svc.cert = old.cert
  <1> DEFINE want == Desired[p]
  <1>1. /\ want.dest \in Nat /\ want.cert \in Nat /\ want.hc \in {"nil", "full", "partial"}
        /\ old.hc \in {"default", "full", "partial"} /\ old.cert \in Nat
    <2>1. old.hc \in {"default", "full", "partial"} /\ old.cert \in Nat
      BY DEF Services
    <2>2. obj.plan.cert \in Nat /\ want.hc \in {"nil", "full", "partial"}
          /\ want.dest \in Nat /\ want.cert \in {0, obj.plan.cert}
      BY DesiredFacts, CopyFacts
    <2> HIDE DEF want
    <2> QED BY <2>1, <2>2
  <1> HIDE DEF want
  <1>2. ASSUME NEW c \in {want.cert, old.cert}, NEW h \in {"default", "full", "partial"},
               svc = [dest |-> want.dest, cert |-> c, hc |-> h]
        PROVE  svc \in Services /\ (svc.cert = want.cert \/ svc.cert = old.cert)
    BY <1>1, <1>2 DEF Services
  <1>3. CASE svc = AddedService(want)
    <2> DEFINE h == IF want.hc = "nil" THEN "default" ELSE want.hc
    <2>1. h \in {"default", "full", "partial"}
      BY <1>1
    <2>2. svc = [dest |-> want.dest, cert |-> want.cert, hc |-> h]
      BY <1>3 DEF AddedService
    <2> HIDE DEF h
    <2> QED BY <1>2, <2>1, <2>2 DEF want
  <1>4. CASE svc \in UpdatedServices(old, want)
    <2> DEFINE h == IF want.hc = "nil" THEN old.hc ELSE want.hc
    <2>1. PICK c \in IF want.cert = 0 THEN {0, old.cert} ELSE {want.cert} :
            svc = [dest |-> want.dest, cert |-> c, hc |-> h]
      BY <1>4 DEF UpdatedServices
    <2>2. c \in {want.cert, old.cert} /\ h \in {"default", "full", "partial"}
      BY <1>1, <2>1
    <2> HIDE DEF h
    <2> QED BY <1>2, <2>1, <2>2 DEF want
  <1> QED BY <1>2, <1>3, <1>4 DEF want

-----------------------------------------------------------------------------
(* How a reconcile goes on.                                                *)

\* It keeps its plan, and what it calls next needs no right moment.
GoesOn(o) ==
    /\ obj' \in Objects /\ obj'.plan = o.plan
    /\ \/ pc' = "write" /\ info' = NoInfo
       \/ pc' \in InfoCalls /\ info' \in Infos

LEMMA FailGoesOn ==
    ASSUME NEW o \in Objects, Fail(o)
    PROVE  GoesOn(o)
  BY CopyFacts DEF Fail, Call, GoesOn

LEMMA PendGoesOn ==
    ASSUME NEW o \in Objects, Pend(o)
    PROVE  GoesOn(o) /\ pc' = "write"
  BY CopyFacts DEF Pend, Done, Call, GoesOn

LEMMA ProceedGoesOn ==
    ASSUME NEW o \in Objects, NEW i \in Infos, Proceed(o, i) \/ ProceedServices(o, i)
    PROVE  GoesOn(o)
  BY DEF Proceed, ProceedServices, Call, GoesOn, InfoCalls

LEMMA ReconcileTargetsGoesOn ==
    ASSUME NEW o \in Objects, NEW l \in LBs, ReconcileTargets(o, toLoadBalancerInfo(l))
    PROVE  GoesOn(o)
  <1> DEFINE i == [id |-> l.id, attach |-> o.plan.targets \ l.targets,
                   detach |-> l.targets \ o.plan.targets,
                   drop |-> {}, add |-> {}, update |-> {}]
  <1>1. i \in Infos
    BY CopyFacts DEF LBs, Infos
  <1>2. Proceed(o, i)
    BY DEF ReconcileTargets, toLoadBalancerInfo
  <1> HIDE DEF i
  <1> QED BY <1>1, <1>2, ProceedGoesOn

\* What is left of the loops after one call.
LEMMA InfoFacts ==
    ASSUME NEW i \in Infos, NEW T \in SUBSET Servers, NEW P \in SUBSET Ports
    PROVE  /\ [i EXCEPT !.attach = i.attach \ T] \in Infos
           /\ [i EXCEPT !.detach = i.detach \ T] \in Infos
           /\ [i EXCEPT !.drop = i.drop \ P] \in Infos
           /\ [i EXCEPT !.add = i.add \ P] \in Infos
           /\ [i EXCEPT !.update = i.update \ P] \in Infos
  BY DEF Infos

-----------------------------------------------------------------------------
(* Ways in which a step keeps the invariant.                               *)

\* The referenced servers come and go.
LEMMA ServersTyped ==
    ASSUME ServersTypeOK, NEW s \in Servers, BecomeReady(s) \/ Destroy(s) \/ ObjectGoes(s)
    PROVE  ServersTypeOK'
  <1>1. srvObj' \in [Servers -> {"pending", "ready", "gone"}]
    BY DEF ServersTypeOK, BecomeReady, Destroy, ObjectGoes
  <1>2. srvLive' \subseteq Servers
    BY DEF ServersTypeOK, BecomeReady, Destroy, ObjectGoes
  <1> QED BY <1>1, <1>2 DEF ServersTypeOK

\* A step that leaves the worker and the certificate alone; it takes the
\* certificate from a service, or the whole load balancer, or gives a service
\* one that is ready.
LEMMA EnvironmentKeeps ==
    ASSUME IndInv, UNCHANGED <<pc, obj, info, certificate, nextID>>,
           ServersTypeOK', match' \subseteq Servers, ObjectTyped(LBSpecs, Statuses)',
           lb' \in LBs, lb'.id \in {lb.id, 0},
           \A p \in Ports : \/ lb'.services[p].cert \in {lb.services[p].cert, 0}
                            \/ cert.ready /\ lb'.services[p].cert = cert.id
    PROVE  IndInv'
  <1>1. TypeOK'
    BY DEF IndInv, TypeOK, ObjectTyped, Copies, certificate
  <1>2. WorkerHolds' /\ IDsIssued' /\ ResolvedReady'
    BY DEF IndInv, WorkerHolds, IDsIssued, ResolvedReady, certificate
  <1>3. RightMoment'
    BY DEF IndInv, RightMoment
  <1>4. ServicesUsable'
    BY DEF IndInv, ServicesUsable, certificate
  <1> QED BY <1>1, <1>2, <1>3, <1>4 DEF IndInv

\* A step of the worker.
LEMMA WorkerKeeps ==
    ASSUME IndInv, UNCHANGED <<servers, certificate>>, ObjectTyped(LBSpecs, Statuses)',
           lb' \in LBs, nextID' \in Nat \ {0}, ServicesUsable',
           pc' \in PCs, obj' \in Objects \cup {NoObj}, info' \in Infos \cup {NoInfo},
           WorkerHolds', pc' # "idle" => obj'.plan.cert < nextCert,
           ResolvedReady', RightMoment'
    PROVE  IndInv'
  <1>1. ServersTypeOK'
    BY DEF IndInv, TypeOK, ServersTypeOK, servers
  <1>2. TypeOK'
    BY <1>1 DEF IndInv, TypeOK, ObjectTyped, Copies, servers, certificate
  <1>3. IDsIssued'
    BY DEF IndInv, IDsIssued, certificate
  <1> QED BY <1>2, <1>3 DEF IndInv

\* The worker stops.
LEMMA StopKeeps ==
    ASSUME IndInv, Stop, UNCHANGED hetzner, ObjectTyped(LBSpecs, Statuses)'
    PROVE  IndInv'
  <1>1. /\ UNCHANGED <<servers, certificate, lb, nextID>>
        /\ pc' = "idle" /\ obj' = NoObj /\ info' = NoInfo
    BY DEF Stop, hetzner, servers, certificate
  <1>2. /\ lb' \in LBs /\ nextID' \in Nat \ {0} /\ pc' \in PCs
        /\ WorkerHolds' /\ ResolvedReady' /\ RightMoment'
    BY <1>1 DEF IndInv, TypeOK, PCs, WorkerHolds, ResolvedReady, RightMoment, InfoCalls, LBCalls
  <1>3. ServicesUsable'
    BY <1>1 DEF IndInv, ServicesUsable, certificate
  <1> QED BY <1>1, <1>2, <1>3, WorkerKeeps

\* A reconcile goes on after a call to the load balancer, which has left every
\* service with a certificate it may have.
LEMMA GoesOnKeeps ==
    ASSUME IndInv, UNCHANGED <<servers, certificate>>, ObjectTyped(LBSpecs, Statuses)',
           lb' \in LBs, nextID' \in Nat \ {0},
           \A p \in Ports : \/ lb'.services[p].cert \in {lb.services[p].cert, 0}
                            \/ pc \in LBCalls /\ lb'.services[p].cert = obj.plan.cert
                               /\ obj.plan.cert = cert.id,
           NEW o \in Objects, o.plan.cert < nextCert, GoesOn(o),
           pc' # "write" => o.plan = obj.plan /\ pc \in LBCalls
    PROVE  IndInv'
  <1>1. /\ pc' \in PCs /\ pc' \notin {"idle", "create", "release"}
        /\ obj' \in Objects /\ obj'.plan = o.plan /\ info' \in Infos \cup {NoInfo}
        /\ pc' \in InfoCalls => info' \in Infos
        /\ pc' = "write" => pc' \notin LBCalls
    BY DEF GoesOn, InfoCalls, LBCalls, PCs
  <1>2. WorkerHolds' /\ RightMoment'
    BY <1>1 DEF WorkerHolds, RightMoment
  <1>3. ResolvedReady'
    BY <1>1 DEF IndInv, ResolvedReady, certificate
  <1>4. ServicesUsable'
    <2> SUFFICES ASSUME NEW p \in Ports, lb'.services[p].cert # 0
                 PROVE  lb'.services[p].cert = cert.id /\ cert.ready
      BY DEF ServicesUsable, certificate
    <2>1. CASE lb'.services[p].cert = lb.services[p].cert
      BY <2>1 DEF IndInv, ServicesUsable
    <2>2. CASE pc \in LBCalls /\ lb'.services[p].cert = obj.plan.cert /\ obj.plan.cert = cert.id
      BY <2>2 DEF IndInv, ResolvedReady
    <2> QED BY <2>1, <2>2
  <1> QED BY <1>1, <1>2, <1>3, <1>4, WorkerKeeps

-----------------------------------------------------------------------------
(* The invariant holds at the start and every step keeps it.               *)

\* A fresh object, an issued certificate and no load balancer.
LEMMA InitIndInv == Init => IndInv
  <1> SUFFICES ASSUME Init PROVE IndInv
    OBVIOUS
  <1>1. ObjectTyped(LBSpecs, Statuses)
    <2>1. spec \in LBSpecs /\ status \in Statuses /\ WorkerInit
      BY NoneFacts DEF Init
    <2>2. "idle" \notin LBCalls
      BY DEF LBCalls, InfoCalls
    <2> QED BY <2>1, <2>2, WorkerInitTyped
  <1>2. ServersTypeOK /\ match \subseteq Servers
    BY ReadyAssumption DEF Init, ServersTypeOK
  <1>3. /\ pc = "idle" /\ obj = NoObj /\ info = NoInfo
        /\ lb \in LBs /\ \A p \in Ports : lb.services[p].cert = 0
    BY NoneFacts DEF Init, WorkerInit
  <1>4. TypeOK
    <2>1. cert \in [id : Nat, ready : BOOLEAN]
      <3>1. [id |-> 1, ready |-> TRUE] \in [id : Nat, ready : BOOLEAN]
        OBVIOUS
      <3> QED BY <3>1 DEF Init
    <2>2. certPhase \in Phases /\ certID \in Nat /\ nextCert \in Nat \ {0} /\ nextID \in Nat \ {0}
      BY DEF Init, Phases
    <2> QED BY <1>1, <1>2, <1>3, <2>1, <2>2 DEF TypeOK, ObjectTyped, Copies, PCs
  <1>5. WorkerHolds /\ ResolvedReady /\ RightMoment /\ ServicesUsable
    BY <1>3 DEF WorkerHolds, ResolvedReady, RightMoment, ServicesUsable, InfoCalls, LBCalls
  <1>6. IDsIssued
    BY <1>3 DEF Init, IDsIssued
  <1> QED BY <1>4, <1>5, <1>6 DEF IndInv

\* The user and the cache.
LEMMA ObjectStepsIndInv ==
    ASSUME IndInv, EditLoadBalancer \/ ((DeleteObject \/ CacheSync) /\ UNCHANGED hetzner)
    PROVE  IndInv'
  <1>1. UNCHANGED <<srvObj, srvLive, match, certificate, lb, nextID>>
    BY DEF EditLoadBalancer, hetzner, certificate
  <1>2. (\E s \in LBSpecs : Edit(s)) \/ DeleteObject \/ CacheSync
    BY DEF EditLoadBalancer
  <1>3. ObjectTyped(LBSpecs, Statuses)' /\ UNCHANGED <<pc, obj, info>>
    BY <1>2, ObjectIsTyped, ObjectStepsTyped DEF IndInv, worker
  <1>4. ServersTypeOK' /\ match' \subseteq Servers /\ lb' \in LBs /\ lb'.id = lb.id
        /\ \A p \in Ports : lb'.services[p].cert = lb.services[p].cert
    BY <1>1 DEF IndInv, TypeOK, ServersTypeOK
  <1> QED BY <1>1, <1>3, <1>4, EnvironmentKeeps

\* Servers, labels and Hetzner's side of the load balancer.
LEMMA HetznerStepsIndInv ==
    ASSUME IndInv, \/ ServerReady \/ Relabel \/ ServerDestroyed \/ ServerObjectGoes
                   \/ Progress \/ External
    PROVE  IndInv'
  <1>1. UNCHANGED <<phase, spec, status, seen, pc, obj, info, certificate, nextID>>
    BY DEF ServerReady, Relabel, ServerDestroyed, ServerObjectGoes, Progress, External,
           object, worker
  <1>2. ObjectTyped(LBSpecs, Statuses)'
    <2>1. used \in [Disturbances -> Nat] /\ {"refs", "external"} \subseteq Disturbances
      BY DEF IndInv, TypeOK, Disturbances
    <2>2. used' \in [Disturbances -> Nat]
      BY <2>1, SpendFacts
      DEF ServerReady, Relabel, ServerDestroyed, ServerObjectGoes, Progress, External
    <2> QED BY <1>1, <2>2, ObjectIsTyped DEF IndInv, ObjectTyped
  <1>3. ServersTypeOK' /\ match' \subseteq Servers
    <2>1. ServersTypeOK /\ match \subseteq Servers
      BY DEF IndInv, TypeOK
    <2>2. CASE UNCHANGED <<srvObj, srvLive>> /\ match' \subseteq match
      BY <2>1, <2>2 DEF ServersTypeOK
    <2>3. CASE match' = match /\ \E s \in Servers : BecomeReady(s) \/ Destroy(s) \/ ObjectGoes(s)
      BY <2>1, <2>3, ServersTyped
    <2> QED BY <2>2, <2>3
        DEF ServerReady, Relabel, ServerDestroyed, ServerObjectGoes, Progress, External, servers
  <1>4. /\ lb' \in LBs /\ lb'.id \in {lb.id, 0}
        /\ \A p \in Ports : \/ lb'.services[p].cert \in {lb.services[p].cert, 0}
                            \/ cert.ready /\ lb'.services[p].cert = cert.id
    <2>1. lb \in LBs /\ srvLive \subseteq Servers /\ lb.targets \in SUBSET Servers
      BY DEF IndInv, TypeOK, ServersTypeOK, LBs
    <2>2. CASE lb' = lb
      BY <2>1, <2>2
    <2>3. CASE lb' = NoLB
      BY <2>3, NoneFacts
    <2>4. ASSUME NEW T \in SUBSET Servers, lb' = [lb EXCEPT !.targets = T]
          PROVE  lb' \in LBs /\ lb'.id = lb.id /\ lb'.services = lb.services
      BY <2>1, <2>4, TargetsFacts
    <2>5. CASE Progress
      <3>1. lb' \in LBs /\ lb'.id = lb.id /\ lb'.services = lb.services
        BY <2>1, <2>5, BusyFacts DEF Progress
      <3> QED BY <3>1
    <2>6. CASE ServerDestroyed
      <3>1. PICK s \in Servers : lb' = [lb EXCEPT !.targets = lb.targets \ {s}]
        BY <2>6 DEF ServerDestroyed
      <3>2. lb.targets \ {s} \in SUBSET Servers
        BY <2>1
      <3> QED BY <2>4, <3>1, <3>2
    <2>7. CASE \E s \in srvLive :
                 lb' = [lb EXCEPT !.targets = IF s \in lb.targets THEN lb.targets \ {s}
                                              ELSE lb.targets \cup {s}]
      <3>1. PICK s \in srvLive :
                 lb' = [lb EXCEPT !.targets = IF s \in lb.targets THEN lb.targets \ {s}
                                              ELSE lb.targets \cup {s}]
        BY <2>7
      <3> DEFINE T == IF s \in lb.targets THEN lb.targets \ {s} ELSE lb.targets \cup {s}
      <3>2. T \in SUBSET Servers /\ lb' = [lb EXCEPT !.targets = T]
        BY <2>1, <3>1
      <3> HIDE DEF T
      <3> QED BY <2>4, <3>2
    <2>8. ASSUME NEW p \in Ports, NEW svc \in Services,
                 svc.cert = 0 \/ (cert.ready /\ svc.cert = cert.id),
                 lb' = [lb EXCEPT !.services[p] = svc]
          PROVE  /\ lb' \in LBs /\ lb'.id = lb.id
                 /\ \A q \in Ports : \/ lb'.services[q].cert \in {lb.services[q].cert, 0}
                                     \/ cert.ready /\ lb'.services[q].cert = cert.id
      <3>1. /\ lb' \in LBs /\ lb'.id = lb.id
            /\ \A q \in Ports : lb'.services[q] = IF q = p THEN svc ELSE lb.services[q]
        BY <2>1, <2>8, ServiceFacts
      <3> QED BY <2>8, <3>1
    <2>9. CASE External
      <3> DEFINE Made(p, c) == IF Exists(lb.services[p]) THEN NoService
                               ELSE [NoService EXCEPT !.dest = 1, !.cert = c]
                 Free == {0} \cup {i \in {cert.id} : cert.ready}
      <3>1. CASE \E p \in Ports, c \in Free : lb' = [lb EXCEPT !.services[p] = Made(p, c)]
        <4>1. PICK p \in Ports, c \in Free : lb' = [lb EXCEPT !.services[p] = Made(p, c)]
          BY <3>1
        <4>2. c \in Nat /\ (c = 0 \/ (cert.ready /\ c = cert.id))
          BY DEF IndInv, TypeOK
        <4>3. Made(p, c) \in Services /\ Made(p, c).cert \in {0, c}
          <5> HIDE DEF Free
          <5> QED BY <4>2 DEF NoService, Services
        <4> HIDE DEF Made
        <4> QED BY <2>8, <4>1, <4>2, <4>3
      <3> QED BY <2>3, <2>7, <2>9, <3>1 DEF External
    <2> QED BY <2>2, <2>5, <2>6, <2>9 DEF ServerReady, Relabel, ServerObjectGoes
  <1> QED BY <1>1, <1>2, <1>3, <1>4, EnvironmentKeeps

\* The certificate lives its own life: it does not go while a service uses it,
\* and a new one has an ID that nobody knows.
LEMMA CertificateIndInv ==
    ASSUME IndInv, CertificateProceeds \/ CertificateDisturbed
    PROVE  IndInv'
  <1>1. UNCHANGED <<phase, spec, status, seen, pc, obj, info, srvObj, srvLive, match, lb, nextID>>
    BY DEF CertificateProceeds, CertificateDisturbed, object, worker, servers
  <1>2. ObjectTyped(LBSpecs, Statuses)'
    <2>1. used \in [Disturbances -> Nat] /\ "refs" \in Disturbances
      BY DEF IndInv, TypeOK, Disturbances
    <2>2. used' \in [Disturbances -> Nat]
      BY <2>1, SpendFacts DEF CertificateProceeds, CertificateDisturbed
    <2> QED BY <1>1, <2>2, ObjectIsTyped DEF IndInv, ObjectTyped
  <1>3. \/ C!Appears \/ C!Issued \/ C!Record(cert.id) \/ C!Record(0) \/ C!Destroyed
        \/ C!CertObjectGoes \/ C!CertDeleted
    BY DEF CertificateProceeds, CertificateDisturbed
  <1>4. /\ cert \in [id : Nat, ready : BOOLEAN] /\ cert.id \in Nat /\ certID \in Nat
        /\ nextCert \in Nat \ {0} /\ cert.id < nextCert /\ certID < nextCert
        /\ \A p \in Ports : lb.services[p].cert \in Nat
    BY DEF IndInv, TypeOK, IDsIssued, LBs, Services
  <1>5. certPhase' \in Phases
    BY <1>3 DEF IndInv, TypeOK, Phases, C!Appears, C!Issued, C!Record, C!Destroyed,
       C!CertObjectGoes, C!CertDeleted
  <1>6. /\ certID' \in Nat /\ nextCert' \in Nat \ {0} /\ nextCert' >= nextCert
        /\ certID' < nextCert'
    BY <1>3, <1>4 DEF C!Appears, C!Issued, C!Record, C!Destroyed, C!CertObjectGoes, C!CertDeleted
  <1>7. /\ cert' \in [id : Nat, ready : BOOLEAN] /\ cert'.id < nextCert'
        /\ \/ cert'.id = cert.id /\ (cert.ready => cert'.ready)
           \/ cert.id = 0 /\ cert'.id = nextCert
           \/ cert'.id = 0 /\ cert.id # 0 /\ ~InUse
    <2>1. CASE C!Appears
      <3>1. /\ cert' \in [id : {nextCert}, ready : BOOLEAN] /\ nextCert' = nextCert + 1
            /\ cert.id = 0
        BY <2>1 DEF C!Appears
      <3>2. cert' \in [id : Nat, ready : BOOLEAN] /\ cert'.id = nextCert
        BY <1>4, <3>1
      <3> QED BY <1>4, <3>1, <3>2
    <2>2. CASE C!Issued
      <3>1. cert' = [cert EXCEPT !.ready = TRUE] /\ nextCert' = nextCert
        BY <2>2 DEF C!Issued
      <3>2. cert' \in [id : Nat, ready : BOOLEAN] /\ cert'.id = cert.id /\ cert'.ready
        BY <1>4, <3>1
      <3> QED BY <1>4, <3>1, <3>2
    <2>3. CASE C!Destroyed
      <3>1. cert' = C!NoCert /\ nextCert' = nextCert /\ cert.id # 0 /\ ~InUse
        BY <2>3 DEF C!Destroyed
      <3>2. cert' \in [id : Nat, ready : BOOLEAN] /\ cert'.id = 0
        BY <3>1 DEF C!NoCert
      <3> QED BY <1>4, <3>1, <3>2
    <2>4. CASE cert' = cert /\ nextCert' = nextCert
      BY <1>4, <2>4
    <2> QED BY <1>3, <2>1, <2>2, <2>3, <2>4
        DEF C!Record, C!CertObjectGoes, C!CertDeleted
  <1>8. pc # "idle" => obj.plan.cert < nextCert /\ obj.plan.cert \in Nat
    BY CopyFacts DEF IndInv, IDsIssued, WorkerHolds
  <1>9. TypeOK'
    BY <1>1, <1>2, <1>5, <1>6, <1>7 DEF IndInv, TypeOK, ObjectTyped, Copies, ServersTypeOK
  <1>10. IDsIssued'
    <2>1. pc' # "idle" => obj'.plan.cert < nextCert'
      BY <1>1, <1>4, <1>6, <1>8
    <2> QED BY <1>6, <1>7, <2>1 DEF IDsIssued
  <1>11. ResolvedReady'
    <2> SUFFICES ASSUME pc \in LBCalls, obj.plan.cert # 0, obj.plan.cert = cert'.id
                 PROVE  cert'.ready
      BY <1>1 DEF ResolvedReady
    <2>1. pc # "idle"
      BY DEF LBCalls, InfoCalls
    <2>2. cert'.id = cert.id /\ (cert.ready => cert'.ready)
      BY <1>4, <1>7, <1>8, <2>1
    <2> QED BY <2>2 DEF IndInv, ResolvedReady
  <1>12. ServicesUsable'
    <2> SUFFICES ASSUME NEW p \in Ports, lb.services[p].cert # 0
                 PROVE  lb.services[p].cert = cert'.id /\ cert'.ready
      BY <1>1 DEF ServicesUsable
    <2>1. lb.services[p].cert = cert.id /\ cert.ready
      BY DEF IndInv, ServicesUsable
    <2>2. InUse
      BY <2>1 DEF InUse
    <2> QED BY <1>7, <2>1, <2>2
  <1>13. WorkerHolds' /\ RightMoment'
    BY <1>1 DEF IndInv, WorkerHolds, RightMoment
  <1> QED BY <1>9, <1>10, <1>11, <1>12, <1>13 DEF IndInv

\* The worker takes the object, with a plan.
LEMMA ReconcileIndInv ==
    ASSUME IndInv, Reconcile
    PROVE  IndInv'
  <1> DEFINE T == getSelectedServerIDs(seen.spec)
             plan == [NoPlan EXCEPT !.targets = T]
             o == Taken(plan)
  <1>1. UNCHANGED <<phase, spec, status, seen, used, servers, certificate, lb, nextID>>
    BY DEF Reconcile, object, hetzner, servers, certificate
  <1>2. ObjectTyped(LBSpecs, Statuses)'
    BY <1>1, ObjectIsTyped DEF IndInv, ObjectTyped
  <1>3. /\ seen \in Copies /\ lb' \in LBs /\ nextID' \in Nat \ {0}
        /\ certID \in Nat /\ certID < nextCert /\ nextCert \in Nat \ {0} /\ 0 < nextCert
    BY <1>1 DEF IndInv, TypeOK, IDsIssued
  <1>4. ServicesUsable'
    BY <1>1 DEF IndInv, ServicesUsable, certificate
  <1>5. o \in Objects /\ o.plan.cert = 0
    <2>1. T \in SUBSET Servers
      BY DEF getSelectedServerIDs
    <2> HIDE DEF T
    <2>2. plan \in Plans /\ plan.cert = 0
      BY <2>1, NoneFacts DEF Plans
    <2> HIDE DEF plan
    <2> QED BY <1>3, <2>2, TakenFacts
  <1>6. ASSUME NEW step \in PCs \ {"idle", "create"}, step \notin InfoCalls,
               NEW c \in Objects, Call(step, c, NoInfo), c.plan.cert < nextCert,
               step \in LBCalls => c.plan.cert = 0,
               step = "release" => c.status.id = 0
        PROVE  IndInv'
    <2>1. pc' = step /\ obj' = c /\ info' = NoInfo
      BY <1>6 DEF Call
    <2>2. WorkerHolds' /\ RightMoment' /\ ResolvedReady'
      BY <1>6, <2>1 DEF WorkerHolds, RightMoment, ResolvedReady
    <2> QED BY <1>1, <1>2, <1>3, <1>4, <1>6, <2>1, <2>2, WorkerKeeps
  <1>7. /\ {"release", "delete", "lookupByID", "lookupByName", "resolve", "write"}
             \subseteq PCs \ {"idle", "create"}
        /\ {"release", "delete", "lookupByID", "lookupByName", "resolve", "write"}
             \cap InfoCalls = {}
        /\ {"release", "delete", "resolve", "write"} \cap LBCalls = {}
    BY DEF PCs, InfoCalls, LBCalls
  <1>8. CASE Call(IF seen.status.id = 0 THEN "release" ELSE "delete", Taken(NoPlan), NoInfo)
    <2>1. /\ Taken(NoPlan) \in Objects /\ Taken(NoPlan).plan.cert = 0
          /\ Taken(NoPlan).status = seen.status
      BY <1>3, NoneFacts, TakenFacts
    <2> QED BY <1>3, <1>6, <1>7, <1>8, <2>1
  <1>9. CASE Lookup(o)
    <2> HIDE DEF o
    <2> QED BY <1>3, <1>5, <1>6, <1>7, <1>9 DEF Lookup
  <1>10. CASE Pend(o)
    <2> HIDE DEF o
    <2>1. /\ Call("write", [o EXCEPT !.status.ready = FALSE], NoInfo)
          /\ [o EXCEPT !.status.ready = FALSE] \in Objects
          /\ [o EXCEPT !.status.ready = FALSE].plan.cert = 0
      BY <1>5, <1>10, CopyFacts DEF Pend, Done
    <2> QED BY <1>3, <1>6, <1>7, <2>1
  <1>11. CASE Call("resolve", [o EXCEPT !.plan.cert = certID], NoInfo)
    <2> HIDE DEF o
    <2>1. /\ [o EXCEPT !.plan.cert = certID] \in Objects
          /\ [o EXCEPT !.plan.cert = certID].plan.cert = certID
      BY <1>3, <1>5, NewCertFacts
    <2> QED BY <1>3, <1>6, <1>7, <1>11, <2>1
  <1> QED BY <1>8, <1>9, <1>10, <1>11 DEF Reconcile

\* What a step of Resource.Reconcile finds.
LEMMA LiveFacts ==
    ASSUME IndInv, pc \in LBCalls \cup {"resolve"}, UNCHANGED <<object, used>>
    PROVE  /\ ObjectTyped(LBSpecs, Statuses)' /\ obj \in Objects /\ lb \in LBs
           /\ obj.plan.cert \in Nat /\ obj.plan.cert < nextCert /\ pc # "idle"
           /\ nextID \in Nat \ {0} /\ srvLive \subseteq Servers
           /\ pc \in InfoCalls => info \in Infos
  <1>1. pc # "idle"
    BY DEF LBCalls, InfoCalls
  <1>2. ObjectTyped(LBSpecs, Statuses)'
    BY ObjectIsTyped, WorkerStepsTyped DEF IndInv
  <1> QED BY <1>1, <1>2, CopyFacts DEF IndInv, TypeOK, WorkerHolds, IDsIssued, ServersTypeOK

\* The looks at Hetzner.
LEMMA ReadStepsIndInv ==
    ASSUME IndInv, ResolveCertificate \/ LookupByID \/ LookupByName \/ FetchServices \/ Refresh
    PROVE  IndInv'
  <1>1. /\ UNCHANGED <<object, used, servers, certificate, lb, nextID>>
        /\ pc \in LBCalls \cup {"resolve"}
    BY DEF ResolveCertificate, LookupByID, LookupByName, FetchServices, Refresh, hetzner,
           servers, certificate, LBCalls, InfoCalls
  <1>2. /\ ObjectTyped(LBSpecs, Statuses)' /\ obj \in Objects /\ lb \in LBs /\ lb' \in LBs
        /\ obj.plan.cert \in Nat /\ obj.plan.cert < nextCert
        /\ nextID' \in Nat \ {0}
        /\ pc \in InfoCalls => info \in Infos
        /\ \A p \in Ports : lb'.services[p].cert \in {lb.services[p].cert, 0}
    BY <1>1, LiveFacts
  <1>3. ASSUME GoesOn(obj), pc' # "write" => pc \in LBCalls
        PROVE  IndInv'
    BY <1>1, <1>2, <1>3, GoesOnKeeps
  <1>4. CASE Fail(obj)
    BY <1>2, <1>3, <1>4, FailGoesOn DEF Fail, Call
  <1>5. ASSUME NEW step \in {"lookupByID", "lookupByName", "create"}, Call(step, obj, NoInfo),
               step = "create" => lb.id = 0,
               pc \in LBCalls \/ (cert.id = obj.plan.cert /\ cert.ready)
        PROVE  IndInv'
    <2>1. pc' = step /\ obj' = obj /\ info' = NoInfo /\ pc' \in PCs
      BY <1>5 DEF Call, PCs
    <2>2. WorkerHolds' /\ RightMoment'
      BY <1>1, <1>2, <1>5, <2>1 DEF WorkerHolds, RightMoment, InfoCalls
    <2>3. ResolvedReady'
      BY <1>1, <1>5, <2>1 DEF IndInv, ResolvedReady, certificate
    <2>4. ServicesUsable'
      BY <1>1 DEF IndInv, ServicesUsable, certificate
    <2> QED BY <1>1, <1>2, <2>1, <2>2, <2>3, <2>4, WorkerKeeps
  <1>6. CASE ResolveCertificate
    <2>1. CASE Pend(obj)
      BY <1>2, <1>3, <2>1, PendGoesOn
    <2>2. CASE cert.id = obj.plan.cert /\ cert.ready /\ Lookup(obj)
      BY <1>5, <2>2 DEF Lookup
    <2> QED BY <1>6, <2>1, <2>2 DEF ResolveCertificate
  <1>7. CASE LookupByID \/ LookupByName
    <2>1. pc \in LBCalls
      BY <1>7 DEF LookupByID, LookupByName, LBCalls
    <2>2. CASE ReconcileTargets(obj, toLoadBalancerInfo(lb))
      BY <1>2, <1>3, <2>1, <2>2, ReconcileTargetsGoesOn
    <2> QED BY <1>5, <1>7, <2>1, <2>2 DEF LookupByID, LookupByName
  <1>8. CASE FetchServices
    <2>1. pc \in LBCalls /\ info \in Infos
      BY <1>2, <1>8 DEF FetchServices, LBCalls, InfoCalls
    <2>2. CASE \E A, B, D \in SUBSET Ports :
                 ProceedServices(obj, [info EXCEPT !.drop = A, !.add = B, !.update = D])
      <3>1. PICK A \in SUBSET Ports, B \in SUBSET Ports, D \in SUBSET Ports :
                 ProceedServices(obj, [info EXCEPT !.drop = A, !.add = B, !.update = D])
        BY <2>2
      <3> DEFINE i == [info EXCEPT !.drop = A, !.add = B, !.update = D]
      <3>2. i \in Infos /\ ProceedServices(obj, i)
        BY <2>1, <3>1 DEF Infos
      <3> HIDE DEF i
      <3> QED BY <1>2, <1>3, <2>1, <3>2, ProceedGoesOn
    <2>3. ASSUME ~Fail(obj)
          PROVE  \E A, B, D \in SUBSET Ports :
                 ProceedServices(obj, [info EXCEPT !.drop = A, !.add = B, !.update = D])
      <3> DEFINE want(p) == Desired[p]
                 have(p) == serviceInfoFromSDK(lb.services[p])
                 A == {p \in Ports : Exists(have(p)) /\ ~Exists(want(p))}
                 B == {p \in Ports : ~Exists(have(p)) /\ Exists(want(p))}
                 D == {p \in Ports : Exists(have(p)) /\ Exists(want(p))
                                     /\ ~servicesEqual(have(p), want(p))}
      <3>1. ProceedServices(obj, [info EXCEPT !.drop = A, !.add = B, !.update = D])
        BY <1>8, <2>3 DEF FetchServices
      <3>2. A \in SUBSET Ports /\ B \in SUBSET Ports /\ D \in SUBSET Ports
        OBVIOUS
      <3> HIDE DEF A, B, D
      <3> QED BY <3>1, <3>2
    <2> QED BY <1>4, <2>2, <2>3
  <1>9. CASE Refresh
    <2>1. CASE Done([obj EXCEPT !.status = [id |-> lb.id, attached |-> lb.targets, ready |-> TRUE]])
      <3> DEFINE st == [id |-> lb.id, attached |-> lb.targets, ready |-> TRUE]
      <3>1. st \in Statuses
        BY <1>2 DEF LBs, Statuses
      <3>2. Done([obj EXCEPT !.status = st])
        BY <2>1
      <3> HIDE DEF st
      <3>3. GoesOn(obj) /\ pc' = "write"
        BY <1>2, <3>1, <3>2, NewStatusFacts DEF Done, Call, GoesOn
      <3> QED BY <1>3, <3>3
    <2> QED BY <1>4, <1>9, <2>1 DEF Refresh
  <1> QED BY <1>6, <1>7, <1>8, <1>9

\* A call that changes the load balancer and is accepted.
ChangeSteps ==
    \/ AttachServerToLoadBalancer \/ DetachServerFromLoadBalancer
    \/ DeleteService \/ AddService \/ UpdateService

\* The calls that change the load balancer, one target or service at a time.
LEMMA ChangeStepsIndInv ==
    ASSUME IndInv, ChangeSteps
    PROVE  IndInv'
  <1>1. /\ UNCHANGED <<object, used, servers, certificate, nextID>>
        /\ pc \in InfoCalls /\ pc \in LBCalls
    BY DEF ChangeSteps, AttachServerToLoadBalancer, DetachServerFromLoadBalancer,
           DeleteService, AddService, UpdateService, LBCalls, InfoCalls
  <1>2. /\ ObjectTyped(LBSpecs, Statuses)' /\ obj \in Objects /\ lb \in LBs
        /\ obj.plan.cert \in Nat /\ obj.plan.cert < nextCert
        /\ nextID' \in Nat \ {0} /\ srvLive \subseteq Servers /\ info \in Infos
    BY <1>1, LiveFacts
  <1>3. /\ lb.targets \in SUBSET Servers /\ \A p \in Ports : lb.services[p] \in Services
        /\ info.attach \subseteq Servers /\ info.detach \subseteq Servers
        /\ info.drop \subseteq Ports /\ info.add \subseteq Ports /\ info.update \subseteq Ports
        /\ TRUE \in BOOLEAN
    BY <1>2 DEF LBs, Infos
  <1>4. ASSUME lb' \in LBs, GoesOn(obj),
               \A p \in Ports : \/ lb'.services[p].cert \in {lb.services[p].cert, 0}
                                \/ lb'.services[p].cert = obj.plan.cert /\ obj.plan.cert = cert.id
        PROVE  IndInv'
    BY <1>1, <1>2, <1>4, GoesOnKeeps
  <1>5. CASE UNCHANGED lb /\ GoesOn(obj)
    BY <1>2, <1>4, <1>5
  <1>6. CASE UNCHANGED lb /\ Fail(obj)
    BY <1>2, <1>5, <1>6, FailGoesOn
  <1>7. ASSUME NEW T \in SUBSET Servers, Changed([lb EXCEPT !.targets = T]), GoesOn(obj)
        PROVE  IndInv'
    <2> DEFINE l == [lb EXCEPT !.targets = T]
    <2>1. l \in LBs /\ l.services = lb.services
      BY <1>2, TargetsFacts
    <2>2. lb' = [l EXCEPT !.busy = TRUE]
      BY <1>7 DEF Changed
    <2> HIDE DEF l
    <2>3. lb' \in LBs /\ lb'.services = lb.services
      BY <1>3, <2>1, <2>2, BusyFacts
    <2> QED BY <1>4, <1>7, <2>3
  <1>8. ASSUME NEW p \in Ports, NEW svc \in Services,
               \/ svc.cert \in {lb.services[p].cert, 0}
               \/ svc.cert = obj.plan.cert /\ obj.plan.cert = cert.id,
               Changed([lb EXCEPT !.services[p] = svc]), GoesOn(obj)
        PROVE  IndInv'
    <2> DEFINE l == [lb EXCEPT !.services[p] = svc]
    <2>1. l \in LBs /\ \A q \in Ports : l.services[q] = IF q = p THEN svc ELSE lb.services[q]
      BY <1>2, <1>8, ServiceFacts
    <2>2. lb' = [l EXCEPT !.busy = TRUE]
      BY <1>8 DEF Changed
    <2> HIDE DEF l
    <2>3. /\ lb' \in LBs
          /\ \A q \in Ports : lb'.services[q] = IF q = p THEN svc ELSE lb.services[q]
      BY <1>3, <2>1, <2>2, BusyFacts
    <2> QED BY <1>4, <1>8, <2>3
  <1>9. CASE AttachServerToLoadBalancer
    <2>1. PICK s \in info.attach :
            \/ Fail(obj) /\ UNCHANGED lb
            \/ /\ Changed([lb EXCEPT !.targets = lb.targets \cup {s}])
               /\ Proceed(obj, [info EXCEPT !.attach = info.attach \ {s}])
      BY <1>9 DEF AttachServerToLoadBalancer
    <2>2. {s} \in SUBSET Servers /\ lb.targets \cup {s} \in SUBSET Servers
          /\ {} \in SUBSET Ports
      BY <1>3
    <2>3. [info EXCEPT !.attach = info.attach \ {s}] \in Infos
      BY <1>2, <2>2, InfoFacts
    <2>4. CASE /\ Changed([lb EXCEPT !.targets = lb.targets \cup {s}])
               /\ Proceed(obj, [info EXCEPT !.attach = info.attach \ {s}])
      BY <1>2, <1>7, <2>2, <2>3, <2>4, ProceedGoesOn
    <2> QED BY <1>6, <2>1, <2>4
  <1>10. CASE DetachServerFromLoadBalancer
    <2>1. PICK s \in info.detach :
            \/ Fail(obj) /\ UNCHANGED lb
            \/ /\ Changed([lb EXCEPT !.targets = lb.targets \ {s}]) \/ UNCHANGED lb
               /\ Proceed(obj, [info EXCEPT !.detach = info.detach \ {s}])
      BY <1>10 DEF DetachServerFromLoadBalancer
    <2>2. {s} \in SUBSET Servers /\ lb.targets \ {s} \in SUBSET Servers
          /\ {} \in SUBSET Ports
      BY <1>3
    <2>3. [info EXCEPT !.detach = info.detach \ {s}] \in Infos
      BY <1>2, <2>2, InfoFacts
    <2>4. CASE /\ Changed([lb EXCEPT !.targets = lb.targets \ {s}]) \/ UNCHANGED lb
               /\ Proceed(obj, [info EXCEPT !.detach = info.detach \ {s}])
      <3>1. GoesOn(obj)
        BY <1>2, <2>3, <2>4, ProceedGoesOn
      <3> QED BY <1>5, <1>7, <2>2, <2>4, <3>1
    <2> QED BY <1>6, <2>1, <2>4
  <1>11. CASE DeleteService
    <2>1. PICK p \in info.drop :
            \/ Fail(obj) /\ UNCHANGED lb
            \/ /\ Changed([lb EXCEPT !.services[p] = NoService])
               /\ ProceedServices(obj, [info EXCEPT !.drop = info.drop \ {p}])
      BY <1>11 DEF DeleteService
    <2>2. p \in Ports /\ {p} \in SUBSET Ports /\ {} \in SUBSET Servers
      BY <1>3
    <2>3. [info EXCEPT !.drop = info.drop \ {p}] \in Infos
      BY <1>2, <2>2, InfoFacts
    <2>4. CASE /\ Changed([lb EXCEPT !.services[p] = NoService])
               /\ ProceedServices(obj, [info EXCEPT !.drop = info.drop \ {p}])
      BY <1>2, <1>8, <2>2, <2>3, <2>4, NoneFacts, ProceedGoesOn
    <2> QED BY <1>6, <2>1, <2>4
  <1>12. CASE AddService \/ UpdateService
    <2> DEFINE Stored(p) == {AddedService(Desired[p])}
                              \cup UpdatedServices(lb.services[p], Desired[p])
    <2>1. PICK p \in Ports :
            \/ Fail(obj) /\ UNCHANGED lb
            \/ /\ CertThere(Desired[p])
               /\ \E svc \in Stored(p) : Changed([lb EXCEPT !.services[p] = svc])
               /\ \/ ProceedServices(obj, [info EXCEPT !.add = info.add \ {p}])
                  \/ ProceedServices(obj, [info EXCEPT !.update = info.update \ {p}])
      BY <1>3, <1>12 DEF AddService, UpdateService
    <2>2. {p} \in SUBSET Ports /\ {} \in SUBSET Servers
      BY <1>3
    <2>3. /\ [info EXCEPT !.add = info.add \ {p}] \in Infos
          /\ [info EXCEPT !.update = info.update \ {p}] \in Infos
      BY <1>2, <2>2, InfoFacts
    <2>4. ASSUME NEW svc \in Stored(p), CertThere(Desired[p]),
                 Changed([lb EXCEPT !.services[p] = svc]),
                 \/ ProceedServices(obj, [info EXCEPT !.add = info.add \ {p}])
                 \/ ProceedServices(obj, [info EXCEPT !.update = info.update \ {p}])
          PROVE  IndInv'
      <3>1. GoesOn(obj)
        BY <1>2, <2>3, <2>4, ProceedGoesOn
      <3>2. svc \in Services /\ (svc.cert = Desired[p].cert \/ svc.cert = lb.services[p].cert)
        BY <1>2, <1>3, StoredFacts
      <3>3. \/ svc.cert \in {lb.services[p].cert, 0}
            \/ svc.cert = obj.plan.cert /\ obj.plan.cert = cert.id
        BY <1>2, <2>4, <3>2, DesiredFacts DEF CertThere
      <3> QED BY <1>8, <2>4, <3>1, <3>2, <3>3
    <2> QED BY <1>6, <2>1, <2>4
  <1> QED BY <1>9, <1>10, <1>11, <1>12 DEF ChangeSteps

\* A load balancer is created without services.
LEMMA CreateIndInv ==
    ASSUME IndInv, CreateLoadBalancer
    PROVE  IndInv'
  <1>1. /\ UNCHANGED <<object, used, servers, certificate>> /\ pc \in LBCalls
        /\ lb' = [NoLB EXCEPT !.id = nextID] /\ nextID' = nextID + 1
        /\ ReconcileTargets(obj, toLoadBalancerInfo(lb'))
    BY DEF CreateLoadBalancer, LBCalls
  <1>2. /\ ObjectTyped(LBSpecs, Statuses)' /\ obj \in Objects
        /\ obj.plan.cert \in Nat /\ obj.plan.cert < nextCert /\ nextID \in Nat \ {0}
    BY <1>1, LiveFacts
  <1>3. lb' \in LBs /\ \A p \in Ports : lb'.services[p].cert = 0
    BY <1>1, <1>2, NoneFacts DEF LBs
  <1>4. nextID' \in Nat \ {0}
    BY <1>1, <1>2
  <1>5. GoesOn(obj)
    BY <1>1, <1>2, <1>3, ReconcileTargetsGoesOn
  <1> QED BY <1>1, <1>2, <1>3, <1>4, <1>5, GoesOnKeeps

\* Deletion, the status write and the worker's failures.
LEMMA EndStepsIndInv ==
    ASSUME IndInv, \/ DeleteLoadBalancer
                   \/ (WriteStatus \/ Release \/ Crash) /\ UNCHANGED hetzner
    PROVE  IndInv'
  <1>1. CASE (WriteStatus \/ Release \/ Crash) /\ UNCHANGED hetzner
    <2>1. WriteStatus => obj.status \in Statuses
      BY CopyFacts DEF IndInv, WorkerHolds, WriteStatus
    <2>2. ObjectTyped(LBSpecs, Statuses)'
      BY <1>1, <2>1, ObjectIsTyped, WorkerStepsTyped DEF IndInv
    <2>3. Stop
      BY <1>1 DEF WriteStatus, Release, Crash
    <2> QED BY <1>1, <2>2, <2>3, StopKeeps
  <1>2. CASE DeleteLoadBalancer
    <2>1. /\ UNCHANGED <<object, used, servers, certificate, nextID>> /\ pc = "delete"
          /\ UNCHANGED <<srvObj, srvLive, match>>
      BY <1>2 DEF DeleteLoadBalancer, servers
    <2>2. ObjectTyped(LBSpecs, Statuses)'
      BY <2>1, ObjectIsTyped, WorkerStepsTyped DEF IndInv
    <2>3. CASE Stop /\ UNCHANGED lb
      BY <2>1, <2>2, <2>3, StopKeeps DEF hetzner, certificate
    <2>4. CASE /\ lb' = IF lb.id = obj.status.id THEN NoLB ELSE lb
               /\ Call("release", obj, NoInfo)
      <3>1. /\ obj \in Objects /\ lb \in LBs /\ nextID' \in Nat \ {0}
            /\ obj.plan.cert < nextCert
        BY <2>1 DEF IndInv, TypeOK, WorkerHolds, IDsIssued
      <3>2. pc' = "release" /\ obj' = obj /\ info' = NoInfo /\ pc' \in PCs
        BY <2>4 DEF Call, PCs
      <3>3. lb' \in LBs /\ (lb' = NoLB \/ lb' = lb)
        BY <2>4, <3>1, NoneFacts
      <3>4. RightMoment'
        BY <2>4, <3>2, NoneFacts DEF RightMoment
      <3>5. WorkerHolds' /\ ResolvedReady'
        BY <3>1, <3>2 DEF WorkerHolds, ResolvedReady, InfoCalls, LBCalls
      <3>6. ServicesUsable'
        BY <2>1, <3>3, NoneFacts DEF IndInv, ServicesUsable, certificate
      <3> QED BY <2>1, <2>2, <3>1, <3>2, <3>3, <3>4, <3>5, <3>6, WorkerKeeps
    <2> QED BY <1>2, <2>3, <2>4 DEF DeleteLoadBalancer
  <1> QED BY <1>1, <1>2

\* A failed call.
LEMMA CallFailsIndInv ==
    ASSUME IndInv, UNCHANGED hetzner,
           CallFails({"resolve", "lookupByID", "lookupByName", "create", "attach", "detach",
                      "fetchServices", "dropService", "putService", "refresh"},
                     {"delete", "release"})
    PROVE  IndInv'
  <1>1. UNCHANGED <<servers, certificate, lb, nextID>>
    BY DEF hetzner, servers, certificate
  <1>2. /\ ObjectTyped(LBSpecs, Statuses)'
        /\ (pc # "idle" /\ Fail(obj)) \/ Stop
    BY ObjectIsTyped, CallFailsTyped DEF IndInv
  <1>3. CASE pc # "idle" /\ Fail(obj)
    <2>1. /\ obj \in Objects /\ obj.plan.cert < nextCert
          /\ lb' \in LBs /\ nextID' \in Nat \ {0}
          /\ \A p \in Ports : lb'.services[p].cert \in {lb.services[p].cert, 0}
      BY <1>1, <1>3 DEF IndInv, WorkerHolds, IDsIssued, TypeOK
    <2>2. GoesOn(obj) /\ pc' = "write"
      BY <1>3, <2>1, FailGoesOn DEF Fail, Call
    <2> QED BY <1>1, <1>2, <2>1, <2>2, GoesOnKeeps
  <1> QED BY <1>2, <1>3, StopKeeps

\* Every step keeps the invariant.
LEMMA NextIndInv == IndInv /\ [Next]_vars => IndInv'
  <1> SUFFICES ASSUME IndInv, [Next]_vars PROVE IndInv'
    OBVIOUS
  <1>1. CASE UNCHANGED vars
    BY <1>1 DEF vars, IndInv, TypeOK, ServersTypeOK, WorkerHolds, IDsIssued, ResolvedReady,
       RightMoment, ServicesUsable
  <1>2. CASE Next
    BY <1>2, ObjectStepsIndInv, HetznerStepsIndInv, CertificateIndInv, ReconcileIndInv,
       ReadStepsIndInv, ChangeStepsIndInv, CreateIndInv, EndStepsIndInv, CallFailsIndInv
    DEF Next, Work, ChangeSteps
  <1> QED BY <1>1, <1>2

\* The certificate of a running reconcile is still usable or gone, and the
\* object is let go only after the load balancer of the worker's copy.
THEOREM LBInvariant == Spec => []IndInv
  BY InitIndInv, NextIndInv, PTL DEF Spec

\* Every variable keeps its type: targets stay servers, what is left of a loop
\* stays within the servers and ports there are.
THEOREM LBTypes == Spec => []TypeOK
  <1>1. IndInv => TypeOK
    BY DEF IndInv
  <1> QED BY <1>1, LBInvariant, PTL

\* However many calls lie between the look at the certificate and the service
\* that names it, and whatever happens to the certificate meanwhile: every
\* service that names one names a certificate that exists and is issued.
THEOREM ServicesStayUsable == Spec => []ServicesUsable
  <1>1. IndInv => ServicesUsable
    BY DEF IndInv
  <1> QED BY <1>1, LBInvariant, PTL

\* Only the finalizer update lets the object go, and only with an up-to-date
\* copy: the load balancer it names is then gone.
LEMMA ReleaseIsLate ==
    ASSUME IndInv, [Next]_vars, phase' = "gone", phase # "gone"
    PROVE  status.id = 0 \/ lb.id # status.id
  <1>1. Release /\ [phase |-> obj.phase, spec |-> obj.spec, status |-> obj.status] = Current
    <2>1. Next
      BY DEF vars
    <2>2. CASE Work
      BY <2>2 DEF Work, Reconcile, ResolveCertificate, LookupByID, LookupByName,
         CreateLoadBalancer, AttachServerToLoadBalancer, DetachServerFromLoadBalancer,
         FetchServices, DeleteService, AddService, UpdateService, Refresh, DeleteLoadBalancer,
         WriteStatus, Release, object
    <2> QED BY <2>1, <2>2
        DEF Next, EditLoadBalancer, Edit, ServerReady, Relabel, ServerDestroyed,
            ServerObjectGoes, CertificateProceeds, CertificateDisturbed, Progress, External,
            DeleteObject, CacheSync, Crash, CallFails, object
  <1>2. obj.status = status /\ pc = "release"
    BY <1>1 DEF Release, Current
  <1> QED BY <1>2 DEF IndInv, RightMoment

\* README, "Safe Cleanup": whatever fails and in whatever order, the object of
\* a load balancer goes only after the load balancer its status names.
THEOREM LBRemovalSafe == Spec => LBGoesFirst
  <1>1. IndInv /\ [Next]_vars
          => [phase' = "gone" /\ phase # "gone" => status.id = 0 \/ lb.id # status.id]_vars
    BY ReleaseIsLate
  <1> QED BY <1>1, LBInvariant, PTL DEF Spec, LBGoesFirst

-----------------------------------------------------------------------------
(* The certificate, seen from the load balancer.                           *)

\* A step of the certificate's own: what the services name does not change,
\* and a certificate that is destroyed or appears is named by none.
LEMMA CertificateStepsKept ==
    ASSUME IndInv, CertificateProceeds \/ CertificateDisturbed
    PROVE  C!Next
  <1>1. lb' = lb
    BY DEF CertificateProceeds, CertificateDisturbed
  <1>2. /\ nextCert \in Nat \ {0} /\ cert.id \in Nat /\ cert.id < nextCert
        /\ cert \in [id : Nat, ready : BOOLEAN]
    BY DEF IndInv, TypeOK, IDsIssued
  <1>3. CASE C!Appears
    <2>1. cert.id = 0 /\ cert'.id = nextCert
      BY <1>2, <1>3 DEF C!Appears
    <2>2. \A p \in Ports : lb.services[p].cert = 0
      BY <2>1 DEF IndInv, ServicesUsable
    <2>3. ~InUse /\ ~InUse'
      BY <1>1, <1>2, <2>1, <2>2 DEF InUse
    <2>4. UNCHANGED InUse
      BY <2>3 DEF InUse
    <2> QED BY <1>3, <2>4 DEF C!Next
  <1>4. CASE C!Destroyed
    <2>1. ~InUse /\ cert'.id = 0
      BY <1>4 DEF C!Destroyed, C!NoCert
    <2>2. UNCHANGED InUse
      BY <2>1 DEF InUse
    <2> QED BY <1>4, <2>2 DEF C!Next
  <1>5. CASE cert'.id = cert.id
    <2>1. UNCHANGED InUse
      BY <1>1, <1>5 DEF InUse
    <2>2. cert.id \in 0..nextCert - 1 /\ 0 \in 0..nextCert - 1
      BY <1>2
    <2>3. \/ C!Appears \/ C!Issued \/ C!Record(cert.id) \/ C!Record(0) \/ C!Destroyed
          \/ C!CertObjectGoes \/ C!CertDeleted
      BY DEF CertificateProceeds, CertificateDisturbed
    <2> QED BY <2>1, <2>2, <2>3 DEF C!Next
  <1>6. CASE C!Issued
    BY <1>2, <1>5, <1>6 DEF C!Issued
  <1> QED BY <1>3, <1>4, <1>5, <1>6
      DEF CertificateProceeds, CertificateDisturbed, C!Record, C!CertObjectGoes, C!CertDeleted

\* Any other step: a service that begins to name the certificate finds it
\* ready, because ServicesUsable holds after the step.
LEMMA UseKept ==
    ASSUME IndInv, ServicesUsable', UNCHANGED certificate
    PROVE  [C!Next]_(C!vars)
  <1>1. UNCHANGED <<certPhase, certID, cert, nextCert>>
    BY DEF certificate
  <1>2. InUse' => cert.ready
    BY <1>1 DEF InUse, ServicesUsable
  <1>3. InUse \in BOOLEAN /\ InUse' \in BOOLEAN /\ cert.ready \in BOOLEAN
    BY DEF InUse, IndInv, TypeOK
  <1>4. CASE InUse' = InUse
    BY <1>1, <1>4 DEF C!vars
  <1>5. CASE InUse' # InUse
    <2>1. InUse' = (~InUse /\ cert.ready)
      BY <1>2, <1>3, <1>5
    <2> QED BY <1>1, <1>5, <2>1 DEF C!Next
  <1> QED BY <1>4, <1>5

\* The steps of the load balancer, its servers and its object leave the
\* certificate alone.
LEMMA CertificateLeftAlone ==
    ASSUME Next, ~CertificateProceeds, ~CertificateDisturbed
    PROVE  UNCHANGED certificate
  <1>1. CASE Work
    BY <1>1 DEF Work, Reconcile, ResolveCertificate, LookupByID, LookupByName,
       CreateLoadBalancer, AttachServerToLoadBalancer, DetachServerFromLoadBalancer,
       FetchServices, DeleteService, AddService, UpdateService, Refresh, DeleteLoadBalancer,
       hetzner, certificate
  <1> QED BY <1>1
      DEF Next, EditLoadBalancer, ServerReady, Relabel, ServerDestroyed, ServerObjectGoes,
          Progress, External, hetzner, certificate

\* The other side of CertificateRefinement: whatever the two controllers do, a
\* certificate is taken into use only when it is ready, and is destroyed only
\* when no service names it.
THEOREM LBKeepsCertificateRef == Spec => KeepsCertificateRef
  <1>1. IndInv /\ IndInv' /\ [Next]_vars => [C!Next]_(C!vars)
    <2> SUFFICES ASSUME IndInv, IndInv', [Next]_vars PROVE [C!Next]_(C!vars)
      OBVIOUS
    <2>1. ServicesUsable'
      BY DEF IndInv
    <2>2. CASE CertificateProceeds \/ CertificateDisturbed
      BY <2>2, CertificateStepsKept
    <2>3. CASE UNCHANGED certificate
      BY <2>1, <2>3, UseKept
    <2>4. CASE UNCHANGED vars
      BY <2>3, <2>4 DEF vars, certificate
    <2> QED BY <2>2, <2>3, <2>4, CertificateLeftAlone
  <1> QED BY <1>1, LBInvariant, PTL DEF Spec, KeepsCertificateRef

-----------------------------------------------------------------------------
(* Phases and IDs.                                                         *)

\* The IDs are numbers.
LEMMA IDTypes ==
    ASSUME IndInv
    PROVE  /\ nextID \in Nat \ {0} /\ lb.id \in Nat
           /\ status.id \in Nat /\ seen.status.id \in Nat
           /\ pc # "idle" => obj.status.id \in Nat
  BY DEF IndInv, TypeOK, WorkerHolds, LBs, Statuses, Copies, Objects

\* The reconcile goes on with the ID it has, and not to delete.
Carries(o) == obj'.status.id = o.status.id /\ pc' \notin DeleteCalls \cup {"idle"}

LEMMA FailCarries ==
    ASSUME NEW o \in Objects, Fail(o) \/ Pend(o)
    PROVE  Carries(o)
  BY DEF Fail, Pend, Done, Call, Carries, DeleteCalls, Objects, Statuses

LEMMA ProceedCarries ==
    ASSUME NEW o, NEW i, Proceed(o, i) \/ ProceedServices(o, i)
    PROVE  Carries(o)
  BY DEF Proceed, ProceedServices, Call, Carries, DeleteCalls

LEMMA LookupCarries ==
    ASSUME NEW o,
           Lookup(o) \/ \E step \in {"lookupByName", "create", "resolve"} : Call(step, o, NoInfo)
    PROVE  Carries(o)
  BY DEF Lookup, Call, Carries, DeleteCalls

\* A step of the worker.
LEMMA WorkerLife ==
    ASSUME IndInv, LifeInv, UNCHANGED <<phase, seen>>,
           status' = status \/ (pc # "idle" /\ status' = obj.status),
           nextID' \in {nextID, nextID + 1}, lb'.id < nextID',
           pc' # "idle" => obj'.status.id < nextID',
           pc' \notin DeleteCalls \cup {"idle"} => phase # "gone",
           pc' \in DeleteCalls => (obj'.phase = "deleting" /\ seen.phase # "live")
    PROVE  LifeInv'
  <1>1. PhasesAgree(DeleteCalls)'
    BY DEF LifeInv, PhasesAgree
  <1>2. status.id < nextID' /\ seen.status.id < nextID'
    BY IDTypes DEF LifeInv, LBsIssued
  <1>3. pc # "idle" => obj.status.id < nextID'
    BY IDTypes DEF LifeInv, LBsIssued
  <1>4. LBsIssued'
    BY <1>2, <1>3 DEF LBsIssued
  <1> QED BY <1>1, <1>4 DEF LifeInv

\* The worker stops.
LEMMA StopLife ==
    ASSUME IndInv, LifeInv, Stop, UNCHANGED <<phase, seen, nextID>>, lb'.id \in {lb.id, 0},
           status' = status \/ (pc # "idle" /\ status' = obj.status)
    PROVE  LifeInv'
  <1>1. pc' = "idle" /\ lb'.id < nextID
    BY IDTypes DEF Stop, LifeInv, LBsIssued
  <1> QED BY <1>1, WorkerLife DEF DeleteCalls

\* What happens to the load balancer and to its object without the worker.
Environment ==
    \/ EditLoadBalancer \/ ServerReady \/ Relabel \/ ServerDestroyed \/ ServerObjectGoes
    \/ CertificateProceeds \/ CertificateDisturbed \/ Progress \/ External
    \/ (DeleteObject \/ CacheSync) /\ UNCHANGED hetzner

LEMMA EnvironmentLife ==
    ASSUME IndInv, LifeInv, Environment
    PROVE  /\ UNCHANGED <<status, nextID>> /\ lb'.id \in {lb.id, 0}
           /\ LifeInv'
  <1>1. /\ UNCHANGED <<pc, obj, status, nextID>>
        /\ \/ UNCHANGED <<phase, seen>>
           \/ phase' = phase /\ seen' = Current
           \/ phase = "live" /\ phase' = "deleting" /\ seen' = seen
    BY DEF Environment, EditLoadBalancer, Edit, ServerReady, Relabel, ServerDestroyed,
           ServerObjectGoes, CertificateProceeds, CertificateDisturbed, Progress, External,
           DeleteObject, CacheSync, object, worker, hetzner
  <1>2. lb'.id \in {lb.id, 0}
    <2>1. lb \in LBs
      BY DEF IndInv, TypeOK
    <2>2. CASE ServerDestroyed \/ Progress
      BY <2>1, <2>2 DEF ServerDestroyed, Progress, LBs
    <2>3. CASE External
      BY <2>1, <2>3, NoneFacts DEF External, LBs
    <2> QED BY <2>2, <2>3
        DEF Environment, EditLoadBalancer, ServerReady, Relabel, ServerObjectGoes,
            CertificateProceeds, CertificateDisturbed, hetzner
  <1>3. PhasesAgree(DeleteCalls)'
    BY <1>1 DEF LifeInv, PhasesAgree, Current
  <1>4. LBsIssued'
    <2>1. lb'.id < nextID
      BY <1>2, IDTypes DEF LifeInv, LBsIssued
    <2>2. seen'.status.id < nextID
      BY <1>1 DEF Current, LifeInv, LBsIssued
    <2> QED BY <1>1, <2>1, <2>2 DEF LifeInv, LBsIssued
  <1> QED BY <1>1, <1>2, <1>3, <1>4 DEF LifeInv

\* The worker takes the object.
LEMMA ReconcileLife ==
    ASSUME IndInv, LifeInv, Reconcile
    PROVE  LifeInv'
  <1>1. /\ UNCHANGED <<phase, seen, status, lb, nextID>> /\ lb'.id < nextID'
        /\ seen.status.id < nextID /\ seen \in Copies
    BY DEF Reconcile, object, hetzner, LifeInv, LBsIssued, IndInv, TypeOK
  <1>2. CASE seen.phase = "deleting"
    <2>1. obj' = Taken(NoPlan) /\ pc' \in DeleteCalls
      BY <1>2 DEF Reconcile, Call, DeleteCalls
    <2>2. obj'.phase = "deleting" /\ obj'.status = seen.status
      BY <1>2, <2>1 DEF Taken
    <2> QED BY <1>1, <1>2, <2>1, <2>2, WorkerLife
  <1>3. CASE seen.phase # "deleting"
    <2>1. seen.phase = "live" /\ phase # "gone"
      BY <1>1, <1>3 DEF Reconcile, Copies, Phases, LifeInv, PhasesAgree
    <2> DEFINE o == Taken([NoPlan EXCEPT !.targets = getSelectedServerIDs(seen.spec)])
               oc == [o EXCEPT !.plan.cert = certID]
    <2>2. o.status = seen.status /\ oc.status = seen.status
      BY DEF Taken
    <2>3. o \in Objects
      <3> DEFINE plan == [NoPlan EXCEPT !.targets = getSelectedServerIDs(seen.spec)]
      <3>1. plan \in Plans
        BY NoneFacts DEF Plans, getSelectedServerIDs
      <3> HIDE DEF plan
      <3> QED BY <1>1, <3>1, TakenFacts DEF plan
    <2>4. Lookup(o) \/ Pend(o) \/ Call("resolve", oc, NoInfo)
      BY <2>1 DEF Reconcile
    <2> HIDE DEF o, oc
    <2>5. Carries(o) \/ Carries(oc)
      BY <2>3, <2>4, FailCarries, LookupCarries
    <2>6. obj'.status.id = seen.status.id /\ pc' \notin DeleteCalls \cup {"idle"}
      BY <2>2, <2>5 DEF Carries
    <2> QED BY <1>1, <2>1, <2>6, WorkerLife
  <1> QED BY <1>2, <1>3

\* The calls for a live object: only CreateLoadBalancer brings a load balancer
\* about.
LEMMA CallsCarry ==
    ASSUME IndInv,
           \/ ResolveCertificate \/ LookupByID \/ LookupByName \/ CreateLoadBalancer
           \/ FetchServices \/ Refresh \/ ChangeSteps
    PROVE  /\ Carries(obj) \/ (Refresh /\ obj'.status.id = lb.id /\ pc' = "write")
           /\ \/ lb'.id = lb.id /\ nextID' = nextID
              \/ CreateLoadBalancer /\ lb'.id = nextID /\ nextID' = nextID + 1
  <1>1. lb \in LBs /\ obj \in Objects
    BY DEF ResolveCertificate, LookupByID, LookupByName, CreateLoadBalancer, FetchServices,
           Refresh, ChangeSteps, AttachServerToLoadBalancer, DetachServerFromLoadBalancer,
           DeleteService, AddService, UpdateService, IndInv, TypeOK, WorkerHolds
  <1>2. Fail(obj) \/ Pend(obj) => Carries(obj)
    BY <1>1, FailCarries
  <1>3. \A l : ReconcileTargets(obj, l) => Carries(obj)
    BY ProceedCarries DEF ReconcileTargets
  <1>4. CASE ResolveCertificate \/ LookupByID \/ LookupByName \/ FetchServices \/ Refresh
    <2>1. lb' = lb /\ nextID' = nextID
      BY <1>4 DEF ResolveCertificate, LookupByID, LookupByName, FetchServices, Refresh, hetzner
    <2>2. CASE ResolveCertificate
      BY <1>2, <2>1, <2>2, LookupCarries DEF ResolveCertificate
    <2>3. CASE LookupByID \/ LookupByName
      BY <1>3, <2>1, <2>3, LookupCarries DEF LookupByID, LookupByName
    <2>4. CASE FetchServices
      BY <1>2, <2>1, <2>4, ProceedCarries DEF FetchServices
    <2>5. CASE Refresh
      <3>1. CASE Fail(obj)
        BY <1>2, <2>1, <3>1
      <3>2. CASE ~Fail(obj)
        <4>1. obj'.status.id = lb.id /\ pc' = "write"
          BY <1>1, <2>5, <3>2 DEF Refresh, Done, Call, Objects
        <4> QED BY <2>1, <2>5, <4>1
      <3> QED BY <3>1, <3>2
    <2> QED BY <1>4, <2>2, <2>3, <2>4, <2>5
  <1>5. CASE CreateLoadBalancer
    <2>1. lb'.id = nextID /\ nextID' = nextID + 1
      BY <1>5 DEF CreateLoadBalancer, NoLB
    <2> QED BY <1>3, <1>5, <2>1 DEF CreateLoadBalancer
  <1>6. CASE ChangeSteps
    <2>1. nextID' = nextID
      BY <1>6 DEF ChangeSteps, AttachServerToLoadBalancer, DetachServerFromLoadBalancer,
         DeleteService, AddService, UpdateService
    <2>2. lb'.id = lb.id
      BY <1>1, <1>6 DEF ChangeSteps, AttachServerToLoadBalancer, DetachServerFromLoadBalancer,
         DeleteService, AddService, UpdateService, Changed, LBs
    <2>3. Carries(obj)
      BY <1>2, <1>6, ProceedCarries
      DEF ChangeSteps, AttachServerToLoadBalancer, DetachServerFromLoadBalancer,
          DeleteService, AddService, UpdateService
    <2> QED BY <2>1, <2>2, <2>3
  <1> QED BY <1>4, <1>5, <1>6

LEMMA CallsLife ==
    ASSUME IndInv, LifeInv,
           \/ ResolveCertificate \/ LookupByID \/ LookupByName \/ CreateLoadBalancer
           \/ FetchServices \/ Refresh \/ ChangeSteps
    PROVE  UNCHANGED <<phase, status>> /\ phase # "gone" /\ LifeInv'
  <1>1. UNCHANGED <<phase, seen, status>> /\ pc \notin DeleteCalls \cup {"idle"}
    BY DEF ResolveCertificate, LookupByID, LookupByName, CreateLoadBalancer, FetchServices,
           Refresh, ChangeSteps, AttachServerToLoadBalancer, DetachServerFromLoadBalancer,
           DeleteService, AddService, UpdateService, object, DeleteCalls
  <1>2. phase # "gone" /\ obj.status.id < nextID /\ lb.id < nextID
    BY <1>1 DEF LifeInv, PhasesAgree, LBsIssued
  <1>3. nextID \in Nat /\ lb.id \in Nat /\ obj.status.id \in Nat
    BY <1>1, IDTypes
  <1>4. nextID' \in {nextID, nextID + 1} /\ lb'.id < nextID'
    <2>1. \/ lb'.id = lb.id /\ nextID' = nextID
          \/ lb'.id = nextID /\ nextID' = nextID + 1
      BY CallsCarry
    <2> QED BY <1>2, <1>3, <2>1
  <1>5. obj'.status.id \in {obj.status.id, lb.id} /\ pc' \notin DeleteCalls \cup {"idle"}
    BY CallsCarry DEF Carries, DeleteCalls
  <1>6. obj'.status.id < nextID'
    BY <1>2, <1>3, <1>4, <1>5
  <1> QED BY <1>1, <1>2, <1>4, <1>5, <1>6, WorkerLife

\* The worker ends its reconcile, or a call fails.
LEMMA EndsLife ==
    ASSUME IndInv, LifeInv, UNCHANGED hetzner,
           \/ WriteStatus \/ Crash
           \/ CallFails({"resolve", "lookupByID", "lookupByName", "create", "attach", "detach",
                         "fetchServices", "dropService", "putService", "refresh"},
                        {"delete", "release"})
    PROVE  LifeInv'
  <1>1. /\ UNCHANGED <<phase, seen, lb, nextID>> /\ lb'.id < nextID'
        /\ status' = status \/ (pc # "idle" /\ status' = obj.status)
    BY DEF WriteStatus, Crash, CallFails, object, hetzner, LifeInv, LBsIssued
  <1>2. CASE Stop
    BY <1>1, <1>2, StopLife
  <1>3. CASE pc \notin DeleteCalls \cup {"idle"} /\ Fail(obj)
    <2>1. obj \in Objects /\ obj.status.id < nextID /\ phase # "gone"
      BY <1>3 DEF IndInv, WorkerHolds, LifeInv, LBsIssued, PhasesAgree
    <2>2. Carries(obj)
      BY <1>3, <2>1, FailCarries
    <2> QED BY <1>1, <2>1, <2>2, WorkerLife DEF Carries
  <1> QED BY <1>2, <1>3 DEF WriteStatus, Crash, CallFails, DeleteCalls

\* The deletion and the release.
LEMMA DeleteLife ==
    ASSUME IndInv, LifeInv, DeleteLoadBalancer
    PROVE  UNCHANGED <<phase, status, nextID>> /\ lb'.id \in {lb.id, 0} /\ LifeInv'
  <1>1. /\ UNCHANGED <<phase, seen, status, nextID>> /\ pc \in DeleteCalls /\ pc # "idle"
        /\ lb'.id \in {lb.id, 0}
    BY NoneFacts DEF DeleteLoadBalancer, object, DeleteCalls
  <1>2. /\ lb'.id < nextID /\ obj.status.id < nextID
        /\ obj.phase = "deleting" /\ seen.phase # "live"
    BY <1>1, IDTypes DEF LifeInv, LBsIssued, PhasesAgree
  <1>3. CASE Stop
    BY <1>1, <1>3, StopLife
  <1>4. CASE Call("release", obj, NoInfo)
    BY <1>1, <1>2, <1>4, WorkerLife DEF Call, DeleteCalls
  <1> QED BY <1>1, <1>3, <1>4 DEF DeleteLoadBalancer

LEMMA ReleaseLife ==
    ASSUME LifeInv, Release, UNCHANGED hetzner
    PROVE  LifeInv'
  <1>1. "release" \in DeleteCalls /\ "idle" \notin DeleteCalls
    BY DEF DeleteCalls
  <1>2. PhasesAgree(DeleteCalls)'
    BY <1>1, ReleaseAgrees DEF LifeInv
  <1>3. UNCHANGED <<status, seen, lb, nextID>> /\ pc' = "idle"
    BY DEF Release, Stop, hetzner
  <1> QED BY <1>1, <1>2, <1>3 DEF LifeInv, LBsIssued

\* The copies of the object's phase agree, and nobody names a load balancer
\* that Hetzner has not given out.
THEOREM LBLife == Spec => []LifeInv
  <1>1. Init => LifeInv
    BY DEF Init, WorkerInit, LifeInv, PhasesAgree, LBsIssued, DeleteCalls, Current, NoLB, NoStatus
  <1>2. IndInv /\ LifeInv /\ [Next]_vars => LifeInv'
    <2> SUFFICES ASSUME IndInv, LifeInv, [Next]_vars PROVE LifeInv'
      OBVIOUS
    <2>1. CASE UNCHANGED vars
      BY <2>1 DEF vars, LifeInv, PhasesAgree, LBsIssued
    <2>2. CASE Next
      BY <2>2, EnvironmentLife, ReconcileLife, CallsLife, EndsLife, DeleteLife, ReleaseLife
      DEF Next, Work, ChangeSteps, Environment
    <2> QED BY <2>1, <2>2
  <1> QED BY <1>1, <1>2, LBInvariant, PTL DEF Spec

-----------------------------------------------------------------------------
(* The steps of ManagedResource.                                           *)

\* The load balancer stays or goes: nothing happens, or Destroy.
LEMMA StaysOrGoes ==
    ASSUME UNCHANGED <<phase, nextID>>, status'.id = status.id, lb'.id \in {lb.id, 0}
    PROVE  M!Next
  <1>1. UNCHANGED <<ManagedPhase, Recorded, Issued>>
    BY DEF ManagedPhase, Recorded, Issued
  <1>2. Held' \subseteq Held
    BY DEF Held
  <1> QED BY <1>1, <1>2 DEF M!Next, M!Destroy

\* A load balancer is created: Provision.
LEMMA Provisions ==
    ASSUME UNCHANGED <<phase, status>>, phase \in Phases \ {"gone"},
           nextID \in Nat \ {0}, nextID' = nextID + 1, lb.id = 0, lb'.id = nextID
    PROVE  M!Next
  <1>1. ManagedPhase \in {"guarded", "terminating"} /\ UNCHANGED <<ManagedPhase, Recorded>>
    BY DEF ManagedPhase, Recorded, Phases
  <1>2. Held = {} /\ Held' = {nextID}
    BY DEF Held
  <1>3. Issued' = Issued \cup {nextID} /\ nextID \notin Issued
    BY DEF Issued
  <1> QED BY <1>1, <1>2, <1>3 DEF M!Next, M!Provision

\* The status takes up an ID: Record.
LEMMA Records ==
    ASSUME UNCHANGED <<phase, lb, nextID>>, phase \in Phases \ {"gone"},
           nextID \in Nat \ {0}, status'.id \in Nat, status'.id < nextID
    PROVE  M!Next
  <1>1. ManagedPhase \in {"guarded", "terminating"} /\ UNCHANGED ManagedPhase
    BY DEF ManagedPhase, Phases
  <1>2. UNCHANGED <<Held, Issued>>
    BY DEF Held, Issued
  <1>3. Recorded' \in Issued \cup {0}
    BY DEF Recorded, Issued
  <1> QED BY <1>1, <1>2, <1>3 DEF M!Next, M!Record

\* The object is deleted: Terminate.
LEMMA Terminates ==
    ASSUME UNCHANGED <<status, lb, nextID>>, phase = "live", phase' = "deleting"
    PROVE  M!Next
  <1>1. ManagedPhase = "guarded" /\ ManagedPhase' = "terminating"
    BY DEF ManagedPhase
  <1>2. UNCHANGED <<Recorded, Held, Issued>>
    BY DEF Recorded, Held, Issued
  <1> QED BY <1>1, <1>2 DEF M!Next, M!Terminate

\* The object goes: Release.
LEMMA Releases ==
    ASSUME UNCHANGED <<status, lb, nextID>>, phase = "deleting", phase' = "gone",
           status.id = 0 \/ lb.id # status.id
    PROVE  M!Next
  <1>1. ManagedPhase = "terminating" /\ ManagedPhase' = "absent"
    BY DEF ManagedPhase
  <1>2. UNCHANGED <<Held, Issued>> /\ Recorded' = 0 /\ Recorded \notin Held
    BY DEF Recorded, Held, Issued
  <1> QED BY <1>1, <1>2 DEF M!Next, M!Release

-----------------------------------------------------------------------------
(* Every step of the controller is one of them.                            *)

\* What happens without the worker, and what it does without a call.
LEMMA OthersManaged ==
    ASSUME IndInv, LifeInv,
           \/ Environment \/ Reconcile
           \/ /\ \/ Crash
                 \/ CallFails({"resolve", "lookupByID", "lookupByName", "create", "attach",
                               "detach", "fetchServices", "dropService", "putService",
                               "refresh"},
                              {"delete", "release"})
              /\ UNCHANGED hetzner
    PROVE  M!Next
  <1>1. CASE DeleteObject /\ UNCHANGED hetzner
    BY <1>1, Terminates DEF DeleteObject, hetzner
  <1>2. CASE Environment /\ ~DeleteObject
    <2>1. phase' = phase
      BY <1>2 DEF Environment, EditLoadBalancer, Edit, ServerReady, Relabel, ServerDestroyed,
         ServerObjectGoes, CertificateProceeds, CertificateDisturbed, Progress, External,
         CacheSync, object
    <2> QED BY <1>2, <2>1, EnvironmentLife, StaysOrGoes
  <1>3. CASE Environment /\ DeleteObject /\ ~UNCHANGED hetzner
    BY <1>3 DEF Environment, EditLoadBalancer, Edit, ServerReady, Relabel, ServerDestroyed,
       ServerObjectGoes, CertificateProceeds, CertificateDisturbed, Progress, External,
       DeleteObject, object
  <1>4. CASE /\ UNCHANGED hetzner
             /\ \/ Reconcile \/ Crash
                \/ CallFails({"resolve", "lookupByID", "lookupByName", "create", "attach",
                              "detach", "fetchServices", "dropService", "putService",
                              "refresh"},
                             {"delete", "release"})
    BY <1>4, StaysOrGoes DEF Reconcile, Crash, CallFails, object, hetzner
  <1> QED BY <1>1, <1>2, <1>3, <1>4 DEF Reconcile

\* The worker's calls.
LEMMA CallsManaged ==
    ASSUME IndInv, LifeInv,
           \/ ResolveCertificate \/ LookupByID \/ LookupByName \/ CreateLoadBalancer
           \/ FetchServices \/ Refresh \/ ChangeSteps \/ DeleteLoadBalancer
    PROVE  M!Next
  <1>1. CASE DeleteLoadBalancer
    BY <1>1, DeleteLife, StaysOrGoes
  <1>2. CASE ~DeleteLoadBalancer
    <2>1. /\ UNCHANGED <<phase, status>> /\ phase # "gone"
          /\ \/ lb'.id = lb.id /\ nextID' = nextID
             \/ CreateLoadBalancer /\ lb'.id = nextID /\ nextID' = nextID + 1
      BY <1>2, CallsLife, CallsCarry
    <2>2. CASE lb'.id = lb.id /\ nextID' = nextID
      BY <2>1, <2>2, StaysOrGoes
    <2>3. CASE CreateLoadBalancer /\ lb'.id = nextID /\ nextID' = nextID + 1
      <3>1. lb.id = 0 /\ phase \in Phases /\ nextID \in Nat \ {0}
        BY <2>3 DEF CreateLoadBalancer, IndInv, RightMoment, TypeOK
      <3> QED BY <2>1, <2>3, <3>1, Provisions
    <2> QED BY <2>1, <2>2, <2>3
  <1> QED BY <1>1, <1>2

\* The status write, for an object that still exists, and the release.
LEMMA EndsManaged ==
    ASSUME IndInv, LifeInv, WriteStatus \/ Release, UNCHANGED hetzner
    PROVE  M!Next
  <1>1. UNCHANGED <<lb, nextID>> /\ nextID \in Nat \ {0}
    BY DEF hetzner, IndInv, TypeOK
  <1>2. CASE WriteStatus
    <2>1. /\ phase' = phase /\ phase \in Phases \ {"gone"} /\ obj.status.id \in Nat
          /\ obj.status.id < nextID /\ (status' = obj.status \/ status' = status)
      BY <1>2, IDTypes
      DEF WriteStatus, IndInv, TypeOK, LifeInv, PhasesAgree, DeleteCalls, LBsIssued
    <2>2. CASE status' = status
      BY <1>1, <2>1, <2>2, StaysOrGoes
    <2>3. CASE status' = obj.status
      BY <1>1, <2>1, <2>3, Records
    <2> QED BY <2>1, <2>2, <2>3
  <1>3. CASE Release
    <2>1. status' = status
      BY <1>3 DEF Release
    <2>2. CASE [phase |-> obj.phase, spec |-> obj.spec, status |-> obj.status] = Current
      <3>1. /\ phase' = "gone" /\ phase = obj.phase /\ obj.status = status
            /\ obj.phase = "deleting" /\ (obj.status.id = 0 \/ lb.id # obj.status.id)
        BY <1>3, <2>2 DEF Release, Current, LifeInv, DeleteCalls, IndInv, RightMoment
      <3> QED BY <1>1, <2>1, <3>1, Releases
    <2>3. CASE [phase |-> obj.phase, spec |-> obj.spec, status |-> obj.status] # Current
      BY <1>1, <1>3, <2>1, <2>3, StaysOrGoes DEF Release
    <2> QED BY <2>2, <2>3
  <1> QED BY <1>2, <1>3

\* A load balancer is created only where there is none, under a new ID and for
\* an object that still exists; the status names only IDs that were issued; the
\* object goes only after the load balancer its status names: every step is one
\* of ManagedResource.
THEOREM LBManaged == Spec => KeepsManagedResource
  <1>1. IndInv /\ LifeInv /\ [Next]_vars => [M!Next]_(M!vars)
    <2> SUFFICES ASSUME IndInv, LifeInv, [Next]_vars PROVE [M!Next]_(M!vars)
      OBVIOUS
    <2>1. CASE UNCHANGED vars
      BY <2>1, StaysOrGoes DEF vars
    <2>2. CASE Next
      BY <2>2, OthersManaged, CallsManaged, EndsManaged DEF Next, Work, ChangeSteps, Environment
    <2> QED BY <2>1, <2>2
  <1> QED BY <1>1, LBInvariant, LBLife, PTL DEF Spec, KeepsManagedResource
=============================================================================
