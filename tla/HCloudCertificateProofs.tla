----------------------- MODULE HCloudCertificateProofs -----------------------
(***************************************************************************)
(* Proofs about HCloudCertificate for every Budget and ExternalOps: type   *)
(* correctness, that the controller implements CertificateRef, which is    *)
(* what a load balancer counts on, and that every step is one of           *)
(* ManagedResource.                                                        *)
(***************************************************************************)
EXTENDS HCloudCertificate, TLAPS

-----------------------------------------------------------------------------
(* The steps that all kinds share: types.                                  *)

\* The bookkeeping of disturbances keeps its type and only grows.
LEMMA SpendFacts ==
    ASSUME used \in [Disturbances -> Nat], NEW d \in Disturbances, Spend(d)
    PROVE  /\ used' \in [Disturbances -> Nat]
           /\ \A e \in Disturbances : used'[e] >= used[e]
           /\ used'[d] > used[d]
  <1>1. "any" \in Disturbances
    BY DEF Disturbances
  <1>2. CASE d = "any"
    BY <1>1, <1>2 DEF Spend
  <1>3. CASE d # "any"
    BY <1>1, <1>3 DEF Spend
  <1> QED BY <1>2, <1>3

\* At the start nothing has happened.
LEMMA WorkerInitTyped ==
    ASSUME NEW S, NEW T, spec \in S, status \in T, NEW D, "idle" \notin D, WorkerInit
    PROVE  ObjectTyped(S, T) /\ PhasesAgree(D)
  BY DEF WorkerInit, ObjectTyped, Current, Phases, PhasesAgree

\* The user's and the cache's steps keep the types and leave the worker alone.
LEMMA ObjectStepsTyped ==
    ASSUME NEW S, NEW T, ObjectTyped(S, T),
           (\E s \in S : Edit(s)) \/ DeleteObject \/ CacheSync
    PROVE  /\ ObjectTyped(S, T)' /\ UNCHANGED worker
           /\ status' = status /\ (seen' = seen \/ seen' = Current)
           /\ phase' = phase \/ (phase = "live" /\ phase' = "deleting")
           /\ phase' = phase \/ seen' = seen
  <1>1. ASSUME NEW s \in S, Edit(s)
        PROVE  ObjectTyped(S, T)'
    BY <1>1, SpendFacts DEF Edit, ObjectTyped, Disturbances
  <1>2. CASE DeleteObject
    BY <1>2, SpendFacts DEF DeleteObject, ObjectTyped, Phases, Disturbances
  <1>3. CASE CacheSync
    BY <1>3 DEF CacheSync, ObjectTyped, Current
  <1> QED BY <1>1, <1>2, <1>3 DEF Edit, DeleteObject, CacheSync

\* A worker that stops or moves on leaves the object alone, unless it writes
\* the status or lets the object go.
LEMMA WorkerStepsTyped ==
    ASSUME NEW S, NEW T, ObjectTyped(S, T),
           \/ WriteStatus /\ obj.status \in T
           \/ Release \/ Crash
           \/ UNCHANGED <<object, used>>
    PROVE  ObjectTyped(S, T)'
  <1>1. CASE WriteStatus /\ obj.status \in T
    BY <1>1, SpendFacts DEF WriteStatus, ObjectTyped, Disturbances
  <1>2. CASE Release
    BY <1>2 DEF Release, ObjectTyped, Phases
  <1>3. CASE Crash
    BY <1>3, SpendFacts DEF Crash, object, ObjectTyped, Disturbances
  <1>4. CASE UNCHANGED <<object, used>>
    BY <1>4 DEF object, ObjectTyped
  <1> QED BY <1>1, <1>2, <1>3, <1>4

\* So does a failed call.
LEMMA CallFailsTyped ==
    ASSUME NEW S, NEW T, ObjectTyped(S, T), NEW R, NEW D, CallFails(R, D)
    PROVE  /\ ObjectTyped(S, T)' /\ UNCHANGED object
           /\ \/ pc \in R /\ Fail(obj)
              \/ pc \in D /\ Stop
  BY SpendFacts DEF CallFails, object, ObjectTyped, Disturbances

-----------------------------------------------------------------------------
(* The steps that all kinds share: phases.                                 *)

\* The steps of the object keep what is known of the phases.
LEMMA ObjectStepsAgree ==
    ASSUME NEW S, NEW T, ObjectTyped(S, T), NEW D, PhasesAgree(D),
           (\E s \in S : Edit(s)) \/ DeleteObject \/ CacheSync
    PROVE  PhasesAgree(D)'
  BY DEF Edit, DeleteObject, CacheSync, PhasesAgree, ObjectTyped, Current, worker

\* Release lets an object go that the worker was shown in deletion.
LEMMA ReleaseAgrees ==
    ASSUME NEW D, PhasesAgree(D), "release" \in D, Release
    PROVE  PhasesAgree(D)'
  BY DEF Release, Stop, PhasesAgree

\* A step of the worker that leaves the object's phase and its cached copy:
\* it goes on, stops, or starts according to the phase the cache shows.
LEMMA WorkerStepAgrees ==
    ASSUME NEW D, PhasesAgree(D), UNCHANGED <<phase, seen>>,
           pc' \in D => pc \in D \/ seen.phase # "live",
           pc' \notin D \cup {"idle"} => pc \notin D \cup {"idle"} \/ seen.phase = "live"
    PROVE  PhasesAgree(D)'
  BY DEF PhasesAgree

-----------------------------------------------------------------------------
(* The records.                                                            *)

\* TypeOK says of the object what the shared lemmas need.
LEMMA ObjectIsTyped ==
    ASSUME TypeOK
    PROVE  ObjectTyped(Specs, Statuses)
  BY DEF TypeOK, ObjectTyped, Copies

\* The worker's copies of the object.
LEMMA CopyFacts ==
    ASSUME NEW o \in Objects
    PROVE  /\ o.status \in Statuses /\ o.spec \in Specs /\ o.phase \in Phases
           /\ [o EXCEPT !.status.ready = FALSE] \in Objects
           /\ [o EXCEPT !.status.ready = FALSE].status.id = o.status.id
           /\ \A st \in Statuses : /\ [o EXCEPT !.status = st] \in Objects
                                   /\ [o EXCEPT !.status = st].status = st
  BY DEF Objects, Statuses

\* The certificate's updates.
LEMMA CrtFacts ==
    ASSUME NEW c \in Crts, NEW l \in Labels, NEW i \in Issuances
    PROVE  /\ c.id \in Nat /\ c.labels \in Labels /\ c.issuance \in Issuances
           /\ [c EXCEPT !.labels = l] \in Crts
           /\ [c EXCEPT !.labels = l].id = c.id
           /\ [c EXCEPT !.labels = l].type = c.type
           /\ [c EXCEPT !.labels = l].issuance = c.issuance
           /\ [c EXCEPT !.issuance = i] \in Crts
           /\ [c EXCEPT !.issuance = i].id = c.id
           /\ [c EXCEPT !.issuance = i].type = c.type
           /\ [c EXCEPT !.issuance = i].issuance = i
  BY DEF Crts

\* No certificate.
LEMMA NoCrtFacts ==
    /\ NoCrt \in Crts /\ NoCrt.id = 0 /\ NoCrt.issuance = "none"
    /\ ~certificateReady(NoCrt)
  BY DEF NoCrt, Crts, Types, Labels, Issuances, certificateReady

\* What Reconcile takes from the cache.
LEMMA TakenFacts ==
    ASSUME seen \in Copies
    PROVE  /\ Taken(0) \in Objects /\ Taken(0).status = seen.status
           /\ Taken(0).phase = seen.phase
  BY DEF Taken, Copies, Objects

-----------------------------------------------------------------------------
(* Two ways in which a step keeps the invariant.                           *)

\* A step that leaves the worker alone.
LEMMA EnvironmentKeeps ==
    ASSUME IndInv, UNCHANGED <<pc, obj, info, nextID, status>>,
           ObjectTyped(Specs, Statuses)', PhasesAgree(DeleteCalls)',
           seen' = seen \/ seen' = Current,
           crt' \in Crts, inUse' \in BOOLEAN, crt'.id \in {crt.id, 0},
           OnlyManagedPends'
    PROVE  IndInv'
  <1>1. TypeOK'
    BY DEF IndInv, TypeOK, ObjectTyped, Copies
  <1>2. WorkerHolds'
    BY DEF IndInv, WorkerHolds
  <1>3. IDsIssued'
    <2>1. crt'.id < nextID
      BY DEF IndInv, IDsIssued, TypeOK
    <2>2. seen'.status.id < nextID
      BY DEF IndInv, IDsIssued, Current
    <2> QED BY <2>1, <2>2 DEF IndInv, IDsIssued
  <1>4. RightMoment'
    BY DEF IndInv, RightMoment
  <1> QED BY <1>1, <1>2, <1>3, <1>4 DEF IndInv

\* A step of the worker that changes at most its own state, the status it
\* writes and the certificate.
LEMMA WorkerKeeps ==
    ASSUME IndInv, UNCHANGED <<spec, seen, inUse>>,
           ObjectTyped(Specs, Statuses)', PhasesAgree(DeleteCalls)',
           status'.id < nextID',
           pc' \in PCs, obj' \in Objects \cup {NoObj}, info' \in Crts \cup {NoInfo},
           crt' \in Crts, nextID' \in Nat, nextID' >= nextID, crt'.id < nextID',
           OnlyManagedPends', RightMoment',
           pc' # "idle" => obj' \in Objects /\ obj'.status.id < nextID',
           pc' \in {"update", "refresh"} => info' \in Crts,
           pc' \in DeleteCalls => obj'.phase = "deleting"
    PROVE  IndInv'
  <1>1. nextID \in Nat \ {0} /\ seen.status.id \in Nat
    BY DEF IndInv, TypeOK, Copies, Statuses
  <1>2. TypeOK'
    BY <1>1 DEF IndInv, TypeOK, ObjectTyped, Copies
  <1>3. WorkerHolds'
    BY DEF WorkerHolds
  <1>4. IDsIssued'
    BY <1>1 DEF IndInv, IDsIssued
  <1> QED BY <1>2, <1>3, <1>4 DEF IndInv

\* The worker stops, on a failure or a crash or at the end.
LEMMA StopKeeps ==
    ASSUME IndInv, Stop, UNCHANGED <<spec, seen, inUse, crt, nextID>>,
           ObjectTyped(Specs, Statuses)', PhasesAgree(DeleteCalls)',
           status'.id < nextID
    PROVE  IndInv'
  <1>1. pc' = "idle" /\ obj' = NoObj /\ info' = NoInfo
    BY DEF Stop
  <1>2. crt \in Crts /\ nextID \in Nat /\ crt.id < nextID /\ OnlyManagedPends'
    BY DEF IndInv, TypeOK, IDsIssued, OnlyManagedPends
  <1>3. RightMoment' /\ pc' \in PCs /\ pc' \notin DeleteCalls
    BY <1>1 DEF RightMoment, PCs, DeleteCalls
  <1> QED BY <1>1, <1>2, <1>3, WorkerKeeps

\* The worker goes on to a call of Resource.Reconcile or to the status write.
LEMMA LiveKeeps ==
    ASSUME IndInv, UNCHANGED <<object, used, inUse>>, pc \notin DeleteCalls, pc # "idle",
           pc' \in PCs \ (DeleteCalls \cup {"idle"}),
           obj' \in Objects, obj'.status.id < nextID', info' \in Crts \cup {NoInfo},
           pc' \in {"update", "refresh"} => info' \in Crts,
           pc' = "create" => crt'.id = 0,
           crt' \in Crts, nextID' \in Nat, nextID' >= nextID, crt'.id < nextID',
           OnlyManagedPends'
    PROVE  IndInv'
  <1>1. UNCHANGED <<phase, spec, status, seen, used>>
    BY DEF object
  <1>2. ObjectTyped(Specs, Statuses)'
    BY ObjectIsTyped, WorkerStepsTyped DEF IndInv
  <1>3. PhasesAgree(DeleteCalls)'
    BY <1>1, WorkerStepAgrees DEF IndInv
  <1>4. status'.id < nextID'
    BY <1>1 DEF IndInv, IDsIssued, TypeOK, Statuses
  <1>5. RightMoment'
    BY DEF RightMoment, DeleteCalls
  <1> QED BY <1>1, <1>2, <1>3, <1>4, <1>5, WorkerKeeps DEF DeleteCalls

-----------------------------------------------------------------------------
(* The invariant holds at the start and every step keeps it.               *)

\* A fresh object and an empty project.
LEMMA InitIndInv == Init => IndInv
  <1> SUFFICES ASSUME Init PROVE IndInv
    OBVIOUS
  <1>1. NoStatus \in Statuses /\ NoStatus.id = 0
    BY DEF NoStatus, Statuses, Issuances
  <1>2. ObjectTyped(Specs, Statuses) /\ PhasesAgree(DeleteCalls)
    <2>1. "idle" \notin DeleteCalls /\ spec \in Specs /\ status \in Statuses /\ WorkerInit
      BY <1>1 DEF Init, DeleteCalls
    <2> QED BY <2>1, WorkerInitTyped
  <1>3. pc = "idle" /\ obj = NoObj /\ info = NoInfo /\ seen.status = NoStatus
    BY DEF Init, WorkerInit, Current
  <1>4. TypeOK
    <2>0. inUse \in BOOLEAN
      BY Zenon DEF Init
    <2>1. crt \in Crts /\ nextID \in Nat \ {0}
      BY NoCrtFacts DEF Init
    <2>2. pc \in PCs /\ obj \in Objects \cup {NoObj} /\ info \in Crts \cup {NoInfo}
      BY <1>3 DEF PCs
    <2> QED BY <1>2, <2>0, <2>1, <2>2 DEF TypeOK, ObjectTyped, Copies
  <1>5. IDsIssued /\ WorkerHolds /\ RightMoment /\ OnlyManagedPends
    BY <1>1, <1>3, NoCrtFacts
    DEF Init, IDsIssued, WorkerHolds, RightMoment, OnlyManagedPends, DeleteCalls
  <1> QED BY <1>2, <1>4, <1>5 DEF IndInv

\* The user and the cache.
LEMMA ObjectStepsIndInv ==
    ASSUME IndInv, EditLabels \/ ((DeleteObject \/ CacheSync) /\ UNCHANGED hetzner)
    PROVE  IndInv'
  <1>1. UNCHANGED <<crt, nextID, inUse>>
    BY DEF EditLabels, hetzner
  <1>2. (\E s \in Specs : Edit(s)) \/ DeleteObject \/ CacheSync
    <2>1. \A l \in Labels : [spec EXCEPT !.labels = l] \in Specs
      BY DEF IndInv, TypeOK, Specs
    <2> QED BY <2>1 DEF EditLabels
  <1>3. /\ ObjectTyped(Specs, Statuses)' /\ UNCHANGED <<pc, obj, info, status>>
        /\ seen' = seen \/ seen' = Current
    BY <1>2, ObjectIsTyped, ObjectStepsTyped DEF IndInv, worker
  <1>4. PhasesAgree(DeleteCalls)'
    BY <1>2, ObjectIsTyped, ObjectStepsAgree DEF IndInv
  <1>5. /\ crt' \in Crts /\ inUse' \in BOOLEAN /\ crt'.id \in {crt.id, 0}
        /\ OnlyManagedPends'
    BY <1>1 DEF IndInv, TypeOK, OnlyManagedPends
  <1> QED BY <1>1, <1>3, <1>4, <1>5, EnvironmentKeeps

\* Load balancers, Hetzner and others.
LEMMA CloudStepsIndInv ==
    ASSUME IndInv, Use \/ Progress \/ External
    PROVE  IndInv'
  <1>1. UNCHANGED <<phase, spec, status, seen, pc, obj, info, nextID>>
    BY DEF Use, Progress, External, object, worker
  <1>2. crt \in Crts /\ inUse \in BOOLEAN /\ used \in [Disturbances -> Nat]
    BY DEF IndInv, TypeOK
  <1>3. used' \in [Disturbances -> Nat]
    BY <1>2, SpendFacts DEF Use, Progress, External, Disturbances
  <1>4. ObjectTyped(Specs, Statuses)' /\ PhasesAgree(DeleteCalls)'
    BY <1>1, <1>3, ObjectIsTyped DEF IndInv, ObjectTyped, PhasesAgree
  <1>5. crt' \in Crts /\ inUse' \in BOOLEAN /\ crt'.id \in {crt.id, 0} /\ OnlyManagedPends'
    <2>1. CASE Use
      BY <1>2, <2>1 DEF Use, IndInv, OnlyManagedPends
    <2>2. CASE Progress
      <3>1. PICK i \in {"completed", "failed"} : crt' = [crt EXCEPT !.issuance = i]
        BY <2>2 DEF Progress
      <3>2. i \in Issuances /\ i # "pending" /\ 0 \in Labels
        BY DEF Issuances, Labels
      <3> QED BY <1>2, <2>2, <3>1, <3>2, CrtFacts DEF Progress, OnlyManagedPends
    <2>3. CASE External
      <3>1. CASE crt' = NoCrt
        BY <1>2, <2>3, <3>1, NoCrtFacts DEF External, OnlyManagedPends
      <3>2. ASSUME NEW l \in Labels, crt' = [crt EXCEPT !.labels = l]
            PROVE  crt' \in Crts /\ crt'.id = crt.id /\ OnlyManagedPends'
        <4>1. "none" \in Issuances
          BY DEF Issuances
        <4> QED BY <1>2, <3>2, <4>1, CrtFacts DEF IndInv, OnlyManagedPends
      <3> QED BY <1>2, <2>3, <3>1, <3>2 DEF External
    <2> QED BY <2>1, <2>2, <2>3
  <1> QED BY <1>1, <1>4, <1>5, EnvironmentKeeps

\* The worker starts from the cached copy.
LEMMA ReconcileIndInv == IndInv /\ Reconcile => IndInv'
  <1> SUFFICES ASSUME IndInv, Reconcile PROVE IndInv'
    OBVIOUS
  <1>1. /\ UNCHANGED <<phase, spec, status, seen, used, crt, nextID, inUse>>
        /\ UNCHANGED <<object, used>>
        /\ obj' = Taken(0) /\ info' = NoInfo /\ pc = "idle" /\ seen.phase # "gone"
    BY DEF Reconcile, Call, object, hetzner
  <1>2. \/ pc' \in {"lookupByID", "lookupByName"} /\ seen.phase = "live"
        \/ pc' = "delete" /\ seen.phase = "deleting"
        \/ pc' = "release" /\ seen.phase = "deleting" /\ seen.status.id = 0
    BY <1>1 DEF Reconcile, Call, IndInv, TypeOK, Copies, Phases
  <1>3. /\ obj' \in Objects /\ obj'.status = seen.status /\ obj'.phase = seen.phase
    BY <1>1, TakenFacts DEF IndInv, TypeOK
  <1>4. ObjectTyped(Specs, Statuses)' /\ PhasesAgree(DeleteCalls)'
    BY <1>1, <1>2, ObjectIsTyped, WorkerStepsTyped, WorkerStepAgrees DEF IndInv, DeleteCalls
  <1>5. RightMoment' /\ OnlyManagedPends'
    BY <1>1, <1>2, <1>3 DEF IndInv, RightMoment, OnlyManagedPends
  <1>6. /\ crt' \in Crts /\ nextID' \in Nat /\ nextID' >= nextID /\ crt'.id < nextID'
        /\ status'.id < nextID' /\ obj'.status.id < nextID'
    BY <1>1, <1>3 DEF IndInv, TypeOK, IDsIssued
  <1>7. pc' \in PCs /\ (pc' \in DeleteCalls => obj'.phase = "deleting")
    BY <1>2, <1>3 DEF PCs, DeleteCalls
  <1> QED BY <1>1, <1>2, <1>3, <1>4, <1>5, <1>6, <1>7, WorkerKeeps

\* The lookups, and going on with the certificate they find.
LEMMA LookupIndInv == IndInv /\ (LookupByID \/ LookupByName) => IndInv'
  <1> SUFFICES ASSUME IndInv, LookupByID \/ LookupByName PROVE IndInv'
    OBVIOUS
  <1>1. /\ pc \in {"lookupByID", "lookupByName"}
        /\ UNCHANGED <<object, used, crt, nextID, inUse>>
    BY DEF LookupByID, LookupByName, hetzner
  <1>2. /\ obj' = obj /\ pc' \in {"refresh", "update", "lookupByName", "create"}
        /\ info' \in {crt, NoInfo} /\ (pc' \in {"update", "refresh"} => info' = crt)
        /\ pc' = "create" => crt.id = 0
    BY DEF LookupByID, LookupByName, ensureCertificateMetadata, Call
  <1>3. /\ obj \in Objects /\ obj.status.id < nextID /\ crt \in Crts /\ nextID \in Nat
        /\ crt.id < nextID /\ OnlyManagedPends' /\ nextID >= nextID
    BY <1>1 DEF IndInv, WorkerHolds, IDsIssued, TypeOK, OnlyManagedPends
  <1>4. pc \notin DeleteCalls /\ pc # "idle" /\ pc' \in PCs \ (DeleteCalls \cup {"idle"})
    BY <1>1, <1>2 DEF DeleteCalls, PCs
  <1> QED BY <1>1, <1>2, <1>3, <1>4, LiveKeeps

\* The new certificate has the next ID.
LEMMA CreateIndInv == IndInv /\ CreateCertificate => IndInv'
  <1> SUFFICES ASSUME IndInv, CreateCertificate PROVE IndInv'
    OBVIOUS
  <1>1. /\ pc = "create" /\ UNCHANGED <<object, used, inUse>> /\ nextID' = nextID + 1
        /\ obj' = obj /\ info' = crt' /\ pc' \in {"refresh", "update"}
    BY DEF CreateCertificate, ensureCertificateMetadata, Call
  <1>2. obj \in Objects /\ obj.status.id < nextID /\ obj.status.id \in Nat /\ nextID \in Nat
    <2>1. obj \in Objects
      BY <1>1 DEF IndInv, WorkerHolds
    <2> QED BY <1>1, <2>1, CopyFacts DEF IndInv, IDsIssued, TypeOK, Statuses
  <1>3. crt' \in Crts /\ crt'.id = nextID /\ OnlyManagedPends'
    <2>1. obj.spec.type \in Types /\ obj.spec.labels \in Labels
      BY <1>2, CopyFacts DEF Specs
    <2>2. nextID # 0
      BY DEF IndInv, TypeOK
    <2> QED BY <1>2, <2>1, <2>2 DEF CreateCertificate, Crts, Issuances, OnlyManagedPends
  <1>4. nextID' \in Nat /\ nextID' >= nextID /\ crt'.id < nextID' /\ obj'.status.id < nextID'
    BY <1>1, <1>2, <1>3
  <1>5. pc \notin DeleteCalls /\ pc # "idle" /\ pc' \in PCs \ (DeleteCalls \cup {"idle"})
    BY <1>1 DEF DeleteCalls, PCs
  <1> QED BY <1>1, <1>2, <1>3, <1>4, <1>5, LiveKeeps

\* The failure path of Resource.Reconcile.
LEMMA FailIndInv ==
    ASSUME IndInv, Fail(obj), pc \notin DeleteCalls, pc # "idle",
           UNCHANGED <<phase, spec, status, seen, crt, nextID, inUse>>,
           used' \in [Disturbances -> Nat]
    PROVE  IndInv'
  <1>1. /\ obj \in Objects /\ obj.status.id < nextID /\ crt \in Crts /\ nextID \in Nat
        /\ crt.id < nextID /\ OnlyManagedPends' /\ nextID >= nextID /\ status.id < nextID
    BY DEF IndInv, WorkerHolds, IDsIssued, TypeOK, OnlyManagedPends
  <1>2. /\ pc' = "write" /\ info' = NoInfo
        /\ obj' \in Objects /\ obj'.status.id = obj.status.id
    BY <1>1, CopyFacts DEF Fail, Call
  <1>3. ObjectTyped(Specs, Statuses)'
    BY ObjectIsTyped DEF IndInv, ObjectTyped
  <1>4. pc' \notin DeleteCalls \cup {"idle"} /\ pc' \in PCs
    BY <1>2 DEF DeleteCalls, PCs
  <1>5. PhasesAgree(DeleteCalls)' /\ RightMoment'
    BY <1>2, <1>4, WorkerStepAgrees DEF IndInv, RightMoment
  <1> QED BY <1>1, <1>2, <1>3, <1>4, <1>5, WorkerKeeps

\* Setting the labels of the certificate the worker holds.
LEMMA UpdateIndInv == IndInv /\ UpdateCertificate => IndInv'
  <1> SUFFICES ASSUME IndInv, UpdateCertificate PROVE IndInv'
    OBVIOUS
  <1>1. pc = "update" /\ UNCHANGED <<object, used, nextID, inUse>>
    BY DEF UpdateCertificate
  <1>2. pc \notin DeleteCalls /\ pc # "idle"
    BY <1>1 DEF DeleteCalls
  <1>3. CASE Fail(obj) /\ UNCHANGED crt
    BY <1>1, <1>2, <1>3, FailIndInv DEF object, IndInv, TypeOK
  <1>4. CASE /\ crt' = [crt EXCEPT !.labels = obj.spec.labels]
             /\ Call("refresh", obj, info)
    <2>1. /\ obj \in Objects /\ obj.status.id < nextID /\ crt \in Crts /\ nextID \in Nat
          /\ crt.id < nextID /\ OnlyManagedPends /\ nextID >= nextID /\ info \in Crts
      BY <1>1 DEF IndInv, WorkerHolds, IDsIssued, TypeOK
    <2>2. obj.spec.labels \in Labels /\ "none" \in Issuances
      BY <2>1, CopyFacts DEF Specs, Issuances
    <2>3. /\ crt' \in Crts /\ crt'.id = crt.id /\ OnlyManagedPends'
      BY <1>4, <2>1, <2>2, CrtFacts DEF OnlyManagedPends
    <2>4. pc' = "refresh" /\ obj' = obj /\ info' = info
      BY <1>4 DEF Call
    <2>5. pc' \in PCs \ (DeleteCalls \cup {"idle"}) /\ pc' # "create"
      BY <2>4 DEF PCs, DeleteCalls
    <2> QED BY <1>1, <1>2, <2>1, <2>3, <2>4, <2>5, LiveKeeps
  <1> QED BY <1>3, <1>4 DEF UpdateCertificate

\* The last look at the certificate fills the status.
LEMMA RefreshIndInv == IndInv /\ Refresh => IndInv'
  <1> SUFFICES ASSUME IndInv, Refresh PROVE IndInv'
    OBVIOUS
  <1>1. pc = "refresh" /\ UNCHANGED <<object, used, crt, nextID, inUse>>
    BY DEF Refresh, hetzner
  <1>2. pc \notin DeleteCalls /\ pc # "idle"
    BY <1>1 DEF DeleteCalls
  <1>3. CASE Fail(obj)
    BY <1>1, <1>2, <1>3, FailIndInv DEF object, IndInv, TypeOK
  <1>4. CASE syncCertificateStatus(obj, crt)
    <2>1. /\ obj \in Objects /\ crt \in Crts /\ nextID \in Nat
          /\ crt.id < nextID /\ OnlyManagedPends' /\ nextID >= nextID
      BY <1>1 DEF IndInv, WorkerHolds, IDsIssued, TypeOK, OnlyManagedPends
    <2> DEFINE st == [id |-> crt.id, issuance |-> crt.issuance, ready |-> certificateReady(crt)]
    <2>2. st \in Statuses /\ st.id = crt.id
      BY <2>1 DEF Statuses, Crts, certificateReady
    <2>3. pc' = "write" /\ obj' = [obj EXCEPT !.status = st] /\ info' = NoInfo
      BY <1>4 DEF syncCertificateStatus, Done, Call
    <2> HIDE DEF st
    <2>4. obj' \in Objects /\ obj'.status.id = crt.id
      BY <2>1, <2>2, <2>3, CopyFacts
    <2>5. pc' \in PCs \ (DeleteCalls \cup {"idle"}) /\ pc' \notin {"create", "update", "refresh"}
      BY <2>3 DEF PCs, DeleteCalls
    <2> QED BY <1>1, <1>2, <2>1, <2>3, <2>4, <2>5, LiveKeeps
  <1> QED BY <1>3, <1>4 DEF Refresh

\* After the call the certificate of the worker's copy is gone, unless it is
\* in use: then the worker stops.
LEMMA DeleteIndInv == IndInv /\ DeleteCertificate => IndInv'
  <1> SUFFICES ASSUME IndInv, DeleteCertificate PROVE IndInv'
    OBVIOUS
  <1>1. /\ pc = "delete" /\ UNCHANGED <<object, used, nextID, inUse>>
        /\ UNCHANGED <<phase, spec, status, seen>>
    BY DEF DeleteCertificate, object
  <1>2. /\ obj \in Objects /\ obj.status.id < nextID /\ crt \in Crts /\ nextID \in Nat \ {0}
        /\ crt.id < nextID /\ OnlyManagedPends /\ nextID >= nextID /\ status.id < nextID
        /\ obj.phase = "deleting"
    BY <1>1 DEF IndInv, WorkerHolds, IDsIssued, TypeOK, DeleteCalls
  <1>3. ObjectTyped(Specs, Statuses)'
    BY <1>1, ObjectIsTyped, WorkerStepsTyped DEF IndInv
  <1>4. CASE Stop /\ UNCHANGED crt
    <2>1. pc' = "idle" /\ pc' \notin DeleteCalls
      BY <1>4 DEF Stop, DeleteCalls
    <2>2. PhasesAgree(DeleteCalls)'
      BY <1>1, <2>1, WorkerStepAgrees DEF IndInv
    <2> QED BY <1>1, <1>2, <1>3, <1>4, <2>2, StopKeeps
  <1>5. CASE /\ crt' = IF crt.id = obj.status.id THEN NoCrt ELSE crt
             /\ Call("release", obj, NoInfo)
    <2>1. pc' = "release" /\ obj' = obj /\ info' = NoInfo
      BY <1>5 DEF Call
    <2>2. pc \in DeleteCalls /\ pc' \in DeleteCalls /\ pc' \in PCs
      BY <1>1, <2>1 DEF DeleteCalls, PCs
    <2>3. PhasesAgree(DeleteCalls)'
      BY <1>1, <2>2, WorkerStepAgrees DEF IndInv
    <2>4. /\ crt' \in Crts /\ crt'.id < nextID /\ OnlyManagedPends'
          /\ obj.status.id = 0 \/ crt'.id # obj.status.id
      BY <1>2, <1>5, NoCrtFacts DEF OnlyManagedPends
    <2>5. RightMoment'
      BY <2>1, <2>4 DEF RightMoment
    <2> QED BY <1>1, <1>2, <1>3, <2>1, <2>2, <2>3, <2>4, <2>5, WorkerKeeps
  <1> QED BY <1>4, <1>5 DEF DeleteCertificate

\* The status write, the release, a crash.
LEMMA EndsIndInv ==
    ASSUME IndInv, WriteStatus \/ Release \/ Crash, UNCHANGED hetzner
    PROVE  IndInv'
  <1>1. /\ Stop /\ UNCHANGED <<spec, seen, crt, nextID, inUse>>
        /\ pc # "idle" /\ obj \in Objects /\ obj.status.id < nextID
        /\ status'.id < nextID
    BY DEF WriteStatus, Release, Crash, object, hetzner, IndInv, WorkerHolds, IDsIssued
  <1>2. ObjectTyped(Specs, Statuses)'
    <2>1. obj.status \in Statuses
      BY <1>1, CopyFacts
    <2> QED BY <2>1, ObjectIsTyped, WorkerStepsTyped DEF IndInv
  <1>3. PhasesAgree(DeleteCalls)'
    <2>1. pc' = "idle" /\ "release" \in DeleteCalls /\ "idle" \notin DeleteCalls
      BY <1>1 DEF Stop, DeleteCalls
    <2>2. CASE WriteStatus \/ Crash
      BY <2>1, <2>2, WorkerStepAgrees DEF IndInv, WriteStatus, Crash, object
    <2>3. CASE Release
      BY <2>1, <2>3, ReleaseAgrees DEF IndInv
    <2> QED BY <2>2, <2>3
  <1> QED BY <1>1, <1>2, <1>3, StopKeeps DEF hetzner

\* A remote call fails.
LEMMA CallFailsIndInv ==
    ASSUME IndInv, UNCHANGED hetzner,
           CallFails({"lookupByID", "lookupByName", "create", "update", "refresh"},
                     {"delete", "release"})
    PROVE  IndInv'
  <1>1. /\ ObjectTyped(Specs, Statuses)' /\ UNCHANGED <<phase, spec, status, seen>>
        /\ \/ pc \in {"lookupByID", "lookupByName", "create", "update", "refresh"} /\ Fail(obj)
           \/ pc \in {"delete", "release"} /\ Stop
    BY ObjectIsTyped, CallFailsTyped DEF IndInv, object
  <1>2. UNCHANGED <<crt, nextID, inUse>> /\ used' \in [Disturbances -> Nat]
    BY <1>1 DEF hetzner, ObjectTyped
  <1>3. CASE pc \in {"lookupByID", "lookupByName", "create", "update", "refresh"} /\ Fail(obj)
    BY <1>1, <1>2, <1>3, FailIndInv DEF DeleteCalls
  <1>4. CASE Stop
    <2>1. pc' = "idle" /\ "idle" \notin DeleteCalls /\ status'.id < nextID
      BY <1>1, <1>4 DEF Stop, DeleteCalls, IndInv, IDsIssued
    <2>2. PhasesAgree(DeleteCalls)'
      BY <1>1, <2>1, WorkerStepAgrees DEF IndInv
    <2> QED BY <1>1, <1>2, <1>4, <2>1, <2>2, StopKeeps
  <1> QED BY <1>1, <1>3, <1>4

\* Every step of the specification keeps the invariant.
LEMMA NextIndInv == IndInv /\ [Next]_vars => IndInv'
  <1> SUFFICES ASSUME IndInv, [Next]_vars PROVE IndInv'
    OBVIOUS
  <1>1. CASE UNCHANGED vars
    BY <1>1 DEF vars, IndInv, TypeOK, PhasesAgree, WorkerHolds, IDsIssued, RightMoment,
                OnlyManagedPends
  <1>2. CASE Next
    BY <1>2, ObjectStepsIndInv, CloudStepsIndInv, ReconcileIndInv, LookupIndInv, CreateIndInv,
       UpdateIndInv, RefreshIndInv, DeleteIndInv, EndsIndInv, CallFailsIndInv
    DEF Next, Work
  <1> QED BY <1>1, <1>2

\* The inductive invariant holds in every reachable state.
THEOREM CertificateInvariant == Spec => []IndInv
  BY InitIndInv, NextIndInv, PTL DEF Spec

\* Every variable of the certificate controller keeps its type.
THEOREM CertificateTypes == Spec => []TypeOK
  <1>1. IndInv => TypeOK
    BY DEF IndInv
  <1> QED BY <1>1, CertificateInvariant, PTL

-----------------------------------------------------------------------------
(* The controller implements CertificateRef.                               *)

\* A certificate as a load balancer sees it.
Shown(c) == [id |-> c.id, ready |-> certificateReady(c)]

\* Nothing a load balancer looks at changes.
LEMMA Unseen ==
    ASSUME UNCHANGED <<phase, nextID, inUse>>, status'.id = status.id, Shown(crt') = Shown(crt)
    PROVE  UNCHANGED C!vars
  BY DEF C!vars, Shown, certificateReady

\* Relabelling shows nothing; the end of an issuance makes the certificate
\* ready or shows nothing; no certificate is shown as none.
LEMMA ShownFacts ==
    ASSUME NEW c \in Crts
    PROVE  /\ \A l \in Labels : Shown([c EXCEPT !.labels = l]) = Shown(c)
           /\ c.issuance = "pending" /\ c.type = "managed"
                => /\ Shown([c EXCEPT !.issuance = "failed"]) = Shown(c)
                   /\ ~certificateReady(c)
                   /\ c.id # 0 => certificateReady([c EXCEPT !.issuance = "completed"])
           /\ Shown(NoCrt) = C!NoCert
           /\ c.id = 0 => Shown(c) = C!NoCert
  BY DEF Crts, Shown, certificateReady, NoCrt, C!NoCert

\* Replacing one field of what is shown.
LEMMA ReadyChanged ==
    ASSUME NEW i, NEW a, NEW b
    PROVE  [[id |-> i, ready |-> a] EXCEPT !.ready = b] = [id |-> i, ready |-> b]
  OBVIOUS

\* Hetzner's steps: an issuance ends, a load balancer comes or goes, others
\* delete the certificate when no load balancer uses it.
LEMMA CloudStepsShown ==
    ASSUME IndInv, Use \/ Progress \/ External
    PROVE  [C!Next]_C!vars
  <1>1. UNCHANGED <<phase, status, nextID>> /\ crt \in Crts /\ inUse \in BOOLEAN
    BY DEF Use, Progress, External, object, IndInv, TypeOK
  <1>2. CASE Use
    <2>1. crt' = crt /\ inUse' = ~inUse /\ (~inUse => certificateReady(crt))
      BY <1>2 DEF Use
    <2>2. certificateReady(crt) \in BOOLEAN
      BY DEF certificateReady
    <2>3. inUse' = (~inUse /\ certificateReady(crt)) /\ inUse' # inUse
      BY <1>1, <2>1, <2>2, Zenon
    <2> QED BY <1>1, <2>1, <2>3 DEF C!Next, certificateReady
  <1>3. CASE Progress
    <2>1. /\ crt.issuance = "pending" /\ crt.id # 0 /\ crt.type = "managed" /\ inUse' = inUse
      BY <1>3 DEF Progress, IndInv, OnlyManagedPends
    <2>2. CASE crt' = [crt EXCEPT !.issuance = "failed"]
      BY <1>1, <2>1, <2>2, ShownFacts, Unseen
    <2>3. CASE crt' = [crt EXCEPT !.issuance = "completed"]
      <3>1. crt'.id = crt.id /\ certificateReady(crt') /\ ~certificateReady(crt)
        BY <1>1, <2>1, <2>3, ShownFacts DEF Crts
      <3>2. C!Issued
        <4>1. certificateReady(crt)' = TRUE /\ certificateReady(crt) = FALSE
          BY <3>1 DEF certificateReady
        <4>2. /\ Shown(crt)' = [id |-> crt.id, ready |-> TRUE]
              /\ Shown(crt) = [id |-> crt.id, ready |-> FALSE]
          BY <3>1, <4>1, Zenon DEF Shown
        <4>3. /\ Shown(crt)' = [Shown(crt) EXCEPT !.ready = TRUE]
              /\ Shown(crt).id # 0 /\ ~Shown(crt).ready
          <5>1. [[id |-> crt.id, ready |-> FALSE] EXCEPT !.ready = TRUE]
                  = [id |-> crt.id, ready |-> TRUE]
            BY ReadyChanged, Zenon
          <5>2. Shown(crt)' = [Shown(crt) EXCEPT !.ready = TRUE]
            BY <4>2, <5>1, Zenon
          <5>3. Shown(crt).id # 0 /\ ~Shown(crt).ready
            BY <2>1, <3>1 DEF Shown
          <5> QED BY <5>2, <5>3
        <4> QED BY <1>1, <4>3 DEF C!Issued, Shown
      <3> QED BY <2>1, <3>2 DEF C!Next
    <2> QED BY <1>3, <2>2, <2>3 DEF Progress
  <1>4. CASE External
    <2>1. inUse' = inUse /\ crt.id # 0
      BY <1>4 DEF External
    <2>2. CASE ~inUse /\ crt' = NoCrt
      <3>1. C!Destroyed
        BY <1>1, <2>1, <2>2 DEF C!Destroyed, C!NoCert, NoCrt, certificateReady
      <3> QED BY <2>1, <3>1 DEF C!Next
    <2>3. ASSUME NEW l \in Labels, crt' = [crt EXCEPT !.labels = l]
          PROVE  UNCHANGED C!vars
      BY <1>1, <2>1, <2>3, ShownFacts, Unseen
    <2> QED BY <1>4, <2>2, <2>3 DEF External
  <1> QED BY <1>2, <1>3, <1>4

\* The worker's calls: it creates a certificate for an object that is not gone
\* when there is none, and destroys it when no load balancer uses it.
LEMMA CallsShown ==
    ASSUME IndInv,
           \/ Reconcile \/ LookupByID \/ LookupByName \/ CreateCertificate
           \/ UpdateCertificate \/ Refresh \/ DeleteCertificate
    PROVE  [C!Next]_C!vars
  <1>1. /\ UNCHANGED <<phase, status, inUse>> /\ crt \in Crts
        /\ nextID \in Nat /\ phase \in Phases
    BY DEF Reconcile, LookupByID, LookupByName, CreateCertificate, UpdateCertificate, Refresh,
           DeleteCertificate, object, hetzner, IndInv, TypeOK
  <1>2. CASE Reconcile \/ LookupByID \/ LookupByName \/ Refresh
    BY <1>1, <1>2, Unseen DEF Reconcile, LookupByID, LookupByName, Refresh, hetzner
  <1>3. CASE CreateCertificate
    <2>1. crt.id = 0 /\ phase # "gone" /\ ~certificateReady(crt)
      BY <1>3 DEF CreateCertificate, IndInv, RightMoment, PhasesAgree, DeleteCalls,
                  certificateReady
    <2>2. crt'.id = nextID /\ nextID' = nextID + 1
      BY <1>3 DEF CreateCertificate
    <2>3. certificateReady(crt)' \in BOOLEAN
      BY DEF certificateReady
    <2>4. C!Appears
      BY <1>1, <2>1, <2>2, <2>3 DEF C!Appears
    <2> QED BY <1>1, <2>4 DEF C!Next
  <1>4. CASE UpdateCertificate
    <2>1. nextID' = nextID /\ obj \in Objects
      BY <1>4 DEF UpdateCertificate, IndInv, WorkerHolds
    <2>2. obj.spec.labels \in Labels
      BY <2>1, CopyFacts DEF Specs
    <2>3. Shown(crt') = Shown(crt)
      BY <1>1, <1>4, <2>2, ShownFacts DEF UpdateCertificate
    <2> QED BY <1>1, <2>1, <2>3, Unseen
  <1>5. CASE DeleteCertificate
    <2>1. nextID' = nextID
      BY <1>5 DEF DeleteCertificate
    <2>2. CASE crt' = crt
      BY <1>1, <2>1, <2>2, Unseen
    <2>3. CASE crt.id = 0 /\ crt' = NoCrt
      BY <1>1, <2>1, <2>3, ShownFacts, Unseen
    <2>4. CASE crt.id # 0 /\ ~inUse /\ crt' = NoCrt
      <3>1. C!Destroyed
        BY <1>1, <2>1, <2>4 DEF C!Destroyed, C!NoCert, NoCrt, certificateReady
      <3> QED BY <1>1, <3>1 DEF C!Next
    <2> QED BY <1>5, <2>2, <2>3, <2>4 DEF DeleteCertificate
  <1> QED BY <1>2, <1>3, <1>4, <1>5

\* The status write records an ID that was given out, for an object that is
\* not gone; the release comes after the certificate.
LEMMA EndsShown ==
    ASSUME IndInv, WriteStatus \/ Release, UNCHANGED hetzner
    PROVE  [C!Next]_C!vars
  <1>1. UNCHANGED <<crt, nextID, inUse>> /\ nextID \in Nat
    BY DEF hetzner, IndInv, TypeOK
  <1>2. CASE WriteStatus
    <2>1. /\ phase' = phase /\ phase # "gone" /\ obj \in Objects /\ obj.status.id < nextID
          /\ status' = obj.status \/ status' = status
      BY <1>2 DEF WriteStatus, IndInv, PhasesAgree, DeleteCalls, WorkerHolds, IDsIssued
    <2>2. CASE status'.id = status.id
      BY <1>1, <2>1, <2>2, Unseen
    <2>3. CASE status' = obj.status /\ status'.id # status.id
      <3>1. obj.status.id \in 0..nextID - 1
        <4>1. obj.status.id \in Nat
          BY <2>1, CopyFacts DEF Statuses
        <4> QED BY <1>1, <2>1, <4>1
      <3>2. C!Record(obj.status.id)
        BY <1>1, <2>1, <2>3 DEF C!Record, certificateReady
      <3> QED BY <1>1, <3>1, <3>2 DEF C!Next
    <2> QED BY <2>1, <2>2, <2>3
  <1>3. CASE Release
    <2>1. pc = "release" /\ status' = status /\ obj \in Objects /\ obj.phase = "deleting"
      BY <1>3 DEF Release, IndInv, WorkerHolds, DeleteCalls
    <2>2. CASE phase' = phase
      BY <1>1, <2>1, <2>2, Unseen
    <2>3. CASE phase' # phase
      <3>1. /\ [phase |-> obj.phase, spec |-> obj.spec, status |-> obj.status] = Current
            /\ phase' = "gone"
        BY <1>3, <2>3 DEF Release
      <3>2. phase = "deleting" /\ status = obj.status
        BY <2>1, <3>1 DEF Current
      <3>3. status.id = 0 \/ crt.id # status.id
        BY <2>1, <3>2 DEF IndInv, RightMoment
      <3>4. C!CertObjectGoes
        BY <1>1, <2>1, <3>1, <3>2, <3>3 DEF C!CertObjectGoes, certificateReady
      <3> QED BY <1>1, <3>4 DEF C!Next
    <2> QED BY <2>2, <2>3
  <1> QED BY <1>2, <1>3

\* The user, the cache, a crash, a failed call: only the deletion shows.
LEMMA OtherStepsShown ==
    ASSUME IndInv,
           \/ EditLabels
           \/ /\ \/ DeleteObject \/ CacheSync \/ Crash
                 \/ CallFails({"lookupByID", "lookupByName", "create", "update", "refresh"},
                              {"delete", "release"})
              /\ UNCHANGED hetzner
    PROVE  [C!Next]_C!vars
  <1>1. UNCHANGED <<status, crt, nextID, inUse>>
    BY DEF EditLabels, Edit, DeleteObject, CacheSync, Crash, CallFails, object, hetzner
  <1>2. CASE DeleteObject
    <2>1. C!CertDeleted
      BY <1>1, <1>2 DEF DeleteObject, C!CertDeleted, certificateReady
    <2> QED BY <1>1, <2>1 DEF C!Next
  <1>3. CASE phase' = phase
    BY <1>1, <1>3, Unseen
  <1> QED BY <1>2, <1>3 DEF EditLabels, Edit, CacheSync, Crash, CallFails, object

\* Through crashes, failed calls, stale copies and the work of others, the
\* controller gives up no certificate that is in use and lets no object go
\* whose recorded certificate exists: it implements CertificateRef.
THEOREM CertificateRefinement == Spec => ImplementsCertificateRef
  <1>1. Init => C!Init
    <2> SUFFICES ASSUME Init PROVE C!Init
      OBVIOUS
    <2>1. phase = "live" /\ status.id = 0 /\ nextID = 1
      BY DEF Init, WorkerInit, NoStatus
    <2>2. inUse = FALSE
      BY Zenon DEF Init
    <2>3. [id |-> crt.id, ready |-> certificateReady(crt)] = C!NoCert
      BY NoCrtFacts, ShownFacts DEF Init, Shown
    <2> QED BY <2>1, <2>2, <2>3, Zenon DEF C!Init
  <1>2. IndInv /\ [Next]_vars => [C!Next]_C!vars
    <2> SUFFICES ASSUME IndInv, [Next]_vars PROVE [C!Next]_C!vars
      OBVIOUS
    <2>1. CASE UNCHANGED vars
      BY <2>1, Unseen DEF vars
    <2>2. CASE Next
      BY <2>2, CloudStepsShown, CallsShown, EndsShown, OtherStepsShown DEF Next, Work
    <2> QED BY <2>1, <2>2
  <1> QED BY <1>1, <1>2, CertificateInvariant, PTL DEF Spec, ImplementsCertificateRef, C!Spec

-----------------------------------------------------------------------------
(* The steps of ManagedResource.                                           *)

\* The certificate stays or goes: nothing happens, or Destroy.
LEMMA StaysOrGoes ==
    ASSUME UNCHANGED <<phase, nextID>>, status'.id = status.id, crt'.id \in {crt.id, 0}
    PROVE  M!Next
  <1>1. UNCHANGED <<ManagedPhase, Recorded, Issued>>
    BY DEF ManagedPhase, Recorded, Issued
  <1>2. Held' \subseteq Held
    BY DEF Held
  <1> QED BY <1>1, <1>2 DEF M!Next, M!Destroy

\* A certificate is created: Provision.
LEMMA Provisions ==
    ASSUME UNCHANGED <<phase, status>>, phase \in Phases \ {"gone"},
           nextID \in Nat \ {0}, nextID' = nextID + 1, crt.id = 0, crt'.id = nextID
    PROVE  M!Next
  <1>1. ManagedPhase \in {"guarded", "terminating"} /\ UNCHANGED <<ManagedPhase, Recorded>>
    BY DEF ManagedPhase, Recorded, Phases
  <1>2. Held = {} /\ Held' = {nextID}
    BY DEF Held
  <1>3. Issued' = Issued \cup {nextID} /\ nextID \notin Issued
    BY DEF Issued
  <1> QED BY <1>1, <1>2, <1>3 DEF M!Next, M!Provision

\* The status takes up an ID: Record.
LEMMA Records ==
    ASSUME UNCHANGED <<phase, crt, nextID>>, phase \in Phases \ {"gone"},
           nextID \in Nat \ {0}, status'.id \in Nat, status'.id < nextID
    PROVE  M!Next
  <1>1. ManagedPhase \in {"guarded", "terminating"} /\ UNCHANGED ManagedPhase
    BY DEF ManagedPhase, Phases
  <1>2. UNCHANGED <<Held, Issued>>
    BY DEF Held, Issued
  <1>3. Recorded' \in Issued \cup {0}
    BY DEF Recorded, Issued
  <1> QED BY <1>1, <1>2, <1>3 DEF M!Next, M!Record

\* The object is deleted: Terminate.
LEMMA Terminates ==
    ASSUME UNCHANGED <<status, crt, nextID>>, phase = "live", phase' = "deleting"
    PROVE  M!Next
  <1>1. ManagedPhase = "guarded" /\ ManagedPhase' = "terminating"
    BY DEF ManagedPhase
  <1>2. UNCHANGED <<Recorded, Held, Issued>>
    BY DEF Recorded, Held, Issued
  <1> QED BY <1>1, <1>2 DEF M!Next, M!Terminate

\* The object goes: Release.
LEMMA Releases ==
    ASSUME UNCHANGED <<status, crt, nextID>>, phase = "deleting", phase' = "gone",
           status.id = 0 \/ crt.id # status.id
    PROVE  M!Next
  <1>1. ManagedPhase = "terminating" /\ ManagedPhase' = "absent"
    BY DEF ManagedPhase
  <1>2. UNCHANGED <<Held, Issued>> /\ Recorded' = 0 /\ Recorded \notin Held
    BY DEF Recorded, Held, Issued
  <1> QED BY <1>1, <1>2 DEF M!Next, M!Release

-----------------------------------------------------------------------------
(* Every step of the controller is one of them.                            *)

\* What happens to the object and to the certificate without the worker, and
\* what the worker does without a call.
LEMMA OthersManaged ==
    ASSUME IndInv,
           \/ EditLabels \/ Use \/ Progress \/ External \/ Reconcile
           \/ /\ \/ DeleteObject \/ CacheSync \/ Crash
                 \/ CallFails({"lookupByID", "lookupByName", "create", "update", "refresh"},
                              {"delete", "release"})
              /\ UNCHANGED hetzner
    PROVE  M!Next
  <1>1. CASE DeleteObject /\ UNCHANGED hetzner
    BY <1>1, Terminates DEF DeleteObject, hetzner
  <1>2. CASE EditLabels \/ Use \/ Progress \/ External
    <2>1. UNCHANGED <<phase, status, nextID>>
      BY <1>2 DEF EditLabels, Edit, Use, Progress, External, object, hetzner
    <2>2. crt'.id \in {crt.id, 0}
      <3>1. crt \in Crts
        BY DEF IndInv, TypeOK
      <3> QED BY <1>2, <3>1, NoCrtFacts DEF EditLabels, Use, Progress, External, hetzner, Crts
    <2> QED BY <2>1, <2>2, StaysOrGoes
  <1>3. CASE /\ UNCHANGED hetzner
             /\ \/ Reconcile \/ CacheSync \/ Crash
                \/ CallFails({"lookupByID", "lookupByName", "create", "update", "refresh"},
                             {"delete", "release"})
    BY <1>3, StaysOrGoes DEF Reconcile, CacheSync, Crash, CallFails, object, hetzner
  <1> QED BY <1>1, <1>2, <1>3 DEF Reconcile

\* The worker's calls: only CreateCertificate brings a certificate about, and
\* only DeleteCertificate does away with it.
LEMMA CallsManaged ==
    ASSUME IndInv,
           \/ LookupByID \/ LookupByName \/ CreateCertificate
           \/ UpdateCertificate \/ Refresh \/ DeleteCertificate
    PROVE  M!Next
  <1>1. UNCHANGED <<phase, status>> /\ crt \in Crts
    BY DEF LookupByID, LookupByName, CreateCertificate, UpdateCertificate, Refresh,
           DeleteCertificate, object, IndInv, TypeOK
  <1>2. CASE CreateCertificate
    <2>1. /\ crt.id = 0 /\ phase \in Phases \ {"gone"} /\ nextID \in Nat \ {0}
          /\ crt'.id = nextID /\ nextID' = nextID + 1
      BY <1>2 DEF CreateCertificate, IndInv, TypeOK, RightMoment, PhasesAgree, DeleteCalls
    <2> QED BY <1>1, <2>1, Provisions
  <1>3. CASE ~CreateCertificate
    <2>1. nextID' = nextID /\ crt'.id \in {crt.id, 0}
      BY <1>1, <1>3, NoCrtFacts
      DEF LookupByID, LookupByName, UpdateCertificate, Refresh, DeleteCertificate, hetzner, Crts
    <2> QED BY <1>1, <2>1, StaysOrGoes
  <1> QED BY <1>2, <1>3

\* The status write, for an object that still exists, and the release.
LEMMA EndsManaged ==
    ASSUME IndInv, WriteStatus \/ Release, UNCHANGED hetzner
    PROVE  M!Next
  <1>1. UNCHANGED <<crt, nextID>> /\ nextID \in Nat \ {0}
    BY DEF hetzner, IndInv, TypeOK
  <1>2. CASE WriteStatus
    <2>1. /\ phase' = phase /\ phase \in Phases \ {"gone"} /\ obj.status.id \in Nat
          /\ obj.status.id < nextID /\ (status' = obj.status \/ status' = status)
      BY <1>2 DEF WriteStatus, IndInv, TypeOK, PhasesAgree, DeleteCalls, WorkerHolds, IDsIssued,
                  Objects, Statuses
    <2>2. CASE status' = status
      BY <1>1, <2>1, <2>2, StaysOrGoes
    <2>3. CASE status' = obj.status
      BY <1>1, <2>1, <2>3, Records
    <2> QED BY <2>1, <2>2, <2>3
  <1>3. CASE Release
    <2>1. status' = status
      BY <1>3 DEF Release
    <2>2. CASE [phase |-> obj.phase, spec |-> obj.spec, status |-> obj.status] = Current
      <3>1. /\ phase' = "gone" /\ phase = obj.phase /\ obj.status = status
            /\ obj.phase = "deleting" /\ (obj.status.id = 0 \/ crt.id # obj.status.id)
        BY <1>3, <2>2 DEF Release, Current, IndInv, WorkerHolds, DeleteCalls, RightMoment
      <3> QED BY <1>1, <2>1, <3>1, Releases
    <2>3. CASE [phase |-> obj.phase, spec |-> obj.spec, status |-> obj.status] # Current
      BY <1>1, <1>3, <2>1, <2>3, StaysOrGoes DEF Release
    <2> QED BY <2>2, <2>3
  <1> QED BY <1>2, <1>3

\* A certificate is created only where there is none, under a new ID and for
\* an object that still exists; the status names only IDs that were issued; the
\* object goes only after the certificate its status names: every step is one
\* of ManagedResource.
THEOREM CertificateManaged == Spec => KeepsManagedResource
  <1>1. IndInv /\ [Next]_vars => [M!Next]_(M!vars)
    <2> SUFFICES ASSUME IndInv, [Next]_vars PROVE [M!Next]_(M!vars)
      OBVIOUS
    <2>1. CASE UNCHANGED vars
      BY <2>1, StaysOrGoes DEF vars
    <2>2. CASE Next
      BY <2>2, OthersManaged, CallsManaged, EndsManaged DEF Next, Work
    <2> QED BY <2>1, <2>2
  <1> QED BY <1>1, CertificateInvariant, PTL DEF Spec, KeepsManagedResource
=============================================================================
