-------------------------- MODULE HCloudCertificate --------------------------
(***************************************************************************)
(* The domain logic of the HCloudCertificate controller                    *)
(* (src/internal/controller/hcloudcertificate_controller.go): creation,    *)
(* labels, the wait for a managed certificate to be issued, and deletion,  *)
(* which Hetzner refuses while a load balancer uses the certificate.       *)
(***************************************************************************)
EXTENDS ReconcileWorker

CONSTANT ExternalOps   \* what others may do to the certificate

ASSUME OpsAssumption == ExternalOps \subseteq {"delete", "relabel"}

VARIABLES
    crt,      \* the Hetzner certificate that bears the object's name
    nextID,   \* the ID of the next certificate
    inUse     \* a load balancer uses it

hetzner == <<crt, nextID, inUse>>
vars    == <<phase, spec, status, seen, pc, obj, info, used, crt, nextID, inUse>>

Labels    == 0..1
Types     == {"uploaded", "managed"}
Issuances == {"none", "pending", "completed", "failed"}

NoCrt    == [id |-> 0, type |-> "uploaded", labels |-> 0, issuance |-> "none"]
NoStatus == [id |-> 0, issuance |-> "none", ready |-> FALSE]

Specs    == [type : Types, labels : Labels]
Statuses == [id : Nat, issuance : Issuances, ready : BOOLEAN]
Crts     == [id : Nat, type : Types, labels : Labels, issuance : Issuances]
Copies   == [phase : Phases, spec : Specs, status : Statuses]
Objects  == [phase : Phases, spec : Specs, status : Statuses, plan : {0}]
PCs      == {"idle", "lookupByID", "lookupByName", "create", "update", "refresh",
             "write", "delete", "release"}

TypeOK ==
    /\ phase \in Phases /\ spec \in Specs /\ status \in Statuses /\ seen \in Copies
    /\ pc \in PCs
    /\ obj \in Objects \cup {NoObj} /\ info \in Crts \cup {NoInfo}
    /\ used \in [Disturbances -> Nat]
    /\ crt \in Crts /\ nextID \in Nat \ {0} /\ inUse \in BOOLEAN

Init ==
    /\ spec \in Specs /\ status = NoStatus
    /\ WorkerInit
    /\ crt = NoCrt /\ nextID = 1 /\ inUse = FALSE

certificateReady(c) == c.id # 0 /\ (c.type = "uploaded" \/ c.issuance = "completed")

-----------------------------------------------------------------------------
(* Users, load balancers, Hetzner, others.                                 *)

\* The type is immutable.
EditLabels ==
    /\ \E l \in Labels : Edit([spec EXCEPT !.labels = l])
    /\ UNCHANGED hetzner

\* A load balancer takes the certificate into use, or lets go of it.
Use ==
    /\ \/ ~inUse /\ certificateReady(crt) /\ Spend("refs")
       \/ inUse /\ UNCHANGED used
    /\ inUse' = ~inUse
    /\ UNCHANGED <<object, worker, crt, nextID>>

\* A managed certificate is issued or is not.
Progress ==
    /\ crt.issuance = "pending"
    /\ \E i \in {"completed", "failed"} : crt' = [crt EXCEPT !.issuance = i]
    /\ UNCHANGED <<object, worker, used, nextID, inUse>>

External ==
    /\ crt.id # 0
    /\ Spend("external")
    /\ \/ "delete" \in ExternalOps /\ ~inUse /\ crt' = NoCrt
       \/ /\ "relabel" \in ExternalOps
          /\ \E l \in Labels \ {crt.labels} : crt' = [crt EXCEPT !.labels = l]
    /\ UNCHANGED <<object, worker, nextID, inUse>>

-----------------------------------------------------------------------------
(* How a reconcile goes on.                                                *)

\* Mutant: the labels are set at creation only.
ensureCertificateMetadataNever(o, c) == Call("refresh", o, c)

ensureCertificateMetadata(o, c) ==
    Call(IF c.labels = o.spec.labels THEN "refresh" ELSE "update", o, c)

\* Mutant: the type is written where the issuance status belongs.
syncCertificateStatusWrongField(o, c) ==
    Done([o EXCEPT !.status = [id |-> c.id, issuance |-> c.type, ready |-> certificateReady(c)]])

\* syncCertificateStatus and the Ready condition: False while issuance is
\* pending, and when it has failed.
syncCertificateStatus(o, c) ==
    Done([o EXCEPT !.status = [id |-> c.id, issuance |-> c.issuance,
                               ready |-> certificateReady(c)]])

-----------------------------------------------------------------------------
(* The worker's steps.                                                     *)

Reconcile ==
    /\ pc = "idle" /\ seen.phase # "gone"
    /\ LET step == CASE seen.phase = "live" /\ seen.status.id # 0 -> "lookupByID"
                     [] seen.phase = "live" /\ seen.status.id = 0 -> "lookupByName"
                     [] seen.phase = "deleting" /\ seen.status.id # 0 -> "delete"
                     [] OTHER -> "release"
       IN  Call(step, Taken(0), NoInfo)
    /\ UNCHANGED <<object, used, hetzner>>

LookupByID ==
    /\ pc = "lookupByID"
    /\ IF crt.id = obj.status.id THEN ensureCertificateMetadata(obj, crt)
                                 ELSE Call("lookupByName", obj, NoInfo)
    /\ UNCHANGED <<object, used, hetzner>>

LookupByName ==
    /\ pc = "lookupByName"
    /\ IF crt.id # 0 THEN ensureCertificateMetadata(obj, crt)
                     ELSE Call("create", obj, NoInfo)
    /\ UNCHANGED <<object, used, hetzner>>

CreateCertificate ==
    /\ pc = "create"
    /\ crt' = [id |-> nextID, type |-> obj.spec.type, labels |-> obj.spec.labels,
               issuance |-> IF obj.spec.type = "managed" THEN "pending" ELSE "none"]
    /\ nextID' = nextID + 1
    /\ ensureCertificateMetadata(obj, crt')
    /\ UNCHANGED <<object, used, inUse>>

UpdateCertificate ==
    /\ pc = "update"
    /\ \/ crt.id # info.id /\ Fail(obj) /\ UNCHANGED crt
       \/ /\ crt.id = info.id
          /\ crt' = [crt EXCEPT !.labels = obj.spec.labels]
          /\ Call("refresh", obj, info)
    /\ UNCHANGED <<object, used, nextID, inUse>>

Refresh ==
    /\ pc = "refresh"
    /\ IF crt.id = info.id THEN syncCertificateStatus(obj, crt) ELSE Fail(obj)
    /\ UNCHANGED <<object, used, hetzner>>

\* Mutant: the refusal of a certificate in use is taken for success.
DeleteCertificateIgnoresUse ==
    /\ pc = "delete"
    /\ crt' = IF crt.id = obj.status.id /\ ~inUse THEN NoCrt ELSE crt
    /\ Call("release", obj, NoInfo)
    /\ UNCHANGED <<object, used, nextID, inUse>>

\* Mutant: the certificate must be there to be deleted.
DeleteCertificateNotIdempotent ==
    /\ pc = "delete"
    /\ IF crt.id = obj.status.id /\ ~inUse
       THEN crt' = NoCrt /\ Call("release", obj, NoInfo)
       ELSE Stop /\ UNCHANGED crt
    /\ UNCHANGED <<object, used, nextID, inUse>>

\* DeleteCertificate: nothing to do when it is gone, refused while in use.
DeleteCertificate ==
    /\ pc = "delete"
    /\ \/ /\ crt.id = obj.status.id /\ inUse
          /\ Stop /\ UNCHANGED crt
       \/ /\ crt.id = obj.status.id => ~inUse
          /\ crt' = IF crt.id = obj.status.id THEN NoCrt ELSE crt
          /\ Call("release", obj, NoInfo)
    /\ UNCHANGED <<object, used, nextID, inUse>>

Work ==
    \/ Reconcile \/ LookupByID \/ LookupByName \/ CreateCertificate
    \/ UpdateCertificate \/ Refresh \/ DeleteCertificate
    \/ WriteStatus /\ UNCHANGED hetzner
    \/ Release /\ UNCHANGED hetzner

Next ==
    \/ EditLabels \/ Use \/ Progress \/ External \/ Work
    \/ /\ \/ DeleteObject \/ CacheSync \/ Crash
          \/ CallFails({"lookupByID", "lookupByName", "create", "update", "refresh"},
                       {"delete", "release"})
       /\ UNCHANGED hetzner

Spec == Init /\ [][Next]_vars

\* The key is queued again after every reconcile, Hetzner ends every issuance,
\* the watch delivers.
FairSpec == Spec /\ WF_vars(Work) /\ WF_vars(Progress) /\ WF_vars(CacheSync /\ UNCHANGED hetzner)

-----------------------------------------------------------------------------
(* Properties.                                                             *)

\* Once the spec and the world stop changing, there is a certificate with the
\* labels of the spec, its ID is recorded, and Ready tells whether it can be
\* used: an issuance that ends after the reconcile that started it is noticed
\* by a later one.
CertificateConverges ==
    <>[](phase = "live"
           => /\ crt.id # 0 /\ crt.type = spec.type /\ crt.labels = spec.labels
              /\ status = [id |-> crt.id, issuance |-> crt.issuance,
                           ready |-> certificateReady(crt)])

\* README, "Safe Cleanup": a deleted object goes as soon as no load balancer
\* uses its certificate.
DeletionCompletes == <>[](phase = "deleting" => inUse)

C == INSTANCE CertificateRef WITH
        certPhase <- phase, certID <- status.id, nextCert <- nextID,
        cert <- [id |-> crt.id, ready |-> certificateReady(crt)]

\* The controller keeps what CertificateRef promises to load balancers: through
\* crashes, failed calls and stale copies it gives up no certificate that is in
\* use, and no object whose recorded certificate exists.
ImplementsCertificateRef == C!Spec

-----------------------------------------------------------------------------
(* The object and its Hetzner resource, as ManagedResource sees them.      *)

Held   == {crt.id} \ {0}
Issued == 1..nextID - 1

M == INSTANCE ManagedResource WITH
        phase <- ManagedPhase, recorded <- Recorded, cloud <- Held, issued <- Issued

\* Every step is one that ManagedResource allows of a guarded object: a
\* certificate is created only where there is none, under a new ID and for an
\* object that still exists, the status takes up only IDs that were issued,
\* and the object goes only after the certificate its status names.
KeepsManagedResource == [][M!Next]_(M!vars)

-----------------------------------------------------------------------------
(* The inductive invariant behind TypeOK, ImplementsCertificateRef and      *)
(* KeepsManagedResource.                                                    *)

DeleteCalls == {"delete", "release"}

\* What the worker holds at each call.
WorkerHolds ==
    /\ pc # "idle" => obj \in Objects
    /\ pc \in {"update", "refresh"} => info \in Crts
    /\ pc \in DeleteCalls => obj.phase = "deleting"

\* Nobody names a certificate that Hetzner has not given out.
IDsIssued ==
    /\ crt.id < nextID /\ status.id < nextID /\ seen.status.id < nextID
    /\ pc # "idle" => obj.status.id < nextID

\* Only the worker creates certificates, after it found none; it lets the
\* object go after the certificate of its copy.
RightMoment ==
    /\ pc = "create" => crt.id = 0
    /\ pc = "release" => obj.status.id = 0 \/ crt.id # obj.status.id

OnlyManagedPends == crt.issuance = "pending" => crt.id # 0 /\ crt.type = "managed"

IndInv ==
    /\ TypeOK /\ PhasesAgree(DeleteCalls) /\ WorkerHolds /\ IDsIssued
    /\ RightMoment /\ OnlyManagedPends
=============================================================================
