---------------------------- MODULE CertificateRef ----------------------------
(***************************************************************************)
(* What a load balancer may count on of the HCloudCertificate it refers    *)
(* to, without the steps by which its controller gets there.  A recorded   *)
(* ID is one Hetzner has given out, but it may be out of date or taken     *)
(* back; a certificate never stops being ready and is never destroyed      *)
(* while it is in use; the object goes only when the certificate its       *)
(* status names is not there any more.                                     *)
(***************************************************************************)
EXTENDS Naturals

VARIABLES
    certPhase,   \* of the object: live, deleting, gone
    certID,      \* its status.certificateID
    cert,        \* the Hetzner certificate that bears its name
    nextCert,    \* the ID of the next certificate
    inUse        \* a service of a load balancer names the certificate

vars == <<certPhase, certID, cert, nextCert, inUse>>

NoCert == [id |-> 0, ready |-> FALSE]

CertDeleted ==
    /\ certPhase = "live" /\ certPhase' = "deleting"
    /\ UNCHANGED <<certID, cert, nextCert>>

Appears ==
    /\ certPhase # "gone" /\ cert.id = 0
    /\ cert' \in [id : {nextCert}, ready : BOOLEAN]
    /\ nextCert' = nextCert + 1
    /\ UNCHANGED <<certPhase, certID>>

Issued ==
    /\ cert.id # 0 /\ ~cert.ready
    /\ cert' = [cert EXCEPT !.ready = TRUE]
    /\ UNCHANGED <<certPhase, certID, nextCert>>

Record(id) ==
    /\ certPhase # "gone" /\ id # certID
    /\ certID' = id
    /\ UNCHANGED <<certPhase, cert, nextCert>>

Destroyed ==
    /\ cert.id # 0 /\ ~inUse
    /\ cert' = NoCert
    /\ UNCHANGED <<certPhase, certID, nextCert>>

CertObjectGoes ==
    /\ certPhase = "deleting" /\ (certID = 0 \/ cert.id # certID)
    /\ certPhase' = "gone"
    /\ UNCHANGED <<certID, cert, nextCert>>

Init ==
    /\ certPhase = "live" /\ certID = 0
    /\ cert = NoCert /\ nextCert = 1
    /\ inUse = FALSE

Next ==
    \/ /\ \/ CertDeleted \/ Appears \/ Issued \/ Destroyed \/ CertObjectGoes
          \/ \E id \in 0..nextCert - 1 : Record(id)
       /\ UNCHANGED inUse
    \/ /\ inUse' = (~inUse /\ cert.ready) /\ inUse' # inUse
       /\ UNCHANGED <<certPhase, certID, cert, nextCert>>

Spec == Init /\ [][Next]_vars
=============================================================================
