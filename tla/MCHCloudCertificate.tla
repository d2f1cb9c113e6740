-------------------------- MODULE MCHCloudCertificate --------------------------
(* Bounds for HCloudCertificate.                                           *)
EXTENDS HCloudCertificate

\* Any three disturbances, at most two of a kind.
LifeBudget == [d \in Disturbances |-> IF d = "any" THEN 3 ELSE 2]
=============================================================================
