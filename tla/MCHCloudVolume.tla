---------------------------- MODULE MCHCloudVolume ----------------------------
(* Bounds for HCloudVolume.                                                *)
EXTENDS HCloudVolume

\* Any three disturbances: the volume is moved, grown or deleted while
\* somebody else works on it, a server goes away, a call fails and the
\* operator dies.
LifeBudget == [d \in Disturbances |-> IF d = "any" THEN 3 ELSE 1]
=============================================================================
