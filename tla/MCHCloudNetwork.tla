--------------------------- MODULE MCHCloudNetwork ---------------------------
(* Bounds for HCloudNetwork.                                               *)
EXTENDS HCloudNetwork

\* No zones, one zone, one that is listed twice, two.
SomeZoneLists == {<<>>, <<1>>, <<1, 1>>, <<1, 2>>}

\* Any three disturbances, at most two by others.
LifeBudget ==
    [d \in Disturbances |-> CASE d = "any" -> 3 [] d = "external" -> 2 [] OTHER -> 1]
=============================================================================
