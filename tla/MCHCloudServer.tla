---------------------------- MODULE MCHCloudServer ----------------------------
(* Bounds for HCloudServer.                                                *)
EXTENDS HCloudServer

Quiet == [d \in Disturbances |-> 0]

\* Two upgrades with a failed call, a crash, and somebody who deletes or
\* rebuilds the server or a state the operator does not know.
ResizeBudget ==
    [Quiet EXCEPT !["type"] = 2, !["external"] = 1, !["error"] = 1, !["crash"] = 1]

\* A change of network and one of placement group, a failed call, a crash.
ReferencesBudget ==
    [Quiet EXCEPT !["net"] = 1, !["pg"] = 1, !["error"] = 1, !["crash"] = 1]

\* A type edit that is taken back.
RevertBudget == [Quiet EXCEPT !["type"] = 2]
=============================================================================
