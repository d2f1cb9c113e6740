--------------------------- MODULE MCBaseReconciler ---------------------------
(* Bounds for BaseReconciler: how often each disturbance may happen.       *)
EXTENDS BaseReconciler

Quiet == [d \in Disturbances |-> 0]

\* Every disturbance can happen, and two of the user's and of the failures
\* can coincide.
SafetyBudget ==
    [Quiet EXCEPT !["user"] = 4, !["external"] = 1, !["error"] = 1,
                  !["lost"] = 1, !["crash"] = 1]
LiveBudget ==
    [Quiet EXCEPT !["user"] = 3, !["external"] = 1, !["error"] = 1, !["lost"] = 1,
                  !["crash"] = 1, !["pending"] = 1]
=============================================================================
