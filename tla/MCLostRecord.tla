----------------------------- MODULE MCLostRecord -----------------------------
(* BaseReconciler with a history variable: every ID the API server has ever *)
(* held in the object's status.  No crash and no lost answer, only a cache  *)
(* that lags and one failed call.                                          *)
EXTENDS BaseReconciler

VARIABLE recorded

LostRecordBudget ==
    [d \in Disturbances |-> CASE d = "user" -> 2 [] d = "error" -> 1 [] OTHER -> 0]

HistoryInit == Init /\ recorded = {}
HistoryNext == Next /\ recorded' = recorded \cup ({api'.status.id} \ {0})
HistorySpec == HistoryInit /\ [][HistoryNext]_<<vars, recorded>>

\* README, "Safe Cleanup", for a resource whose ID did reach the status: once
\* recorded, it is destroyed before the object goes.
RecordedIsCleanedUp == ~api.exists /\ pc = "idle" => cloud \cap recorded = {}
=============================================================================
