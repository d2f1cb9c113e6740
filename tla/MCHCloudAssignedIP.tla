-------------------------- MODULE MCHCloudAssignedIP --------------------------
(* Bounds for HCloudAssignedIP.                                            *)
EXTENDS HCloudAssignedIP

\* A primary IP that goes with its server and has a reverse DNS entry, and a
\* floating IP with a description or without, on a server (they are
\* interchangeable) or none.
LifeSpecs ==
    [kind : {"primary"}, ref : {0, 1}, labels : {0}, desc : {0}, auto : {"on"}, dns : {TRUE}]
      \cup
    [kind : {"floating"}, ref : {0, 1}, labels : {0}, desc : {0, 1}, auto : {"unset"},
     dns : {FALSE}]

\* Any two disturbances: the IP is moved, relabelled or deleted, somebody
\* else assigns, unassigns or deletes it, its server takes it down, a call
\* fails, the operator dies.
LifeBudget == [d \in Disturbances |-> IF d = "any" THEN 2 ELSE 1]
=============================================================================
