------------------------- MODULE MCHCloudLoadBalancer -------------------------
(* Bounds for HCloudLoadBalancer.                                          *)
EXTENDS HCloudLoadBalancer

\* One plain service for all servers; for labelled ones an HTTPS service, with
\* a health check that leaves a field to Hetzner, and the plain one without its
\* health check.  Others make services with settings of their own.
SomeSpecs ==
    {[all |-> TRUE,
      services |-> <<[dest |-> 0, https |-> FALSE, hc |-> "nil"],
                     [dest |-> 2, https |-> FALSE, hc |-> "full"]>>],
     [all |-> FALSE,
      services |-> <<[dest |-> 3, https |-> TRUE, hc |-> "partial"],
                     [dest |-> 2, https |-> FALSE, hc |-> "nil"]>>]}

\* Any two disturbances, of different kinds.
LifeBudget == [d \in Disturbances |-> IF d = "any" THEN 2 ELSE 1]
=============================================================================
