--------------------------- MODULE MCHCloudFirewall ---------------------------
(* Bounds for HCloudFirewall.                                              *)
EXTENDS HCloudFirewall

Rule(n, s) == [name |-> n, src |-> s]

\* No target, a server, the selector and two servers; rules that differ in
\* their order, a CIDR with host bits and one that does not parse.
SomeSpecs ==
    {[labels |-> 0, rules |-> <<>>, applyTo |-> {}],
     [labels |-> 1, rules |-> <<Rule(1, "net"), Rule(2, "net")>>, applyTo |-> {1, 2}],
     [labels |-> 0, rules |-> <<Rule(1, "host")>>, applyTo |-> {1, Selector}],
     [labels |-> 0, rules |-> <<Rule(1, "bad")>>, applyTo |-> {2}]}

\* Any two disturbances.
LifeBudget == [d \in Disturbances |-> IF d = "any" THEN 2 ELSE 1]
=============================================================================
