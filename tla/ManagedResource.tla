--------------------------- MODULE ManagedResource ----------------------------
(***************************************************************************)
(* What the operator promises about one custom object and the Hetzner      *)
(* resource behind it, with no worker, cache or resource version in sight: *)
(*                                                                         *)
(*   - a resource is provisioned only while the finalizer guards the       *)
(*     object, only when none exists, and always under a new ID;           *)
(*   - the status names resources that were really issued, and changes     *)
(*     only under the finalizer;                                           *)
(*   - a guarded object goes away only after it was terminated, and only   *)
(*     when the resource its status names is gone.                         *)
(*                                                                         *)
(* It does not promise that the status always names the resource that      *)
(* exists: the code does not achieve that (see the findings).              *)
(***************************************************************************)
EXTENDS Naturals

VARIABLES
    phase,     \* of the object
    recorded,  \* the ID in its status, 0 for none
    cloud,     \* the Hetzner resources that bear its name
    issued     \* every ID Hetzner ever gave to one of them

vars == <<phase, recorded, cloud, issued>>

Phases == {"absent", "unguarded", "guarded", "terminating"}

Init == phase = "absent" /\ recorded = 0 /\ cloud = {} /\ issued = {}

Apply ==
    /\ phase = "absent"
    /\ phase' = "unguarded" /\ recorded' = 0
    /\ UNCHANGED <<cloud, issued>>

Guard ==
    /\ phase = "unguarded"
    /\ phase' = "guarded"
    /\ UNCHANGED <<recorded, cloud, issued>>

\* Nothing was provisioned for an unguarded object: it just goes.
Withdraw ==
    /\ phase = "unguarded"
    /\ phase' = "absent" /\ recorded' = 0
    /\ UNCHANGED <<cloud, issued>>

Terminate ==
    /\ phase = "guarded"
    /\ phase' = "terminating"
    /\ UNCHANGED <<recorded, cloud, issued>>

Provision ==
    /\ phase \in {"guarded", "terminating"}
    /\ cloud = {}
    /\ cloud' # {} /\ \A i, j \in cloud' : i = j
    /\ cloud' \cap issued = {}
    /\ issued' = issued \cup cloud'
    /\ UNCHANGED <<phase, recorded>>

Record ==
    /\ phase \in {"guarded", "terminating"}
    /\ recorded' \in issued \cup {0}
    /\ UNCHANGED <<phase, cloud, issued>>

Destroy ==
    /\ cloud' \subseteq cloud
    /\ UNCHANGED <<phase, recorded, issued>>

Release ==
    /\ phase = "terminating"
    /\ recorded \notin cloud
    /\ phase' = "absent" /\ recorded' = 0
    /\ UNCHANGED <<cloud, issued>>

Next ==
    \/ Apply \/ Guard \/ Withdraw \/ Terminate
    \/ Provision \/ Record \/ Destroy \/ Release

Spec == Init /\ [][Next]_vars
=============================================================================
