------------------------------ MODULE ServerRefs ------------------------------
(***************************************************************************)
(* The HCloudServers that volumes and IPs name in spec.serverRef, as their *)
(* controllers see them: an object without an ID, an object with one, or   *)
(* no object.  Server s has the ID s in Hetzner.  When a server object is  *)
(* deleted, the Hetzner server goes first (that is HCloudServer's          *)
(* finalizer) and the object follows, so for a while a reference resolves  *)
(* to a server that no longer exists.                                      *)
(***************************************************************************)
EXTENDS Naturals

CONSTANT NumServers

ASSUME ServersAssumption == NumServers \in Nat

VARIABLES
    srvObj,   \* what the cluster holds for each server
    srvLive   \* the servers that exist in Hetzner

Servers   == 1..NumServers
ServerIDs == Servers \cup {0}

ServersTypeOK ==
    /\ srvObj \in [Servers -> {"pending", "ready", "gone"}]
    /\ srvLive \subseteq Servers

ServersInit ==
    /\ srvObj = [s \in Servers |-> "pending"]
    /\ srvLive = {}

BecomeReady(s) ==
    /\ srvObj[s] = "pending"
    /\ srvObj' = [srvObj EXCEPT ![s] = "ready"]
    /\ srvLive' = srvLive \cup {s}

\* Hetzner's half of a deletion; its effect on what is attached to the
\* server is for the module that knows what that is.
Destroy(s) ==
    /\ s \in srvLive
    /\ srvLive' = srvLive \ {s}
    /\ UNCHANGED srvObj

ObjectGoes(s) ==
    /\ srvObj[s] = "ready" /\ s \notin srvLive
    /\ srvObj' = [srvObj EXCEPT ![s] = "gone"]
    /\ UNCHANGED srvLive

\* The reference names a server that is not there or has no ID yet; the
\* controllers then report ServerPending and do nothing else.
Pending(ref) == ref # 0 /\ srvObj[ref] # "ready"
=============================================================================
