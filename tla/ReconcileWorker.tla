--------------------------- MODULE ReconcileWorker ---------------------------
(***************************************************************************)
(* What the controllers of all kinds have in common once the finalizer is  *)
(* set: the object, the informer's view of it, and the worker that runs    *)
(* one reconcile at a time.  The module of a kind extends this one with    *)
(* the resource in Hetzner and with one action per remote call, and says   *)
(* of each action here what it leaves alone.                               *)
(*                                                                         *)
(* Version conflicts are BaseReconciler's subject.  Here they amount to    *)
(* this: a status write is retried until the cache has caught up, so that  *)
(* it carries the current version, or it fails for good; and the update    *)
(* that removes the finalizer is refused if the worker's copy is outdated. *)
(***************************************************************************)
EXTENDS Naturals

CONSTANT Budget   \* how often each kind of disturbance may happen

\* "edit"     : the user changes the spec
\* "delete"   : the user deletes the object
\* "refs"     : something happens to an object or a server it refers to
\* "external" : somebody else works on the Hetzner resource
\* "error"    : a remote call fails without effect
\* "crash"    : the operator process dies and is restarted
\* "any"      : all of them together
Disturbances == {"edit", "delete", "refs", "external", "error", "crash", "any"}

ASSUME BudgetAssumption == Budget \in [Disturbances -> Nat]

VARIABLES
    phase,    \* of the object: live, deleting, gone
    spec,
    status,   \* the kind's fields and ready
    seen,     \* phase, spec and status as the informer cache shows them
    pc,       \* the call the worker is about to make
    obj,      \* its copy of the object, and what it plans to reach
    info,     \* its Info value: the Hetzner resource as it saw it last
    used      \* disturbances so far

object  == <<phase, spec, status, seen>>
worker  == <<pc, obj, info>>

Phases  == {"live", "deleting", "gone"}
NoObj   == <<>>
NoInfo  == <<>>
Current == [phase |-> phase, spec |-> spec, status |-> status]

WorkerInit ==
    /\ phase = "live" /\ seen = Current
    /\ pc = "idle" /\ obj = NoObj /\ info = NoInfo
    /\ used = [d \in Disturbances |-> 0]

Spend(d) ==
    /\ used[d] < Budget[d] /\ used["any"] < Budget["any"]
    /\ used' = [used EXCEPT ![d] = @ + 1, !["any"] = @ + 1]

-----------------------------------------------------------------------------
(* The user and the cache.                                                 *)

Edit(s) ==
    /\ phase = "live" /\ s # spec /\ Spend("edit")
    /\ spec' = s
    /\ UNCHANGED <<phase, status, seen, worker>>

DeleteObject ==
    /\ phase = "live" /\ Spend("delete")
    /\ phase' = "deleting"
    /\ UNCHANGED <<spec, status, seen, worker>>

CacheSync ==
    /\ seen # Current
    /\ seen' = Current
    /\ UNCHANGED <<phase, spec, status, worker, used>>

-----------------------------------------------------------------------------
(* The worker.                                                             *)

Stop == pc' = "idle" /\ obj' = NoObj /\ info' = NoInfo

Crash ==
    /\ pc # "idle" /\ Spend("crash")
    /\ Stop /\ UNCHANGED object

Call(step, o, i) == pc' = step /\ obj' = o /\ info' = i

\* Resource.Reconcile returns; the base writes the status.
Done(o) == Call("write", o, NoInfo)

\* Resource.Reconcile fails: the base writes the status with Ready False.
Fail(o) == Call("write", [o EXCEPT !.status.ready = FALSE], NoInfo)

\* The object as Reconcile gets it, with a plan still to be made.
Taken(plan) ==
    [phase |-> seen.phase, spec |-> seen.spec, status |-> seen.status, plan |-> plan]

\* A remote call fails without effect.  A failed Delete leaves the status.
CallFails(reconcileCalls, deleteCalls) ==
    /\ Spend("error")
    /\ \/ pc \in reconcileCalls /\ Fail(obj)
       \/ pc \in deleteCalls /\ Stop
    /\ UNCHANGED object

\* updateStatusWithRetry, or the attempt at it.
WriteStatus ==
    /\ pc = "write"
    /\ Stop
    /\ \/ seen = Current /\ status' = obj.status /\ UNCHANGED used
       \/ Spend("error") /\ UNCHANGED status
    /\ UNCHANGED <<phase, spec, seen>>

\* RemoveFinalizer and Update.
Release ==
    /\ pc = "release"
    /\ Stop
    /\ phase' = IF [phase |-> obj.phase, spec |-> obj.spec, status |-> obj.status] = Current
                THEN "gone" ELSE phase
    /\ UNCHANGED <<spec, status, seen, used>>

-----------------------------------------------------------------------------
(* Parts of the kinds' inductive invariants.                               *)

\* What the store, the cache and the worker know of the object's phase: the
\* cache trails, a worker that deletes was shown the deletion, and one that
\* reconciles works for an object that is still there, because nobody else
\* can remove the finalizer.
PhasesAgree(deleteCalls) ==
    /\ phase = "live" => seen.phase = "live"
    /\ seen.phase = "live" => phase # "gone"
    /\ pc \in deleteCalls => seen.phase # "live"
    /\ pc \notin deleteCalls \cup {"idle"} => phase # "gone"

\* The object, its cached copy and the count of disturbances have their types.
ObjectTyped(specs, statuses) ==
    /\ phase \in Phases /\ spec \in specs /\ status \in statuses
    /\ seen \in [phase : Phases, spec : specs, status : statuses]
    /\ used \in [Disturbances -> Nat]

-----------------------------------------------------------------------------
(* How the object looks to ManagedResource, once the finalizer is set.      *)

ManagedPhase == IF phase = "live" THEN "guarded"
                ELSE IF phase = "deleting" THEN "terminating" ELSE "absent"
Recorded     == IF phase = "gone" THEN 0 ELSE status.id
=============================================================================
