------------------------------ MODULE KubeObject ------------------------------
(***************************************************************************)
(* What the Kubernetes API server does to one cluster-scoped custom        *)
(* object, as the controllers rely on it (src/internal/reconcile/base.go   *)
(* calls it through controller-runtime's client.Client):                   *)
(*                                                                         *)
(*   - every accepted change moves resourceVersion forward, and a write    *)
(*     that changes nothing is accepted without moving it;                 *)
(*   - Update and Status().Update are refused with a Conflict unless they  *)
(*     carry the current resourceVersion, and with NotFound when the       *)
(*     object is gone;                                                     *)
(*   - Status().Update replaces the whole status and nothing else;         *)
(*   - deleting an object that has a finalizer only sets its               *)
(*     deletionTimestamp; it goes away when the finalizer does.            *)
(*                                                                         *)
(* An object that does not exist keeps the resourceVersion of its removal, *)
(* because the revision counter of the store never goes back.              *)
(***************************************************************************)
EXTENDS Naturals

\* Statuses is the set of values the kind's .status can take.
Objects(Statuses) ==
    [exists : BOOLEAN, rv : Nat, deleting : BOOLEAN, finalizer : BOOLEAN,
     status : Statuses]

Absent(rv, empty) ==
    [exists |-> FALSE, rv |-> rv, deleting |-> FALSE, finalizer |-> FALSE,
     status |-> empty]

Fresh(rv, empty) ==
    [exists |-> TRUE, rv |-> rv, deleting |-> FALSE, finalizer |-> FALSE,
     status |-> empty]

\* The store accepts a write made against resource version rv.
Accepts(o, rv) == o.exists /\ o.rv = rv

WithStatus(o, st) ==
    IF o.status = st THEN o ELSE [o EXCEPT !.status = st, !.rv = @ + 1]

WithFinalizer(o) == [o EXCEPT !.finalizer = TRUE, !.rv = @ + 1]

\* The finalizer of an object that is being deleted is the last thing that
\* keeps it: removing it removes the object.
WithoutFinalizer(o, empty) == Absent(o.rv + 1, empty)

\* kubectl delete.
Deleted(o, empty) ==
    IF o.finalizer THEN [o EXCEPT !.deleting = TRUE, !.rv = @ + 1]
                   ELSE Absent(o.rv + 1, empty)
=============================================================================
