---------------------------- MODULE HCloudFirewall ----------------------------
(***************************************************************************)
(* The domain logic of the HCloudFirewall controller                       *)
(* (src/internal/controller/hcloudfirewall_controller.go) and of the       *)
(* client methods it calls (src/internal/hcloud/firewall.go): labels,      *)
(* rules, the two-sided diff of the targets the firewall is applied to,    *)
(* and the detach that precedes deletion.                                  *)
(*                                                                         *)
(* A target is a server or the label selector.  Applying and removing are  *)
(* asynchronous in Hetzner, target by target; a request that names a       *)
(* target in the wrong state is refused as a whole; a firewall that is     *)
(* applied anywhere cannot be deleted.                                     *)
(***************************************************************************)
EXTENDS ReconcileWorker, ServerRefs, Sequences, FiniteSets

CONSTANTS
    FirewallSpecs,   \* what the spec may be
    ExternalOps      \* what others may do to the firewall

Selector == NumServers + 1
Targets  == Servers \cup {Selector}

\* src is a CIDR: a network address, a host address with the same mask, or a
\* string that does not parse.  The other fields of a rule are its name.
Rules == [name : Nat, src : {"net", "host", "bad"}]

\* applyTo = {} : the field is omitted
Specs == [labels : Nat, rules : Seq(Rules), applyTo : SUBSET Targets]

ASSUME SpecsAssumption == FirewallSpecs \subseteq Specs
ASSUME OpsAssumption == ExternalOps \subseteq {"delete", "attach", "detach", "rules"}

VARIABLES
    fw,       \* the Hetzner firewall that bears the object's name
    nextID    \* the ID of the next firewall

servers == <<srvObj, srvLive>>
hetzner == <<srvObj, srvLive, fw, nextID>>
vars    == <<phase, spec, status, seen, pc, obj, info, used, srvObj, srvLive, fw, nextID>>

NoFirewall == [id |-> 0, labels |-> 0, rules |-> <<>>, applied |-> {}, adding |-> {},
               removing |-> {}]
NoStatus   == [id |-> 0, ready |-> FALSE]

Firewalls == [id : Nat, labels : Nat, rules : Seq(Rules), applied : SUBSET Targets,
              adding : SUBSET Targets, removing : SUBSET Targets]
Statuses == [id : Nat, ready : BOOLEAN]
Infos    == [id : Nat, labels : Nat, rules : Seq(Rules), applied : SUBSET Targets]
Copies   == [phase : Phases, spec : FirewallSpecs, status : Statuses]
Objects  == [phase : Phases, spec : FirewallSpecs, status : Statuses, plan : SUBSET Targets]
PCs      == {"idle", "lookupByID", "lookupByName", "create", "updateLabels",
             "refreshLabels", "setRules", "refreshRules", "remove", "apply", "write",
             "fetch", "detach", "delete", "release"}

TypeOK ==
    /\ ServersTypeOK
    /\ phase \in Phases /\ spec \in FirewallSpecs /\ status \in Statuses /\ seen \in Copies
    /\ pc \in PCs
    /\ obj \in Objects \cup {NoObj} /\ info \in Infos \cup {NoInfo}
    /\ used \in [Disturbances -> Nat]
    /\ fw \in Firewalls /\ nextID \in Nat \ {0}

Init ==
    /\ ServersInit
    /\ spec \in FirewallSpecs /\ status = NoStatus
    /\ WorkerInit
    /\ fw = NoFirewall /\ nextID = 1

-----------------------------------------------------------------------------
(* Rules.                                                                  *)

Parses(rules) == \A i \in DOMAIN rules : rules[i].src # "bad"

\* firewallRuleInfosToSDK: net.ParseCIDR drops the host part.
firewallRuleInfosToSDK(rules) == [i \in DOMAIN rules |-> [rules[i] EXCEPT !.src = "net"]]

\* Hetzner keeps the rules in an order of its own.
Stored(rules) ==
    {[i \in DOMAIN rules |-> rules[p[i]]] :
        p \in {q \in [DOMAIN rules -> DOMAIN rules] : \A i, j \in DOMAIN rules : q[i] = q[j] => i = j}}

\* Equal as bags; the CIDRs are compared as they are spelt.
firewallRulesMatch(desired, observed) ==
    /\ Len(desired) = Len(observed)
    /\ \A i \in DOMAIN desired :
         Cardinality({j \in DOMAIN desired : desired[j] = desired[i]})
           = Cardinality({j \in DOMAIN observed : observed[j] = desired[i]})

-----------------------------------------------------------------------------
(* Users, servers, Hetzner, others.                                        *)

EditFirewall ==
    /\ \E s \in FirewallSpecs : Edit(s)
    /\ UNCHANGED hetzner

ServerReady ==
    /\ \E s \in Servers : BecomeReady(s)
    /\ UNCHANGED <<object, worker, used, fw, nextID>>

Without(f, T) == [f EXCEPT !.applied = @ \ T, !.adding = @ \ T, !.removing = @ \ T]

ServerDestroyed ==
    /\ Spend("refs")
    /\ \E s \in Servers : Destroy(s) /\ fw' = Without(fw, {s})
    /\ UNCHANGED <<object, worker, nextID>>

ServerObjectGoes ==
    /\ \E s \in Servers : ObjectGoes(s)
    /\ UNCHANGED <<object, worker, used, fw, nextID>>

\* An accepted request shows its targets at once or when each has finished.
Applying(f, T) ==
    {[f EXCEPT !.applied = @ \cup T], [f EXCEPT !.adding = @ \cup T]}

Removing(f, T) == [f EXCEPT !.removing = @ \cup T]

MayApply(f, T)  == T \subseteq srvLive \cup {Selector} /\ T \cap (f.applied \cup f.adding) = {}
MayRemove(f, T) == T \subseteq f.applied \ f.removing

Progress ==
    /\ \E t \in fw.adding \cup fw.removing :
         fw' = IF t \in fw.adding
               THEN [Without(fw, {t}) EXCEPT !.applied = @ \cup {t}]
               ELSE Without(fw, {t})
    /\ UNCHANGED <<object, worker, used, servers, nextID>>

External ==
    /\ fw.id # 0
    /\ Spend("external")
    /\ \/ /\ "delete" \in ExternalOps /\ fw.applied \cup fw.adding = {}
          /\ fw' = NoFirewall
       \/ /\ "attach" \in ExternalOps
          /\ \E s \in Servers : MayApply(fw, {s}) /\ fw' = [fw EXCEPT !.applied = @ \cup {s}]
       \/ /\ "detach" \in ExternalOps
          /\ \E t \in fw.applied : MayRemove(fw, {t}) /\ fw' = Without(fw, {t})
       \/ /\ "rules" \in ExternalOps
          /\ fw' = [fw EXCEPT !.rules = <<>>]
    /\ UNCHANGED <<object, worker, servers, nextID>>

-----------------------------------------------------------------------------
(* How a reconcile goes on.                                                *)

RefsExist(s) == \A t \in s.applyTo \cap Servers : srvObj[t] # "gone"

\* Mutant: a server without an ID is not skipped.
desiredApplyResourcesWithoutID(s) ==
    {IF t \in Servers /\ srvObj[t] = "pending" THEN 0 ELSE t : t \in s.applyTo}

\* Servers that have no ID yet are left out.
desiredApplyResources(s) ==
    {t \in s.applyTo : t \in Servers => srvObj[t] = "ready"}

firewallInfoFromSDK(f) ==
    [id |-> f.id, labels |-> f.labels, rules |-> f.rules, applied |-> f.applied]

Finish(o) == Done([o EXCEPT !.status.ready = TRUE])

EnsureApplied(o, i) ==
    IF o.plan \ i.applied # {} THEN Call("apply", o, i) ELSE Finish(o)

\* Mutant: targets are only ever added.
EnsureTargetsOnlyAdds(o, i) == EnsureApplied(o, i)

\* partitionApplyTargets: first what is to be removed, then what is to be added.
EnsureTargets(o, i) ==
    IF i.applied \ o.plan # {} THEN Call("remove", o, i) ELSE EnsureApplied(o, i)

EnsureRules(o, i) ==
    IF firewallRulesMatch(o.spec.rules, i.rules) THEN EnsureTargets(o, i)
                                                 ELSE Call("setRules", o, i)

\* reconcileHCloudFirewall, for a firewall that exists.
EnsureFirewall(o, i) ==
    LET recorded == [o EXCEPT !.status.id = i.id]
    IN  IF i.labels = o.spec.labels THEN EnsureRules(recorded, i)
                                    ELSE Call("updateLabels", recorded, i)

-----------------------------------------------------------------------------
(* The worker's steps.                                                     *)

Reconcile ==
    /\ pc = "idle" /\ seen.phase # "gone"
    /\ CASE seen.phase = "deleting" ->
              Call(IF seen.status.id = 0 THEN "release" ELSE "fetch", Taken({}), NoInfo)
         [] seen.phase = "live" /\ ~RefsExist(seen.spec) -> Fail(Taken({}))
         [] OTHER ->
              Call(IF seen.status.id = 0 THEN "lookupByName" ELSE "lookupByID",
                   Taken(desiredApplyResources(seen.spec)), NoInfo)
    /\ UNCHANGED <<object, used, hetzner>>

\* Mutant: a recorded ID that is not found leads straight to a new firewall.
LookupByIDCreates ==
    /\ pc = "lookupByID"
    /\ IF fw.id = obj.status.id THEN EnsureFirewall(obj, firewallInfoFromSDK(fw))
                                ELSE Call("create", obj, NoInfo)
    /\ UNCHANGED <<object, used, hetzner>>

LookupByID ==
    /\ pc = "lookupByID"
    /\ IF fw.id = obj.status.id THEN EnsureFirewall(obj, firewallInfoFromSDK(fw))
                                ELSE Call("lookupByName", obj, NoInfo)
    /\ UNCHANGED <<object, used, hetzner>>

LookupByName ==
    /\ pc = "lookupByName"
    /\ IF fw.id # 0 THEN EnsureFirewall(obj, firewallInfoFromSDK(fw))
                    ELSE Call("create", obj, NoInfo)
    /\ UNCHANGED <<object, used, hetzner>>

CreateFirewall ==
    /\ pc = "create"
    /\ LET ok == Parses(obj.spec.rules) /\ MayApply(NoFirewall, obj.plan)
       IN  \/ ~ok /\ Fail(obj) /\ UNCHANGED <<fw, nextID>>
           \/ /\ ok
              /\ \E stored \in Stored(firewallRuleInfosToSDK(obj.spec.rules)) :
                   fw' \in Applying([NoFirewall EXCEPT !.id = nextID, !.rules = stored,
                                                       !.labels = obj.spec.labels],
                                    obj.plan)
              /\ nextID' = nextID + 1
              /\ Finish([obj EXCEPT !.status.id = nextID])
    /\ UNCHANGED <<object, used, servers>>

UpdateFirewallLabels ==
    /\ pc = "updateLabels"
    /\ \/ fw.id # info.id /\ Fail(obj) /\ UNCHANGED fw
       \/ /\ fw.id = info.id
          /\ fw' = [fw EXCEPT !.labels = obj.spec.labels]
          /\ Call("refreshLabels", obj, info)
    /\ UNCHANGED <<object, used, servers, nextID>>

\* What the worker goes on with: a firewall that has vanished leaves the old
\* FirewallInfo.
Refreshed == IF fw.id = info.id THEN firewallInfoFromSDK(fw) ELSE info

RefreshLabels ==
    /\ pc = "refreshLabels"
    /\ EnsureRules(obj, Refreshed)
    /\ UNCHANGED <<object, used, hetzner>>

SetFirewallRules ==
    /\ pc = "setRules"
    /\ LET ok == fw.id = info.id /\ Parses(obj.spec.rules)
       IN  \/ ~ok /\ Fail(obj) /\ UNCHANGED fw
           \/ /\ ok
              /\ \E stored \in Stored(firewallRuleInfosToSDK(obj.spec.rules)) :
                   fw' = [fw EXCEPT !.rules = stored]
              /\ Call("refreshRules", obj, info)
    /\ UNCHANGED <<object, used, servers, nextID>>

RefreshRules ==
    /\ pc = "refreshRules"
    /\ EnsureTargets(obj, Refreshed)
    /\ UNCHANGED <<object, used, hetzner>>

RemoveFirewallResources ==
    /\ pc = "remove"
    /\ LET remove == info.applied \ obj.plan
           ok     == fw.id = info.id /\ MayRemove(fw, remove)
       IN  \/ ~ok /\ Fail(obj) /\ UNCHANGED fw
           \/ ok /\ fw' = Removing(fw, remove) /\ EnsureApplied(obj, info)
    /\ UNCHANGED <<object, used, servers, nextID>>

ApplyFirewallResources ==
    /\ pc = "apply"
    /\ LET add == obj.plan \ info.applied
           ok  == fw.id = info.id /\ MayApply(fw, add)
       IN  \/ ~ok /\ Fail(obj) /\ UNCHANGED fw
           \/ ok /\ fw' \in Applying(fw, add) /\ Finish(obj)
    /\ UNCHANGED <<object, used, servers, nextID>>

\* Mutant: deletes without detaching first.
FetchWithoutDetach ==
    /\ pc = "fetch"
    /\ Call(IF fw.id = obj.status.id THEN "delete" ELSE "release", obj, NoInfo)
    /\ UNCHANGED <<object, used, hetzner>>

\* DeleteFirewall, its GetByID.
FetchForDeletion ==
    /\ pc = "fetch"
    /\ CASE fw.id # obj.status.id -> Call("release", obj, NoInfo)
         [] fw.id = obj.status.id /\ fw.applied = {} -> Call("delete", obj, NoInfo)
         [] OTHER -> Call("detach", obj, firewallInfoFromSDK(fw))
    /\ UNCHANGED <<object, used, hetzner>>

\* DeleteFirewall, its RemoveFirewallResources: "already removed" is no error,
\* a firewall that is not found or a target that is still locked is.
DetachBeforeDelete ==
    /\ pc = "detach"
    /\ \/ /\ fw.id = info.id /\ MayRemove(fw, info.applied)
          /\ fw' = Removing(fw, info.applied) /\ Call("delete", obj, NoInfo)
       \/ /\ fw.id = info.id /\ ~MayRemove(fw, info.applied)
          /\ Call("delete", obj, NoInfo) /\ UNCHANGED fw
       \/ /\ fw.id # info.id \/ info.applied \cap fw.removing # {}
          /\ Stop /\ UNCHANGED fw
    /\ UNCHANGED <<object, used, servers, nextID>>

\* DeleteFirewall, its Delete: refused while the firewall is applied anywhere
\* and when it is gone.
DeleteFirewall ==
    /\ pc = "delete"
    /\ LET ok == fw.id = obj.status.id /\ fw.applied \cup fw.adding = {}
       IN  \/ ~ok /\ Stop /\ UNCHANGED fw
           \/ ok /\ fw' = NoFirewall /\ Call("release", obj, NoInfo)
    /\ UNCHANGED <<object, used, servers, nextID>>

Work ==
    \/ Reconcile \/ LookupByID \/ LookupByName \/ CreateFirewall
    \/ UpdateFirewallLabels \/ RefreshLabels \/ SetFirewallRules \/ RefreshRules
    \/ RemoveFirewallResources \/ ApplyFirewallResources
    \/ FetchForDeletion \/ DetachBeforeDelete \/ DeleteFirewall
    \/ WriteStatus /\ UNCHANGED hetzner
    \/ Release /\ UNCHANGED hetzner

Next ==
    \/ EditFirewall \/ ServerReady \/ ServerDestroyed \/ ServerObjectGoes
    \/ Progress \/ External \/ Work
    \/ /\ \/ DeleteObject \/ CacheSync \/ Crash
          \/ CallFails({"lookupByID", "lookupByName", "create", "updateLabels",
                        "refreshLabels", "setRules", "refreshRules", "remove", "apply"},
                       {"fetch", "detach", "delete", "release"})
       /\ UNCHANGED hetzner

Spec == Init /\ [][Next]_vars

\* The key is queued again after every reconcile, Hetzner finishes what it
\* accepted, the watch delivers, servers come up and deleted ones go away.
FairSpec ==
    /\ Spec
    /\ WF_vars(Work) /\ WF_vars(Progress) /\ WF_vars(CacheSync /\ UNCHANGED hetzner)
    /\ WF_vars(ServerReady) /\ WF_vars(ServerObjectGoes)

-----------------------------------------------------------------------------
(* Properties.                                                             *)

Resolvable == Parses(spec.rules) /\ RefsExist(spec)

\* Once the spec and the world stop changing, the firewall has the labels and
\* rules of the spec and is applied to exactly the targets applyTo names, although
\* removals and applications are sent without waiting for one another and a
\* request with one target in the wrong state is refused as a whole.  Ready
\* says whether that was possible: a rule that does not parse or a reference to
\* a server that is gone keeps it False.  And the operator comes to rest, unless
\* a CIDR of the spec is spelt with host bits: Hetzner's answer never equals
\* that one, and the rules are set again on every reconcile.  Where applyTo is
\* omitted nothing is said about the targets (see ManualAttachmentsStay).
FirewallConverges ==
    /\ <>[]((\A i \in DOMAIN spec.rules : spec.rules[i].src = "net")
              => pc \notin {"create", "updateLabels", "setRules", "remove", "apply"})
    /\ <>[](phase = "live"
              => /\ status.ready = Resolvable
                 /\ Resolvable =>
                      /\ fw.id # 0 /\ status.id = fw.id /\ fw.labels = spec.labels
                      /\ fw.rules \in Stored(firewallRuleInfosToSDK(spec.rules))
                      /\ spec.applyTo # {} => fw.applied = desiredApplyResources(spec)
                      /\ fw.adding = {} /\ fw.removing = {})

\* HCloudFirewallSpec, "Omit to manage rules only (attach servers elsewhere /
\* manually)": the operator takes nothing off a firewall whose spec omits
\* applyTo.  It does not hold: the controller wants the firewall applied nowhere
\* then, and removes what others attached.
ManualAttachmentsStay ==
    [][pc = "remove" /\ obj.spec.applyTo = {} => fw'.removing \subseteq fw.removing]_vars

\* The object is let go only when the firewall its status names is gone.
FirewallGoesFirst ==
    [][phase' = "gone" /\ phase # "gone" => status.id = 0 \/ fw.id # status.id]_vars

\* README, "Safe Cleanup": a deleted object goes, after its firewall, although
\* the delete is sent before the detach has finished and is then refused, and
\* although targets may vanish or be attached by others in between.
DeletionCompletes ==
    /\ <>[](phase # "deleting")
    /\ FirewallGoesFirst

-----------------------------------------------------------------------------
(* The object and its Hetzner resource, as ManagedResource sees them.      *)

Held   == {fw.id} \ {0}
Issued == 1..nextID - 1

M == INSTANCE ManagedResource WITH
        phase <- ManagedPhase, recorded <- Recorded, cloud <- Held, issued <- Issued

\* Every step is one that ManagedResource allows of a guarded object: a
\* firewall is created only where there is none, under a new ID and for an
\* object that still exists, the status takes up only IDs that were issued,
\* and the object goes only after the firewall its status names.
KeepsManagedResource == [][M!Next]_(M!vars)

-----------------------------------------------------------------------------
(* The inductive invariant behind TypeOK, FirewallGoesFirst and             *)
(* KeepsManagedResource.                                                    *)

InfoCalls   == {"updateLabels", "refreshLabels", "setRules", "refreshRules", "remove",
                "apply", "detach"}
DeleteCalls == {"fetch", "detach", "delete", "release"}

\* What the worker holds at each call.
WorkerHolds ==
    /\ pc # "idle" => obj \in Objects
    /\ pc \in InfoCalls => info \in Infos
    /\ pc \in DeleteCalls => obj.phase = "deleting"

\* Nobody names a firewall that Hetzner has not given out.
IDsIssued ==
    /\ fw.id < nextID /\ status.id < nextID /\ seen.status.id < nextID
    /\ pc # "idle" => obj.status.id < nextID

\* A firewall is created only where there is none, and the object is let go
\* after the firewall of the worker's copy.
RightMoment ==
    /\ pc = "create" => fw.id = 0
    /\ pc = "release" => obj.status.id = 0 \/ fw.id # obj.status.id

IndInv ==
    /\ TypeOK /\ PhasesAgree(DeleteCalls) /\ WorkerHolds /\ IDsIssued /\ RightMoment
=============================================================================
