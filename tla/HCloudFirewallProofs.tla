------------------------- MODULE HCloudFirewallProofs -------------------------
(***************************************************************************)
(* Proofs about HCloudFirewall for every number of servers, every set of   *)
(* specs and every Budget: type correctness, that the object is let go     *)
(* only after its firewall, and that every step is one ManagedResource     *)
(* allows.                                                                 *)
(***************************************************************************)
EXTENDS HCloudFirewall, SequenceTheorems, TLAPS

-----------------------------------------------------------------------------
(* The steps that all kinds share: types.                                  *)

\* The bookkeeping of disturbances keeps its type and only grows.
LEMMA SpendFacts ==
    ASSUME used \in [Disturbances -> Nat], NEW d \in Disturbances, Spend(d)
    PROVE  /\ used' \in [Disturbances -> Nat]
           /\ \A e \in Disturbances : used'[e] >= used[e]
           /\ used'[d] > used[d]
  <1>1. "any" \in Disturbances
    BY DEF Disturbances
  <1>2. CASE d = "any"
    BY <1>1, <1>2 DEF Spend
  <1>3. CASE d # "any"
    BY <1>1, <1>3 DEF Spend
  <1> QED BY <1>2, <1>3

\* At the start nothing has happened.
LEMMA WorkerInitTyped ==
    ASSUME NEW S, NEW T, spec \in S, status \in T, NEW D, "idle" \notin D, WorkerInit
    PROVE  ObjectTyped(S, T) /\ PhasesAgree(D)
  BY DEF WorkerInit, ObjectTyped, Current, Phases, PhasesAgree

\* The user's and the cache's steps keep the types and leave the worker alone.
LEMMA ObjectStepsTyped ==
    ASSUME NEW S, NEW T, ObjectTyped(S, T),
           (\E s \in S : Edit(s)) \/ DeleteObject \/ CacheSync
    PROVE  /\ ObjectTyped(S, T)' /\ UNCHANGED worker
           /\ status' = status /\ (seen' = seen \/ seen' = Current)
           /\ phase' = phase \/ (phase = "live" /\ phase' = "deleting")
           /\ phase' = phase \/ seen' = seen
  <1>1. ASSUME NEW s \in S, Edit(s)
        PROVE  ObjectTyped(S, T)'
    BY <1>1, SpendFacts DEF Edit, ObjectTyped, Disturbances
  <1>2. CASE DeleteObject
    BY <1>2, SpendFacts DEF DeleteObject, ObjectTyped, Phases, Disturbances
  <1>3. CASE CacheSync
    BY <1>3 DEF CacheSync, ObjectTyped, Current
  <1> QED BY <1>1, <1>2, <1>3 DEF Edit, DeleteObject, CacheSync

\* A worker that stops or moves on leaves the object alone, unless it writes
\* the status or lets the object go.
LEMMA WorkerStepsTyped ==
    ASSUME NEW S, NEW T, ObjectTyped(S, T),
           \/ WriteStatus /\ obj.status \in T
           \/ Release \/ Crash
           \/ UNCHANGED <<object, used>>
    PROVE  ObjectTyped(S, T)'
  <1>1. CASE WriteStatus /\ obj.status \in T
    BY <1>1, SpendFacts DEF WriteStatus, ObjectTyped, Disturbances
  <1>2. CASE Release
    BY <1>2 DEF Release, ObjectTyped, Phases
  <1>3. CASE Crash
    BY <1>3, SpendFacts DEF Crash, object, ObjectTyped, Disturbances
  <1>4. CASE UNCHANGED <<object, used>>
    BY <1>4 DEF object, ObjectTyped
  <1> QED BY <1>1, <1>2, <1>3, <1>4

\* So does a failed call.
LEMMA CallFailsTyped ==
    ASSUME NEW S, NEW T, ObjectTyped(S, T), NEW R, NEW D, CallFails(R, D)
    PROVE  /\ ObjectTyped(S, T)' /\ UNCHANGED object
           /\ \/ pc \in R /\ Fail(obj)
              \/ pc \in D /\ Stop
  BY SpendFacts DEF CallFails, object, ObjectTyped, Disturbances

-----------------------------------------------------------------------------
(* The steps that all kinds share: phases.                                 *)

\* The steps of the object keep what is known of the phases.
LEMMA ObjectStepsAgree ==
    ASSUME NEW S, NEW T, ObjectTyped(S, T), NEW D, PhasesAgree(D),
           (\E s \in S : Edit(s)) \/ DeleteObject \/ CacheSync
    PROVE  PhasesAgree(D)'
  BY DEF Edit, DeleteObject, CacheSync, PhasesAgree, ObjectTyped, Current, worker

\* Release lets an object go that the worker was shown in deletion.
LEMMA ReleaseAgrees ==
    ASSUME NEW D, PhasesAgree(D), "release" \in D, Release
    PROVE  PhasesAgree(D)'
  BY DEF Release, Stop, PhasesAgree

\* A step of the worker that leaves the object's phase and its cached copy:
\* it goes on, stops, or starts according to the phase the cache shows.
LEMMA WorkerStepAgrees ==
    ASSUME NEW D, PhasesAgree(D), UNCHANGED <<phase, seen>>,
           pc' \in D => pc \in D \/ seen.phase # "live",
           pc' \notin D \cup {"idle"} => pc \notin D \cup {"idle"} \/ seen.phase = "live"
    PROVE  PhasesAgree(D)'
  BY DEF PhasesAgree

-----------------------------------------------------------------------------
(* The records.                                                            *)

\* TypeOK says of the object what the shared lemmas need.
LEMMA ObjectIsTyped ==
    ASSUME TypeOK
    PROVE  ObjectTyped(FirewallSpecs, Statuses)
  BY DEF TypeOK, ObjectTyped, Copies

\* The referenced servers come and go.
LEMMA ServersTyped ==
    ASSUME ServersTypeOK, NEW s \in Servers, BecomeReady(s) \/ Destroy(s) \/ ObjectGoes(s)
    PROVE  ServersTypeOK'
  <1>1. srvObj' \in [Servers -> {"pending", "ready", "gone"}]
    BY DEF ServersTypeOK, BecomeReady, Destroy, ObjectGoes
  <1>2. srvLive' \subseteq Servers
    BY DEF ServersTypeOK, BecomeReady, Destroy, ObjectGoes
  <1> QED BY <1>1, <1>2 DEF ServersTypeOK

\* The worker's copies of the object.
LEMMA CopyFacts ==
    ASSUME NEW o \in Objects
    PROVE  /\ o.status \in Statuses /\ o.status.id \in Nat /\ o.spec \in FirewallSpecs
           /\ o.spec.labels \in Nat /\ o.spec.rules \in Seq(Rules)
           /\ o.plan \subseteq Targets /\ o.phase \in Phases
  <1>1. /\ o.status \in Statuses /\ o.spec \in FirewallSpecs /\ o.spec \in Specs
        /\ o.plan \subseteq Targets /\ o.phase \in Phases
    BY SpecsAssumption DEF Objects
  <1> QED BY <1>1 DEF Statuses, Specs

\* Replacing the recorded ID or Ready in a copy.
LEMMA ReadyChanged ==
    ASSUME NEW o \in Objects, NEW b \in BOOLEAN
    PROVE  /\ [o EXCEPT !.status.ready = b] \in Objects
           /\ [o EXCEPT !.status.ready = b].status.id = o.status.id
           /\ [o EXCEPT !.status.ready = b].phase = o.phase
  BY DEF Objects, Statuses

LEMMA IDChanged ==
    ASSUME NEW o \in Objects, NEW n \in Nat
    PROVE  /\ [o EXCEPT !.status.id = n] \in Objects
           /\ [o EXCEPT !.status.id = n].status.id = n
           /\ [o EXCEPT !.status.id = n].phase = o.phase
  BY DEF Objects, Statuses

\* What Reconcile takes from the cache.
LEMMA TakenFacts ==
    ASSUME seen \in Copies, NEW plan \in SUBSET Targets
    PROVE  /\ Taken(plan) \in Objects /\ Taken(plan).status = seen.status
           /\ Taken(plan).phase = seen.phase
  BY DEF Taken, Copies, Objects

\* No firewall.
LEMMA NoFirewallFacts == NoFirewall \in Firewalls /\ NoFirewall.id = 0
  <1>1. <<>> \in Seq(Rules)
    BY EmptySeq
  <1> QED BY <1>1 DEF NoFirewall, Firewalls

\* The firewall's fields change one by one, and its ID with none of them.
LEMMA FieldFacts ==
    ASSUME NEW f \in Firewalls, NEW l \in Nat, NEW r \in Seq(Rules)
    PROVE  /\ f.id \in Nat
           /\ [f EXCEPT !.labels = l] \in Firewalls /\ [f EXCEPT !.labels = l].id = f.id
           /\ [f EXCEPT !.rules = r] \in Firewalls /\ [f EXCEPT !.rules = r].id = f.id
  BY DEF Firewalls

LEMMA TargetFacts ==
    ASSUME NEW f \in Firewalls, NEW T \in SUBSET Targets
    PROVE  /\ [f EXCEPT !.applied = T] \in Firewalls /\ [f EXCEPT !.applied = T].id = f.id
           /\ [f EXCEPT !.adding = T] \in Firewalls /\ [f EXCEPT !.adding = T].id = f.id
           /\ [f EXCEPT !.removing = T] \in Firewalls /\ [f EXCEPT !.removing = T].id = f.id
           /\ f.applied \subseteq Targets /\ f.adding \subseteq Targets
           /\ f.removing \subseteq Targets
  BY DEF Firewalls

LEMMA RequestFacts ==
    ASSUME NEW f \in Firewalls, NEW T \in SUBSET Targets
    PROVE  /\ \A g \in Applying(f, T) : g \in Firewalls /\ g.id = f.id
           /\ Removing(f, T) \in Firewalls /\ Removing(f, T).id = f.id
           /\ Without(f, T) \in Firewalls /\ Without(f, T).id = f.id
  <1>1. /\ f.applied \cup T \in SUBSET Targets /\ f.adding \cup T \in SUBSET Targets
        /\ f.removing \cup T \in SUBSET Targets
    BY TargetFacts
  <1>2. \A g \in Applying(f, T) : g \in Firewalls /\ g.id = f.id
    <2> DEFINE A == f.applied \cup T
               B == f.adding \cup T
    <2>1. A \in SUBSET Targets /\ B \in SUBSET Targets
      BY <1>1
    <2> DEFINE a == [f EXCEPT !.applied = A]
               b == [f EXCEPT !.adding = B]
    <2>2. Applying(f, T) = {a, b}
      BY DEF Applying
    <2> HIDE DEF A, B
    <2>3. a \in Firewalls /\ a.id = f.id
      BY <2>1, TargetFacts
    <2>4. b \in Firewalls /\ b.id = f.id
      BY <2>1, TargetFacts
    <2> HIDE DEF a, b
    <2> QED BY <2>2, <2>3, <2>4
  <1>3. Removing(f, T) \in Firewalls /\ Removing(f, T).id = f.id
    BY <1>1, TargetFacts DEF Removing
  <1>4. Without(f, T) \in Firewalls /\ Without(f, T).id = f.id
    BY DEF Firewalls, Without
  <1> QED BY <1>2, <1>3, <1>4

\* Hetzner keeps the rules it is sent, in whatever order.
LEMMA RulesFacts ==
    ASSUME NEW rules \in Seq(Rules)
    PROVE  Stored(firewallRuleInfosToSDK(rules)) \subseteq Seq(Rules)
  <1> DEFINE n == Len(rules)
             sent == firewallRuleInfosToSDK(rules)
  <1>1. n \in Nat /\ rules \in [1..n -> Rules] /\ DOMAIN rules = 1..n
    BY LenProperties
  <1>2. \A i \in 1..n : [rules[i] EXCEPT !.src = "net"] \in Rules
    BY <1>1 DEF Rules
  <1>3. sent \in [1..n -> Rules] /\ DOMAIN sent = 1..n
    BY <1>1, <1>2 DEF firewallRuleInfosToSDK
  <1> HIDE DEF n, sent
  <1>4. ASSUME NEW s \in Stored(sent)
        PROVE  s \in Seq(Rules)
    <2>1. PICK p \in [1..n -> 1..n] : s = [i \in 1..n |-> sent[p[i]]]
      BY <1>3, <1>4 DEF Stored
    <2>2. s \in [1..n -> Rules]
      BY <1>3, <2>1
    <2> QED BY <1>1, <2>2, SeqDef
  <1> QED BY <1>4 DEF sent

LEMMA InfoFacts ==
    ASSUME NEW f \in Firewalls
    PROVE  firewallInfoFromSDK(f) \in Infos /\ firewallInfoFromSDK(f).id = f.id
  BY DEF Firewalls, Infos, firewallInfoFromSDK

-----------------------------------------------------------------------------
(* How a reconcile goes on.                                                *)

\* It records the ID it had or the one it found, and what it calls next needs
\* no right moment.
GoesOn(id) ==
    /\ obj' \in Objects /\ obj'.status.id = id
    /\ \/ pc' = "write" /\ info' = NoInfo
       \/ pc' \in InfoCalls \ DeleteCalls /\ info' \in Infos

LEMMA FailGoesOn ==
    ASSUME NEW o \in Objects, Fail(o)
    PROVE  GoesOn(o.status.id)
  BY ReadyChanged DEF Fail, Call, GoesOn

LEMMA FinishGoesOn ==
    ASSUME NEW o \in Objects, Finish(o)
    PROVE  GoesOn(o.status.id)
  BY ReadyChanged DEF Finish, Done, Call, GoesOn

LEMMA CallGoesOn ==
    ASSUME NEW o \in Objects, NEW i \in Infos, NEW step \in InfoCalls \ DeleteCalls,
           Call(step, o, i)
    PROVE  GoesOn(o.status.id)
  BY DEF Call, GoesOn

LEMMA EnsureAppliedGoesOn ==
    ASSUME NEW o \in Objects, NEW i \in Infos, EnsureApplied(o, i)
    PROVE  GoesOn(o.status.id)
  <1>1. "apply" \in InfoCalls \ DeleteCalls
    BY DEF InfoCalls, DeleteCalls
  <1> QED BY <1>1, FinishGoesOn, CallGoesOn DEF EnsureApplied

LEMMA EnsureTargetsGoesOn ==
    ASSUME NEW o \in Objects, NEW i \in Infos, EnsureTargets(o, i)
    PROVE  GoesOn(o.status.id)
  <1>1. "remove" \in InfoCalls \ DeleteCalls
    BY DEF InfoCalls, DeleteCalls
  <1> QED BY <1>1, EnsureAppliedGoesOn, CallGoesOn DEF EnsureTargets

LEMMA EnsureRulesGoesOn ==
    ASSUME NEW o \in Objects, NEW i \in Infos, EnsureRules(o, i)
    PROVE  GoesOn(o.status.id)
  <1>1. "setRules" \in InfoCalls \ DeleteCalls
    BY DEF InfoCalls, DeleteCalls
  <1> QED BY <1>1, EnsureTargetsGoesOn, CallGoesOn DEF EnsureRules

LEMMA EnsureFirewallGoesOn ==
    ASSUME NEW o \in Objects, NEW i \in Infos, EnsureFirewall(o, i)
    PROVE  GoesOn(i.id)
  <1> DEFINE recorded == [o EXCEPT !.status.id = i.id]
  <1>1. i.id \in Nat
    BY DEF Infos
  <1>2. recorded \in Objects /\ recorded.status.id = i.id
    BY <1>1, IDChanged
  <1>3. EnsureRules(recorded, i) \/ Call("updateLabels", recorded, i)
    BY DEF EnsureFirewall
  <1> HIDE DEF recorded
  <1>4. "updateLabels" \in InfoCalls \ DeleteCalls
    BY DEF InfoCalls, DeleteCalls
  <1> QED BY <1>2, <1>3, <1>4, EnsureRulesGoesOn, CallGoesOn

-----------------------------------------------------------------------------
(* Ways in which a step keeps the invariant.                               *)

\* A step that leaves the worker alone.
LEMMA EnvironmentKeeps ==
    ASSUME IndInv, UNCHANGED <<pc, obj, info, nextID, status>>,
           ServersTypeOK', ObjectTyped(FirewallSpecs, Statuses)', PhasesAgree(DeleteCalls)',
           seen' = seen \/ seen' = Current,
           fw' \in Firewalls, fw'.id \in {fw.id, 0}
    PROVE  IndInv'
  <1>1. TypeOK'
    BY DEF IndInv, TypeOK, ObjectTyped, Copies
  <1>2. WorkerHolds'
    BY DEF IndInv, WorkerHolds
  <1>3. IDsIssued'
    <2>1. fw'.id < nextID
      BY DEF IndInv, IDsIssued, TypeOK
    <2>2. seen'.status.id < nextID
      BY DEF IndInv, IDsIssued, Current
    <2> QED BY <2>1, <2>2 DEF IndInv, IDsIssued
  <1>4. RightMoment'
    BY DEF IndInv, RightMoment
  <1> QED BY <1>1, <1>2, <1>3, <1>4 DEF IndInv

\* A step of the worker that changes at most its own state, the status it
\* writes and the firewall.
LEMMA WorkerKeeps ==
    ASSUME IndInv, UNCHANGED <<servers, spec, seen>>,
           ObjectTyped(FirewallSpecs, Statuses)', PhasesAgree(DeleteCalls)',
           status'.id < nextID',
           pc' \in PCs, obj' \in Objects \cup {NoObj}, info' \in Infos \cup {NoInfo},
           fw' \in Firewalls, nextID' \in Nat, nextID' >= nextID, fw'.id < nextID',
           RightMoment',
           pc' # "idle" => obj' \in Objects /\ obj'.status.id < nextID',
           pc' \in InfoCalls => info' \in Infos,
           pc' \in DeleteCalls => obj'.phase = "deleting"
    PROVE  IndInv'
  <1>1. nextID \in Nat \ {0} /\ seen.status.id \in Nat
    BY DEF IndInv, TypeOK, Copies, Statuses
  <1>2. ServersTypeOK'
    BY DEF IndInv, TypeOK, ServersTypeOK, servers
  <1>3. TypeOK'
    BY <1>1, <1>2 DEF IndInv, TypeOK, ObjectTyped, Copies
  <1>4. WorkerHolds'
    BY DEF WorkerHolds
  <1>5. IDsIssued'
    BY <1>1 DEF IndInv, IDsIssued
  <1> QED BY <1>3, <1>4, <1>5 DEF IndInv

\* The worker stops, on a failure or a crash or at the end.
LEMMA StopKeeps ==
    ASSUME IndInv, Stop, UNCHANGED <<servers, spec, seen, fw, nextID>>,
           ObjectTyped(FirewallSpecs, Statuses)', PhasesAgree(DeleteCalls)',
           status'.id < nextID
    PROVE  IndInv'
  <1>1. pc' = "idle" /\ obj' = NoObj /\ info' = NoInfo
    BY DEF Stop
  <1>2. fw \in Firewalls /\ nextID \in Nat /\ fw.id < nextID /\ nextID >= nextID
    BY DEF IndInv, TypeOK, IDsIssued
  <1>3. RightMoment' /\ pc' \in PCs /\ pc' \notin DeleteCalls /\ pc' \notin InfoCalls
    BY <1>1 DEF RightMoment, PCs, DeleteCalls, InfoCalls
  <1> QED BY <1>1, <1>2, <1>3, WorkerKeeps

\* The worker stops without having touched the object.
LEMMA StopsEarly ==
    ASSUME IndInv, Stop, UNCHANGED <<servers, phase, spec, status, seen, fw, nextID>>,
           used' \in [Disturbances -> Nat]
    PROVE  IndInv'
  <1>1. ObjectTyped(FirewallSpecs, Statuses)'
    BY ObjectIsTyped DEF IndInv, ObjectTyped
  <1>2. pc' = "idle" /\ "idle" \notin DeleteCalls /\ status'.id < nextID
    BY DEF Stop, DeleteCalls, IndInv, IDsIssued
  <1>3. PhasesAgree(DeleteCalls)'
    BY <1>2, WorkerStepAgrees DEF IndInv
  <1> QED BY <1>1, <1>2, <1>3, StopKeeps

\* A reconcile goes on with an ID that was issued.
LEMMA GoesOnKeeps ==
    ASSUME IndInv, UNCHANGED <<servers, phase, spec, status, seen>>,
           used' \in [Disturbances -> Nat],
           pc \notin DeleteCalls \cup {"idle"} \/ seen.phase = "live",
           fw' \in Firewalls, nextID' \in Nat, nextID' >= nextID, fw'.id < nextID',
           NEW id, id < nextID', GoesOn(id)
    PROVE  IndInv'
  <1>1. nextID \in Nat /\ status.id < nextID /\ status.id \in Nat
    BY DEF IndInv, TypeOK, IDsIssued, Statuses
  <1>2. ObjectTyped(FirewallSpecs, Statuses)'
    BY ObjectIsTyped DEF IndInv, ObjectTyped
  <1>3. /\ pc' \notin DeleteCalls \cup {"idle"} /\ pc' \in PCs
        /\ pc' # "create" /\ pc' # "release"
    BY DEF GoesOn, DeleteCalls, InfoCalls, PCs
  <1>4. PhasesAgree(DeleteCalls)'
    BY <1>3, WorkerStepAgrees DEF IndInv
  <1>5. RightMoment' /\ status'.id < nextID'
    BY <1>1, <1>3 DEF RightMoment
  <1>6. /\ obj' \in Objects /\ obj'.status.id < nextID' /\ info' \in Infos \cup {NoInfo}
        /\ pc' \in InfoCalls => info' \in Infos
    BY DEF GoesOn, InfoCalls
  <1> QED BY <1>2, <1>3, <1>4, <1>5, <1>6, WorkerKeeps

\* The worker moves on to another call with the copy it has.
LEMMA MovesOnKeeps ==
    ASSUME IndInv, UNCHANGED <<servers, phase, spec, status, seen, used, nextID>>,
           pc # "idle", pc' # "idle", pc' \in DeleteCalls <=> pc \in DeleteCalls,
           fw' \in Firewalls, fw'.id \in {fw.id, 0}, obj' = obj,
           pc' \in PCs, info' \in Infos \cup {NoInfo}, pc' \in InfoCalls => info' \in Infos,
           RightMoment'
    PROVE  IndInv'
  <1>1. /\ nextID \in Nat /\ nextID >= nextID /\ status.id < nextID /\ fw'.id < nextID
        /\ obj \in Objects /\ obj.status.id < nextID /\ used \in [Disturbances -> Nat]
        /\ pc \in DeleteCalls => obj.phase = "deleting"
    BY DEF IndInv, TypeOK, IDsIssued, WorkerHolds
  <1>2. ObjectTyped(FirewallSpecs, Statuses)'
    BY ObjectIsTyped DEF IndInv, ObjectTyped
  <1>3. PhasesAgree(DeleteCalls)'
    BY WorkerStepAgrees DEF IndInv
  <1> QED BY <1>1, <1>2, <1>3, WorkerKeeps

-----------------------------------------------------------------------------
(* The invariant holds at the start and every step keeps it.               *)

\* A fresh object and an empty project.
LEMMA InitIndInv == Init => IndInv
  <1> SUFFICES ASSUME Init PROVE IndInv
    OBVIOUS
  <1>1. NoStatus \in Statuses /\ NoStatus.id = 0
    BY DEF NoStatus, Statuses
  <1>2. ObjectTyped(FirewallSpecs, Statuses) /\ PhasesAgree(DeleteCalls)
    <2>1. /\ "idle" \notin DeleteCalls /\ spec \in FirewallSpecs /\ status \in Statuses
          /\ WorkerInit
      BY <1>1 DEF Init, DeleteCalls
    <2> QED BY <2>1, WorkerInitTyped
  <1>3. pc = "idle" /\ obj = NoObj /\ info = NoInfo /\ seen.status = NoStatus
    BY DEF Init, WorkerInit, Current
  <1>4. TypeOK
    <2>1. fw \in Firewalls /\ nextID \in Nat \ {0}
      BY NoFirewallFacts DEF Init
    <2>2. pc \in PCs /\ obj \in Objects \cup {NoObj} /\ info \in Infos \cup {NoInfo}
      BY <1>3 DEF PCs
    <2>3. ServersTypeOK
      BY DEF Init, ServersInit, ServersTypeOK
    <2> QED BY <1>2, <2>1, <2>2, <2>3 DEF TypeOK, ObjectTyped, Copies
  <1>5. IDsIssued /\ WorkerHolds /\ RightMoment
    BY <1>1, <1>3, NoFirewallFacts
    DEF Init, IDsIssued, WorkerHolds, RightMoment, DeleteCalls, InfoCalls
  <1> QED BY <1>2, <1>4, <1>5 DEF IndInv

\* The user and the cache.
LEMMA ObjectStepsIndInv ==
    ASSUME IndInv, EditFirewall \/ ((DeleteObject \/ CacheSync) /\ UNCHANGED hetzner)
    PROVE  IndInv'
  <1>1. UNCHANGED <<srvObj, srvLive, fw, nextID>>
    BY DEF EditFirewall, hetzner
  <1>2. (\E s \in FirewallSpecs : Edit(s)) \/ DeleteObject \/ CacheSync
    BY DEF EditFirewall
  <1>3. /\ ObjectTyped(FirewallSpecs, Statuses)' /\ UNCHANGED <<pc, obj, info, status>>
        /\ seen' = seen \/ seen' = Current
    BY <1>2, ObjectIsTyped, ObjectStepsTyped DEF IndInv, worker
  <1>4. PhasesAgree(DeleteCalls)'
    BY <1>2, ObjectIsTyped, ObjectStepsAgree DEF IndInv
  <1>5. ServersTypeOK' /\ fw' \in Firewalls /\ fw'.id \in {fw.id, 0}
    BY <1>1 DEF IndInv, TypeOK, ServersTypeOK
  <1> QED BY <1>1, <1>3, <1>4, <1>5, EnvironmentKeeps

\* The servers, Hetzner and others.
LEMMA CloudStepsIndInv ==
    ASSUME IndInv, \/ ServerReady \/ ServerDestroyed \/ ServerObjectGoes
                   \/ Progress \/ External
    PROVE  IndInv'
  <1>1. UNCHANGED <<phase, spec, status, seen, pc, obj, info, nextID>>
    BY DEF ServerReady, ServerDestroyed, ServerObjectGoes, Progress, External, object, worker
  <1>2. fw \in Firewalls /\ ServersTypeOK /\ used \in [Disturbances -> Nat]
    BY DEF IndInv, TypeOK
  <1>3. used' \in [Disturbances -> Nat]
    BY <1>2, SpendFacts
    DEF ServerReady, ServerDestroyed, ServerObjectGoes, Progress, External, Disturbances
  <1>4. ObjectTyped(FirewallSpecs, Statuses)' /\ PhasesAgree(DeleteCalls)'
    BY <1>1, <1>3, ObjectIsTyped DEF IndInv, ObjectTyped, PhasesAgree
  <1>5. ServersTypeOK'
    <2>1. CASE UNCHANGED servers
      BY <1>2, <2>1 DEF servers, ServersTypeOK
    <2> QED BY <1>2, <2>1, ServersTyped
        DEF ServerReady, ServerDestroyed, ServerObjectGoes, Progress, External
  <1>6. fw' \in Firewalls /\ fw'.id \in {fw.id, 0}
    <2>1. \A t \in Targets : {t} \in SUBSET Targets
      OBVIOUS
    <2>2. Servers \subseteq Targets
      BY DEF Targets
    <2>3. CASE ServerReady \/ ServerObjectGoes
      BY <1>2, <2>3 DEF ServerReady, ServerObjectGoes
    <2>4. CASE ServerDestroyed
      BY <1>2, <2>1, <2>2, <2>4, RequestFacts DEF ServerDestroyed
    <2>5. CASE Progress
      <3>1. PICK t \in fw.adding \cup fw.removing :
                fw' = IF t \in fw.adding
                      THEN [Without(fw, {t}) EXCEPT !.applied = @ \cup {t}]
                      ELSE Without(fw, {t})
        BY <2>5 DEF Progress
      <3> DEFINE w == Without(fw, {t})
      <3>2. {t} \in SUBSET Targets
        BY <1>2, TargetFacts
      <3>3. w \in Firewalls /\ w.id = fw.id
        BY <1>2, <3>2, RequestFacts
      <3>4. fw' = IF t \in fw.adding THEN [w EXCEPT !.applied = w.applied \cup {t}] ELSE w
        BY <3>1
      <3> HIDE DEF w
      <3>5. w.applied \cup {t} \in SUBSET Targets
        BY <3>2, <3>3, TargetFacts
      <3> QED BY <3>3, <3>4, <3>5, TargetFacts
    <2>6. CASE External
      <3>1. CASE fw' = NoFirewall
        BY <3>1, NoFirewallFacts
      <3>2. ASSUME NEW s \in Servers, fw' = [fw EXCEPT !.applied = fw.applied \cup {s}]
            PROVE  fw' \in Firewalls /\ fw'.id = fw.id
        <4> DEFINE A == fw.applied \cup {s}
        <4>1. A \in SUBSET Targets /\ fw' = [fw EXCEPT !.applied = A]
          BY <1>2, <2>2, <3>2, TargetFacts
        <4> HIDE DEF A
        <4> QED BY <1>2, <4>1, TargetFacts
      <3>3. ASSUME NEW t \in fw.applied, fw' = Without(fw, {t})
            PROVE  fw' \in Firewalls /\ fw'.id = fw.id
        <4>1. {t} \in SUBSET Targets
          BY <1>2, TargetFacts
        <4> QED BY <1>2, <3>3, <4>1, RequestFacts
      <3>4. CASE fw' = [fw EXCEPT !.rules = <<>>]
        BY <1>2, <3>4, EmptySeq, FieldFacts
      <3> QED BY <2>6, <3>1, <3>2, <3>3, <3>4 DEF External
    <2> QED BY <2>3, <2>4, <2>5, <2>6
  <1> QED BY <1>1, <1>4, <1>5, <1>6, EnvironmentKeeps

\* The worker starts from the cached copy.
LEMMA ReconcileIndInv == IndInv /\ Reconcile => IndInv'
  <1> SUFFICES ASSUME IndInv, Reconcile PROVE IndInv'
    OBVIOUS
  <1>1. /\ UNCHANGED <<servers, phase, spec, status, seen, used, fw, nextID>>
        /\ pc = "idle" /\ seen.phase # "gone"
    BY DEF Reconcile, object, hetzner, servers
  <1>2. /\ seen \in Copies /\ seen.phase \in {"live", "deleting"} /\ fw \in Firewalls
        /\ nextID \in Nat /\ nextID >= nextID /\ fw.id < nextID /\ status.id < nextID
        /\ seen.status.id < nextID /\ used \in [Disturbances -> Nat]
    BY <1>1 DEF IndInv, TypeOK, IDsIssued, Copies, Phases
  <1>3. CASE seen.phase = "live" /\ Fail(Taken({}))
    <2>1. {} \in SUBSET Targets
      OBVIOUS
    <2>2. Taken({}) \in Objects /\ Taken({}).status.id = seen.status.id
      BY <1>2, <2>1, TakenFacts
    <2>3. GoesOn(seen.status.id)
      BY <1>3, <2>2, FailGoesOn
    <2> QED BY <1>1, <1>2, <1>3, <2>3, GoesOnKeeps
  <1>4. ASSUME NEW plan \in SUBSET Targets, NEW step, Call(step, Taken(plan), NoInfo),
               \/ seen.phase = "live" /\ step \in {"lookupByName", "lookupByID"}
               \/ seen.phase = "deleting" /\ step = "fetch"
               \/ seen.phase = "deleting" /\ step = "release" /\ seen.status.id = 0
        PROVE  IndInv'
    <2>1. /\ pc' = step /\ info' = NoInfo /\ obj' \in Objects
          /\ obj'.status = seen.status /\ obj'.phase = seen.phase
      BY <1>2, <1>4, TakenFacts DEF Call
    <2>2. /\ pc' \in PCs /\ pc' # "idle" /\ pc' \notin InfoCalls
          /\ pc' \in DeleteCalls <=> seen.phase = "deleting"
      BY <1>4, <2>1 DEF PCs, DeleteCalls, InfoCalls
    <2>3. ObjectTyped(FirewallSpecs, Statuses)'
      BY <1>1, ObjectIsTyped DEF IndInv, ObjectTyped
    <2>4. PhasesAgree(DeleteCalls)'
      BY <1>1, <1>2, <2>2, WorkerStepAgrees DEF IndInv
    <2>5. RightMoment'
      BY <1>1, <1>4, <2>1 DEF RightMoment
    <2> QED BY <1>1, <1>2, <2>1, <2>2, <2>3, <2>4, <2>5, WorkerKeeps
  <1>5. {} \in SUBSET Targets /\ desiredApplyResources(seen.spec) \in SUBSET Targets
    <2>1. seen.spec.applyTo \subseteq Targets
      BY <1>2, SpecsAssumption DEF Copies, Specs
    <2> QED BY <2>1 DEF desiredApplyResources
  <1>6. CASE seen.phase = "deleting"
    <2>1. Call(IF seen.status.id = 0 THEN "release" ELSE "fetch", Taken({}), NoInfo)
      BY <1>6 DEF Reconcile
    <2> QED BY <1>4, <1>5, <1>6, <2>1
  <1>7. CASE seen.phase = "live" /\ ~Fail(Taken({}))
    <2>1. Call(IF seen.status.id = 0 THEN "lookupByName" ELSE "lookupByID",
               Taken(desiredApplyResources(seen.spec)), NoInfo)
      BY <1>7 DEF Reconcile
    <2> QED BY <1>4, <1>5, <1>7, <2>1
  <1> QED BY <1>2, <1>3, <1>6, <1>7

\* The lookups, and going on with the firewall they find.
LEMMA LookupIndInv == IndInv /\ (LookupByID \/ LookupByName) => IndInv'
  <1> SUFFICES ASSUME IndInv, LookupByID \/ LookupByName PROVE IndInv'
    OBVIOUS
  <1>1. /\ pc \in {"lookupByID", "lookupByName"}
        /\ UNCHANGED <<servers, phase, spec, status, seen, used, fw, nextID>>
    BY DEF LookupByID, LookupByName, hetzner, object, servers
  <1>2. pc \notin DeleteCalls \cup {"idle"}
    BY <1>1 DEF DeleteCalls
  <1>3. /\ obj \in Objects /\ fw \in Firewalls /\ nextID \in Nat /\ nextID >= nextID
        /\ fw.id < nextID /\ used \in [Disturbances -> Nat]
    BY <1>2 DEF IndInv, WorkerHolds, IDsIssued, TypeOK
  <1>4. CASE EnsureFirewall(obj, firewallInfoFromSDK(fw))
    <2>1. GoesOn(fw.id)
      BY <1>3, <1>4, InfoFacts, EnsureFirewallGoesOn
    <2> QED BY <1>1, <1>2, <1>3, <2>1, GoesOnKeeps
  <1>5. ASSUME NEW step \in {"lookupByName", "create"}, Call(step, obj, NoInfo),
               step = "create" => fw.id = 0
        PROVE  IndInv'
    <2>1. pc' = step /\ obj' = obj /\ info' = NoInfo
      BY <1>5 DEF Call
    <2>2. pc' \in PCs /\ pc' \notin DeleteCalls \cup {"idle"} /\ pc' \notin InfoCalls
      BY <2>1 DEF PCs, DeleteCalls, InfoCalls
    <2>3. RightMoment'
      BY <1>1, <1>5, <2>1 DEF RightMoment
    <2> QED BY <1>1, <1>2, <1>3, <2>1, <2>2, <2>3, MovesOnKeeps
  <1> QED BY <1>4, <1>5 DEF LookupByID, LookupByName

\* A failed call of Resource.Reconcile.
LEMMA FailIndInv ==
    ASSUME IndInv, Fail(obj), pc \notin DeleteCalls \cup {"idle"},
           UNCHANGED <<servers, phase, spec, status, seen, fw, nextID>>,
           used' \in [Disturbances -> Nat]
    PROVE  IndInv'
  <1>1. /\ obj \in Objects /\ obj.status.id < nextID /\ fw \in Firewalls /\ nextID \in Nat
        /\ fw.id < nextID /\ nextID >= nextID
    BY DEF IndInv, WorkerHolds, IDsIssued, TypeOK
  <1>2. GoesOn(obj.status.id)
    BY <1>1, FailGoesOn
  <1> QED BY <1>1, <1>2, GoesOnKeeps

\* The new firewall has the next ID.
LEMMA CreateIndInv == IndInv /\ CreateFirewall => IndInv'
  <1> SUFFICES ASSUME IndInv, CreateFirewall PROVE IndInv'
    OBVIOUS
  <1>1. pc = "create" /\ UNCHANGED <<servers, phase, spec, status, seen, used>>
    BY DEF CreateFirewall, object
  <1>2. pc \notin DeleteCalls \cup {"idle"}
    BY <1>1 DEF DeleteCalls
  <1>3. obj \in Objects /\ nextID \in Nat /\ used \in [Disturbances -> Nat]
    BY <1>2 DEF IndInv, WorkerHolds, TypeOK
  <1>4. CASE Fail(obj) /\ UNCHANGED <<fw, nextID>>
    BY <1>1, <1>2, <1>3, <1>4, FailIndInv
  <1>5. ASSUME NEW stored \in Stored(firewallRuleInfosToSDK(obj.spec.rules)),
               fw' \in Applying([NoFirewall EXCEPT !.id = nextID, !.rules = stored,
                                                   !.labels = obj.spec.labels], obj.plan),
               nextID' = nextID + 1, Finish([obj EXCEPT !.status.id = nextID])
        PROVE  IndInv'
    <2> DEFINE new == [NoFirewall EXCEPT !.id = nextID, !.rules = stored,
                                         !.labels = obj.spec.labels]
               o == [obj EXCEPT !.status.id = nextID]
    <2>1. stored \in Seq(Rules) /\ obj.spec.labels \in Nat /\ obj.plan \in SUBSET Targets
      BY <1>3, CopyFacts, RulesFacts
    <2>2. new \in Firewalls /\ new.id = nextID
      BY <1>3, <2>1, NoFirewallFacts DEF Firewalls
    <2>3. o \in Objects /\ o.status.id = nextID
      BY <1>3, IDChanged
    <2>4. fw' \in Applying(new, obj.plan) /\ Finish(o)
      BY <1>5
    <2> HIDE DEF new, o
    <2>5. fw' \in Firewalls /\ fw'.id = nextID
      BY <2>1, <2>2, <2>4, RequestFacts
    <2>6. GoesOn(nextID)
      BY <2>3, <2>4, FinishGoesOn
    <2>7. nextID' \in Nat /\ nextID' >= nextID /\ fw'.id < nextID' /\ nextID < nextID'
      BY <1>3, <1>5, <2>5
    <2> QED BY <1>1, <1>2, <1>3, <2>5, <2>6, <2>7, GoesOnKeeps
  <1> QED BY <1>4, <1>5 DEF CreateFirewall

\* The calls that change the firewall the worker holds, and the looks after
\* them.
LEMMA ChangeIndInv ==
    ASSUME IndInv, \/ UpdateFirewallLabels \/ RefreshLabels \/ SetFirewallRules
                   \/ RefreshRules \/ RemoveFirewallResources \/ ApplyFirewallResources
    PROVE  IndInv'
  <1>1. /\ UNCHANGED <<servers, phase, spec, status, seen, used, nextID>>
        /\ pc \in InfoCalls \ DeleteCalls
    BY DEF UpdateFirewallLabels, RefreshLabels, SetFirewallRules, RefreshRules,
           RemoveFirewallResources, ApplyFirewallResources, object, hetzner, servers,
           InfoCalls, DeleteCalls
  <1>2. pc \notin DeleteCalls \cup {"idle"}
    BY <1>1 DEF InfoCalls
  <1>3. /\ obj \in Objects /\ info \in Infos /\ fw \in Firewalls /\ nextID \in Nat
        /\ nextID >= nextID /\ fw.id < nextID /\ obj.status.id < nextID
        /\ used \in [Disturbances -> Nat]
    BY <1>1, <1>2 DEF IndInv, WorkerHolds, IDsIssued, TypeOK
  <1>4. CASE Fail(obj) /\ UNCHANGED fw
    BY <1>1, <1>2, <1>3, <1>4, FailIndInv
  <1>5. ASSUME fw' \in Firewalls, fw'.id = fw.id, GoesOn(obj.status.id)
        PROVE  IndInv'
    BY <1>1, <1>2, <1>3, <1>5, GoesOnKeeps
  <1>6. Refreshed \in Infos
    BY <1>3, InfoFacts DEF Refreshed
  <1>7. CASE RefreshLabels \/ RefreshRules
    <2>1. GoesOn(obj.status.id)
      BY <1>3, <1>6, <1>7, EnsureRulesGoesOn, EnsureTargetsGoesOn DEF RefreshLabels, RefreshRules
    <2>2. fw' = fw
      BY <1>7 DEF RefreshLabels, RefreshRules, hetzner
    <2> QED BY <1>3, <1>5, <2>1, <2>2
  <1>8. "refreshLabels" \in InfoCalls \ DeleteCalls /\ "refreshRules" \in InfoCalls \ DeleteCalls
    BY DEF InfoCalls, DeleteCalls
  <1>9. CASE UpdateFirewallLabels
    <2>1. CASE fw' = [fw EXCEPT !.labels = obj.spec.labels] /\ Call("refreshLabels", obj, info)
      <3>1. obj.spec.labels \in Nat /\ <<>> \in Seq(Rules)
        BY <1>3, CopyFacts, EmptySeq
      <3>2. fw' \in Firewalls /\ fw'.id = fw.id
        BY <1>3, <2>1, <3>1, FieldFacts
      <3> QED BY <1>3, <1>5, <1>8, <2>1, <3>2, CallGoesOn
    <2> QED BY <1>4, <1>9, <2>1 DEF UpdateFirewallLabels
  <1>10. CASE SetFirewallRules
    <2>1. ASSUME NEW stored \in Stored(firewallRuleInfosToSDK(obj.spec.rules)),
                 fw' = [fw EXCEPT !.rules = stored], Call("refreshRules", obj, info)
          PROVE  IndInv'
      <3>1. stored \in Seq(Rules) /\ 0 \in Nat
        BY <1>3, CopyFacts, RulesFacts
      <3>2. fw' \in Firewalls /\ fw'.id = fw.id
        BY <1>3, <2>1, <3>1, FieldFacts
      <3> QED BY <1>3, <1>5, <1>8, <2>1, <3>2, CallGoesOn
    <2> QED BY <1>4, <1>10, <2>1 DEF SetFirewallRules
  <1>11. CASE RemoveFirewallResources
    <2>1. CASE fw' = Removing(fw, info.applied \ obj.plan) /\ EnsureApplied(obj, info)
      <3>1. info.applied \ obj.plan \in SUBSET Targets
        BY <1>3 DEF Infos
      <3>2. fw' \in Firewalls /\ fw'.id = fw.id
        BY <1>3, <2>1, <3>1, RequestFacts
      <3> QED BY <1>3, <1>5, <2>1, <3>2, EnsureAppliedGoesOn
    <2> QED BY <1>4, <1>11, <2>1 DEF RemoveFirewallResources
  <1>12. CASE ApplyFirewallResources
    <2>1. CASE fw' \in Applying(fw, obj.plan \ info.applied) /\ Finish(obj)
      <3>1. obj.plan \ info.applied \in SUBSET Targets
        BY <1>3, CopyFacts
      <3>2. fw' \in Firewalls /\ fw'.id = fw.id
        BY <1>3, <2>1, <3>1, RequestFacts
      <3> QED BY <1>3, <1>5, <2>1, <3>2, FinishGoesOn
    <2> QED BY <1>4, <1>12, <2>1 DEF ApplyFirewallResources
  <1> QED BY <1>7, <1>9, <1>10, <1>11, <1>12

\* The detach and the delete: the worker goes on to the release when the
\* firewall of its copy is not there any more.
LEMMA DeleteIndInv ==
    ASSUME IndInv, FetchForDeletion \/ DetachBeforeDelete \/ DeleteFirewall
    PROVE  IndInv'
  <1>1. /\ UNCHANGED <<servers, phase, spec, status, seen, used, nextID>>
        /\ pc \in DeleteCalls /\ pc # "idle" /\ (pc = "detach" => pc \in InfoCalls)
    BY DEF FetchForDeletion, DetachBeforeDelete, DeleteFirewall, object, hetzner, servers,
           DeleteCalls, InfoCalls
  <1>2. /\ fw \in Firewalls /\ used \in [Disturbances -> Nat] /\ obj \in Objects
        /\ pc = "detach" => info \in Infos
    BY <1>1 DEF IndInv, WorkerHolds, TypeOK
  <1>3. CASE Stop /\ UNCHANGED fw
    BY <1>1, <1>2, <1>3, StopsEarly
  <1>4. ASSUME NEW step \in {"delete", "release"}, Call(step, obj, NoInfo),
               fw' \in Firewalls, fw'.id \in {fw.id, 0},
               step = "release" => obj.status.id = 0 \/ fw'.id # obj.status.id
        PROVE  IndInv'
    <2>1. pc' = step /\ obj' = obj /\ info' = NoInfo
      BY <1>4 DEF Call
    <2>2. pc' \in PCs /\ pc' # "idle" /\ pc' \notin InfoCalls /\ pc' \in DeleteCalls
      BY <2>1 DEF PCs, InfoCalls, DeleteCalls
    <2>3. RightMoment'
      BY <1>4, <2>1 DEF RightMoment
    <2> QED BY <1>1, <1>4, <2>1, <2>2, <2>3, MovesOnKeeps
  <1>5. CASE FetchForDeletion
    <2>1. UNCHANGED fw
      BY <1>5 DEF FetchForDeletion, hetzner
    <2>2. CASE Call("detach", obj, firewallInfoFromSDK(fw))
      <3>1. /\ pc' = "detach" /\ obj' = obj /\ info' \in Infos
        BY <1>2, <2>2, InfoFacts DEF Call
      <3>2. pc' \in PCs /\ pc' # "idle" /\ pc' \in DeleteCalls /\ RightMoment'
        BY <3>1 DEF PCs, DeleteCalls, RightMoment
      <3> QED BY <1>1, <1>2, <2>1, <3>1, <3>2, MovesOnKeeps
    <2>3. CASE fw.id # obj.status.id /\ Call("release", obj, NoInfo)
      BY <1>2, <1>4, <2>1, <2>3
    <2>4. CASE Call("delete", obj, NoInfo)
      BY <1>2, <1>4, <2>1, <2>4
    <2> QED BY <1>5, <2>2, <2>3, <2>4 DEF FetchForDeletion
  <1>6. CASE DetachBeforeDelete
    <2>1. info.applied \in SUBSET Targets
      BY <1>2, <1>6 DEF DetachBeforeDelete, Infos
    <2>2. Removing(fw, info.applied) \in Firewalls /\ Removing(fw, info.applied).id = fw.id
      BY <1>2, <2>1, RequestFacts
    <2>3. CASE fw' \in {fw, Removing(fw, info.applied)} /\ Call("delete", obj, NoInfo)
      BY <1>2, <1>4, <2>2, <2>3
    <2> QED BY <1>3, <1>6, <2>3 DEF DetachBeforeDelete
  <1>7. CASE DeleteFirewall
    <2>1. CASE fw' = NoFirewall /\ Call("release", obj, NoInfo)
      BY <1>4, <2>1, NoFirewallFacts
    <2> QED BY <1>3, <1>7, <2>1 DEF DeleteFirewall
  <1> QED BY <1>5, <1>6, <1>7

\* The status write, the release, a crash.
LEMMA EndsIndInv ==
    ASSUME IndInv, WriteStatus \/ Release \/ Crash, UNCHANGED hetzner
    PROVE  IndInv'
  <1>1. /\ Stop /\ UNCHANGED <<servers, spec, seen, fw, nextID>>
        /\ pc # "idle" /\ obj \in Objects /\ obj.status.id < nextID
        /\ status'.id < nextID
    BY DEF WriteStatus, Release, Crash, object, hetzner, servers, IndInv, WorkerHolds, IDsIssued
  <1>2. ObjectTyped(FirewallSpecs, Statuses)'
    <2>1. obj.status \in Statuses
      BY <1>1, CopyFacts
    <2> QED BY <2>1, ObjectIsTyped, WorkerStepsTyped DEF IndInv
  <1>3. PhasesAgree(DeleteCalls)'
    <2>1. pc' = "idle" /\ "release" \in DeleteCalls /\ "idle" \notin DeleteCalls
      BY <1>1 DEF Stop, DeleteCalls
    <2>2. CASE WriteStatus \/ Crash
      BY <2>1, <2>2, WorkerStepAgrees DEF IndInv, WriteStatus, Crash, object
    <2>3. CASE Release
      BY <2>1, <2>3, ReleaseAgrees DEF IndInv
    <2> QED BY <2>2, <2>3
  <1> QED BY <1>1, <1>2, <1>3, StopKeeps

ReconcileCalls == {"lookupByID", "lookupByName", "create", "updateLabels", "refreshLabels",
                   "setRules", "refreshRules", "remove", "apply"}

\* A remote call fails.
LEMMA CallFailsIndInv ==
    ASSUME IndInv, UNCHANGED hetzner, CallFails(ReconcileCalls, DeleteCalls)
    PROVE  IndInv'
  <1>1. /\ ObjectTyped(FirewallSpecs, Statuses)' /\ UNCHANGED <<phase, spec, status, seen>>
        /\ \/ pc \in ReconcileCalls /\ Fail(obj)
           \/ pc \in DeleteCalls /\ Stop
    BY ObjectIsTyped, CallFailsTyped DEF IndInv, object
  <1>2. UNCHANGED <<servers, fw, nextID>> /\ used' \in [Disturbances -> Nat]
    BY <1>1 DEF hetzner, servers, ObjectTyped
  <1>3. CASE pc \in ReconcileCalls /\ Fail(obj)
    <2>1. pc \notin DeleteCalls \cup {"idle"}
      BY <1>3 DEF ReconcileCalls, DeleteCalls
    <2> QED BY <1>1, <1>2, <1>3, <2>1, FailIndInv
  <1>4. CASE Stop
    BY <1>1, <1>2, <1>4, StopsEarly
  <1> QED BY <1>1, <1>3, <1>4

\* Every step of the specification keeps the invariant.
LEMMA NextIndInv == IndInv /\ [Next]_vars => IndInv'
  <1> SUFFICES ASSUME IndInv, [Next]_vars PROVE IndInv'
    OBVIOUS
  <1>1. CASE UNCHANGED vars
    BY <1>1 DEF vars, IndInv, TypeOK, ServersTypeOK, PhasesAgree, WorkerHolds, IDsIssued,
                RightMoment
  <1>2. CASE Next
    BY <1>2, ObjectStepsIndInv, CloudStepsIndInv, ReconcileIndInv, LookupIndInv, CreateIndInv,
       ChangeIndInv, DeleteIndInv, EndsIndInv, CallFailsIndInv
    DEF Next, Work, ReconcileCalls, DeleteCalls
  <1> QED BY <1>1, <1>2

\* The inductive invariant holds in every reachable state: the worker creates a
\* firewall only where there is none, lets the object go only after the firewall
\* of its copy, and names only IDs that were issued.
THEOREM FirewallInvariant == Spec => []IndInv
  BY InitIndInv, NextIndInv, PTL DEF Spec

\* Every variable of the firewall controller keeps its type: rules stay rules in
\* whatever order Hetzner keeps them, targets stay within the servers there are
\* and the selector.
THEOREM FirewallTypes == Spec => []TypeOK
  <1>1. IndInv => TypeOK
    BY DEF IndInv
  <1> QED BY <1>1, FirewallInvariant, PTL

-----------------------------------------------------------------------------
(* The end of an object.                                                   *)

\* The finalizer update lets the object go only with an up-to-date copy, which
\* the worker took when the deletion was shown: the firewall it names is gone.
LEMMA ReleaseIsLate ==
    ASSUME IndInv, Release
    PROVE  \/ phase' = phase
           \/ /\ phase = "deleting" /\ phase' = "gone"
              /\ status.id = 0 \/ fw.id # status.id
  <1>1. pc = "release" /\ obj.phase = "deleting"
    BY DEF Release, IndInv, WorkerHolds, DeleteCalls
  <1>2. CASE phase' # phase
    <2>1. /\ [phase |-> obj.phase, spec |-> obj.spec, status |-> obj.status] = Current
          /\ phase' = "gone"
      BY <1>2 DEF Release
    <2>2. obj.phase = phase /\ obj.status = status
      BY <2>1 DEF Current
    <2> QED BY <1>1, <2>1, <2>2 DEF IndInv, RightMoment
  <1> QED BY <1>2

\* No other step lets the object go.
LEMMA OnlyRelease ==
    ASSUME [Next]_vars, phase' = "gone", phase # "gone"
    PROVE  Release
  <1>1. Next
    BY DEF vars
  <1>2. CASE Work
    BY <1>2 DEF Work, Reconcile, LookupByID, LookupByName, CreateFirewall,
       UpdateFirewallLabels, RefreshLabels, SetFirewallRules, RefreshRules,
       RemoveFirewallResources, ApplyFirewallResources, FetchForDeletion,
       DetachBeforeDelete, DeleteFirewall, WriteStatus, object
  <1> QED BY <1>1, <1>2
      DEF Next, EditFirewall, Edit, DeleteObject, ServerReady, ServerDestroyed,
          ServerObjectGoes, CacheSync, Crash, CallFails, Progress, External, object

\* README, "Safe Cleanup": although the delete is sent before the detach has
\* finished, and whatever fails, the object of a firewall goes only after the
\* firewall its status names.
THEOREM FirewallRemovalSafe == Spec => FirewallGoesFirst
  <1>1. IndInv /\ [Next]_vars
          => [phase' = "gone" /\ phase # "gone" => status.id = 0 \/ fw.id # status.id]_vars
    BY ReleaseIsLate, OnlyRelease
  <1> QED BY <1>1, FirewallInvariant, PTL DEF Spec, FirewallGoesFirst

-----------------------------------------------------------------------------
(* The steps of ManagedResource.                                           *)

\* The firewall stays or goes: nothing happens, or Destroy.
LEMMA StaysOrGoes ==
    ASSUME UNCHANGED <<phase, nextID>>, status'.id = status.id, fw'.id \in {fw.id, 0}
    PROVE  M!Next
  <1>1. UNCHANGED <<ManagedPhase, Recorded, Issued>>
    BY DEF ManagedPhase, Recorded, Issued
  <1>2. Held' \subseteq Held
    BY DEF Held
  <1> QED BY <1>1, <1>2 DEF M!Next, M!Destroy

\* A firewall is created: Provision.
LEMMA Provisions ==
    ASSUME UNCHANGED <<phase, status>>, phase \in Phases \ {"gone"},
           nextID \in Nat \ {0}, nextID' = nextID + 1, fw.id = 0, fw'.id = nextID
    PROVE  M!Next
  <1>1. ManagedPhase \in {"guarded", "terminating"} /\ UNCHANGED <<ManagedPhase, Recorded>>
    BY DEF ManagedPhase, Recorded, Phases
  <1>2. Held = {} /\ Held' = {nextID}
    BY DEF Held
  <1>3. Issued' = Issued \cup {nextID} /\ nextID \notin Issued
    BY DEF Issued
  <1> QED BY <1>1, <1>2, <1>3 DEF M!Next, M!Provision

\* The status takes up an ID: Record.
LEMMA Records ==
    ASSUME UNCHANGED <<phase, fw, nextID>>, phase \in Phases \ {"gone"},
           nextID \in Nat \ {0}, status'.id \in Nat, status'.id < nextID
    PROVE  M!Next
  <1>1. ManagedPhase \in {"guarded", "terminating"} /\ UNCHANGED ManagedPhase
    BY DEF ManagedPhase, Phases
  <1>2. UNCHANGED <<Held, Issued>>
    BY DEF Held, Issued
  <1>3. Recorded' \in Issued \cup {0}
    BY DEF Recorded, Issued
  <1> QED BY <1>1, <1>2, <1>3 DEF M!Next, M!Record

\* The object is deleted: Terminate.
LEMMA Terminates ==
    ASSUME UNCHANGED <<status, fw, nextID>>, phase = "live", phase' = "deleting"
    PROVE  M!Next
  <1>1. ManagedPhase = "guarded" /\ ManagedPhase' = "terminating"
    BY DEF ManagedPhase
  <1>2. UNCHANGED <<Recorded, Held, Issued>>
    BY DEF Recorded, Held, Issued
  <1> QED BY <1>1, <1>2 DEF M!Next, M!Terminate

\* The object goes: Release.
LEMMA Releases ==
    ASSUME UNCHANGED <<status, fw, nextID>>, phase = "deleting", phase' = "gone",
           status.id = 0 \/ fw.id # status.id
    PROVE  M!Next
  <1>1. ManagedPhase = "terminating" /\ ManagedPhase' = "absent"
    BY DEF ManagedPhase
  <1>2. UNCHANGED <<Held, Issued>> /\ Recorded' = 0 /\ Recorded \notin Held
    BY DEF Recorded, Held, Issued
  <1> QED BY <1>1, <1>2 DEF M!Next, M!Release

-----------------------------------------------------------------------------
(* Every step of the controller is one of them.                            *)

\* What happens to the object and to the firewall without the worker.
LEMMA OthersManaged ==
    ASSUME IndInv,
           \/ EditFirewall \/ ServerReady \/ ServerDestroyed \/ ServerObjectGoes
           \/ Progress \/ External
           \/ /\ \/ DeleteObject \/ CacheSync \/ Crash \/ CallFails(ReconcileCalls, DeleteCalls)
              /\ UNCHANGED hetzner
    PROVE  M!Next
  <1>1. UNCHANGED <<status, nextID>>
    BY DEF EditFirewall, Edit, ServerReady, ServerDestroyed, ServerObjectGoes, Progress,
           External, DeleteObject, CacheSync, Crash, CallFails, object, hetzner
  <1>2. CASE DeleteObject /\ UNCHANGED hetzner
    BY <1>1, <1>2, Terminates DEF DeleteObject, hetzner
  <1>3. CASE ~DeleteObject
    <2>1. phase' = phase
      BY <1>3 DEF EditFirewall, Edit, ServerReady, ServerDestroyed, ServerObjectGoes, Progress,
             External, CacheSync, Crash, CallFails, object
    <2>2. fw'.id \in {fw.id, 0}
      <3>1. fw \in Firewalls
        BY DEF IndInv, TypeOK
      <3>2. \A T : Without(fw, T).id = fw.id
        BY <3>1 DEF Firewalls, Without
      <3>3. CASE Progress
        BY <3>1, <3>3 DEF Progress, Firewalls, Without
      <3>4. CASE External
        BY <3>1, <3>2, <3>4, NoFirewallFacts DEF External, Firewalls
      <3> QED BY <1>3, <3>2, <3>3, <3>4
          DEF EditFirewall, ServerReady, ServerDestroyed, ServerObjectGoes, CacheSync, Crash,
              CallFails, hetzner
    <2> QED BY <1>1, <2>1, <2>2, StaysOrGoes
  <1> QED BY <1>2, <1>3 DEF EditFirewall, Edit, ServerReady, ServerDestroyed, ServerObjectGoes,
             Progress, External, object, DeleteObject

\* The worker's calls: only CreateFirewall brings a firewall about, and only
\* DeleteFirewall does away with it.
LEMMA CallsManaged ==
    ASSUME IndInv,
           \/ Reconcile \/ LookupByID \/ LookupByName \/ CreateFirewall
           \/ UpdateFirewallLabels \/ RefreshLabels \/ SetFirewallRules \/ RefreshRules
           \/ RemoveFirewallResources \/ ApplyFirewallResources
           \/ FetchForDeletion \/ DetachBeforeDelete \/ DeleteFirewall
    PROVE  M!Next
  <1>1. UNCHANGED <<phase, status>> /\ fw \in Firewalls
    BY DEF Reconcile, LookupByID, LookupByName, CreateFirewall, UpdateFirewallLabels,
       RefreshLabels, SetFirewallRules, RefreshRules, RemoveFirewallResources,
       ApplyFirewallResources, FetchForDeletion, DetachBeforeDelete, DeleteFirewall, object,
       IndInv, TypeOK
  <1>2. CASE CreateFirewall
    <2>1. /\ pc = "create" /\ fw.id = 0 /\ phase \in Phases \ {"gone"}
          /\ nextID \in Nat \ {0} /\ obj \in Objects
      BY <1>2 DEF CreateFirewall, IndInv, TypeOK, WorkerHolds, RightMoment, PhasesAgree,
                  DeleteCalls
    <2>2. CASE UNCHANGED <<fw, nextID>>
      BY <1>1, <2>2, StaysOrGoes
    <2>3. CASE ~UNCHANGED <<fw, nextID>>
      <3>1. PICK stored \in Stored(firewallRuleInfosToSDK(obj.spec.rules)) :
                fw' \in Applying([NoFirewall EXCEPT !.id = nextID, !.rules = stored,
                                                    !.labels = obj.spec.labels], obj.plan)
        BY <1>2, <2>3 DEF CreateFirewall
      <3> DEFINE new == [NoFirewall EXCEPT !.id = nextID, !.rules = stored,
                                           !.labels = obj.spec.labels]
      <3>2. new.id = nextID /\ DOMAIN new = {"id", "labels", "rules", "applied", "adding", "removing"}
        BY DEF NoFirewall
      <3>3. fw' \in Applying(new, obj.plan) /\ nextID' = nextID + 1
        BY <1>2, <2>3, <3>1 DEF CreateFirewall
      <3> HIDE DEF new
      <3>4. fw'.id = nextID
        BY <3>2, <3>3 DEF Applying
      <3> QED BY <1>1, <2>1, <3>3, <3>4, Provisions
    <2> QED BY <2>2, <2>3
  <1>3. CASE ~CreateFirewall
    <2>1. nextID' = nextID
      BY <1>3 DEF Reconcile, LookupByID, LookupByName, UpdateFirewallLabels, RefreshLabels,
         SetFirewallRules, RefreshRules, RemoveFirewallResources, ApplyFirewallResources,
         FetchForDeletion, DetachBeforeDelete, DeleteFirewall, hetzner
    <2>2. fw'.id \in {fw.id, 0}
      BY <1>1, <1>3, NoFirewallFacts
      DEF Reconcile, LookupByID, LookupByName, UpdateFirewallLabels, RefreshLabels,
          SetFirewallRules, RefreshRules, RemoveFirewallResources, ApplyFirewallResources,
          FetchForDeletion, DetachBeforeDelete, DeleteFirewall, hetzner, Firewalls, Applying,
          Removing
    <2> QED BY <1>1, <2>1, <2>2, StaysOrGoes
  <1> QED BY <1>2, <1>3

\* The status write, for an object that still exists, and the release.
LEMMA EndsManaged ==
    ASSUME IndInv, WriteStatus \/ Release, UNCHANGED hetzner
    PROVE  M!Next
  <1>1. UNCHANGED <<fw, nextID>> /\ nextID \in Nat \ {0}
    BY DEF hetzner, IndInv, TypeOK
  <1>2. CASE WriteStatus
    <2>1. /\ phase' = phase /\ phase \in Phases \ {"gone"} /\ obj \in Objects
          /\ obj.status.id < nextID /\ (status' = obj.status \/ status' = status)
      BY <1>2 DEF WriteStatus, IndInv, TypeOK, PhasesAgree, DeleteCalls, WorkerHolds, IDsIssued
    <2>2. CASE status' = status
      BY <1>1, <2>1, <2>2, StaysOrGoes
    <2>3. CASE status' = obj.status
      BY <1>1, <2>1, <2>3, CopyFacts, Records
    <2> QED BY <2>1, <2>2, <2>3
  <1>3. CASE Release
    <2>1. status' = status
      BY <1>3 DEF Release
    <2> QED BY <1>1, <1>3, <2>1, ReleaseIsLate, Releases, StaysOrGoes
  <1> QED BY <1>2, <1>3

\* A firewall is created only where there is none, under a new ID and for an
\* object that still exists; the status names only IDs that were issued; the
\* object goes only after the firewall its status names: every step is one of
\* ManagedResource.
THEOREM FirewallManaged == Spec => KeepsManagedResource
  <1>1. IndInv /\ [Next]_vars => [M!Next]_(M!vars)
    <2> SUFFICES ASSUME IndInv, [Next]_vars PROVE [M!Next]_(M!vars)
      OBVIOUS
    <2>1. CASE UNCHANGED vars
      BY <2>1, StaysOrGoes DEF vars
    <2>2. CASE Next
      BY <2>2, OthersManaged, CallsManaged, EndsManaged DEF Next, Work, ReconcileCalls, DeleteCalls
    <2> QED BY <2>1, <2>2
  <1> QED BY <1>1, FirewallInvariant, PTL DEF Spec, KeepsManagedResource
=============================================================================
