# hcloud-operator: TLA+ specifications and proofs

hcloud-operator is a Kubernetes operator: users write cluster-scoped `HCloud*`
objects, and one controller per kind creates, changes and deletes the
corresponding Hetzner Cloud resource. This directory models the operator in
TLA+, checks the models with TLC on small instances, and proves with TLAPS what
the shared reconcile skeleton and the controllers of eight kinds keep safe.

`PROJECT.json` lists components, runs, mutants, findings, hazards and theorems,
and maps every definition to the lines it models.

## 1. Inventory

| Part | State it keeps | Operations | What makes it hard | What makes it correct |
|---|---|---|---|---|
| Reconcile skeleton (`internal/reconcile/base.go`) | the object in the API server: finalizer, deletionTimestamp, status, resourceVersion; an informer cache that lags; the worker's in-memory copy | Get, add finalizer and requeue, delegate, force conditions on error, write status with retry on conflict; on deletion: delete in Hetzner, remove finalizer | decisions on cached copies, version conflicts, crash between any two calls, answers that get lost | one resource per object, nothing created for an unguarded object, no removal before cleanup, failing objects never Ready, deletion ends |
| HCloudServer controller | serverID, state, appliedServerType, appliedNetworkID, appliedPlacementGroupID, Ready | lookup by ID, by name, create; resize (power off, change type, power on); attach, migrate, detach the network; check the placement group | Hetzner's power actions are asynchronous and spread over several reconciles; others use the console; the record of a network follows its attachment | the server ends up running at the type, on the network and with the Ready condition the spec asks for |
| HCloudVolume controller | volumeID, attachedServerID, appliedSize, Ready | lookup, create, grow, detach, attach; detach before delete | asynchronous detach and attach that exclude each other; references to servers that come and go | volume ends up on the right server with the right size, the operator comes to rest, deletion destroys it |
| HCloudPrimaryIP, HCloudFloatingIP controllers | ID, applied assignee, Ready | lookup, create, update metadata, unassign, assign, set reverse DNS; unassign before delete | as for volumes; Hetzner deletes an autoDelete IP with its server; an assignment may be somebody else's | as for volumes |
| HCloudNetwork controller | networkID, subnet zones, Ready | lookup, create, save the ID, add one subnet per zone | whether a zone has a subnet is decided on one answer and acted on later; subnets show late; the loop may stop anywhere | every zone gets one subnet, the status tells which have one |
| HCloudPlacementGroup controller | placementGroupID | lookup, create | the skeleton's hazards only | as the skeleton |
| HCloudLoadBalancer controller, `loadbalancer_service.go` | loadBalancerID, attached servers, Ready | select servers, resolve certificates, lookup, create, attach and detach targets, delete, add and update services | one call per target and per service, each refused while the one before still runs; servers and certificates come and go between the look and the call | targets and services converge to the spec, the operator comes to rest, a certificate nobody needs is let go of |
| HCloudFirewall controller, `firewall.go` | firewallID, Ready | resolve server references, lookup, create, labels, rules, remove and apply targets; detach before delete | targets are attached and detached in the background, a request with one target in the wrong state is refused as a whole; rules come back in another order or spelling | labels, rules and targets converge, the operator comes to rest, a firewall that is applied can still be deleted |
| HCloudCertificate controller | certificateID, issuance status, Ready | lookup, create, labels, wait for issuance; delete | issuance ends later, or fails; a certificate in use cannot be deleted | Ready tells whether the certificate can be used; deletion waits for load balancers and for nothing else |
| Client wrapper (`internal/hcloud/client.go`) | none | one method per Hetzner call, made idempotent by a look at the resource first | check and act are two calls; nil for "not found" | callers survive every answer |

Components meet in two places. Controllers read each other's status through
`spec.serverRef`, `networkRef`, `placementGroupRef`, `applyTo.serverRefs`,
`serverSelector` and `certificateRefs`; and the Hetzner project is shared with
everybody who has a token. controller-runtime runs one worker per kind, so two
reconciles of the same object never overlap; leader election keeps a second
process away.

Instrumentation, metrics, generated deepcopy code, the fake client, the
manager's start-up, charts and manifests hold no logic of their own and are not
modelled.

## 2. Modules

| Module | Models |
|---|---|
| `KubeObject` | the API server's treatment of one object (external: written from how the code uses it): versions, conflicts, status subresource, finalizers |
| `BaseReconciler` | `base.go` and the pattern by which every kind implements `Resource`: lookup by ID, by name, create, (save ID), converge. Extends `KubeObject` |
| `ManagedResource` | the abstract specification: what the operator promises about one object and its Hetzner resource. `BaseReconciler` implements it under the mapping at the end of that module, and every step of the volume, IP, network, firewall, certificate and load balancer modules is one of its steps |
| `BaseReconcilerProofs` | the theorems about `BaseReconciler` |
| `HCloudServer` | the server controller's domain logic and Hetzner's asynchronous power actions |
| `ServerRefs` | the servers that volumes, IPs, firewalls and load balancers refer to |
| `ReconcileWorker` | what the modules below share: the object, the cache, the worker and its status write, with what they abstract of `base.go` |
| `HCloudVolume` | the volume controller's domain logic and its deletion. Extends `ServerRefs` |
| `HCloudAssignedIP` | the primary and the floating IP controllers, which are the same program but for creation, the description and autoDelete. Extends `ServerRefs` |
| `HCloudNetwork` | the network controller and the client's check-then-add of subnets. Extends `ReconcileWorker` |
| `HCloudFirewall` | the firewall controller and `firewall.go`. Extends `ReconcileWorker` and `ServerRefs` |
| `HCloudCertificate` | the certificate controller. Extends `ReconcileWorker` |
| `CertificateRef` | the abstract certificate: what a load balancer may count on. `HCloudCertificate` implements it |
| `HCloudLoadBalancer` | the load balancer controller and `loadbalancer_service.go`, composed with `ServerRefs` and with `CertificateRef`, whose `inUse` is "a service of this load balancer names the certificate" |
| `HCloudServerProofs`, `HCloudVolumeProofs`, `HCloudAssignedIPProofs`, `HCloudNetworkProofs`, `HCloudFirewallProofs`, `HCloudCertificateProofs`, `HCloudLoadBalancerProofs` | the theorems about the module each one extends |
| `MC*` | bounds for TLC; `MCLostRecord` adds a history variable |

**One step per remote call.** A reconcile is a sequence of steps, each ending
where the code is about to make the next remote call (`pc` names that call), so
that the world can change and the process can die exactly where it can in
reality. What the code computes between two calls belongs to the step. The
idempotent deletes of the wrapper (`GetByID`, then `Delete`) are one step: a
resource that vanishes between the two makes the second fail, and that the call
fails is possible in any case (`CallFails`).

**State.** `api`/`status`/`spec`/`phase` are the stored object, `cache`/`seen`
the informer's copy, `obj` the worker's copy, `snap`/`info`/`found` the `*Info`
value it holds, `srv`/`vol`/`ip`/`net`/`fw`/`crt`/`lb`/`cloud` the resource in
Hetzner. `obj.plan` holds what a reconcile computed at its start and uses to its
end: the position in the list of zones, the desired targets, the resolved
certificate. The sets in the load balancer's `info` are what is left of its
loops over Go maps, whose order is arbitrary. IDs are numbers that
Hetzner never reuses. Names, images, locations, user data and wording of
conditions are left out; the labels of an IP and the description of a floating IP
are small numbers, 0 for none. A firewall rule is a name and
a CIDR that is spelt as a network, spelt with host bits, or does not parse; a
service is its compared settings, its certificate and its health check, which is
absent, given in full, or given so that it is read back differently.

**Two levels.** `BaseReconciler` spells out versions, conflicts and the two retry
loops (`updateStatusWithRetry`, which refreshes only the version, and the
controllers' own `update<Kind>StatusWithRetry`, which writes into a fresh copy),
and reduces domain logic to "may fail, then Ready". Its constant `EarlyRecord`
distinguishes kinds that store a new ID at once (network, server) from the others.
(The network's early write has Ready=False, the server's Ready=True; the model
follows the network.) `MayPend` is for the kinds that refer to other objects, all
of which record late: their `Reconcile` returns without an error, and before it
looks at Hetzner, while a reference is missing or not ready (`Pend`), and
`base.go` sets Synced=True all the same. `CacheSync` takes a cache that lags, by
however many versions, to the newest one: a reconcile may start from any version
that was once the newest when the watch delivered, but not from one that is
skipped while the cache catches up. The other modules spell out domain logic, take
the finalizer as set, and reduce conflicts to what the retry loops amount to: a
status write lands when the cache has caught up with the store, since then and
only then it carries the current version; giving up earlier counts as an error.
The server's own status write and the base's write that repeats it are one step.

**Hetzner** is modelled from how the wrapper uses it. A resource with a running
action is locked and refuses others; accepted actions show immediately or only
when finished; deleting a server detaches its volumes and unassigns its IPs, or
deletes those with autoDelete; assigned IPs and attached volumes cannot be
deleted; detaching an unattached volume is accepted, as in the repository's fake
client. A created server is answered as initializing, so the record of its type
that `reconcileHCloudServer` makes of a server that is already running (lines
158-160) never applies. That a new volume needs a location or a server is one of
the reasons for which the call may fail. Hetzner's requirement that a server be
off when a primary IP is assigned is not modelled beyond "the call may fail". A
subnet shows at once or when the action has finished, one way in a behaviour
(`late`). Applying a firewall shows at once or target by target; a firewall that
is applied anywhere, and a certificate that a service uses, cannot be deleted. A
service always has a health check, which Hetzner completes. An update to a service
without certificates carries no HTTP options (`loadbalancer_service.go:204`):
Hetzner may drop the old certificate or keep it, and both are modelled. hcloud-go
leaves an empty description of a floating IP out of the request, so that it has no
effect. Names are unique per kind, so a lookup by name finds at most one resource.

## 3. Runs

Disturbances (edits, deletions, what others do, failed calls, lost answers,
crashes) are bounded by `Budget`, one number per kind; all modules but the skeleton
and the server have a cap on all together (`"any"`). Everything else, including
any interleaving and any lag of the cache, is unbounded.

| Run | Shows | Bounds |
|---|---|---|
| `base_early` | type correctness; `NoDuplicate`, `GuardedWhileWorking`, `ReportedIsRecorded`, `FailingNeverReady`, `RemovalIsSafe`; refinement of `ManagedResource` | four user actions (create, edit, delete, create again), one each of external deletion, error, lost answer, crash; two attempts per retry loop, the fewest with a second one |
| `base_live` | `DeletionCompletes`, `Converges`, with late recording and references that may be pending | three user actions, one of everything else |
| `server_resize` | `AppliedTypeRan`, `NeverStrandedOff`, `TypeConverges` | two upgrades among three types, an error, a crash, one deletion, rebuild or unknown state from outside |
| `server_references` | `NetworkConverges`, `ReadyConverges` | two networks, one placement group, an edit of each, an error, a crash |
| `volume_life` | `VolumeConverges`, `DeletionCompletes` (with the exception it names), `KeepsManagedResource` | two servers, two sizes, any three disturbances |
| `ip_life` | `IPConverges`, `DeletionCompletes` (with the exception it names) | two servers, both kinds, floating IPs with and without a description, any two disturbances |
| `network_life` | `OneSubnetPerZone`, `ZonesConverge`, `DeletionCompletes` | two zones, lists with none, one, a repeated one and two, any three disturbances |
| `firewall_life` | `FirewallConverges`, `DeletionCompletes`, `KeepsManagedResource` | two servers and a selector, four specs (no target; two rules; a CIDR with host bits; one that does not parse), any two disturbances |
| `certificate_life` | `CertificateConverges`, `DeletionCompletes`, `ImplementsCertificateRef` | both types, two values of the labels, any three disturbances |
| `lb_life` | `ServicesUsable`, `KeepsCertificateRef`, `LBConverges`, `DeletionCompletes`, `CertificateFreed` | two servers, one of them up at the start, two ports, a spec with a plain service and one with an HTTPS and a plain service, any two disturbances |

A second server, type or network is what it takes to move from one to another,
and three types what it takes to change one's mind to a third while a resize is
under way; two or three disturbances are what it takes for one to hit the repair
of another. TLC explores 10^5 to 10^6 states per run.

Deletion is stated as `<>[](phase # "deleting")`: phases only advance, so this says
that an object that is being deleted is gone at some point. The second conjunct
(`VolumeGoesFirst`, `IPGoesFirst`, `NetworkGoesFirst`, `FirewallGoesFirst`,
`LBGoesFirst`) says that it goes after the resource its status names. The
`*Converges` properties of volumes, firewalls and load balancers have two parts:
the resource and the status become what the spec asks for, and the operator comes
to rest, that is, sends no more changes.

`KeepsManagedResource` says that every step of a kind is a step of
`ManagedResource`. It is about steps only: these modules begin with the finalizer
set, where the abstract specification begins with no object. `KeepsCertificateRef`
says the same of the load balancer's module and `CertificateRef`.

Two runs expect a violation. Each states what the documentation says and shows
what the code does:

* `lost_record` (`RecordedIsCleanedUp`): no crash needed. A reconcile starts from
  a cached copy without the ID, fails, and its status write, retried under a
  fresh version, erases the ID the store already held.
* `server_revert` (`TypeConverges`): the type is edited and edited back while the
  server is off for the change; spec, Hetzner and appliedServerType agree again,
  and nobody switches the server on.

Further disagreements are visible in the models without a run of their own.
Four are stated as properties that do not hold; adding them to the
configuration named here has TLC print the sequence:

* `BaseReconciler!NoOrphan` (`MCBaseReconciler_live.cfg`): a kind that records
  late creates its resource, a later call fails, the user deletes the object:
  `Delete` sees no ID and returns, the finalizer goes, the resource stays. A
  crash right after creation does the same to the kinds that record early.
* `HCloudServer!NoStrayNetwork` (`MCHCloudServer_references.cfg`): networkRef is
  edited right after the first attachment; a reconcile that starts before the
  cache shows appliedNetworkID overwrites it, and the first network stays
  attached.
* `HCloudServer!NeverPanics` (`MCHCloudServer_resize.cfg`): somebody deletes the
  server between a power operation and the `GetServer` that follows; the nil
  answer is dereferenced.
* `HCloudFirewall!ManualAttachmentsStay` (`MCHCloudFirewall_life.cfg`): a firewall
  without `applyTo` is detached from everything, including what users attached by
  hand, while `hcloudfirewall_types.go:59` says "Omit to manage rules only (attach
  servers elsewhere / manually)." `FirewallConverges` says nothing about the targets
  of such a firewall.

The others appear as the exceptions that properties name:

* An IP that is gone while the status names it can never be deleted:
  `UnassignPrimaryIP` and `UnassignFloatingIP` answer "not found" for ever, and
  the idempotent delete behind them is not reached. autoDelete does it, and so
  does one failed finalizer update after `DeletePrimaryIP`. A volume that is gone
  while the status names a server gets stuck at `DetachVolume` in the same way
  (`DeletionCompletes` of both modules).
* `attachedServerID`, `appliedAssigneeID` and `appliedServerID` keep naming a
  server that was deleted, because `ServerPending` returns before the resource is
  looked at (the `~Pending` in `VolumeConverges` and `IPConverges`).
* `Ready=True` is written right after `CreateServer`, while the server
  initializes.
* A floating IP's description that is cleared in the spec stays in Hetzner, and the
  update is sent on every reconcile (`DescriptionStays` in `IPConverges`).
* A CIDR with host bits is sent as its network and compared as it was spelt, so
  the rules are set again on every reconcile (`FirewallConverges`).
* A health check that leaves a field to Hetzner, or sets `tls: false`, never
  equals what is read back: `UpdateService` is sent on every reconcile, and Ready
  flaps when it finds the load balancer still locked. The lock may also refuse the
  calls for the services behind it, on every reconcile (`Exact` in `LBConverges`).
* A service that goes from HTTPS to plain may keep its certificate, since the update
  says nothing about it. It then never compares equal, with the same consequences,
  and the certificate cannot be deleted (`KeptCert` in `LBConverges` and
  `CertificateFreed`).
* While a referenced certificate is missing or pending, a load balancer's targets
  are not reconciled either (`LBConverges`).
* A load balancer whose object was deleted before its ID was recorded stays and
  keeps its certificate from being deleted (`CertificateFreed`).
* Where subnets show late, the next reconcile may look before the subnet shows
  and send its own request after it does: the zone gets two (`late` in
  `OneSubnetPerZone`).

**Fairness.** `WF(Work)`: every reconcile that ends requeues its key, at once
after an error and after a delay otherwise, and calls have timeouts.
`WF(CacheSync)`: watches deliver. `WF(Progress)`: Hetzner finishes accepted
actions and ends every issuance. Referenced objects become ready, deleted servers
go away and certificates proceed, which is what their own controllers do; nothing
makes a load balancer let go of a certificate in `HCloudCertificate`. Nothing
forces edits, failures or crashes, and they are finite, so liveness says what
happens once they stop. No strong fairness is used. All runs but the server's
allow termination: with the object gone there is nothing left to do.

**Mutants.** Every property of a passing run comes with a variant of one
definition, the kind of slip the code could have (no lookup by name, finalizer
removed by an unconditional patch, no power-on, detach skipped ...), under which
TLC finds the property violated.

## 4. Proofs

All theorems hold for every value of the constants: any budget of edits, crashes,
failed calls, lost answers and interference, any number of servers, types,
networks, zones, ports and retries. `Spec` is `Init /\ [][Next]_vars`; no theorem
uses fairness.

| Module | Theorem | States |
|---|---|---|
| `BaseReconcilerProofs` | `InductiveInvariant` | `Spec => []IndInv` |
| | `TypeCorrect` | `Spec => []TypeOK` |
| | `NeverDuplicates` | `Spec => []NoDuplicate` |
| | `AlwaysGuarded` | `Spec => []GuardedWhileWorking` |
| | `RemovalSafe` | `Spec => RemovalIsSafe` |
| | `Refinement` | `Spec => ImplementsManagedResource` |
| | `ReportInvariant` | `Spec => []ReportInv` |
| | `ReportedNamesAll` | `Spec => []ReportedIsRecorded` |
| | `FailureNeverShowsReady` | `Spec => []FailingNeverReady` |
| `HCloudServerProofs` | `ServerInvariant`, `ServerTypes` | `Spec => []IndInv`, `Spec => []TypeOK` |
| | `AppliedTypeWasRunning` | `Spec => []AppliedTypeRan` |
| | `ResizeNeverStrands` | `ASSUME UpgradesOnly PROVE Spec => []NeverStrandedOff` |
| `HCloudVolumeProofs` | `VolumeInvariant`, `VolumeTypes` | `Spec => []IndInv`, `Spec => []TypeOK` |
| | `VolumeRemovalSafe` | `Spec => VolumeGoesFirst` |
| | `VolumeLife`, `VolumeManaged` | `Spec => []LifeInv`, `Spec => KeepsManagedResource` |
| `HCloudAssignedIPProofs` | `IPInvariant`, `IPTypes` | `Spec => []IndInv`, `Spec => []TypeOK` |
| | `IPRemovalSafe` | `Spec => IPGoesFirst` |
| | `IPLife`, `IPManaged` | `Spec => []LifeInv`, `Spec => KeepsManagedResource` |
| `HCloudNetworkProofs` | `NetworkInvariant`, `NetworkTypes` | `Spec => []IndInv`, `Spec => []TypeOK` |
| | `OneSubnet` | `Spec => []OneSubnetPerZone` |
| | `NetworkRemovalSafe` | `Spec => NetworkGoesFirst` |
| | `NetworkIDs`, `NetworkManaged` | `Spec => []IDsIssued`, `Spec => KeepsManagedResource` |
| `HCloudFirewallProofs` | `FirewallInvariant`, `FirewallTypes` | `Spec => []IndInv`, `Spec => []TypeOK` |
| | `FirewallRemovalSafe` | `Spec => FirewallGoesFirst` |
| | `FirewallManaged` | `Spec => KeepsManagedResource` |
| `HCloudCertificateProofs` | `CertificateInvariant`, `CertificateTypes` | `Spec => []IndInv`, `Spec => []TypeOK` |
| | `CertificateRefinement` | `Spec => ImplementsCertificateRef` |
| | `CertificateManaged` | `Spec => KeepsManagedResource` |
| `HCloudLoadBalancerProofs` | `LBInvariant`, `LBTypes` | `Spec => []IndInv`, `Spec => []TypeOK` |
| | `ServicesStayUsable` | `Spec => []ServicesUsable` |
| | `LBRemovalSafe` | `Spec => LBGoesFirst` |
| | `LBKeepsCertificateRef` | `Spec => KeepsCertificateRef` |
| | `LBLife`, `LBManaged` | `Spec => []LifeInv`, `Spec => KeepsManagedResource` |

**Assumptions.** The named `ASSUME`s of the modules, which say what sets the
constants are from and which TLC checks in the runs. One theorem has a hypothesis
of its own: `ResizeNeverStrands` takes `UpgradesOnly`, that users ask for greater
types only and that nobody else switches servers off. The run `server_resize`
satisfies it. Without it the statement is false: `server_revert` shows what
happens when an edit is taken back.

**The skeleton.** None of the properties is inductive. The worker acts on a copy
of a copy, so the invariant has to say how old copies relate to the store: the
cache trails the store, and equal versions mean equal contents (`CacheTrails`);
the copy the worker is about to write back with a version check trails the cache
(`CopyTrails`). The step that removes the finalizer is then safe because an
accepted update proves that the copy, on whose ID the deletion acted
(`DeletedBeforeRemoval`), *is* the stored object. `CacheGuarded` says that what
the cache shows guarded and not deleted is still guarded, which holds because only
the worker removes finalizers and only after it saw the deletion; this is what
makes it harmless to start domain logic from a stale copy (`GuardedWhileWorking`).
`CreateOnEmpty` carries the empty answer of the lookup by name to the create call:
nobody else creates resources of this name. `IDsIssued` keeps names of resources
below `nextID`, so a new resource is never one a status already names.

The conditions need a second invariant, `ReportInv`, proved on top of the first.
What can be trusted is Ready, for every kind, and Synced only for kinds that never
wait for a reference (`ReportsResource`): for the others Synced=True says no more
than that nothing failed. A stale copy may be written over the store, so a report
in the store can be trusted only if it can be trusted in every copy that may still
be written (`CopiesReport`), and only until the deletion has reached the worker
(`DeletionSeen`), which then destroys the resource while the status still reports
it. `FailureShown` says that a failed reconcile carries both conditions as False
to its write.

For the refinement, `StepSimulation` maps each action to an abstract step or a
stutter.

**The kinds.** Each invariant says, call by call, what the worker holds
(`WorkerHolds`) and why the next call comes at the right moment (`RightMoment`): a
resource is created only where there is none, and the object is let go after the
resource of the worker's copy. The latter is all that the `*GoesFirst` theorems
need, since `Release` takes effect only when that copy is the stored object.

`KeepsManagedResource` needs two things more, in `IndInv` for certificates and
firewalls, in a second invariant on top of it for the others (`LifeInv`, and
`IDsIssued` with the network's `IndInv`). `PhasesAgree` relates the store, the
cache and the worker: the cache may lag in showing a deletion, but the object is
never gone while the cache still shows it live or a worker reconciles it, so
nothing is created for an object that is gone. `IDsIssued` bounds by `nextID` every
ID that the store, the cache, the worker's copy or an answer it holds names, so a
status write, however stale the copy it carries, records only IDs that were given
out, and a new resource is never one that a status already names. Each step is
then a creation where there is none, a record, a destruction, the user's deletion,
a release or a stutter (`Provisions`, `StaysOrGoes` and their like). What is
particular to a kind:

* Server: the status is written from a snapshot taken earlier, so `RunsRecorded`
  traces every type that is recorded, held by some copy or shown as running back
  to a server that ran at it. For `NeverStrandedOff`, `TypesGoUp` orders the types
  recorded, reached and asked for, in every copy, and `OffForResize` says that a
  server that is off, or about to be, is on its way to a greater type or at a type
  greater than any that is recorded or about to be.
* Network: between the look at the subnets and the call that adds one, the zone
  can have got a subnet from others only (`AddsMissing`).
* Firewall: the rules pass through two conversions and come back in any order, so
  its lemmas say that `Stored` and `firewallRuleInfosToSDK` yield sequences of rules
  again, and that the targets that are sent, added or removed are servers there are
  or the selector. That the delete is sent while the detach still runs does no
  harm: a refused delete is an error, and only an accepted one leads to the release.
* Certificate: only the worker creates certificates, after it found none, and
  names are never reused (`IDsIssued`), so the certificate it deletes is the one it
  recorded. The refinement then maps each step to a step of `CertificateRef` or a
  stutter.
* Load balancer: the certificate is looked at once, before the first call to the
  load balancer. `ResolvedReady` says that later it still is ready or is gone:
  replaced certificates get new IDs (`IDsIssued`), issuance is not taken back, and
  Hetzner refuses a service whose certificate is gone and the deletion of one that
  a service uses. `LBKeepsCertificateRef` uses the same facts, and `ServicesUsable`
  after the step: what is in use then is ready. This closes the composition.
  `HCloudCertificate` implements `CertificateRef` whatever its users do within it,
  and the load balancer does nothing outside it.

**Layout.** Lemmas on the operators first; then one lemma per action (or per group
of actions with the same effect), each preserving the invariant; then the temporal
theorems. The invariants are checked by TLC on the bounds of the runs as well.

**Only model-checked.** All liveness: `*Converges`, `ZonesConverge`,
`CertificateFreed`, and what `DeletionCompletes` says of the end of a deletion. It
is out of the prover's reach, which has no rules for fairness and `ENABLED`. Every
invariant and every action property of the passing runs, the safety part of
`DeletionCompletes` included, is a theorem. `KeepsManagedResource` of IPs,
networks, certificates and load balancers is proved and has no run of its own.

## 5. Not modelled, and plan

Every controller has a module. Left out on purpose: the instrumented client and
the metrics (pass-through wrappers and counters), the generated deepcopy code,
the fake client (a test double of Hetzner), the manager's start-up, charts and
manifests. Of the client wrapper the parsing of creation parameters and fields no
controller branches on are left out. The server's deletion is modelled by
`BaseReconciler` only, and that a network in use cannot be deleted is one of the
calls that "may fail".

What could be added: the server's deletion in `HCloudServer`, so that
`KeepsManagedResource` can be stated for servers too, and the order in which a
network and the servers attached to it are deleted.
