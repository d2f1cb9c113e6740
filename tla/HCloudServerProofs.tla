-------------------------- MODULE HCloudServerProofs --------------------------
(***************************************************************************)
(* Proofs about HCloudServer for every number of types, networks and       *)
(* placement groups and every Budget: type correctness, that a recorded    *)
(* type was running, and that a resize never forgets a server it switched  *)
(* off.                                                                    *)
(***************************************************************************)
EXTENDS HCloudServer, TLAPS

-----------------------------------------------------------------------------
(* The records.                                                            *)

\* No server and no status.
LEMMA NoneFacts ==
    /\ NoServer \in Servers /\ NoServer.id = 0 /\ NoServer.state = "none"
    /\ NoServer.type = 0 /\ NoServer.newType = 0 /\ NoServer.op = "none"
    /\ NoStatus \in Statuses /\ NoCopy \in Copies /\ NoStatus.applied = 0
    /\ NoCopy.status = NoStatus /\ NoCopy.spec.type = 1
  <1>1. 1 \in Types
    BY SizesAssumption DEF Types
  <1> QED BY <1>1 DEF NoServer, Servers, States, Ops, NoStatus, Statuses, NoCopy, Copies, Specs

\* Types are numbers.
LEMMA TypesAreNumbers == Types \subseteq Nat /\ 0 \notin Types
  BY SizesAssumption DEF Types

\* Recording a type.
LEMMA AppliedFacts ==
    ASSUME NEW o \in Copies, NEW a \in Types \cup {0}
    PROVE  /\ [o EXCEPT !.status.applied = a] \in Copies
           /\ [o EXCEPT !.status.applied = a].spec = o.spec
           /\ [o EXCEPT !.status.applied = a].status.applied = a
  BY DEF Copies, Statuses

\* What a ServerInfo keeps of a server.
LEMMA InfoFacts ==
    ASSUME NEW s \in Servers
    PROVE  /\ toServerInfo(s) \in Servers
           /\ toServerInfo(s).id = s.id /\ toServerInfo(s).type = s.type
           /\ toServerInfo(s).state = s.state
  BY DEF toServerInfo, Servers, Ops

-----------------------------------------------------------------------------
(* How a reconcile goes on.                                                *)

\* What the branches of a reconcile have in common: they keep the copy's spec,
\* record a type only from a ServerInfo that shows it running, and hand that
\* ServerInfo to the next call.
GoesOn(o, s) ==
    /\ obj' \in Copies /\ obj'.spec = o.spec
    /\ \/ obj'.status.applied = o.status.applied
       \/ s.state = "running" /\ s.type = o.spec.type /\ obj'.status.applied = s.type
    /\ \/ pc' \in {"write", "writeError"} /\ snap' = NoServer
       \/ pc' \in SnapCalls /\ snap' = s
    /\ pc' = "powerOff" => s.state = "running" /\ s.type # o.spec.type
    /\ pc' = "attach" => o.spec.net # 0

LEMMA FailGoesOn ==
    ASSUME NEW o \in Copies, NEW s \in Servers, Fail(o)
    PROVE  GoesOn(o, s) /\ pc' = "writeError" /\ snap' = NoServer
  <1>1. obj' \in Copies /\ obj'.spec = o.spec /\ obj'.status.applied = o.status.applied
    BY DEF Fail, Copies, Statuses
  <1> QED BY <1>1 DEF Fail, GoesOn, SnapCalls

LEMMA WriteBackGoesOn ==
    ASSUME NEW o \in Copies, NEW s \in Servers, NEW r \in BOOLEAN, WriteBack(o, s, r)
    PROVE  GoesOn(o, s) /\ pc' = "write" /\ snap' = NoServer
  <1>1. s.id \in Nat
    BY DEF Servers
  <1>2. obj' \in Copies /\ obj'.spec = o.spec /\ obj'.status.applied = o.status.applied
    BY <1>1 DEF WriteBack, Copies, Statuses
  <1> QED BY <1>2 DEF WriteBack, GoesOn, SnapCalls

LEMMA CallGoesOn ==
    ASSUME NEW o \in Copies, NEW s, NEW step \in SnapCalls, Call(step, o, s),
           step = "powerOff" => s.state = "running" /\ s.type # o.spec.type,
           step = "attach" => o.spec.net # 0
    PROVE  GoesOn(o, s)
  BY DEF Call, GoesOn

\* A change of the copy that keeps the spec and the recorded type.
LEMMA SameGoesOn ==
    ASSUME NEW o \in Copies, NEW c \in Copies, NEW s, c.spec = o.spec,
           c.status.applied = o.status.applied, GoesOn(c, s)
    PROVE  GoesOn(o, s)
  BY DEF GoesOn

LEMMA syncStatusGoesOn ==
    ASSUME NEW o \in Copies, NEW s \in Servers, syncStatus(o, s)
    PROVE  GoesOn(o, s)
  <1> DEFINE running == s.type = o.spec.type /\ s.state = "running"
             a == IF running THEN o.spec.type ELSE o.status.applied
             c == [o EXCEPT !.status.applied = a]
  <1>1. a \in Types \cup {0} /\ running \in BOOLEAN
    BY DEF Copies, Specs, Statuses
  <1>2. WriteBack(c, s, running)
    BY Zenon DEF syncStatus
  <1>3. c \in Copies /\ c.spec = o.spec /\ c.status.applied = a
    BY <1>1, AppliedFacts
  <1>4. a = o.status.applied \/ (s.state = "running" /\ s.type = o.spec.type /\ a = s.type)
    OBVIOUS
  <1> HIDE DEF c, a, running
  <1>5. GoesOn(c, s) /\ pc' = "write" /\ snap' = NoServer
    BY <1>1, <1>2, <1>3, WriteBackGoesOn
  <1> QED BY <1>3, <1>4, <1>5 DEF GoesOn

LEMMA SettleGoesOn ==
    ASSUME NEW o \in Copies, NEW s \in Servers, Settle(o, s)
    PROVE  GoesOn(o, s)
  <1>1. s.pg \in PGs \cup {0} /\ FALSE \in BOOLEAN
    BY DEF Servers
  <1>2. CASE Fail(o)
    BY <1>2, FailGoesOn
  <1>3. CASE /\ obj' = [o EXCEPT !.status.pg = s.pg, !.status.ready = FALSE]
             /\ pc' = "write" /\ snap' = NoServer
    <2>1. obj' \in Copies /\ obj'.spec = o.spec /\ obj'.status.applied = o.status.applied
      BY <1>1, <1>3 DEF Copies, Statuses
    <2> QED BY <1>3, <2>1 DEF GoesOn, SnapCalls
  <1>4. CASE syncStatus([o EXCEPT !.status.pg = s.pg], s)
    <2> DEFINE c == [o EXCEPT !.status.pg = s.pg]
    <2>1. c \in Copies /\ c.spec = o.spec /\ c.status.applied = o.status.applied
      BY <1>1 DEF Copies, Statuses
    <2>2. syncStatus(c, s)
      BY <1>4
    <2> HIDE DEF c
    <2> QED BY <2>1, <2>2, syncStatusGoesOn, SameGoesOn
  <1> QED BY <1>2, <1>3, <1>4 DEF Settle

LEMMA AttachTargetGoesOn ==
    ASSUME NEW o \in Copies, NEW s \in Servers, AttachTarget(o, s), o.spec.net # 0
    PROVE  GoesOn(o, s)
  <1>1. CASE Call("attach", o, s)
    BY <1>1, CallGoesOn DEF SnapCalls
  <1>2. CASE Settle([o EXCEPT !.status.net = o.spec.net], s)
    <2> DEFINE c == [o EXCEPT !.status.net = o.spec.net]
    <2>1. c \in Copies /\ c.spec = o.spec /\ c.status.applied = o.status.applied
      BY DEF Copies, Specs, Statuses
    <2>2. Settle(c, s)
      BY <1>2
    <2> HIDE DEF c
    <2> QED BY <2>1, <2>2, SettleGoesOn, SameGoesOn
  <1> QED BY <1>1, <1>2 DEF AttachTarget

LEMMA ReconcileExistingGoesOn ==
    ASSUME NEW o \in Copies, NEW s \in Servers, reconcileExistingServer(o, s)
    PROVE  GoesOn(o, s)
  <1>1. \A step \in {"changeType", "powerOn", "detach"} :
          Call(step, o, s) => GoesOn(o, s)
    BY CallGoesOn DEF SnapCalls
  <1>2. s.state = "running" /\ s.type # o.spec.type /\ Call("powerOff", o, s) => GoesOn(o, s)
    BY CallGoesOn DEF SnapCalls
  <1>3. /\ (Fail(o) \/ WriteBack(o, s, FALSE) \/ Settle(o, s)) => GoesOn(o, s)
        /\ AttachTarget(o, s) /\ o.spec.net # 0 => GoesOn(o, s)
    BY FailGoesOn, WriteBackGoesOn, SettleGoesOn, AttachTargetGoesOn
  <1>4. CASE s.type # o.spec.type /\ reconcileServerTypeMismatch(o, s)
    BY <1>1, <1>2, <1>3, <1>4 DEF reconcileServerTypeMismatch
  <1>5. CASE ensureServerNetworkAttachment(o, s)
    BY <1>1, <1>3, <1>5 DEF ensureServerNetworkAttachment
  <1> QED BY <1>1, <1>4, <1>5 DEF reconcileExistingServer

-----------------------------------------------------------------------------
(* Ways in which a step keeps the invariant.                               *)

\* The bookkeeping of disturbances.
LEMMA SpendTyped ==
    ASSUME used \in [Disturbances -> Nat], NEW d \in Disturbances, Spend(d)
    PROVE  used' \in [Disturbances -> Nat]
  BY DEF Spend

\* A step that leaves the worker alone.
LEMMA EnvironmentKeeps ==
    ASSUME IndInv, UNCHANGED <<pc, obj, snap, status, panicked, nextID>>,
           spec' \in Specs, seen' \in Copies, seen'.status \in {seen.status, status},
           netReady' \subseteq Nets, pgReady' \subseteq PGs,
           used' \in [Disturbances -> Nat],
           srv' \in Servers, srv'.id \in {srv.id, 0}, ServerHolds',
           ran \subseteq ran', ran' \subseteq Types, srv'.state = "running" => srv'.type \in ran'
    PROVE  IndInv'
  <1>1. TypeOK'
    BY DEF IndInv, TypeOK
  <1>2. WorkerHolds'
    BY DEF IndInv, WorkerHolds
  <1>3. RunsRecorded'
    <2>1. Applied' \subseteq Applied
      BY DEF Applied
    <2> QED BY <2>1 DEF IndInv, RunsRecorded
  <1> QED BY <1>1, <1>2, <1>3 DEF IndInv

\* A step of the worker: what it records and shows was running, what it was
\* shown is there or gone.
LEMMA WorkerKeeps ==
    ASSUME IndInv, UNCHANGED <<spec, seen, netReady, pgReady, ran>>,
           status' \in {status, obj.status}, panicked' \in BOOLEAN,
           used' \in [Disturbances -> Nat], nextID' \in Nat \ {0},
           srv' \in Servers, ServerHolds', srv'.state = "running" => srv'.type \in ran,
           pc' \in PCs, obj' \in Copies, snap' \in Servers, WorkerHolds',
           snap'.state = "running" => snap'.type \in ran,
           obj'.status.applied # 0 => obj'.status.applied \in ran
    PROVE  IndInv'
  <1>1. TypeOK'
    <2>1. status' \in Statuses
      BY DEF IndInv, TypeOK, Copies
    <2> QED BY <2>1 DEF IndInv, TypeOK
  <1>2. RunsRecorded'
    <2>1. Applied' \subseteq Applied \cup {obj'.status.applied}
      BY DEF Applied
    <2> QED BY <2>1 DEF IndInv, RunsRecorded
  <1> QED BY <1>1, <1>2 DEF IndInv

\* The worker stops.
LEMMA StopKeeps ==
    ASSUME IndInv, Stop, UNCHANGED <<spec, seen, netReady, pgReady, ran, srv, nextID>>,
           status' \in {status, obj.status}, panicked' \in BOOLEAN,
           used' \in [Disturbances -> Nat]
    PROVE  IndInv'
  <1>1. /\ pc' = "idle" /\ obj' = NoCopy /\ snap' = NoServer
        /\ pc' \in PCs /\ obj' \in Copies /\ snap' \in Servers
        /\ snap'.state # "running" /\ obj'.status.applied = 0
    BY NoneFacts DEF Stop, PCs
  <1>2. WorkerHolds' /\ ServerHolds'
    BY <1>1 DEF IndInv, WorkerHolds, ServerHolds, SnapCalls
  <1> QED BY <1>1, <1>2, WorkerKeeps DEF IndInv, TypeOK, RunsRecorded

\* A reconcile goes on with the server s it was shown.
LEMMA GoesOnKeeps ==
    ASSUME IndInv, UNCHANGED <<spec, seen, netReady, pgReady, ran, status, panicked>>,
           used' \in [Disturbances -> Nat], nextID' \in Nat \ {0},
           srv' \in Servers, ServerHolds', srv'.state = "running" => srv'.type \in ran,
           NEW o \in Copies, NEW s \in Servers, GoesOn(o, s),
           o.status.applied = obj.status.applied,
           s.state = "running" => s.type \in ran,
           pc' \in SnapCalls => s.id # 0 /\ srv'.id \in {s.id, 0}
    PROVE  IndInv'
  <1>1. pc' \in PCs /\ snap' \in Servers /\ pc' # "lookupByID"
    BY NoneFacts DEF GoesOn, SnapCalls, PCs
  <1>2. WorkerHolds'
    BY <1>1 DEF GoesOn, WorkerHolds, SnapCalls
  <1>3. snap'.state = "running" => snap'.type \in ran
    BY NoneFacts DEF GoesOn
  <1>4. obj' \in Copies /\ (obj'.status.applied # 0 => obj'.status.applied \in ran)
    BY DEF GoesOn, IndInv, RunsRecorded, Applied
  <1> QED BY <1>1, <1>2, <1>3, <1>4, WorkerKeeps DEF IndInv, TypeOK

-----------------------------------------------------------------------------
(* The invariant holds at the start and every step keeps it.               *)

\* A fresh object and no server.
LEMMA InitIndInv == Init => IndInv
  <1> SUFFICES ASSUME Init PROVE IndInv
    OBVIOUS
  <1>1. TypeOK
    <2>1. panicked \in BOOLEAN
      BY Zenon DEF Init
    <2>2. 1 \in Types
      BY SizesAssumption DEF Types
    <2>3. spec \in Specs
      BY <2>2 DEF Init, Specs
    <2>4. status \in Statuses /\ seen \in Copies /\ obj \in Copies /\ snap \in Servers
          /\ srv \in Servers
      BY <2>3, NoneFacts DEF Init, Copies
    <2>5. pc \in PCs /\ used \in [Disturbances -> Nat] /\ nextID \in Nat \ {0}
      BY DEF Init, PCs
    <2> QED BY <2>1, <2>3, <2>4, <2>5 DEF TypeOK, Init
  <1>2. WorkerHolds /\ ServerHolds
    BY NoneFacts DEF Init, WorkerHolds, ServerHolds, SnapCalls
  <1>3. RunsRecorded
    <2>1. Applied = {0}
      BY NoneFacts DEF Init, Applied
    <2> QED BY <2>1, NoneFacts DEF Init, RunsRecorded
  <1> QED BY <1>1, <1>2, <1>3 DEF IndInv

\* The user, the referenced objects and the cache.
LEMMA ObjectStepsIndInv ==
    ASSUME IndInv, \/ EditType \/ EditNetwork \/ EditPlacementGroup
                   \/ NetworkReady \/ PlacementGroupReady \/ CacheSync
    PROVE  IndInv'
  <1>1. /\ UNCHANGED <<pc, obj, snap, status, panicked, srv, nextID, ran>>
        /\ \/ seen' = seen
           \/ seen' = [spec |-> spec, status |-> status]
    BY DEF EditType, EditNetwork, EditPlacementGroup, NetworkReady, PlacementGroupReady,
           CacheSync, hetzner, worker
  <1>2. spec' \in Specs
    BY DEF EditType, EditNetwork, EditPlacementGroup, NetworkReady, PlacementGroupReady,
           CacheSync, IndInv, TypeOK, Specs
  <1>3. netReady' \subseteq Nets /\ pgReady' \subseteq PGs
    BY DEF EditType, EditNetwork, EditPlacementGroup, NetworkReady, PlacementGroupReady,
           CacheSync, IndInv, TypeOK
  <1>4. used' \in [Disturbances -> Nat]
    <2>1. used \in [Disturbances -> Nat] /\ {"type", "net", "pg"} \subseteq Disturbances
      BY DEF IndInv, TypeOK, Disturbances
    <2> QED BY <2>1, SpendTyped
        DEF EditType, EditNetwork, EditPlacementGroup, NetworkReady, PlacementGroupReady, CacheSync
  <1>5. seen' \in Copies /\ seen'.status \in {seen.status, status}
    BY <1>1 DEF IndInv, TypeOK, Copies
  <1>6. /\ srv' \in Servers /\ srv'.id \in {srv.id, 0} /\ ServerHolds'
        /\ ran \subseteq ran' /\ ran' \subseteq Types
        /\ srv'.state = "running" => srv'.type \in ran'
    BY <1>1 DEF IndInv, TypeOK, ServerHolds, RunsRecorded
  <1> QED BY <1>1, <1>2, <1>3, <1>4, <1>5, <1>6, EnvironmentKeeps

\* What Hetzner's progress does to the server.
LEMMA ProgressFacts ==
    ASSUME IndInv, Progress
    PROVE  /\ srv' \in Servers /\ srv.id # 0 /\ srv.type # 0
           /\ \/ srv' = NoServer
              \/ /\ srv'.id = srv.id /\ srv'.type = srv.type /\ srv'.newType = srv.newType
                 /\ srv'.op \in {srv.op, "none"}
                 /\ srv'.state = "off" => srv.op = "powerOff" /\ srv'.op = "none"
                 /\ srv'.op = "changeType" => srv'.state = "migrating"
              \/ /\ srv'.id = srv.id /\ srv'.type = srv.newType /\ srv.op = "changeType"
                 /\ srv'.op = "none" /\ srv'.newType = 0 /\ srv'.state = "off"
  <1>1. srv \in Servers /\ srv.op # "none"
    BY DEF IndInv, TypeOK, Progress
  <1>2. srv.id # 0 /\ srv.type # 0
    BY <1>1, NoneFacts DEF IndInv, ServerHolds
  <1>3. CASE /\ srv.op \in DOMAIN Begin /\ srv.state # Begin[srv.op]
             /\ srv' = [srv EXCEPT !.state = Begin[srv.op]]
    <2>1. Begin[srv.op] \in States \ {"off", "running"}
          /\ (srv.op = "changeType" => Begin[srv.op] = "migrating")
      BY <1>3 DEF Begin, States
    <2> HIDE DEF Begin
    <2> QED BY <1>1, <1>2, <1>3, <2>1 DEF Servers
  <1>4. CASE /\ srv.op = "create" /\ srv.state = "initializing"
             /\ srv' = [srv EXCEPT !.state = "starting"]
    BY <1>1, <1>2, <1>4 DEF Servers, States
  <1>5. CASE /\ srv.op = "powerOff" /\ srv.state = "stopping"
             /\ srv' = [srv EXCEPT !.state = "off", !.op = "none"]
    BY <1>1, <1>2, <1>5 DEF Servers, States, Ops
  <1>6. CASE /\ srv.op = "changeType" /\ srv.state = "migrating"
             /\ srv' = [srv EXCEPT !.state = "off", !.op = "none",
                                   !.type = srv.newType, !.newType = 0]
    BY <1>1, <1>2, <1>6 DEF Servers, States, Ops
  <1>7. CASE srv' = [srv EXCEPT !.state = "running", !.op = "none"]
    BY <1>1, <1>2, <1>7 DEF Servers, States, Ops
  <1>8. CASE srv' = NoServer
    BY <1>2, <1>8, NoneFacts
  <1> QED BY <1>3, <1>4, <1>5, <1>6, <1>7, <1>8 DEF Progress

\* Hetzner goes on with an action.
LEMMA ProgressIndInv == IndInv /\ Progress => IndInv'
  <1> SUFFICES ASSUME IndInv, Progress PROVE IndInv'
    OBVIOUS
  <1>1. /\ UNCHANGED <<spec, status, seen, netReady, pgReady, nextID, pc, obj, snap, panicked, used>>
        /\ ran' = IF srv'.state = "running" THEN ran \cup {srv'.type} ELSE ran
    BY DEF Progress, object, worker
  <1>2. /\ srv' \in Servers /\ srv'.id \in {srv.id, 0} /\ ServerHolds'
    <2>1. srv.op = "changeType" => srv.newType # 0
      BY DEF IndInv, ServerHolds
    <2> QED BY <2>1, ProgressFacts, NoneFacts DEF ServerHolds
  <1>3. srv'.state = "running" => srv'.type \in Types
    BY <1>2, ProgressFacts, NoneFacts DEF Servers
  <1>4. ran \subseteq ran' /\ ran' \subseteq Types /\ (srv'.state = "running" => srv'.type \in ran')
    BY <1>1, <1>3 DEF IndInv, TypeOK
  <1> QED BY <1>1, <1>2, <1>4, EnvironmentKeeps DEF IndInv, TypeOK

\* Somebody else starts an action on a running server.
LEMMA ExternalFacts ==
    ASSUME IndInv, External
    PROVE  /\ srv' \in Servers /\ srv.id # 0 /\ srv'.id = srv.id /\ srv'.type = srv.type
           /\ srv'.state = srv.state /\ srv'.newType = srv.newType
           /\ srv.state = "running" /\ srv'.op \in ExternalOps /\ srv'.op # "changeType"
  <1>1. srv \in Servers /\ srv.state = "running" /\ srv.id # 0
    BY NoneFacts DEF IndInv, TypeOK, External, ServerHolds
  <1>2. PICK op \in ExternalOps : srv' = [srv EXCEPT !.op = op]
    BY DEF External
  <1>3. op \in Ops /\ op # "changeType"
    BY OpsAssumption DEF Ops
  <1> QED BY <1>1, <1>2, <1>3 DEF Servers

LEMMA ExternalIndInv == IndInv /\ External => IndInv'
  <1> SUFFICES ASSUME IndInv, External PROVE IndInv'
    OBVIOUS
  <1>1. /\ UNCHANGED <<spec, status, seen, netReady, pgReady, nextID, ran, pc, obj, snap, panicked>>
        /\ Spend("external")
    BY DEF External, object, worker
  <1>2. used' \in [Disturbances -> Nat]
    <2>1. used \in [Disturbances -> Nat] /\ "external" \in Disturbances
      BY DEF IndInv, TypeOK, Disturbances
    <2> QED BY <1>1, <2>1, SpendTyped
  <1>3. ServerHolds'
    BY ExternalFacts DEF IndInv, ServerHolds
  <1> QED BY <1>1, <1>2, <1>3, ExternalFacts, EnvironmentKeeps DEF IndInv, TypeOK, RunsRecorded

\* The worker starts, crashes, or a call of its fails.
LEMMA StartIndInv == IndInv /\ (Reconcile \/ Crash \/ CallFails) => IndInv'
  <1> SUFFICES ASSUME IndInv, Reconcile \/ Crash \/ CallFails PROVE IndInv'
    OBVIOUS
  <1>1. UNCHANGED <<spec, status, seen, netReady, pgReady, srv, nextID, ran, panicked>>
    BY DEF Reconcile, Crash, CallFails, object, hetzner
  <1>2. used' \in [Disturbances -> Nat]
    <2>1. used \in [Disturbances -> Nat] /\ {"error", "crash"} \subseteq Disturbances
      BY DEF IndInv, TypeOK, Disturbances
    <2> QED BY <2>1, SpendTyped DEF Reconcile, Crash, CallFails
  <1>3. /\ srv \in Servers /\ ServerHolds' /\ nextID \in Nat \ {0} /\ panicked \in BOOLEAN
        /\ obj \in Copies /\ seen \in Copies
        /\ srv.state = "running" => srv.type \in ran
    BY <1>1 DEF IndInv, TypeOK, ServerHolds, RunsRecorded
  <1>4. CASE Reconcile
    <2>1. /\ obj' = seen /\ snap' = NoServer
          /\ \/ pc' = "lookupByID" /\ seen.status.id # 0
             \/ pc' = "lookupByName"
      BY <1>4 DEF Reconcile, Call
    <2>2. pc' \in PCs /\ WorkerHolds'
      BY <2>1 DEF PCs, WorkerHolds, SnapCalls
    <2>3. /\ snap' \in Servers /\ snap'.state # "running"
          /\ obj'.status.applied # 0 => obj'.status.applied \in ran
      BY <2>1, NoneFacts DEF IndInv, RunsRecorded, Applied
    <2> QED BY <1>1, <1>2, <1>3, <2>1, <2>2, <2>3, WorkerKeeps
  <1>5. CASE Crash
    BY <1>1, <1>2, <1>3, <1>5, StopKeeps DEF Crash
  <1>6. CASE CallFails
    <2>1. GoesOn(obj, NoServer) /\ pc' = "writeError"
      BY <1>3, <1>6, NoneFacts, FailGoesOn DEF CallFails
    <2> QED BY <1>1, <1>2, <1>3, <2>1, NoneFacts, GoesOnKeeps DEF SnapCalls
  <1> QED BY <1>4, <1>5, <1>6

\* The lookups, and going on with the server they find.
LEMMA LookupIndInv == IndInv /\ (LookupByID \/ LookupByName) => IndInv'
  <1> SUFFICES ASSUME IndInv, LookupByID \/ LookupByName PROVE IndInv'
    OBVIOUS
  <1>1. UNCHANGED <<spec, status, seen, netReady, pgReady, srv, nextID, ran, panicked, used>>
    BY DEF LookupByID, LookupByName, object, hetzner
  <1>2. /\ srv \in Servers /\ ServerHolds' /\ nextID \in Nat \ {0} /\ panicked \in BOOLEAN
        /\ obj \in Copies /\ used \in [Disturbances -> Nat]
        /\ srv.state = "running" => srv.type \in ran
        /\ obj.status.applied # 0 => obj.status.applied \in ran
    BY <1>1 DEF IndInv, TypeOK, ServerHolds, RunsRecorded, Applied
  <1>3. ASSUME NEW o \in Copies, o.status.applied = obj.status.applied, srv.id # 0,
               reconcileExistingServer(o, toServerInfo(srv))
        PROVE  IndInv'
    <2> DEFINE s == toServerInfo(srv)
    <2>1. s \in Servers /\ s.id = srv.id /\ s.type = srv.type /\ s.state = srv.state
      BY <1>2, InfoFacts
    <2>2. reconcileExistingServer(o, s)
      BY <1>3
    <2> HIDE DEF s
    <2>3. GoesOn(o, s)
      BY <1>3, <2>1, <2>2, ReconcileExistingGoesOn
    <2> QED BY <1>1, <1>2, <1>3, <2>1, <2>3, GoesOnKeeps
  <1>4. CASE LookupByID /\ srv.id = obj.status.id
    BY <1>2, <1>3, <1>4 DEF LookupByID, IndInv, WorkerHolds
  <1>5. ASSUME LookupByName, srv.id # 0,
               reconcileExistingServer([obj EXCEPT !.status.id = srv.id], toServerInfo(srv))
        PROVE  IndInv'
    <2> DEFINE o == [obj EXCEPT !.status.id = srv.id]
    <2>1. srv.id \in Nat
      BY <1>2 DEF Servers
    <2>2. o \in Copies /\ o.status.applied = obj.status.applied
      BY <1>2, <2>1 DEF Copies, Statuses
    <2>3. reconcileExistingServer(o, toServerInfo(srv))
      BY <1>5
    <2> HIDE DEF o
    <2> QED BY <1>3, <1>5, <2>2, <2>3
  <1>6. CASE Fail(obj)
    <2>1. GoesOn(obj, NoServer) /\ pc' = "writeError"
      BY <1>2, <1>6, NoneFacts, FailGoesOn
    <2> QED BY <1>1, <1>2, <2>1, NoneFacts, GoesOnKeeps DEF SnapCalls
  <1>7. ASSUME NEW step \in {"lookupByName", "create"}, Call(step, obj, NoServer)
        PROVE  IndInv'
    <2>1. obj' = obj /\ snap' = NoServer /\ pc' = step
      BY <1>7 DEF Call
    <2>2. pc' \in PCs /\ WorkerHolds'
      BY <2>1 DEF PCs, WorkerHolds, SnapCalls
    <2> QED BY <1>1, <1>2, <2>1, <2>2, NoneFacts, WorkerKeeps
  <1> QED BY <1>4, <1>5, <1>6, <1>7 DEF LookupByID, LookupByName

\* The calls that act on the server the worker was shown.
ServerCall ==
    \/ PowerOffServer \/ PowerOnServer \/ ChangeServerType
    \/ DetachServerFromNetwork \/ AttachServerToNetwork

\* They fail without effect, or do nothing, or lock the server for an action,
\* or change its networks.
LEMMA ServerCallFacts ==
    ASSUME IndInv, ServerCall
    PROVE  /\ srv' \in Servers /\ srv'.id = srv.id /\ srv'.type = srv.type
           /\ srv'.state = srv.state /\ pc \in SnapCalls
           /\ \/ Fail(obj)
              \/ Call("refreshPower", obj, snap)
              \/ Call("refreshDetach", obj, snap)
              \/ Call("refreshAttach", obj, snap)
           /\ \/ srv'.op = srv.op /\ srv'.newType = srv.newType
              \/ srv'.op = "powerOn" /\ srv'.newType = srv.newType
              \/ /\ srv'.op = "powerOff" /\ srv'.newType = srv.newType
                 /\ pc = "powerOff" /\ srv.id = snap.id
              \/ /\ srv'.op = "changeType" /\ srv'.newType = obj.spec.type
                 /\ srv.type # obj.spec.type /\ srv.state = "off"
  <1>1. srv \in Servers /\ obj \in Copies
    BY DEF IndInv, TypeOK
  <1>2. obj.spec.type \in Types /\ obj.spec.net \in Nets \cup {0}
    BY <1>1 DEF Copies, Specs
  <1>3. CASE PowerOffServer \/ PowerOnServer
    BY <1>1, <1>3 DEF PowerOffServer, PowerOnServer, Servers, Ops, SnapCalls
  <1>4. CASE ChangeServerType
    BY <1>1, <1>2, <1>4 DEF ChangeServerType, Servers, Ops, SnapCalls
  <1>5. CASE DetachServerFromNetwork
    BY <1>1, <1>5 DEF DetachServerFromNetwork, Servers, SnapCalls
  <1>6. CASE AttachServerToNetwork
    <2>1. pc = "attach"
      BY <1>6 DEF AttachServerToNetwork
    <2>2. obj.spec.net # 0
      BY <2>1 DEF IndInv, WorkerHolds
    <2> QED BY <1>1, <1>2, <1>6, <2>2 DEF AttachServerToNetwork, Servers, SnapCalls
  <1> QED BY <1>3, <1>4, <1>5, <1>6 DEF ServerCall

LEMMA ServerCallIndInv == IndInv /\ ServerCall => IndInv'
  <1> SUFFICES ASSUME IndInv, ServerCall PROVE IndInv'
    OBVIOUS
  <1>1. UNCHANGED <<spec, status, seen, netReady, pgReady, nextID, ran, panicked, used>>
    BY DEF ServerCall, PowerOffServer, PowerOnServer, ChangeServerType,
           DetachServerFromNetwork, AttachServerToNetwork, object
  <1>2. /\ nextID \in Nat \ {0} /\ panicked \in BOOLEAN /\ obj \in Copies /\ snap \in Servers
        /\ used \in [Disturbances -> Nat]
        /\ srv'.state = "running" => srv'.type \in ran
        /\ snap.state = "running" => snap.type \in ran
        /\ snap.id # 0 /\ srv'.id \in {snap.id, 0} /\ srv' \in Servers
    BY ServerCallFacts DEF IndInv, TypeOK, RunsRecorded, WorkerHolds
  <1>3. ServerHolds'
    <2>1. obj.spec.type # 0
      BY <1>2, TypesAreNumbers DEF Copies, Specs
    <2>2. CASE srv.id = 0
      <3>1. srv = NoServer
        BY <2>2 DEF IndInv, ServerHolds
      <3>2. srv' = srv
        BY <1>2, <2>2, <3>1, NoneFacts, ServerCallFacts
        DEF ServerCall, PowerOffServer, PowerOnServer, ChangeServerType,
            DetachServerFromNetwork, AttachServerToNetwork, Unlocked, IndInv, WorkerHolds
      <3> QED BY <3>2 DEF IndInv, ServerHolds
    <2>3. CASE srv.id # 0
      BY <2>1, <2>3, ServerCallFacts DEF IndInv, ServerHolds
    <2> QED BY <2>2, <2>3
  <1>4. GoesOn(obj, snap)
    <2>1. \A step \in {"refreshPower", "refreshDetach", "refreshAttach"} :
            Call(step, obj, snap) => GoesOn(obj, snap)
      BY <1>2, CallGoesOn DEF SnapCalls
    <2> QED BY <1>2, <2>1, FailGoesOn, ServerCallFacts
  <1> QED BY <1>1, <1>2, <1>3, <1>4, GoesOnKeeps

\* The new server has the type and the placement group of the worker's copy.
LEMMA CreateFacts ==
    ASSUME IndInv, CreateServer
    PROVE  /\ srv' \in Servers /\ srv'.id = nextID /\ srv'.id # 0 /\ srv'.type = obj.spec.type
           /\ srv'.type # 0 /\ srv'.state = "initializing" /\ srv'.op = "create"
           /\ srv'.newType = 0
           /\ obj' \in Copies /\ obj'.spec = obj.spec
           /\ obj'.status.applied = obj.status.applied
           /\ pc = "create" /\ pc' = "write" /\ snap' = NoServer
  <1>1. /\ nextID \in Nat \ {0} /\ obj \in Copies /\ pc = "create"
        /\ obj.spec.type \in Types /\ obj.spec.pg \in PGs \cup {0}
    BY DEF IndInv, TypeOK, CreateServer, Copies, Specs
  <1> DEFINE new == [NoServer EXCEPT !.id = nextID, !.type = obj.spec.type,
                                     !.state = "initializing", !.pg = obj.spec.pg,
                                     !.op = "create"]
             g == IF new.pg # 0 THEN new.pg ELSE obj.status.pg
             o == [obj EXCEPT !.status.pg = g]
  <1>2. /\ new \in Servers /\ new.id = nextID /\ new.type = obj.spec.type
        /\ new.state = "initializing" /\ new.op = "create" /\ new.newType = 0
        /\ new.pg = obj.spec.pg
    BY <1>1 DEF NoServer, Servers, States, Ops
  <1>3. srv' = new /\ WriteBack(o, new, TRUE)
    BY Zenon DEF CreateServer
  <1> HIDE DEF new
  <1>4. g \in PGs \cup {0}
    BY <1>1, <1>2 DEF Copies, Statuses
  <1> HIDE DEF g
  <1>5. o \in Copies /\ o.spec = obj.spec /\ o.status.applied = obj.status.applied
    BY <1>1, <1>4 DEF Copies, Statuses
  <1> HIDE DEF o
  <1>6. /\ obj' \in Copies /\ obj'.spec = o.spec /\ obj'.status.applied = o.status.applied
        /\ pc' = "write" /\ snap' = NoServer
    <2>1. TRUE \in BOOLEAN
      OBVIOUS
    <2> QED BY <1>2, <1>3, <1>5, <2>1, WriteBackGoesOn DEF GoesOn
  <1> QED BY <1>1, <1>2, <1>3, <1>5, <1>6, TypesAreNumbers

LEMMA CreateIndInv == IndInv /\ CreateServer => IndInv'
  <1> SUFFICES ASSUME IndInv, CreateServer PROVE IndInv'
    OBVIOUS
  <1>1. /\ UNCHANGED <<spec, status, seen, netReady, pgReady, ran, panicked, used>>
        /\ nextID' = nextID + 1
    BY DEF CreateServer, object
  <1>2. /\ nextID' \in Nat \ {0} /\ panicked \in BOOLEAN /\ used \in [Disturbances -> Nat]
        /\ obj.status.applied # 0 => obj.status.applied \in ran
    BY <1>1 DEF IndInv, TypeOK, RunsRecorded, Applied
  <1>3. ServerHolds' /\ WorkerHolds' /\ pc' \in PCs
    BY CreateFacts DEF ServerHolds, WorkerHolds, SnapCalls, PCs
  <1> QED BY <1>1, <1>2, <1>3, CreateFacts, NoneFacts, WorkerKeeps

\* The look after a call: a server that has gone takes the process down, or
\* leaves the old ServerInfo in use.
LEMMA RefreshFacts ==
    ASSUME IndInv, pc \in SnapCalls
    PROVE  /\ Refreshed \in Servers /\ Refreshed.id # 0 /\ srv.id \in {Refreshed.id, 0}
           /\ Refreshed.state = "running" => Refreshed.type \in ran
           /\ srv.id # 0 => Refreshed.type = srv.type /\ Refreshed.state = srv.state
  <1>1. srv \in Servers /\ snap \in Servers /\ snap.id # 0 /\ srv.id \in {snap.id, 0}
    BY DEF IndInv, TypeOK, WorkerHolds
  <1> QED BY <1>1, InfoFacts DEF Refreshed, IndInv, RunsRecorded

LEMMA RefreshIndInv == IndInv /\ (RefreshPower \/ RefreshDetach \/ RefreshAttach) => IndInv'
  <1> SUFFICES ASSUME IndInv, RefreshPower \/ RefreshDetach \/ RefreshAttach PROVE IndInv'
    OBVIOUS
  <1>1. /\ UNCHANGED <<spec, status, seen, netReady, pgReady, srv, nextID, ran, used>>
        /\ pc \in SnapCalls
    BY DEF RefreshPower, RefreshDetach, RefreshAttach, object, hetzner, SnapCalls
  <1>2. /\ srv \in Servers /\ ServerHolds' /\ nextID \in Nat \ {0} /\ panicked \in BOOLEAN
        /\ obj \in Copies /\ used \in [Disturbances -> Nat]
        /\ srv.state = "running" => srv.type \in ran
    BY <1>1 DEF IndInv, TypeOK, ServerHolds, RunsRecorded
  <1> DEFINE s == Refreshed
  <1>3. /\ s \in Servers /\ s.id # 0 /\ srv.id \in {s.id, 0}
        /\ s.state = "running" => s.type \in ran
    BY <1>1, RefreshFacts
  <1>4. CASE RefreshPower
    <2>1. CASE WriteBack(obj, srv, FALSE) /\ UNCHANGED panicked
      <3>1. GoesOn(obj, srv) /\ pc' = "write"
        BY <1>2, <2>1, WriteBackGoesOn
      <3> QED BY <1>1, <1>2, <2>1, <3>1, GoesOnKeeps DEF SnapCalls
    <2>2. CASE panicked' = TRUE /\ Stop
      <3>1. panicked' \in BOOLEAN
        BY <2>2
      <3> QED BY <1>1, <1>2, <2>2, <3>1, StopKeeps
    <2> QED BY <1>4, <2>1, <2>2 DEF RefreshPower
  <1>5. CASE RefreshDetach
    <2> DEFINE o == [obj EXCEPT !.status.net = 0]
    <2>1. o \in Copies /\ o.spec = obj.spec /\ o.status.applied = obj.status.applied
      BY <1>2 DEF Copies, Statuses
    <2>2. WriteBack(o, s, TRUE) \/ (obj.spec.net # 0 /\ AttachTarget(o, s))
      BY <1>5 DEF RefreshDetach
    <2> HIDE DEF o, s
    <2>3. GoesOn(o, s)
      <3>1. TRUE \in BOOLEAN
        OBVIOUS
      <3> QED BY <1>3, <2>1, <2>2, <3>1, WriteBackGoesOn, AttachTargetGoesOn
    <2>4. UNCHANGED panicked
      BY <1>5 DEF RefreshDetach
    <2> QED BY <1>1, <1>2, <1>3, <2>1, <2>3, <2>4, GoesOnKeeps
  <1>6. CASE RefreshAttach
    <2> DEFINE o == [obj EXCEPT !.status.net = obj.spec.net]
    <2>1. o \in Copies /\ o.spec = obj.spec /\ o.status.applied = obj.status.applied
      BY <1>2 DEF Copies, Statuses, Specs
    <2>2. WriteBack(o, s, TRUE) /\ UNCHANGED panicked
      BY <1>6 DEF RefreshAttach
    <2> HIDE DEF o, s
    <2>3. GoesOn(o, s)
      <3>1. TRUE \in BOOLEAN
        OBVIOUS
      <3> QED BY <1>3, <2>1, <2>2, <3>1, WriteBackGoesOn
    <2> QED BY <1>1, <1>2, <1>3, <2>1, <2>2, <2>3, GoesOnKeeps
  <1> QED BY <1>4, <1>5, <1>6

\* The status writes.
LEMMA WriteIndInv == IndInv /\ (WriteStatus \/ WriteErrorStatus) => IndInv'
  <1> SUFFICES ASSUME IndInv, WriteStatus \/ WriteErrorStatus PROVE IndInv'
    OBVIOUS
  <1>1. /\ UNCHANGED <<spec, seen, netReady, pgReady, srv, nextID, ran, panicked>>
        /\ \/ Stop /\ status' \in {status, obj.status}
           \/ Fail(obj) /\ status' = status
    BY DEF WriteStatus, WriteErrorStatus, hetzner
  <1>2. used' \in [Disturbances -> Nat]
    <2>1. used \in [Disturbances -> Nat] /\ "error" \in Disturbances
      BY DEF IndInv, TypeOK, Disturbances
    <2> QED BY <2>1, SpendTyped DEF WriteStatus, WriteErrorStatus
  <1>3. /\ srv \in Servers /\ ServerHolds' /\ nextID \in Nat \ {0} /\ panicked \in BOOLEAN
        /\ obj \in Copies
        /\ srv.state = "running" => srv.type \in ran
    BY <1>1 DEF IndInv, TypeOK, ServerHolds, RunsRecorded
  <1>4. CASE Stop /\ status' \in {status, obj.status}
    BY <1>1, <1>2, <1>3, <1>4, StopKeeps
  <1>5. CASE Fail(obj) /\ status' = status
    <2>1. GoesOn(obj, NoServer) /\ pc' = "writeError"
      BY <1>3, <1>5, NoneFacts, FailGoesOn
    <2> QED BY <1>1, <1>2, <1>3, <1>5, <2>1, NoneFacts, GoesOnKeeps DEF SnapCalls
  <1> QED BY <1>1, <1>4, <1>5

\* Every step of the specification keeps the invariant.
LEMMA NextIndInv == IndInv /\ [Next]_vars => IndInv'
  <1> SUFFICES ASSUME IndInv, [Next]_vars PROVE IndInv'
    OBVIOUS
  <1>1. CASE UNCHANGED vars
    BY <1>1 DEF vars, IndInv, TypeOK, WorkerHolds, ServerHolds, RunsRecorded, Applied
  <1>2. CASE Next
    BY <1>2, ObjectStepsIndInv, ProgressIndInv, ExternalIndInv, StartIndInv, LookupIndInv,
       CreateIndInv, ServerCallIndInv, RefreshIndInv, WriteIndInv
    DEF Next, Work, ServerCall
  <1> QED BY <1>1, <1>2

\* The inductive invariant holds in every reachable state.
THEOREM ServerInvariant == Spec => []IndInv
  BY InitIndInv, NextIndInv, PTL DEF Spec

\* Every variable of the server controller keeps its type.
THEOREM ServerTypes == Spec => []TypeOK
  <1>1. IndInv => TypeOK
    BY DEF IndInv
  <1> QED BY <1>1, ServerInvariant, PTL

\* status.appliedServerType names a type at which a server of this object was
\* running, whatever users, others, failures and crashes do.
THEOREM AppliedTypeWasRunning == Spec => []AppliedTypeRan
  <1>1. IndInv => AppliedTypeRan
    BY DEF IndInv, RunsRecorded, Applied, AppliedTypeRan
  <1> QED BY <1>1, ServerInvariant, PTL

-----------------------------------------------------------------------------
(* No server is forgotten while it is off.                                 *)

\* The types the invariant compares are numbers.
LEMMA Numbers ==
    ASSUME IndInv
    PROVE  /\ spec.type \in Nat \ {0} /\ seen.spec.type \in Nat \ {0}
           /\ obj.spec.type \in Nat \ {0}
           /\ srv.type \in Nat /\ srv.newType \in Nat
           /\ Applied \subseteq Nat /\ Wanted \subseteq Nat \ {0}
  <1>1. /\ spec.type \in Types /\ seen.spec.type \in Types /\ obj.spec.type \in Types
        /\ srv.type \in Types \cup {0} /\ srv.newType \in Types \cup {0}
        /\ status.applied \in Types \cup {0} /\ seen.status.applied \in Types \cup {0}
        /\ obj.status.applied \in Types \cup {0}
    BY DEF IndInv, TypeOK, Copies, Specs, Statuses, Servers
  <1>2. \A t \in Types : t \in Nat \ {0}
    BY TypesAreNumbers
  <1>3. Applied \subseteq Nat
    BY <1>1, <1>2 DEF Applied
  <1>4. Wanted \subseteq Nat \ {0}
    BY <1>1, <1>2 DEF Wanted
  <1> QED BY <1>1, <1>2, <1>3, <1>4

\* And so are those of the next state.
LEMMA NumbersNext ==
    ASSUME IndInv'
    PROVE  Applied' \subseteq Nat /\ Wanted' \subseteq Nat
  <1>1. /\ spec'.type \in Types /\ seen'.spec.type \in Types /\ obj'.spec.type \in Types
        /\ status'.applied \in Types \cup {0} /\ seen'.status.applied \in Types \cup {0}
        /\ obj'.status.applied \in Types \cup {0}
    BY DEF IndInv, TypeOK, Copies, Specs, Statuses
  <1>2. \A t \in Types : t \in Nat
    BY TypesAreNumbers
  <1>3. Applied' \subseteq Nat
    BY <1>1, <1>2 DEF Applied
  <1>4. Wanted' \subseteq Nat
    BY <1>1, <1>2 DEF Wanted
  <1> QED BY <1>3, <1>4

\* The parts of ResizeInv, for the next state, from what they say of the server.
LEMMA SameServer ==
    ASSUME IndInv, IndInv', ResizeInv, srv' = srv,
           seen'.spec.type <= spec'.type, obj'.spec.type <= seen'.spec.type,
           \A w \in Wanted' : \E v \in Wanted : v <= w,
           \A t \in Applied' : \E u \in Applied : t <= u,
           pc' = "powerOff" /\ srv.id = snap'.id
             => srv.op # "changeType" /\ srv.type < obj'.spec.type
    PROVE  ResizeInv'
  <1>1. Applied' \subseteq Nat /\ Wanted' \subseteq Nat
    BY NumbersNext
  <1>2. Applied \subseteq Nat /\ Wanted \subseteq Nat /\ srv.type \in Nat /\ srv.newType \in Nat
    BY Numbers
  <1>3. \A v \in Wanted : srv.type <= v /\ srv.newType <= v /\ \A u \in Applied : u <= v
    BY DEF ResizeInv, TypesGoUp
  <1>4. \A w \in Wanted' : srv.type <= w /\ srv.newType <= w /\ \A t \in Applied' : t <= w
    <2> SUFFICES ASSUME NEW w \in Wanted'
                 PROVE  srv.type <= w /\ srv.newType <= w /\ \A t \in Applied' : t <= w
      OBVIOUS
    <2>1. PICK v \in Wanted : v <= w
      OBVIOUS
    <2>2. srv.type <= w /\ srv.newType <= w
      BY <1>1, <1>2, <1>3, <2>1
    <2>3. ASSUME NEW t \in Applied'
          PROVE  t <= w
      <3>1. PICK u \in Applied : t <= u
        OBVIOUS
      <3>2. u <= v
        BY <1>3, <2>1
      <3> QED BY <1>1, <1>2, <2>1, <3>1, <3>2
    <2> QED BY <2>2, <2>3
  <1>5. srv.id # 0 => \A t \in Applied' : t <= srv.type
    <2> SUFFICES ASSUME srv.id # 0, NEW t \in Applied'
                 PROVE  t <= srv.type
      OBVIOUS
    <2>1. PICK u \in Applied : t <= u
      OBVIOUS
    <2>2. u <= srv.type
      BY DEF ResizeInv, TypesGoUp
    <2> QED BY <1>1, <1>2, <2>1, <2>2
  <1>6. (\A v \in Wanted : srv.type < v) => \A w \in Wanted' : srv.type < w
    BY <1>1, <1>2
  <1>7. (\A u \in Applied : u < srv.type) => \A t \in Applied' : t < srv.type
    BY <1>1, <1>2
  <1>8. TypesGoUp'
    BY <1>4, <1>5 DEF TypesGoUp
  <1>9. OffForResize'
    BY <1>6, <1>7 DEF ResizeInv, OffForResize
  <1> QED BY <1>8, <1>9 DEF ResizeInv

\* The worker records the type of a running server, or of one that has gone.
LEMMA RecordKeeps ==
    ASSUME IndInv, IndInv', ResizeInv, UNCHANGED <<spec, status, seen, srv>>,
           pc # "idle", pc' # "idle", pc' # "powerOff", obj'.spec = obj.spec,
           obj'.status.applied = obj.spec.type,
           srv.id # 0 => srv.state = "running" /\ srv.type = obj.spec.type
    PROVE  ResizeInv'
  <1>1. Wanted' = Wanted /\ Applied' \subseteq Applied \cup {obj.spec.type}
    BY DEF Wanted, Applied
  <1>2. /\ spec.type \in Nat /\ seen.spec.type \in Nat /\ obj.spec.type \in Nat
        /\ seen.spec.type <= spec.type /\ obj.spec.type <= seen.spec.type
    BY Numbers DEF ResizeInv, TypesGoUp
  <1>3. \A w \in Wanted : obj.spec.type <= w
    BY <1>2 DEF Wanted
  <1>4. TypesGoUp'
    <2>1. srv.id # 0 => \A t \in Applied' : t <= srv.type
      BY <1>1, <1>2 DEF ResizeInv, TypesGoUp
    <2> QED BY <1>1, <1>2, <1>3, <2>1 DEF ResizeInv, TypesGoUp
  <1>5. srv.state # "off"
    BY NoneFacts DEF IndInv, ServerHolds
  <1>6. OffForResize'
    BY <1>1, <1>5 DEF ResizeInv, OffForResize
  <1> QED BY <1>4, <1>6 DEF ResizeInv

\* A reconcile goes on with a server that is as it was shown, or has gone.
LEMMA GoesOnKeepsResize ==
    ASSUME IndInv, IndInv', ResizeInv, UNCHANGED <<spec, status, seen, srv>>, pc # "idle",
           NEW o \in Copies, o.spec = obj.spec, o.status.applied = obj.status.applied,
           NEW s \in Servers, GoesOn(o, s),
           srv.id # 0 /\ s.state = "running" => srv.type = s.type /\ srv.state = "running"
    PROVE  ResizeInv'
  <1>1. pc' # "idle" /\ obj'.spec = obj.spec
    BY DEF GoesOn, SnapCalls
  <1>2. CASE obj'.status.applied = obj.status.applied
    <2>1. Wanted' = Wanted /\ Applied' = Applied
      BY <1>1, <1>2 DEF Wanted, Applied
    <2>2. Wanted \subseteq Nat /\ Applied \subseteq Nat /\ srv.type \in Nat
          /\ obj.spec.type \in Nat
      BY Numbers
    <2>3. /\ \A w \in Wanted' : \E v \in Wanted : v <= w
          /\ \A t \in Applied' : \E u \in Applied : t <= u
      <3>1. \A n \in Nat : n <= n
        OBVIOUS
      <3> QED BY <2>1, <2>2, <3>1, Zenon
    <2>4. ASSUME pc' = "powerOff", srv.id = snap'.id
          PROVE  srv.op # "changeType" /\ srv.type < obj'.spec.type
      <3>1. srv.id # 0 /\ s.state = "running" /\ s.type # obj.spec.type
        BY <2>4 DEF GoesOn, IndInv, WorkerHolds, SnapCalls
      <3>2. srv.state = "running" /\ srv.type # obj.spec.type
        BY <3>1
      <3>3. srv.type <= obj.spec.type
        BY DEF ResizeInv, TypesGoUp, Wanted
      <3> QED BY <1>1, <2>2, <3>2, <3>3 DEF ResizeInv, OffForResize
    <2>5. seen'.spec.type <= spec'.type /\ obj'.spec.type <= seen'.spec.type
      BY <1>1 DEF ResizeInv, TypesGoUp
    <2> QED BY <2>3, <2>4, <2>5, SameServer
  <1>3. CASE obj'.status.applied # obj.status.applied
    <2>1. s.state = "running" /\ s.type = obj.spec.type /\ obj'.status.applied = obj.spec.type
      BY <1>3 DEF GoesOn
    <2>2. pc' # "powerOff"
      BY <2>1 DEF GoesOn
    <2> QED BY <1>1, <2>1, <2>2, RecordKeeps
  <1> QED BY <1>2, <1>3

\* No type is asked for or recorded that was not before.
LEMMA NoneNew ==
    ASSUME IndInv, Wanted' \subseteq Wanted, Applied' \subseteq Applied \cup {0}
    PROVE  /\ \A w \in Wanted' : \E v \in Wanted : v <= w
           /\ \A t \in Applied' : \E u \in Applied : t <= u
  <1>1. \A n \in Nat : n <= n /\ 0 <= n
    OBVIOUS
  <1>2. Applied \subseteq Nat /\ Wanted \subseteq Nat /\ status.applied \in Applied
    BY Numbers DEF Applied
  <1> QED BY <1>1, <1>2, Zenon

\* At the start there is no server.
LEMMA InitResizeInv == Init => ResizeInv
  <1> SUFFICES ASSUME Init PROVE ResizeInv
    OBVIOUS
  <1>1. IndInv
    BY InitIndInv
  <1>2. /\ spec.type = 1 /\ seen.spec.type = 1 /\ obj.spec.type = 1 /\ pc = "idle"
        /\ srv = NoServer
    BY NoneFacts DEF Init
  <1>3. Applied = {0} /\ Wanted = {1}
    BY <1>2, NoneFacts DEF Init, Applied, Wanted
  <1> QED BY <1>2, <1>3, NoneFacts DEF ResizeInv, TypesGoUp, OffForResize

\* Users ask only for greater types, and the cache follows.
LEMMA ObjectStepsResizeInv ==
    ASSUME UpgradesOnly, IndInv, IndInv', ResizeInv,
           \/ EditType \/ EditNetwork \/ EditPlacementGroup
           \/ NetworkReady \/ PlacementGroupReady \/ CacheSync
    PROVE  ResizeInv'
  <1>1. /\ UNCHANGED <<pc, obj, snap, status, srv>>
        /\ \/ seen' = seen
           \/ seen' = [spec |-> spec, status |-> status] /\ spec' = spec
    BY DEF EditType, EditNetwork, EditPlacementGroup, NetworkReady, PlacementGroupReady,
           CacheSync, hetzner, worker
  <1>2. /\ spec.type \in Nat /\ seen.spec.type \in Nat /\ obj.spec.type \in Nat
        /\ seen.spec.type <= spec.type /\ obj.spec.type <= seen.spec.type
    BY Numbers DEF ResizeInv, TypesGoUp
  <1>3. spec'.type \in Nat /\ spec'.type >= spec.type
    <2>1. CASE EditType
      <3>1. PICK t \in Types : t > spec.type /\ spec' = [spec EXCEPT !.type = t]
        BY <2>1 DEF EditType, UpgradesOnly
      <3> QED BY <1>2, <3>1, TypesAreNumbers DEF IndInv, TypeOK, Specs
    <2>2. CASE spec'.type = spec.type
      BY <1>2, <2>2
    <2> QED BY <2>1, <2>2
        DEF EditNetwork, EditPlacementGroup, NetworkReady, PlacementGroupReady, CacheSync,
            IndInv, TypeOK, Specs
  <1>4. /\ seen'.spec.type \in {seen.spec.type, spec.type}
        /\ Applied' \subseteq Applied
    BY <1>1 DEF Applied
  <1>5. seen'.spec.type <= spec'.type /\ obj'.spec.type <= seen'.spec.type
    BY <1>1, <1>2, <1>3, <1>4
  <1>6. \A w \in Wanted' : \E v \in Wanted : v <= w
    <2>1. Wanted' \subseteq Wanted \cup {spec'.type}
      BY <1>1 DEF Wanted
    <2>2. spec.type \in Wanted /\ spec.type <= spec'.type
      BY <1>2, <1>3 DEF Wanted
    <2>3. \A v \in Wanted : v <= v
      BY Numbers
    <2> QED BY <2>1, <2>2, <2>3, Zenon
  <1>7. \A t \in Applied' : \E u \in Applied : t <= u
    <2>1. \A u \in Applied : u <= u
      BY Numbers
    <2> QED BY <1>4, <2>1, Zenon
  <1>8. pc' = "powerOff" /\ srv.id = snap'.id
          => srv.op # "changeType" /\ srv.type < obj'.spec.type
    BY <1>1 DEF ResizeInv, OffForResize
  <1> QED BY <1>1, <1>5, <1>6, <1>7, <1>8, SameServer

\* The worker starts or stops, or writes the status.
LEMMA StartStopResizeInv ==
    ASSUME IndInv, IndInv', ResizeInv, UNCHANGED <<spec, seen, srv>>,
           status' \in {status, obj.status},
           \/ Stop
           \/ obj' = seen /\ pc' \in {"lookupByID", "lookupByName"}
    PROVE  ResizeInv'
  <1>1. pc' # "powerOff" /\ obj'.spec.type \in {1, seen.spec.type}
    BY NoneFacts DEF Stop
  <1>2. seen.spec.type \in Nat \ {0} /\ seen.spec.type <= spec.type
    BY Numbers DEF ResizeInv, TypesGoUp
  <1>3. seen'.spec.type <= spec'.type /\ obj'.spec.type <= seen'.spec.type
    BY <1>1, <1>2
  <1>4. Wanted' \subseteq Wanted /\ Applied' \subseteq Applied \cup {0}
    BY NoneFacts DEF Wanted, Applied, Stop
  <1> QED BY <1>1, <1>3, <1>4, NoneNew, SameServer

LEMMA WorkerResizeInv ==
    ASSUME IndInv, IndInv', ResizeInv,
           \/ Reconcile \/ Crash \/ CallFails \/ LookupByID \/ LookupByName
           \/ RefreshPower \/ RefreshDetach \/ RefreshAttach \/ WriteStatus \/ WriteErrorStatus
    PROVE  ResizeInv'
  <1>1. /\ UNCHANGED <<spec, seen, srv>> /\ status' \in {status, obj.status}
        /\ obj \in Copies /\ srv \in Servers
    BY DEF Reconcile, Crash, CallFails, LookupByID, LookupByName, RefreshPower, RefreshDetach,
           RefreshAttach, WriteStatus, WriteErrorStatus, object, hetzner, IndInv, TypeOK
  <1>2. CASE Reconcile
    BY <1>1, <1>2, StartStopResizeInv DEF Reconcile, Call
  <1>3. CASE Stop
    BY <1>1, <1>3, StartStopResizeInv
  <1>4. CASE Fail(obj) /\ status' = status /\ pc # "idle"
    <2>1. GoesOn(obj, NoServer)
      BY <1>1, <1>4, NoneFacts, FailGoesOn
    <2> QED BY <1>1, <1>4, <2>1, NoneFacts, GoesOnKeepsResize
  <1>5. ASSUME NEW o \in Copies, o.spec = obj.spec, o.status.applied = obj.status.applied,
               NEW s \in Servers, srv.id # 0 => s.type = srv.type /\ s.state = srv.state,
               GoesOn(o, s), pc # "idle", status' = status
        PROVE  ResizeInv'
    BY <1>1, <1>5, GoesOnKeepsResize
  <1>6. CASE LookupByID \/ LookupByName
    <2> DEFINE s == toServerInfo(srv)
    <2>1. s \in Servers /\ s.type = srv.type /\ s.state = srv.state /\ srv.id \in Nat
      BY <1>1, InfoFacts DEF Servers
    <2>2. status' = status /\ pc # "idle"
      BY <1>6 DEF LookupByID, LookupByName, object
    <2>3. CASE reconcileExistingServer(obj, toServerInfo(srv))
      <3>1. reconcileExistingServer(obj, s)
        BY <2>3
      <3> HIDE DEF s
      <3> QED BY <1>1, <1>5, <2>1, <2>2, <3>1, ReconcileExistingGoesOn
    <2>4. CASE reconcileExistingServer([obj EXCEPT !.status.id = srv.id], toServerInfo(srv))
      <3> DEFINE o == [obj EXCEPT !.status.id = srv.id]
      <3>1. o \in Copies /\ o.spec = obj.spec /\ o.status.applied = obj.status.applied
        BY <1>1, <2>1 DEF Copies, Statuses
      <3>2. reconcileExistingServer(o, s)
        BY <2>4
      <3> HIDE DEF s, o
      <3> QED BY <1>5, <2>1, <2>2, <3>1, <3>2, ReconcileExistingGoesOn
    <2>5. CASE obj' = obj /\ pc' \in {"lookupByName", "create"}
      <3>1. Wanted' = Wanted /\ Applied' = Applied
        BY <1>1, <2>2, <2>5 DEF Wanted, Applied
      <3>2. seen'.spec.type <= spec'.type /\ obj'.spec.type <= seen'.spec.type
        BY <1>1, <2>5 DEF ResizeInv, TypesGoUp
      <3> QED BY <1>1, <2>5, <3>1, <3>2, NoneNew, SameServer
    <2> QED BY <1>4, <1>6, <2>2, <2>3, <2>4, <2>5 DEF LookupByID, LookupByName, Call
  <1>7. CASE RefreshPower /\ WriteBack(obj, srv, FALSE)
    <2>1. GoesOn(obj, srv)
      BY <1>1, <1>7, WriteBackGoesOn
    <2> QED BY <1>1, <1>5, <1>7, <2>1 DEF RefreshPower, object
  <1>8. CASE RefreshDetach \/ RefreshAttach
    <2> DEFINE s == Refreshed
    <2>1. pc \in SnapCalls /\ pc # "idle" /\ status' = status
      BY <1>8 DEF RefreshDetach, RefreshAttach, SnapCalls, object
    <2>2. s \in Servers /\ (srv.id # 0 => s.type = srv.type /\ s.state = srv.state)
      BY <2>1, RefreshFacts
    <2>3. PICK n \in {0, obj.spec.net} :
            LET o == [obj EXCEPT !.status.net = n]
            IN  WriteBack(o, s, TRUE) \/ (obj.spec.net # 0 /\ AttachTarget(o, s))
      BY <1>8 DEF RefreshDetach, RefreshAttach
    <2> DEFINE o == [obj EXCEPT !.status.net = n]
    <2>4. o \in Copies /\ o.spec = obj.spec /\ o.status.applied = obj.status.applied
      BY <1>1 DEF Copies, Statuses, Specs
    <2>5. WriteBack(o, s, TRUE) \/ (obj.spec.net # 0 /\ AttachTarget(o, s))
      BY <2>3
    <2> HIDE DEF o, s
    <2>6. GoesOn(o, s)
      <3>1. TRUE \in BOOLEAN
        OBVIOUS
      <3> QED BY <2>2, <2>4, <2>5, <3>1, WriteBackGoesOn, AttachTargetGoesOn
    <2> QED BY <1>5, <2>1, <2>2, <2>4, <2>6
  <1> QED BY <1>2, <1>3, <1>4, <1>6, <1>7, <1>8
      DEF Crash, CallFails, RefreshPower, WriteStatus, WriteErrorStatus, object

\* A new server has the type of the worker's copy, which nothing recorded
\* exceeds.
LEMMA CreateResizeInv ==
    ASSUME IndInv, ResizeInv, CreateServer
    PROVE  ResizeInv'
  <1>1. UNCHANGED <<spec, status, seen>> /\ pc # "idle" /\ pc' = "write"
    BY CreateFacts DEF CreateServer, object
  <1>2. Wanted' = Wanted /\ Applied' = Applied /\ obj'.spec = obj.spec
    BY <1>1, CreateFacts DEF Wanted, Applied
  <1>3. /\ spec.type \in Nat /\ seen.spec.type \in Nat /\ obj.spec.type \in Nat
        /\ seen.spec.type <= spec.type /\ obj.spec.type <= seen.spec.type
        /\ Wanted \subseteq Nat /\ obj.spec.type \in Wanted
    BY <1>1, Numbers DEF ResizeInv, TypesGoUp, Wanted
  <1>4. /\ \A w \in Wanted : obj.spec.type <= w /\ 0 <= w /\ \A t \in Applied : t <= w
    BY <1>1, <1>3 DEF ResizeInv, TypesGoUp, Wanted
  <1>5. TypesGoUp'
    BY <1>1, <1>2, <1>3, <1>4, CreateFacts DEF TypesGoUp, ResizeInv
  <1>6. OffForResize'
    BY <1>1, CreateFacts DEF OffForResize
  <1> QED BY <1>5, <1>6 DEF ResizeInv

\* Hetzner's progress takes a server up to the type it was to change to.
LEMMA ProgressResizeInv ==
    ASSUME IndInv, ResizeInv, Progress
    PROVE  ResizeInv'
  <1>1. UNCHANGED <<spec, status, seen, pc, obj, snap>>
    BY DEF Progress, object, worker
  <1>2. Wanted' = Wanted /\ Applied' = Applied
    BY <1>1 DEF Wanted, Applied
  <1>3. /\ Wanted \subseteq Nat /\ Applied \subseteq Nat /\ srv.type \in Nat
        /\ srv.newType \in Nat /\ srv.id # 0
        /\ seen.spec.type <= spec.type /\ obj.spec.type <= seen.spec.type
        /\ \A w \in Wanted : srv.type <= w /\ srv.newType <= w /\ \A t \in Applied : t <= w
        /\ \A t \in Applied : t <= srv.type
    BY Numbers, ProgressFacts DEF ResizeInv, TypesGoUp
  <1>4. CASE srv' = NoServer
    <2>1. \A w \in Wanted : 0 <= w
      BY <1>3
    <2>2. TypesGoUp'
      BY <1>1, <1>2, <1>3, <1>4, <2>1, NoneFacts DEF TypesGoUp
    <2>3. OffForResize'
      <3>1. pc = "powerOff" => snap.id # 0
        BY DEF IndInv, WorkerHolds, SnapCalls
      <3> QED BY <1>1, <1>4, <3>1, NoneFacts DEF OffForResize
    <2> QED BY <2>2, <2>3 DEF ResizeInv
  <1>5. CASE /\ srv'.id = srv.id /\ srv'.type = srv.type /\ srv'.newType = srv.newType
             /\ srv'.op \in {srv.op, "none"}
             /\ srv'.state = "off" => srv.op = "powerOff" /\ srv'.op = "none"
             /\ srv'.op = "changeType" => srv'.state = "migrating"
    <2>1. TypesGoUp'
      BY <1>1, <1>2, <1>3, <1>5 DEF TypesGoUp
    <2>2. OffForResize'
      BY <1>1, <1>2, <1>5 DEF ResizeInv, OffForResize
    <2> QED BY <2>1, <2>2 DEF ResizeInv
  <1>6. CASE /\ srv'.id = srv.id /\ srv'.type = srv.newType /\ srv.op = "changeType"
             /\ srv'.op = "none" /\ srv'.newType = 0 /\ srv'.state = "off"
    <2>1. srv.type < srv.newType
      BY <1>6 DEF ResizeInv, OffForResize
    <2>2. ASSUME NEW t \in Applied
          PROVE  t < srv.newType /\ t <= srv.newType
      <3>1. t \in Nat /\ srv.type \in Nat /\ srv.newType \in Nat /\ t <= srv.type
        BY <1>3
      <3> QED BY <2>1, <3>1
    <2>3. \A w \in Wanted : 0 <= w
      BY <1>3
    <2>4. TypesGoUp'
      <3>1. \A t \in Applied : t <= srv.newType
        BY <2>2
      <3> QED BY <1>1, <1>2, <1>3, <1>6, <2>3, <3>1 DEF TypesGoUp
    <2>5. OffForResize'
      BY <1>1, <1>2, <1>6, <2>2 DEF ResizeInv, OffForResize
    <2> QED BY <2>4, <2>5 DEF ResizeInv
  <1> QED BY <1>4, <1>5, <1>6, ProgressFacts

\* Others do not switch the server off.
LEMMA ExternalResizeInv ==
    ASSUME UpgradesOnly, IndInv, ResizeInv, External
    PROVE  ResizeInv'
  <1>1. UNCHANGED <<spec, status, seen, pc, obj, snap>>
    BY DEF External, object, worker
  <1>2. Wanted' = Wanted /\ Applied' = Applied
    BY <1>1 DEF Wanted, Applied
  <1>3. srv'.op # "powerOff" /\ srv'.op # "changeType" /\ srv'.state = "running"
    BY ExternalFacts DEF UpgradesOnly
  <1>4. TypesGoUp'
    BY <1>1, <1>2, ExternalFacts DEF ResizeInv, TypesGoUp
  <1>5. OffForResize'
    BY <1>1, <1>2, <1>3, ExternalFacts DEF ResizeInv, OffForResize
  <1> QED BY <1>4, <1>5 DEF ResizeInv

\* The operator switches a server off, and changes its type, only for a
\* greater type.
LEMMA ServerCallResizeInv ==
    ASSUME IndInv, ResizeInv, ServerCall
    PROVE  ResizeInv'
  <1>1. /\ UNCHANGED <<spec, status, seen>> /\ pc # "idle"
        /\ pc' \notin {"idle", "powerOff"} /\ obj'.spec = obj.spec
        /\ obj'.status.applied = obj.status.applied
    <2>1. UNCHANGED <<spec, status, seen>>
      BY DEF ServerCall, PowerOffServer, PowerOnServer, ChangeServerType,
             DetachServerFromNetwork, AttachServerToNetwork, object
    <2>2. pc # "idle" /\ obj \in Copies
      BY ServerCallFacts DEF SnapCalls, IndInv, TypeOK
    <2>3. CASE Fail(obj)
      <3>1. obj'.spec = obj.spec /\ obj'.status.applied = obj.status.applied
        BY <2>2, <2>3 DEF Fail, Copies, Statuses
      <3> QED BY <2>1, <2>2, <2>3, <3>1 DEF Fail
    <2>4. ASSUME NEW step \in {"refreshPower", "refreshDetach", "refreshAttach"},
                 Call(step, obj, snap)
          PROVE  pc' \notin {"idle", "powerOff"} /\ obj' = obj
      BY <2>4 DEF Call
    <2> QED BY <2>1, <2>2, <2>3, <2>4, ServerCallFacts
  <1>2. Wanted' = Wanted /\ Applied' = Applied
    BY <1>1 DEF Wanted, Applied
  <1>3. /\ spec.type \in Nat /\ seen.spec.type \in Nat /\ obj.spec.type \in Nat
        /\ srv.type \in Nat
        /\ seen.spec.type <= spec.type /\ obj.spec.type <= seen.spec.type
        /\ srv.type <= obj.spec.type
    BY <1>1, Numbers DEF ResizeInv, TypesGoUp, Wanted
  <1>4. \A w \in Wanted : obj.spec.type <= w
    BY <1>3 DEF Wanted
  <1>5. TypesGoUp'
    <2>1. srv'.newType \in {srv.newType, obj.spec.type}
      BY ServerCallFacts
    <2> QED BY <1>1, <1>2, <1>3, <1>4, <2>1, ServerCallFacts DEF ResizeInv, TypesGoUp
  <1>6. srv'.op = "powerOff" => \A w \in Wanted : srv.type < w
    <2>1. CASE srv.op = "powerOff"
      BY <2>1 DEF ResizeInv, OffForResize
    <2>2. CASE srv'.op = "powerOff" /\ srv.op # "powerOff"
      <3>1. pc = "powerOff" /\ srv.id = snap.id
        BY <2>2, ServerCallFacts
      <3>2. srv.type < obj.spec.type
        BY <3>1 DEF ResizeInv, OffForResize
      <3>3. spec.type > srv.type /\ seen.spec.type > srv.type
        BY <1>3, <3>2
      <3> QED BY <3>2, <3>3 DEF Wanted
    <2>3. CASE srv'.op # "powerOff"
      BY <2>3
    <2> QED BY <2>1, <2>2, <2>3
  <1>7. srv'.op = "changeType" => srv'.state \in {"off", "migrating"} /\ srv'.type < srv'.newType
    <2>1. CASE srv'.op = srv.op /\ srv'.newType = srv.newType
      BY <2>1, ServerCallFacts DEF ResizeInv, OffForResize
    <2>2. CASE /\ srv'.newType = obj.spec.type /\ srv.type # obj.spec.type /\ srv.state = "off"
      BY <1>3, <2>2, ServerCallFacts
    <2> QED BY <2>1, <2>2, ServerCallFacts
  <1>8. OffForResize'
    BY <1>1, <1>2, <1>6, <1>7, ServerCallFacts DEF ResizeInv, OffForResize
  <1> QED BY <1>5, <1>8 DEF ResizeInv

\* Every step keeps the invariant of a resize.
LEMMA NextResizeInv ==
    ASSUME UpgradesOnly
    PROVE  IndInv /\ ResizeInv /\ [Next]_vars => ResizeInv'
  <1> SUFFICES ASSUME IndInv, ResizeInv, [Next]_vars PROVE ResizeInv'
    OBVIOUS
  <1>1. IndInv'
    BY NextIndInv
  <1>2. CASE UNCHANGED vars
    BY <1>2 DEF vars, ResizeInv, TypesGoUp, OffForResize, Wanted, Applied
  <1>3. CASE Next
    BY <1>1, <1>3, ObjectStepsResizeInv, WorkerResizeInv, CreateResizeInv, ProgressResizeInv,
       ExternalResizeInv, ServerCallResizeInv
    DEF Next, Work, ServerCall
  <1> QED BY <1>2, <1>3

\* Users who only ask for greater types never find a server switched off for
\* good: one that is off at the type the spec asks for has a lower type on
\* record, by which reconcileHCloudServer knows that it must be switched on.
THEOREM ResizeNeverStrands ==
    ASSUME UpgradesOnly
    PROVE  Spec => []NeverStrandedOff
  <1>1. IndInv /\ ResizeInv => NeverStrandedOff
    <2> SUFFICES ASSUME IndInv, ResizeInv, srv.state = "off", srv.type = spec.type
                 PROVE  status.applied # spec.type
      BY DEF NeverStrandedOff
    <2>1. /\ spec.type \in Wanted /\ status.applied \in Applied
          /\ spec.type \in Nat /\ status.applied \in Nat
      BY Numbers DEF Wanted, Applied
    <2> QED BY <2>1 DEF ResizeInv, OffForResize
  <1>2. Init => ResizeInv
    BY InitResizeInv
  <1>3. IndInv /\ ResizeInv /\ [Next]_vars => ResizeInv'
    BY NextResizeInv
  <1> QED BY <1>1, <1>2, <1>3, ServerInvariant, PTL DEF Spec
=============================================================================
