-------------------------- MODULE ClaimQueueProofs --------------------------
(***************************************************************************)
(* Proofs about ClaimQueue, for any number of claims, any pool and any     *)
(* bounds: the states are well formed, no claim is forgotten, and a claim  *)
(* of an exhausted pool is woken by the status.                            *)
(***************************************************************************)
EXTENDS ClaimQueue, FiniteSetTheorems, TLAPS

-----------------------------------------------------------------------------
(* The objects.                                                            *)

ClaimState == ClaimObject \cup {None}
PoolState == PoolObject \cup {None}
ClusterState == ClusterObject \cup {None}
AddressState == IPs \cup {None}

(* What a write of one object makes of the stored ones.                    *)
LEMMA WorldUpdates ==
    ASSUME NEW w \in World, NEW c \in Claims
    PROVE  /\ w.claim \in [Claims -> ClaimState] /\ w.address \in [Claims -> AddressState]
           /\ w.pool \in PoolState /\ w.cluster \in ClusterState
           /\ w.claim[c] \in ClaimState
           /\ \A obj \in ClaimState : LET v == [w EXCEPT !.claim[c] = obj] IN
                /\ v \in World /\ v.claim = [w.claim EXCEPT ![c] = obj]
                /\ v.address = w.address /\ v.pool = w.pool /\ v.cluster = w.cluster
           /\ \A ip \in AddressState : LET v == [w EXCEPT !.address[c] = ip] IN
                /\ v \in World /\ v.address = [w.address EXCEPT ![c] = ip]
                /\ v.claim = w.claim /\ v.pool = w.pool /\ v.cluster = w.cluster
BY DEF World, ClaimState, PoolState, ClusterState, AddressState

(* The same of the pool and of the cluster.                                *)
LEMMA WorldShared ==
    ASSUME NEW w \in World
    PROVE  /\ w.pool \in PoolState /\ w.cluster \in ClusterState
           /\ \A obj \in PoolState : LET v == [w EXCEPT !.pool = obj] IN
                /\ v \in World /\ v.pool = obj
                /\ v.claim = w.claim /\ v.address = w.address /\ v.cluster = w.cluster
           /\ \A obj \in ClusterState : LET v == [w EXCEPT !.cluster = obj] IN
                /\ v \in World /\ v.cluster = obj
                /\ v.claim = w.claim /\ v.address = w.address /\ v.pool = w.pool
BY DEF World, PoolState, ClusterState

(* The changes of a claim.                                                 *)
LEMMA ClaimUpdates ==
    /\ \A obj \in ClaimObject :
         /\ [obj EXCEPT !.fin = TRUE] \in ClaimObject
         /\ [obj EXCEPT !.fin = FALSE] \in ClaimObject
         /\ [obj EXCEPT !.ref = TRUE] \in ClaimObject
         /\ [obj EXCEPT !.deleting = TRUE] \in ClaimObject
         /\ [obj EXCEPT !.paused = ~@] \in ClaimObject
         /\ Settle(obj) \in ClaimState
    /\ \A paused \in BOOLEAN : Fresh(paused) \in ClaimObject
BY DEF ClaimObject, ClaimState, Settle, Fresh

(* What is free is a status: as many addresses may be in use as there are  *)
(* claims, and none of them need be of the pool.                           *)
FreeRange == -Cardinality(Claims) .. Cardinality(IPs)

LEMMA FreeType ==
    ASSUME cache.pool \in PoolObject
    PROVE  Free \in FreeRange
<1>1. /\ InUse(cache) \subseteq Claims /\ cache.pool.spec \subseteq IPs
      /\ IsFiniteSet(Claims) /\ IsFiniteSet(IPs)
  BY QueueAssumption DEF InUse, PoolObject
<1>2. /\ Cardinality(InUse(cache)) \in Nat /\ Cardinality(Claims) \in Nat
      /\ Cardinality(InUse(cache)) <= Cardinality(Claims)
  BY <1>1, FS_Subset, FS_CardinalityType
<1>3. /\ Cardinality(cache.pool.spec) \in Nat /\ Cardinality(IPs) \in Nat
      /\ Cardinality(cache.pool.spec) <= Cardinality(IPs)
  BY <1>1, FS_Subset, FS_CardinalityType
<1> QED
  BY <1>2, <1>3 DEF Free, FreeRange

(* What the pool controller and users make of a pool is a pool.            *)
LEMMA PoolUpdates ==
    /\ \A obj \in PoolObject :
         /\ [obj EXCEPT !.paused = ~@] \in PoolObject
         /\ [obj EXCEPT !.deleting = TRUE] \in PoolObject
         /\ \A addrs \in Specs : [obj EXCEPT !.spec = addrs] \in PoolObject
         /\ \A n \in FreeRange : [obj EXCEPT !.free = n] \in PoolObject
    /\ \A paused \in BOOLEAN, grace \in Graces, addrs \in Specs :
         NewPool(paused, grace, addrs) \in PoolObject
<1>1. Graces \subseteq BOOLEAN
  BY QueueAssumption
<1> QED
  BY <1>1 DEF PoolObject, NewPool, FreeRange

-----------------------------------------------------------------------------
(* The types.                                                              *)

Pending == [claim : SUBSET Claims, address : SUBSET Claims, pool : BOOLEAN, cluster : BOOLEAN]

(* A write marks what changes.                                             *)
LEMMA WriteMarks ==
    ASSUME TypeOK, NEW world \in World, Write(world)
    PROVE  /\ server' = world /\ server' \in World /\ pending' \in Pending
           /\ pending.claim \subseteq pending'.claim /\ pending.address \subseteq pending'.address
           /\ \A c \in Claims : c \notin pending'.claim => world.claim[c] = server.claim[c]
<1>1. pending \in Pending
  BY DEF TypeOK, Pending
<1>2. pending.pool \in BOOLEAN /\ pending.cluster \in BOOLEAN
  BY <1>1 DEF Pending
<1>3. PICK p, q : /\ p = (pending.pool \/ world.pool # server.pool)
                  /\ q = (pending.cluster \/ world.cluster # server.cluster)
  OBVIOUS
<1>4. p \in BOOLEAN /\ q \in BOOLEAN
  BY <1>3
<1>5. pending' =
         [claim   |-> pending.claim \cup {c \in Claims : world.claim[c] # server.claim[c]},
          address |-> pending.address \cup {c \in Claims : world.address[c] # server.address[c]},
          pool    |-> p, cluster |-> q]
  BY <1>3 DEF Write
<1> QED
  BY <1>1, <1>4, <1>5 DEF Write, Pending

(* The worker's variables and the queues.                                  *)
QueuesOK ==
    /\ queue \subseteq Claims /\ delayed \subseteq Claims /\ timers \subseteq Claims
    /\ elapsed \subseteq Claims
    /\ cur \in Claims \cup {None}
    /\ doing \in {"idle", "addFinalizer", "allocate", "await",
                  "release", "removeFinalizer", "hold", "retry"}
    /\ (cur = None) <=> (doing = "idle")
    /\ doing = "allocate" => spec \in Specs
    /\ dropped \subseteq Claims /\ late \subseteq Claims /\ teardown \subseteq Claims
    /\ changes \in 0 .. MaxChanges

(* TypeOK by its parts.                                                    *)
LEMMA TypeParts ==
    TypeOK <=> server \in World /\ cache \in World /\ pending \in Pending /\ QueuesOK
BY DEF TypeOK, QueuesOK, Pending

(* The writes, by the objects they may change.                             *)
ClaimWrite ==
    \E world \in World : /\ Write(world) /\ world.address = server.address
                         /\ world.pool = server.pool /\ world.cluster = server.cluster

AddressWrite ==
    \E world \in World : /\ Write(world) /\ world.claim = server.claim
                         /\ world.pool = server.pool /\ world.cluster = server.cluster

PoolWrite ==
    \E world \in World : /\ Write(world) /\ world.claim = server.claim
                         /\ world.address = server.address /\ world.cluster = server.cluster

ClusterWrite ==
    \E world \in World : /\ Write(world) /\ world.claim = server.claim
                         /\ world.address = server.address /\ world.pool = server.pool

(* The deferred patch of a claim.                                          *)
LEMMA PatchWrites ==
    ASSUME TypeOK, cur \in Claims, NEW obj, server.claim[cur] # None => obj \in ClaimObject,
           PatchClaim(obj)
    PROVE  /\ ClaimWrite
           /\ server.claim[cur] = None => server' = server
           /\ server.claim[cur] # None => server'.claim[cur] = Settle(obj)
<1>1. server \in World
  BY DEF TypeOK
<1>2. CASE server.claim[cur] = None
  BY <1>1, <1>2 DEF PatchClaim, ClaimWrite, Write
<1>3. CASE server.claim[cur] # None
  <2>1. Settle(obj) \in ClaimState
    BY <1>3, ClaimUpdates
  <2>2. PICK world : world = [server EXCEPT !.claim[cur] = Settle(obj)]
    OBVIOUS
  <2>3. /\ world \in World /\ world.claim = [server.claim EXCEPT ![cur] = Settle(obj)]
        /\ world.address = server.address
        /\ world.pool = server.pool /\ world.cluster = server.cluster
        /\ server.claim \in [Claims -> ClaimState]
    BY <1>1, <2>1, <2>2, WorldUpdates
  <2>4. Write(world) /\ server' = world
    BY <1>3, <2>2 DEF PatchClaim, Write
  <2>5. world.claim[cur] = Settle(obj)
    BY <2>3
  <2> QED
    BY <1>3, <2>3, <2>4, <2>5 DEF ClaimWrite
<1> QED
  BY <1>2, <1>3

(* The three patches of the worker.                                        *)
LEMMA WorkerPatches ==
    ASSUME TypeOK, AddFinalizer \/ SetAddressRef \/ RemoveFinalizer
    PROVE  /\ cur \in Claims /\ ClaimWrite
           /\ server.claim[cur] = None => server' = server
           /\ server.claim[cur] # None => server.claim[cur] \in ClaimObject
           /\ server.claim[cur] # None /\ AddFinalizer =>
                server'.claim[cur] = Settle([server.claim[cur] EXCEPT !.fin = TRUE])
           /\ server.claim[cur] # None /\ SetAddressRef =>
                server'.claim[cur] = Settle([server.claim[cur] EXCEPT !.ref = TRUE])
           /\ server.claim[cur] # None /\ RemoveFinalizer =>
                server'.claim[cur] = Settle([server.claim[cur] EXCEPT !.fin = FALSE])
<1>1. cur \in Claims
  BY DEF TypeOK, AddFinalizer, SetAddressRef, RemoveFinalizer
<1>2. server.claim[cur] # None => server.claim[cur] \in ClaimObject
  BY <1>1, WorldUpdates DEF TypeOK, ClaimState
<1>3. CASE AddFinalizer
  <2>1. doing = "addFinalizer"
    BY <1>3 DEF AddFinalizer
  <2>2. ~SetAddressRef /\ ~RemoveFinalizer
    BY <2>1 DEF SetAddressRef, RemoveFinalizer
  <2>3. PICK obj : obj = [server.claim[cur] EXCEPT !.fin = TRUE] /\ PatchClaim(obj)
    BY <1>3 DEF AddFinalizer
  <2>4. server.claim[cur] # None => obj \in ClaimObject
    BY <1>2, <2>3, ClaimUpdates
  <2> QED
    BY <1>1, <1>2, <2>2, <2>3, <2>4, PatchWrites
<1>4. CASE SetAddressRef
  <2>1. doing = "await"
    BY <1>4 DEF SetAddressRef
  <2>2. ~AddFinalizer /\ ~RemoveFinalizer
    BY <2>1 DEF AddFinalizer, RemoveFinalizer
  <2>3. PICK obj : obj = [server.claim[cur] EXCEPT !.ref = TRUE] /\ PatchClaim(obj)
    BY <1>4 DEF SetAddressRef
  <2>4. server.claim[cur] # None => obj \in ClaimObject
    BY <1>2, <2>3, ClaimUpdates
  <2> QED
    BY <1>1, <1>2, <2>2, <2>3, <2>4, PatchWrites
<1>5. CASE RemoveFinalizer
  <2>1. doing = "removeFinalizer"
    BY <1>5 DEF RemoveFinalizer
  <2>2. ~AddFinalizer /\ ~SetAddressRef
    BY <2>1 DEF AddFinalizer, SetAddressRef
  <2>3. PICK obj : obj = [server.claim[cur] EXCEPT !.fin = FALSE] /\ PatchClaim(obj)
    BY <1>5 DEF RemoveFinalizer
  <2>4. server.claim[cur] # None => obj \in ClaimObject
    BY <1>2, <2>3, ClaimUpdates
  <2> QED
    BY <1>1, <1>2, <2>2, <2>3, <2>4, PatchWrites
<1> QED
  BY <1>3, <1>4, <1>5

(* The writes of addresses.                                                *)
LEMMA AddressWrites ==
    ASSUME TypeOK
    PROVE  /\ Allocate \/ Release => AddressWrite
           /\ \A c \in Claims : RemoveAddress(c) => AddressWrite
<1>1. server \in World
  BY DEF TypeOK
<1>2. ASSUME NEW c \in Claims, NEW ip \in AddressState, NEW world,
             world = [server EXCEPT !.address[c] = ip], Write(world)
      PROVE  AddressWrite
  <2>1. /\ world \in World
        /\ world.claim = server.claim /\ world.pool = server.pool
        /\ world.cluster = server.cluster
    BY <1>1, <1>2, WorldUpdates
  <2> QED
    BY <1>2, <2>1 DEF AddressWrite
<1>3. ASSUME Write(server) PROVE AddressWrite
  BY <1>1, <1>3 DEF AddressWrite
<1>4. None \in AddressState
  BY DEF AddressState
<1>5. ASSUME Allocate PROVE AddressWrite
  <2>1. cur \in Claims /\ spec \in Specs
    BY <1>5 DEF TypeOK, Allocate
  <2>2. \A ip \in Unused : ip \in AddressState
    BY <2>1, QueueAssumption DEF Unused, AddressState
  <2>3. ASSUME NEW ip \in Unused, Write([server EXCEPT !.address[cur] = ip]) PROVE AddressWrite
    BY <1>2, <2>1, <2>2, <2>3
  <2> QED
    BY <1>3, <1>5, <2>3 DEF Allocate
<1>6. ASSUME Release PROVE AddressWrite
  <2>1. cur \in Claims
    BY <1>6 DEF TypeOK, Release
  <2>2. CASE Write([server EXCEPT !.address[cur] = None])
    BY <1>2, <1>4, <2>1, <2>2
  <2>3. CASE Write(server)
    BY <1>3, <2>3
  <2> QED
    BY <1>6, <2>2, <2>3 DEF Release
<1>7. ASSUME NEW c \in Claims, RemoveAddress(c) PROVE AddressWrite
  <2>1. Write([server EXCEPT !.address[c] = None])
    BY <1>7 DEF RemoveAddress, User
  <2> QED
    BY <1>2, <1>4, <2>1
<1> QED
  BY <1>5, <1>6, <1>7

(* The writes of users that are about a claim.                             *)
LEMMA UserClaimWrites ==
    ASSUME TypeOK, NEW c \in Claims,
           \/ \E paused \in BOOLEAN : CreateClaim(c, paused)
           \/ TogglePausedClaim(c) \/ DeleteClaim(c)
    PROVE  ClaimWrite
<1>1. server \in World
  BY DEF TypeOK
<1>2. ASSUME NEW obj \in ClaimState, NEW world, world = [server EXCEPT !.claim[c] = obj],
             Write(world)
      PROVE  ClaimWrite
  <2>1. /\ world \in World /\ world.address = server.address
        /\ world.pool = server.pool /\ world.cluster = server.cluster
    BY <1>1, <1>2, WorldUpdates
  <2> QED
    BY <1>2, <2>1 DEF ClaimWrite
<1>3. server.claim[c] # None => server.claim[c] \in ClaimObject
  BY <1>1, WorldUpdates DEF ClaimState
<1>4. ASSUME NEW paused \in BOOLEAN, CreateClaim(c, paused) PROVE ClaimWrite
  <2>1. Write([server EXCEPT !.claim[c] = Fresh(paused)])
    BY <1>4 DEF CreateClaim, User
  <2>2. Fresh(paused) \in ClaimState
    BY ClaimUpdates DEF ClaimState
  <2> QED
    BY <1>2, <2>1, <2>2
<1>5. ASSUME TogglePausedClaim(c) PROVE ClaimWrite
  <2>1. PICK obj : obj = [server.claim[c] EXCEPT !.paused = ~@]
    OBVIOUS
  <2>2. obj \in ClaimState
    BY <1>3, <1>5, <2>1, ClaimUpdates DEF TogglePausedClaim, ClaimState
  <2>3. Write([server EXCEPT !.claim[c] = obj])
    BY <1>5, <2>1 DEF TogglePausedClaim, User
  <2> QED
    BY <1>2, <2>2, <2>3
<1>6. ASSUME DeleteClaim(c) PROVE ClaimWrite
  <2>1. PICK obj : obj = Settle([server.claim[c] EXCEPT !.deleting = TRUE])
    OBVIOUS
  <2>2. obj \in ClaimState
    BY <1>3, <1>6, <2>1, ClaimUpdates DEF DeleteClaim
  <2>3. Write([server EXCEPT !.claim[c] = obj])
    BY <1>6, <2>1 DEF DeleteClaim, User
  <2> QED
    BY <1>2, <2>2, <2>3
<1> QED
  BY <1>4, <1>5, <1>6

(* The writes of the pool.                                                 *)
LEMMA PoolWrites ==
    ASSUME TypeOK,
           \/ \E paused \in BOOLEAN, grace \in Graces, addrs \in Specs :
                CreatePool(paused, grace, addrs)
           \/ \E addrs \in Specs : ChangeSpec(addrs)
           \/ TogglePausedPool \/ DeletePool \/ UpdatePool
    PROVE  PoolWrite
<1>1. /\ server \in World /\ server.pool \in PoolState
      /\ cache \in World /\ cache.pool \in PoolState
  BY WorldShared DEF TypeOK
<1>2. ASSUME NEW obj \in PoolState, NEW world, world = [server EXCEPT !.pool = obj], Write(world)
      PROVE  PoolWrite
  BY <1>1, <1>2, WorldShared DEF PoolWrite
<1>3. ASSUME NEW paused \in BOOLEAN, NEW grace \in Graces, NEW addrs \in Specs,
             CreatePool(paused, grace, addrs)
      PROVE  PoolWrite
  <2>1. Write([server EXCEPT !.pool = NewPool(paused, grace, addrs)])
    BY <1>3 DEF CreatePool, User
  <2>2. NewPool(paused, grace, addrs) \in PoolState
    BY PoolUpdates DEF PoolState
  <2> QED
    BY <1>2, <2>1, <2>2
<1>4. ASSUME TogglePausedPool PROVE PoolWrite
  <2>1. server.pool \in PoolObject
    BY <1>1, <1>4 DEF TogglePausedPool, PoolState
  <2>2. PICK obj : obj = [server.pool EXCEPT !.paused = ~@]
    OBVIOUS
  <2>3. obj \in PoolState
    BY <2>1, <2>2, PoolUpdates DEF PoolState
  <2>4. Write([server EXCEPT !.pool = obj])
    BY <1>4, <2>2 DEF TogglePausedPool, User
  <2> QED
    BY <1>2, <2>3, <2>4
<1>5. ASSUME DeletePool PROVE PoolWrite
  <2>1. server.pool \in PoolObject
    BY <1>1, <1>5 DEF DeletePool, PoolState
  <2>2. PICK obj : obj = [server.pool EXCEPT !.deleting = TRUE]
    OBVIOUS
  <2>3. obj \in PoolState
    BY <2>1, <2>2, PoolUpdates DEF PoolState
  <2>4. Write([server EXCEPT !.pool = obj])
    BY <1>5, <2>2 DEF DeletePool, User
  <2> QED
    BY <1>2, <2>3, <2>4
<1>6. ASSUME NEW addrs \in Specs, ChangeSpec(addrs) PROVE PoolWrite
  <2>1. server.pool \in PoolObject
    BY <1>1, <1>6 DEF ChangeSpec, PoolState
  <2>2. PICK obj : obj = [server.pool EXCEPT !.spec = addrs]
    OBVIOUS
  <2>3. obj \in PoolState
    BY <2>1, <2>2, PoolUpdates DEF PoolState
  <2>4. Write([server EXCEPT !.pool = obj])
    BY <1>6, <2>2 DEF ChangeSpec, User
  <2> QED
    BY <1>2, <2>3, <2>4
<1>7. ASSUME UpdatePool PROVE PoolWrite
  <2>1. server.pool \in PoolObject /\ cache.pool \in PoolObject
    BY <1>1, <1>7 DEF UpdatePool, PoolState
  <2>2. PICK obj : obj = IF server.pool.deleting
                         THEN IF InUse(cache) # {} THEN server.pool ELSE None
                         ELSE [server.pool EXCEPT !.free = Free]
    OBVIOUS
  <2>3. [server.pool EXCEPT !.free = Free] \in PoolObject
    BY <2>1, FreeType, PoolUpdates
  <2>4. obj \in PoolState
    BY <2>1, <2>2, <2>3 DEF PoolState
  <2>5. Write([server EXCEPT !.pool = obj])
    BY <1>7, <2>2 DEF UpdatePool
  <2> QED
    BY <1>2, <2>4, <2>5
<1> QED
  BY <1>3, <1>4, <1>5, <1>6, <1>7

(* The writes of the cluster.                                              *)
LEMMA ClusterWrites ==
    ASSUME TypeOK,
           \/ \E paused \in BOOLEAN : CreateCluster(paused)
           \/ TogglePausedCluster \/ DeleteCluster
    PROVE  ClusterWrite
<1>1. server \in World /\ server.cluster \in ClusterState
  BY WorldShared DEF TypeOK
<1>2. ASSUME NEW obj \in ClusterState, NEW world, world = [server EXCEPT !.cluster = obj],
             Write(world)
      PROVE  ClusterWrite
  BY <1>1, <1>2, WorldShared DEF ClusterWrite
<1>3. ASSUME NEW paused \in BOOLEAN, CreateCluster(paused) PROVE ClusterWrite
  <2>1. [paused |-> paused] \in ClusterState
    BY DEF ClusterState, ClusterObject
  <2> QED
    BY <1>2, <1>3, <2>1 DEF CreateCluster, User
<1>4. ASSUME TogglePausedCluster PROVE ClusterWrite
  <2>1. PICK obj : obj = [server.cluster EXCEPT !.paused = ~@]
    OBVIOUS
  <2>2. obj \in ClusterState
    BY <1>1, <1>4, <2>1 DEF TogglePausedCluster, ClusterState, ClusterObject
  <2>3. Write([server EXCEPT !.cluster = obj])
    BY <1>4, <2>1 DEF TogglePausedCluster, User
  <2> QED
    BY <1>2, <2>2, <2>3
<1>5. ASSUME DeleteCluster PROVE ClusterWrite
  <2>1. None \in ClusterState
    BY DEF ClusterState
  <2> QED
    BY <1>2, <1>5, <2>1 DEF DeleteCluster, User
<1> QED
  BY <1>3, <1>4, <1>5

(* A step that writes nothing, or brings the cache up to date.             *)
WatchStep ==
    /\ UNCHANGED server
    /\ \/ UNCHANGED <<cache, pending>>
       \/ \E c \in Claims : /\ cache' = [cache EXCEPT !.claim[c] = server.claim[c]]
                            /\ pending' = [pending EXCEPT !.claim = @ \ {c}]
       \/ \E c \in Claims : /\ cache' = [cache EXCEPT !.address[c] = server.address[c]]
                            /\ pending' = [pending EXCEPT !.address = @ \ {c}]
       \/ /\ cache' = [cache EXCEPT !.pool = server.pool]
          /\ pending' = [pending EXCEPT !.pool = FALSE]
       \/ /\ cache' = [cache EXCEPT !.cluster = server.cluster]
          /\ pending' = [pending EXCEPT !.cluster = FALSE]
       \/ cache' = server /\ pending' = Nothing

WriteStep ==
    /\ ClaimWrite \/ AddressWrite \/ PoolWrite \/ ClusterWrite
    /\ UNCHANGED cache

(* Every step is one of the two.                                           *)
LEMMA ObjectSteps ==
    ASSUME TypeOK, [Next]_vars
    PROVE  WatchStep \/ WriteStep
<1>1. CASE UNCHANGED objects
  BY <1>1 DEF WatchStep, objects
<1>2. CASE Steps
  <2>1. CASE AddFinalizer \/ SetAddressRef \/ RemoveFinalizer
    <3>1. ClaimWrite
      BY <2>1, WorkerPatches
    <3> QED
      BY <2>1, <3>1 DEF AddFinalizer, SetAddressRef, RemoveFinalizer, WriteStep
  <2>2. CASE Allocate \/ Release
    <3>1. AddressWrite
      BY <2>2, AddressWrites
    <3> QED
      BY <2>2, <3>1 DEF Allocate, Release, WriteStep
  <2> QED
    BY <1>1, <1>2, <2>1, <2>2 DEF Steps, Hold, Retry, WaitTimeout
<1>3. CASE Users
  <2>1. UNCHANGED cache
    BY <1>3 DEF Users, User, CreateClaim, TogglePausedClaim, DeleteClaim, RemoveAddress, CreatePool,
       TogglePausedPool, DeletePool, ChangeSpec, CreateCluster, TogglePausedCluster, DeleteCluster
  <2> QED
    BY <1>3, <2>1, UserClaimWrites, AddressWrites, PoolWrites, ClusterWrites DEF Users, WriteStep
<1>4. CASE UpdatePool
  <2>1. PoolWrite
    BY <1>4, PoolWrites
  <2> QED
    BY <1>4, <2>1 DEF UpdatePool, WriteStep
<1>5. CASE Watches \/ Restart
  BY <1>5 DEF Watches, Restart, WatchClaim, WatchAddress, WatchPool, WatchCluster, WatchStep
<1> QED
  BY <1>1, <1>2, <1>3, <1>4, <1>5 DEF Next, vars, objects, Begin, BackoffExpires, TimerFires,
     Elapse, Resync, Fail

(* The objects stay well formed.                                           *)
LEMMA ObjectTypes ==
    ASSUME TypeOK, [Next]_vars
    PROVE  server' \in World /\ cache' \in World /\ pending' \in Pending
<1>1. server \in World /\ cache \in World /\ pending \in Pending
  BY TypeParts
<1>2. CASE WriteStep
  <2>1. PICK world \in World : Write(world)
    BY <1>2 DEF WriteStep, ClaimWrite, AddressWrite, PoolWrite, ClusterWrite
  <2> QED
    BY <1>1, <1>2, <2>1, WriteMarks DEF WriteStep
<1>3. CASE WatchStep
  <2>1. server' \in World
    BY <1>1, <1>3 DEF WatchStep
  <2>2. Nothing \in Pending
    BY DEF Nothing, Pending
  <2>3. \A c \in Claims : server.claim[c] \in ClaimState /\ server.address[c] \in AddressState
    BY <1>1, WorldUpdates
  <2>4. server.pool \in PoolState /\ server.cluster \in ClusterState
    BY <1>1, WorldShared
  <2>5. /\ \A c \in Claims : /\ [cache EXCEPT !.claim[c] = server.claim[c]] \in World
                             /\ [cache EXCEPT !.address[c] = server.address[c]] \in World
        /\ [cache EXCEPT !.pool = server.pool] \in World
        /\ [cache EXCEPT !.cluster = server.cluster] \in World
    BY <1>1, <2>3, <2>4, WorldUpdates, WorldShared
  <2>6. /\ \A c \in Claims : /\ [pending EXCEPT !.claim = @ \ {c}] \in Pending
                             /\ [pending EXCEPT !.address = @ \ {c}] \in Pending
        /\ [pending EXCEPT !.pool = FALSE] \in Pending
        /\ [pending EXCEPT !.cluster = FALSE] \in Pending
    BY <1>1 DEF Pending
  <2> QED
    BY <1>1, <1>3, <2>1, <2>2, <2>5, <2>6 DEF WatchStep
<1> QED
  BY <1>2, <1>3, ObjectSteps

(* Reconcile ends in one of the ways the worker goes on from.              *)
LEMMA OutcomeType ==
    ASSUME NEW c
    PROVE  Outcome(c) \in {"return", "addFinalizer", "retry", "hold", "release", "allocate"}
BY DEF Outcome

(* The queues hold claims.                                                 *)
LEMMA QueueTypes ==
    ASSUME NEW world
    PROVE  /\ InitialQueue(world) \subseteq Claims
           /\ PoolToIPClaims(world) \subseteq Claims /\ ClusterToIPClaims(world) \subseteq Claims
BY DEF InitialQueue, CachedClaims, PoolToIPClaims, ClusterToIPClaims

(* The request of a user is one of its writes.                             *)
LEMMA UserSteps == Users => \E world : User(world)
BY DEF Users, CreateClaim, TogglePausedClaim, DeleteClaim, RemoveAddress, CreatePool,
   TogglePausedPool, DeletePool, ChangeSpec, CreateCluster, TogglePausedCluster, DeleteCluster

(* Every step keeps the types.                                             *)
LEMMA TypeOKStep == TypeOK /\ [Next]_vars => TypeOK'
<1> SUFFICES ASSUME TypeOK, [Next]_vars PROVE QueuesOK'
  BY ObjectTypes DEF TypeOK, QueuesOK, Pending
<1>1. QueuesOK
  BY TypeParts
<1>2. None \notin Claims /\ MaxChanges \in Nat
  BY QueueAssumption
<1>3. ASSUME NEW c \in Claims, Begin(c) PROVE QueuesOK'
  <2>1. Outcome(c) = "allocate" => cache.pool.spec \in Specs
    <3>1. cache.pool \in PoolState
      BY WorldShared DEF TypeOK
    <3>2. Outcome(c) = "allocate" => cache.pool # None
      BY DEF Outcome, WaitsForPool
    <3> QED
      BY <3>1, <3>2 DEF PoolState, PoolObject
  <2> QED
    BY <1>1, <1>2, <1>3, <2>1, OutcomeType DEF Begin, Done, QueuesOK
<1>4. ASSUME NEW c \in Claims, BackoffExpires(c) \/ TimerFires(c) \/ Elapse(c) \/ Resync(c)
      PROVE  QueuesOK'
  BY <1>1, <1>4 DEF BackoffExpires, TimerFires, Elapse, Resync, Queue, QueuesOK,
     worker, ghosts, waiting
<1>5. CASE Steps
  <2>1. CASE AddFinalizer \/ SetAddressRef \/ RemoveFinalizer
    BY <1>1, <2>1 DEF AddFinalizer, SetAddressRef, RemoveFinalizer, Done, QueuesOK, waiting, ghosts
  <2>2. CASE Allocate \/ Release
    BY <1>1, <2>2 DEF Allocate, Release, Goto, QueuesOK, waiting, ghosts
  <2>3. CASE Hold \/ Retry \/ WaitTimeout
    BY <1>1, <2>3 DEF Hold, Retry, AllocateFails, WaitTimeout, RetryLater, Done, QueuesOK, ghosts
  <2> QED
    BY <1>5, <2>1, <2>2, <2>3 DEF Steps
<1>6. CASE Watches
  BY <1>1, <1>6, QueueTypes DEF Watches, WatchClaim, WatchAddress, WatchPool, WatchCluster, Queue,
     Unannounced, QueuesOK, worker, ghosts
<1>7. CASE UpdatePool
  BY <1>1, <1>7 DEF UpdatePool, QueuesOK, waiting, worker, ghosts
<1>8. CASE Users
  <2>1. /\ changes' \in 0 .. MaxChanges
        /\ UNCHANGED <<queue, delayed, timers, cur, doing, spec, dropped, late>>
    BY <1>1, <1>2, <1>8, UserSteps DEF User, QueuesOK, waiting, worker
  <2>2. elapsed' \subseteq Claims /\ teardown' \subseteq Claims
    BY <1>1, <1>8 DEF Users, CreateClaim, TogglePausedClaim, DeleteClaim,
       RemoveAddress, CreatePool, TogglePausedPool, DeletePool, ChangeSpec, CreateCluster,
       TogglePausedCluster, DeleteCluster, QueuesOK
  <2> QED
    BY <1>1, <2>1, <2>2 DEF QueuesOK
<1>9. CASE Fail
  BY <1>1, <1>2, <1>9 DEF Fail, RetryLater, Done, QueuesOK
<1>10. CASE Restart
  BY <1>1, <1>2, <1>10, QueueTypes DEF Restart, Done, QueuesOK
<1>11. CASE UNCHANGED vars
  BY <1>1, <1>11 DEF vars, QueuesOK
<1> QED
  BY <1>3, <1>4, <1>5, <1>6, <1>7, <1>8, <1>9, <1>10, <1>11 DEF Next

(* The initial states are typed.                                           *)
LEMMA TypeOKInit == Init => TypeOK
<1> SUFFICES ASSUME Init PROVE TypeOK
  OBVIOUS
<1>1. server \in World
  <2> DEFINE P == [Claims -> {Fresh(p) : p \in BOOLEAN} \cup {None}]
             A == {[c \in Claims |-> None]}
             R == {NewPool(p, g, addrs) : p \in BOOLEAN, g \in Graces, addrs \in Specs} \cup {None}
  <2>1. {Fresh(p) : p \in BOOLEAN} \subseteq ClaimObject
    BY ClaimUpdates
  <2>2. {NewPool(p, g, addrs) : p \in BOOLEAN, g \in Graces, addrs \in Specs} \subseteq PoolObject
    BY PoolUpdates
  <2>3. /\ P \subseteq [Claims -> ClaimObject \cup {None}]
        /\ A \subseteq [Claims -> IPs \cup {None}]
        /\ R \subseteq PoolObject \cup {None}
    BY <2>1, <2>2
  <2>4. server \in [claim : P, address : A, pool : R, cluster : ClusterObject \cup {None}]
    BY DEF Init
  <2> HIDE DEF P, A, R
  <2> QED
    BY <2>3, <2>4 DEF World
<1>2. cache = server
  BY DEF Init
<1>3. Nothing \in Pending
  BY DEF Nothing, Pending
<1>4. QueuesOK
  BY QueueTypes, QueueAssumption DEF Init, QueuesOK
<1>5. pending \in Pending
  BY <1>3 DEF Init
<1> QED
  BY <1>1, <1>2, <1>4, <1>5, TypeParts

(* The requests, the queues and the objects stay well formed, whatever     *)
(* specs users give the pool: in particular the status that                *)
(* genericReconcile computes counts at least minus as many addresses free  *)
(* as there are claims, and at most as many as there are addresses.        *)
THEOREM QueueWellFormed == Spec => []TypeOK
BY TypeOKInit, TypeOKStep, PTL DEF Spec

-----------------------------------------------------------------------------
(* What a claim of this provider waits for, by the cached objects.         *)

ClusterWait(w, c) ==
    /\ c \in Clustered
    /\ IF w.cluster = None THEN ~w.claim[c].deleting ELSE w.cluster.paused

PoolWait(w, c) == IF w.pool = None THEN ~w.claim[c].deleting ELSE w.pool.paused

(* A request gets to the address of a live claim.                          *)
Seeking(w, c) ==
    /\ w.claim[c] # None /\ w.claim[c].fin /\ ~w.claim[c].deleting
    /\ ~ClusterWait(w, c) /\ ~PoolWait(w, c)

(* A request would not leave the claim as it is.                           *)
Wanting(w, c) ==
    /\ w.claim[c] # None /\ ~w.claim[c].paused
    /\ ~ClusterWait(w, c)
    /\ w.claim[c].fin =>
         ~PoolWait(w, c) /\ (w.claim[c].deleting \/ ~(w.claim[c].ref /\ w.address[c] # None))

(* Waiting and the outcome of the next request, by the cached objects: the *)
(* grace period and the addresses of the other claims decide how a request *)
(* ends, and not whether there is something for it to do.                  *)
LEMMA WaitingView ==
    ASSUME NEW c \in Claims \ Foreign
    PROVE  /\ Waiting(c) <=> UpToDate(c) /\ Wanting(cache, c) /\ cur # c
           /\ Outcome(c) = "allocate" <=> Seeking(cache, c)
BY DEF Waiting, HasWork, Outcome, Wanting, Seeking, ClusterWait, PoolWait, WaitsForCluster,
   WaitsForPool

(* The same of the state after a step.                                     *)
LEMMA WaitingViewNext ==
    ASSUME NEW c \in Claims \ Foreign
    PROVE  /\ Waiting(c)' <=> UpToDate(c)' /\ Wanting(cache', c) /\ cur' # c
           /\ Outcome(c)' = "allocate" <=> Seeking(cache', c)
BY DEF Waiting, HasWork, Outcome, Wanting, Seeking, ClusterWait, PoolWait, WaitsForCluster,
   WaitsForPool

(* NeverForgotten and PromptInv of one claim.                              *)
Told(c) ==
    UpToDate(c) /\ Wanting(cache, c) /\ cur # c => c \in queue \cup delayed \cup timers \cup dropped

Prompted(c) ==
    c \in delayed \ late /\ UpToDate(c) /\ Wanting(cache, c) /\ cur # c /\ Seeking(cache, c) =>
        c \in queue \/ cache.pool.free = 0

(* They say of every claim of this provider what the invariants say.       *)
LEMMA ByClaim ==
    /\ NeverForgotten <=> \A c \in Claims \ Foreign : Told(c)
    /\ delayed \subseteq Claims => (PromptInv <=> \A c \in Claims \ Foreign : Prompted(c))
<1>1. \A c \in Claims \ Foreign :
         /\ Waiting(c) <=> UpToDate(c) /\ Wanting(cache, c) /\ cur # c
         /\ Outcome(c) = "allocate" <=> Seeking(cache, c)
  BY WaitingView
<1>2. NeverForgotten <=> \A c \in Claims \ Foreign :
                           Waiting(c) => c \in queue \cup delayed \cup timers \cup dropped
  BY DEF NeverForgotten, Waiting
<1> QED
  BY <1>1, <1>2 DEF PromptInv, Told, Prompted

(* The same of the state after a step.                                     *)
LEMMA ByClaimNext ==
    /\ NeverForgotten' <=> \A c \in Claims \ Foreign : Told(c)'
    /\ delayed' \subseteq Claims => (PromptInv' <=> \A c \in Claims \ Foreign : Prompted(c)')
<1>1. \A c \in Claims \ Foreign :
         /\ Waiting(c)' <=> UpToDate(c)' /\ Wanting(cache', c) /\ cur' # c
         /\ Outcome(c)' = "allocate" <=> Seeking(cache', c)
  BY WaitingViewNext
<1>2. NeverForgotten' <=> \A c \in Claims \ Foreign :
                            Waiting(c)' => c \in (queue \cup delayed \cup timers \cup dropped)'
  BY DEF NeverForgotten, Waiting
<1>3. \A c \in Claims \ Foreign :
        /\ Told(c)' <=> (UpToDate(c)' /\ Wanting(cache', c) /\ cur' # c =>
                           c \in (queue \cup delayed \cup timers \cup dropped)')
        /\ Prompted(c)' <=>
             (c \in delayed' \ late' /\ UpToDate(c)' /\ Wanting(cache', c) /\ cur' # c
                /\ Seeking(cache', c) => c \in queue' \/ cache'.pool.free = 0)
  BY DEF Told, Prompted, Wanting, Seeking, ClusterWait, PoolWait
<1>4. PromptInv' <=> \A c \in delayed' \ (Foreign \cup late') :
                        Waiting(c)' /\ Outcome(c)' = "allocate" =>
                          c \in queue' \/ cache'.pool.free = 0
  BY DEF PromptInv
<1> QED
  BY <1>1, <1>2, <1>3, <1>4

(* A step that does not make the claim wait, and only adds to the queues.  *)
LEMMA StillTold ==
    ASSUME NEW c \in Claims \ Foreign, Told(c), Prompted(c),
           UpToDate(c)' => UpToDate(c), cur' # c => cur # c,
           Wanting(cache', c) => Wanting(cache, c), Seeking(cache', c) => Seeking(cache, c),
           cache'.pool = cache.pool,
           c \in queue => c \in queue',
           c \in delayed => c \in delayed' \cup queue',
           c \in timers => c \in timers' \cup queue',
           c \in dropped => c \in dropped',
           c \in delayed' \ late' => c \in delayed \ late
    PROVE  Told(c)' /\ Prompted(c)'
<1>1. Told(c)' <=> (UpToDate(c)' /\ Wanting(cache', c) /\ cur' # c =>
                      c \in (queue \cup delayed \cup timers \cup dropped)')
  BY DEF Told, Wanting, ClusterWait, PoolWait
<1>2. Prompted(c)' <=>
        (c \in delayed' \ late' /\ UpToDate(c)' /\ Wanting(cache', c) /\ cur' # c
           /\ Seeking(cache', c) => c \in queue' \/ cache'.pool.free = 0)
  BY DEF Prompted, Wanting, Seeking, ClusterWait, PoolWait
<1>3. UpToDate(c)' /\ Wanting(cache', c) /\ cur' # c =>
        c \in (queue \cup delayed \cup timers \cup dropped)'
  BY DEF Told
<1>4. c \in delayed' \ late' /\ UpToDate(c)' /\ Wanting(cache', c) /\ cur' # c
        /\ Seeking(cache', c) => c \in queue' \/ cache'.pool.free = 0
  BY DEF Prompted
<1> QED
  BY <1>1, <1>2, <1>3, <1>4

(* A claim that is queued, or for which there is nothing to do, is told.   *)
LEMMA ToldNow ==
    ASSUME NEW c \in Claims \ Foreign,
           c \in queue' \/ cur' = c \/ ~UpToDate(c)' \/ ~Wanting(cache', c)
    PROVE  Told(c)' /\ Prompted(c)'
BY DEF Told, Prompted, Wanting, Seeking, ClusterWait, PoolWait

(* A write leaves the cache, and what it changes is pending.               *)
LEMMA WritesPending ==
    ASSUME TypeOK, WriteStep, NEW c \in Claims
    PROVE  /\ cache' = cache /\ (UpToDate(c)' => UpToDate(c))
           /\ c \notin pending'.claim => c \notin pending.claim /\ server'.claim[c] = server.claim[c]
<1>1. PICK world \in World : Write(world)
  BY DEF WriteStep, ClaimWrite, AddressWrite, PoolWrite, ClusterWrite
<1>2. /\ server' = world
      /\ pending.claim \subseteq pending'.claim /\ pending.address \subseteq pending'.address
      /\ c \notin pending'.claim => world.claim[c] = server.claim[c]
  BY <1>1, WriteMarks
<1> QED
  BY <1>2 DEF WriteStep, UpToDate

(* The requests of users and the writes of the pool controller and of a    *)
(* request that goes on.                                                   *)
LEMMA WritesTold ==
    ASSUME TypeOK, NEW c \in Claims \ Foreign, Told(c), Prompted(c),
           Users \/ UpdatePool \/ Allocate \/ Release
    PROVE  Told(c)' /\ Prompted(c)'
<1>1. UNCHANGED <<cache, cur, queue, delayed, timers, dropped, late>>
  BY UserSteps DEF User, UpdatePool, Allocate, Release, Goto, waiting, worker, ghosts
<1>2. WriteStep
  BY <1>1, UserClaimWrites, AddressWrites, PoolWrites, ClusterWrites DEF Users, WriteStep
<1>3. UpToDate(c)' => UpToDate(c)
  BY <1>2, WritesPending
<1> QED
  BY <1>1, <1>3, StillTold

(* Time, the retries and the resync.                                       *)
LEMMA TimeTold ==
    ASSUME NEW c \in Claims \ Foreign, Told(c), Prompted(c), NEW d \in Claims,
           Elapse(d) \/ Resync(d) \/ BackoffExpires(d) \/ TimerFires(d)
    PROVE  Told(c)' /\ Prompted(c)'
<1>1. UNCHANGED <<cache, pending, cur, dropped>> /\ queue \subseteq queue'
  BY DEF Elapse, Resync, BackoffExpires, TimerFires, Queue, objects, waiting, worker, ghosts
<1>2. UpToDate(c)' <=> UpToDate(c)
  BY <1>1 DEF UpToDate
<1>3. /\ c \in delayed => c \in delayed' \cup queue'
      /\ c \in timers => c \in timers' \cup queue'
      /\ c \in delayed' \ late' => c \in delayed \ late
  BY DEF Elapse, Resync, BackoffExpires, TimerFires, Queue, waiting, ghosts
<1> QED
  BY <1>1, <1>2, <1>3, StillTold

(* A request that returns at once leaves nothing to do; another one has    *)
(* the claim in hand.                                                      *)
LEMMA BeginTold ==
    ASSUME NEW c \in Claims \ Foreign, Told(c), Prompted(c), NEW d \in Claims, Begin(d), None # c
    PROVE  Told(c)' /\ Prompted(c)'
<1>1. UNCHANGED <<cache, pending, delayed, timers, late>> /\ cur = None
  BY DEF Begin, objects
<1>2. UpToDate(c)' <=> UpToDate(c)
  BY <1>1 DEF UpToDate
<1>3. CASE d # c
  <2>1. (c \in queue => c \in queue') /\ (c \in dropped => c \in dropped')
    BY <1>3 DEF Begin
  <2> QED
    BY <1>1, <1>2, <2>1, StillTold
<1>4. CASE d = c /\ Outcome(c) = "return"
  <2>1. ~Wanting(cache, c)
    BY <1>4 DEF Outcome, Wanting, ClusterWait, PoolWait, WaitsForCluster, WaitsForPool
  <2> QED
    BY <1>1, <2>1, ToldNow
<1>5. CASE d = c /\ Outcome(c) # "return"
  BY <1>5, ToldNow DEF Begin
<1> QED
  BY <1>3, <1>4, <1>5

(* The patch that ends a request changes the claim, so that its event will *)
(* queue it, or has left nothing to do.                                    *)
LEMMA PatchTold ==
    ASSUME TypeOK, CaughtUp, DecidedInv, NEW c \in Claims \ Foreign, Told(c), Prompted(c),
           AddFinalizer \/ SetAddressRef \/ RemoveFinalizer
    PROVE  Told(c)' /\ Prompted(c)'
<1>1. UNCHANGED <<cache, queue, delayed, timers, dropped, late>> /\ cur' = None
  BY DEF AddFinalizer, SetAddressRef, RemoveFinalizer, Done, waiting, ghosts
<1>2. cur \in Claims /\ WriteStep
  BY <1>1, WorkerPatches DEF WriteStep
<1>3. /\ UpToDate(c)' => UpToDate(c)
      /\ c \notin pending'.claim => c \notin pending.claim /\ server'.claim[c] = server.claim[c]
  BY <1>2, WritesPending
<1>4. CASE cur # c
  BY <1>1, <1>3, <1>4, StillTold
<1>5. CASE cur = c
  <2> SUFFICES ASSUME c \notin queue, UpToDate(c)', Wanting(cache, c) PROVE FALSE
    BY <1>1, ToldNow
  <2>1. PICK obj : obj = server.claim[c]
    OBVIOUS
  <2>2. server'.claim[c] = obj /\ cache.claim[c] = obj
    BY <1>3, <2>1 DEF UpToDate, CaughtUp
  <2>3. obj # None /\ ~obj.paused
    BY <2>2 DEF Wanting
  <2>4. obj \in ClaimObject
    BY <1>5, <2>1, <2>3, WorkerPatches
  <2>5. c # None
    BY QueueAssumption
  <2>6. /\ doing = "addFinalizer" => ~obj.fin
        /\ doing = "await" => obj.fin /\ ~obj.deleting
        /\ doing = "removeFinalizer" => obj.fin /\ obj.deleting
    BY <1>5, <2>2, <2>3, <2>5 DEF DecidedInv
  <2>7. CASE AddFinalizer
    <3>1. obj = Settle([obj EXCEPT !.fin = TRUE]) /\ ~obj.fin
      BY <1>5, <2>1, <2>2, <2>3, <2>6, <2>7, WorkerPatches DEF AddFinalizer
    <3> QED
      BY <2>4, <3>1 DEF Settle, ClaimObject
  <2>8. CASE SetAddressRef
    <3>1. obj = Settle([obj EXCEPT !.ref = TRUE]) /\ obj.fin /\ ~obj.deleting
      BY <1>5, <2>1, <2>2, <2>3, <2>6, <2>8, WorkerPatches DEF SetAddressRef
    <3>2. obj.ref
      BY <2>4, <3>1 DEF Settle, ClaimObject
    <3>3. cache.address[c] # None
      BY <1>5, <2>8 DEF SetAddressRef
    <3> QED
      BY <2>2, <3>1, <3>2, <3>3 DEF Wanting
  <2>9. CASE RemoveFinalizer
    <3>1. obj = Settle([obj EXCEPT !.fin = FALSE]) /\ obj.fin /\ obj.deleting
      BY <1>5, <2>1, <2>2, <2>3, <2>6, <2>9, WorkerPatches DEF RemoveFinalizer
    <3> QED
      BY <2>3, <2>4, <3>1 DEF Settle, ClaimObject
  <2> QED
    BY <2>7, <2>8, <2>9
<1> QED
  BY <1>4, <1>5

(* A request that ends with a timer or an error.                           *)
LEMMA RetryTold ==
    ASSUME TypeOK, DecidedInv, NEW c \in Claims \ Foreign, Told(c), Prompted(c),
           Hold \/ Retry \/ WaitTimeout \/ Fail
    PROVE  Told(c)' /\ Prompted(c)'
<1>1. UNCHANGED <<cache, pending, queue, dropped>> /\ cur' = None
  BY DEF Hold, Retry, WaitTimeout, Fail, RetryLater, Done, objects, ghosts
<1>2. UpToDate(c)' <=> UpToDate(c)
  BY <1>1 DEF UpToDate
<1>3. delayed \subseteq delayed' /\ timers \subseteq timers'
  BY DEF Hold, Retry, WaitTimeout, Fail, RetryLater, ghosts
<1>4. CASE cur # c
  <2>1. c \in delayed' \ late' => c \in delayed \ late
    BY <1>4 DEF Hold, Retry, WaitTimeout, Fail, RetryLater, ghosts
  <2> QED
    BY <1>1, <1>2, <1>3, <1>4, <2>1, StillTold
<1>5. CASE cur = c
  <2>1. c \in timers' \cup delayed'
    BY <1>5 DEF Hold, Retry, WaitTimeout, Fail, RetryLater
  <2>2. Told(c)'
    BY <2>1 DEF Told
  <2>3. CASE Hold
    <3>1. c # None /\ doing = "hold"
      BY <2>3, QueueAssumption DEF Hold
    <3>2. c \notin queue /\ Wanting(cache, c) => cache.claim[c].deleting
      BY <1>5, <3>1 DEF DecidedInv, Wanting
    <3>3. c \in queue' \/ ~Wanting(cache, c) \/ ~Seeking(cache, c)
      BY <1>1, <3>2 DEF Seeking
    <3>4. Prompted(c)' <=>
            (c \in delayed' \ late' /\ UpToDate(c)' /\ Wanting(cache', c) /\ cur' # c
               /\ Seeking(cache', c) => c \in queue' \/ cache'.pool.free = 0)
      BY DEF Prompted, Wanting, Seeking, ClusterWait, PoolWait
    <3> QED
      BY <1>1, <2>2, <3>3, <3>4
  <2>4. CASE Retry \/ WaitTimeout \/ Fail
    <3>1. c \in late' \/ cache'.pool.free = 0
      BY <1>1, <1>5, <2>4 DEF Retry, WaitTimeout, Fail
    <3> QED
      BY <2>2, <3>1 DEF Prompted
  <2> QED
    BY <2>3, <2>4
<1> QED
  BY <1>4, <1>5

(* The events of claims and of addresses.                                  *)
LEMMA EventTold ==
    ASSUME TypeOK, NEW c \in Claims \ Foreign, Told(c), Prompted(c), NEW d \in Claims,
           WatchClaim(d) \/ WatchAddress(d)
    PROVE  Told(c)' /\ Prompted(c)'
<1>1. server \in World /\ cache \in World /\ pending \in Pending
  BY TypeParts
<1>2. server.claim[d] \in ClaimState /\ server.address[d] \in AddressState
  BY <1>1, WorldUpdates
<1>3. UNCHANGED <<delayed, timers, cur, dropped, late>> /\ queue \subseteq queue'
  BY DEF WatchClaim, WatchAddress, Queue, worker, ghosts
<1>4. CASE d # c
  <2>1. /\ cache'.claim[c] = cache.claim[c] /\ cache'.address[c] = cache.address[c]
        /\ cache'.pool = cache.pool /\ cache'.cluster = cache.cluster
    <3>1. CASE WatchClaim(d)
      <4>1. cache' = [cache EXCEPT !.claim[d] = server.claim[d]]
        BY <3>1 DEF WatchClaim
      <4>2. /\ cache'.claim = [cache.claim EXCEPT ![d] = server.claim[d]]
            /\ cache'.address = cache.address
            /\ cache'.pool = cache.pool /\ cache'.cluster = cache.cluster
            /\ cache.claim \in [Claims -> ClaimState]
        BY <1>1, <1>2, <4>1, WorldUpdates
      <4> QED
        BY <1>4, <4>2
    <3>2. CASE WatchAddress(d)
      <4>1. cache' = [cache EXCEPT !.address[d] = server.address[d]]
        BY <3>2 DEF WatchAddress
      <4>2. /\ cache'.address = [cache.address EXCEPT ![d] = server.address[d]]
            /\ cache'.claim = cache.claim
            /\ cache'.pool = cache.pool /\ cache'.cluster = cache.cluster
            /\ cache.address \in [Claims -> AddressState]
        BY <1>1, <1>2, <4>1, WorldUpdates
      <4> QED
        BY <1>4, <4>2
    <3> QED
      BY <3>1, <3>2
  <2>2. (Wanting(cache', c) <=> Wanting(cache, c)) /\ (Seeking(cache', c) <=> Seeking(cache, c))
    BY <2>1 DEF Wanting, Seeking, ClusterWait, PoolWait
  <2>3. UpToDate(c)' => UpToDate(c)
    BY <1>1, <1>4 DEF WatchClaim, WatchAddress, UpToDate, Pending
  <2> QED
    BY <1>3, <2>1, <2>2, <2>3, StillTold
<1>5. CASE d = c /\ WatchAddress(d)
  BY <1>5, ToldNow DEF WatchAddress, Queue
<1>6. CASE d = c /\ WatchClaim(d)
  <2>1. cache' = [cache EXCEPT !.claim[c] = server.claim[c]]
    BY <1>6 DEF WatchClaim
  <2>2. /\ cache'.claim = [cache.claim EXCEPT ![c] = server.claim[c]]
        /\ cache.claim \in [Claims -> ClaimState]
    BY <1>1, <1>2, <1>6, <2>1, WorldUpdates
  <2>3. cache'.claim[c] = server.claim[c]
    BY <2>2
  <2>4. Wanting(cache', c) => ClaimEvent(c, cache.claim[c], server.claim[c])
    BY <2>3 DEF Wanting, ClaimEvent, ResourceNotPaused, Subject, ClaimReferencesPoolKind
  <2>5. ClaimEvent(c, cache.claim[c], server.claim[c]) => c \in queue'
    BY <1>6 DEF WatchClaim, Queue
  <2> QED
    BY <2>4, <2>5, ToldNow
<1> QED
  BY <1>4, <1>5, <1>6

(* The event of the pool: what a claim waited for comes with an event, or  *)
(* with the unannounced deletion of a paused pool, and the status that     *)
(* shows a free address after one that showed none comes with an event.    *)
LEMMA PoolTold ==
    ASSUME TypeOK, NEW c \in Claims \ Foreign, Told(c), Prompted(c), WatchPool
    PROVE  Told(c)' /\ Prompted(c)'
<1>1. server \in World /\ cache \in World /\ pending \in Pending
  BY TypeParts
<1>2. PICK old, new : old = cache.pool /\ new = server.pool
  OBVIOUS
<1>3. new \in PoolState /\ old \in PoolState
  BY <1>1, <1>2, WorldShared
<1>4. /\ cache'.pool = new
      /\ cache'.claim = cache.claim /\ cache'.address = cache.address
      /\ cache'.cluster = cache.cluster
  <2>1. cache' = [cache EXCEPT !.pool = new]
    BY <1>2 DEF WatchPool
  <2> QED
    BY <1>1, <1>3, <2>1, WorldShared
<1>5. /\ UNCHANGED <<delayed, timers, cur>>
      /\ queue \subseteq queue' /\ dropped \subseteq dropped' /\ late \subseteq late'
      /\ c \in delayed \ late' => new = None \/ (new.free # None /\ ~(new.free < 0))
  BY <1>2 DEF WatchPool, Queue, worker
<1>6. UpToDate(c)' <=> UpToDate(c)
  BY <1>1 DEF WatchPool, UpToDate, Pending
<1>7. PoolEvent(old, new) /\ cache.claim[c] # None => c \in queue'
  BY <1>2 DEF WatchPool, Queue, PoolToIPClaims, CachedClaims
<1>8. new = None /\ old # None /\ old.paused /\ cache.claim[c] # None => c \in dropped'
  BY <1>2 DEF WatchPool, Unannounced, ResourceNotPaused, Subject, PoolToIPClaims, CachedClaims
<1>9. CASE PoolEvent(old, new) /\ cache.claim[c] # None
  BY <1>7, <1>9, ToldNow
<1>10. CASE ~(PoolEvent(old, new) /\ cache.claim[c] # None)
  <2> SUFFICES ASSUME UpToDate(c)', Wanting(cache', c), cur' # c
               PROVE  Told(c)' /\ Prompted(c)'
    BY ToldNow
  <2>1. PICK obj : obj = cache.claim[c]
    OBVIOUS
  <2>2. obj # None /\ ~obj.paused /\ cache'.claim[c] = obj
    BY <1>4, <2>1 DEF Wanting
  <2>3. ~PoolEvent(old, new)
    BY <1>10, <2>1, <2>2
  <2>4. ClusterWait(cache', c) <=> ClusterWait(cache, c)
    BY <1>4 DEF ClusterWait
  <2>5. Prompted(c)' <=>
          (c \in delayed' \ late' /\ UpToDate(c)' /\ Wanting(cache', c) /\ cur' # c
             /\ Seeking(cache', c) => c \in queue' \/ cache'.pool.free = 0)
    BY DEF Prompted, Wanting, Seeking, ClusterWait, PoolWait
  <2>6. CASE obj.fin /\ PoolWait(cache, c)
    <3>1. ~PoolWait(cache', c)
      BY <2>2, <2>6 DEF Wanting
    <3>2. /\ IF old = None THEN ~obj.deleting ELSE old.paused
          /\ ~(IF new = None THEN ~obj.deleting ELSE new.paused)
      BY <1>2, <1>4, <2>1, <2>6, <3>1 DEF PoolWait
    <3>3. new = None /\ old # None /\ old.paused /\ obj.deleting
      BY <2>3, <3>2 DEF PoolEvent, ResourceNotPaused, ResourceTransitionedToUnpaused, Subject,
         IsUpdate
    <3>4. c \in dropped' /\ ~Seeking(cache', c)
      BY <1>8, <2>1, <2>2, <3>3 DEF Seeking
    <3> QED
      BY <2>5, <3>4 DEF Told
  <2>7. CASE ~(obj.fin /\ PoolWait(cache, c))
    <3>1. Wanting(cache, c)
      BY <1>4, <2>1, <2>4, <2>7 DEF Wanting
    <3>2. UpToDate(c) /\ cur # c
      BY <1>5, <1>6
    <3>3. Told(c)'
      BY <1>5, <3>1, <3>2 DEF Told
    <3>4. ASSUME c \in delayed' \ late', Seeking(cache', c) PROVE c \in queue' \/ new.free = 0
      <4>1. obj.fin /\ ~obj.deleting /\ ~PoolWait(cache', c)
        BY <2>2, <3>4 DEF Seeking
      <4>2. Seeking(cache, c)
        BY <2>1, <2>2, <2>4, <2>7, <3>4, <4>1 DEF Seeking
      <4>3. c \in queue \/ old.free = 0
        BY <1>2, <1>5, <3>1, <3>2, <3>4, <4>2 DEF Prompted
      <4>4. new # None /\ ~new.paused /\ old # None
        BY <1>2, <1>4, <2>1, <2>2, <2>7, <4>1 DEF PoolWait
      <4>5. new.free # None /\ ~(new.free < 0)
        BY <1>5, <3>4, <4>4
      <4>6. new.free \in Int
        <5>1. new.free \in -Cardinality(Claims) .. Cardinality(IPs)
          BY <1>3, <4>4, <4>5 DEF PoolState, PoolObject
        <5> QED
          BY <5>1
      <4>7. CASE new.free > 0 /\ old.free = 0
        <5>1. PoolEvent(old, new)
          BY <4>4, <4>5, <4>7 DEF PoolEvent, PoolNoLongerEmpty, ResourceNotPaused, Subject
        <5> QED
          BY <2>3, <5>1
      <4> QED
        BY <1>5, <4>3, <4>5, <4>6, <4>7
    <3> QED
      BY <1>4, <2>5, <3>3, <3>4
  <2> QED
    BY <2>6, <2>7
<1> QED
  BY <1>9, <1>10

(* The event of the cluster, with the same argument.                       *)
LEMMA ClusterTold ==
    ASSUME TypeOK, NEW c \in Claims \ Foreign, Told(c), Prompted(c), WatchCluster
    PROVE  Told(c)' /\ Prompted(c)'
<1>1. server \in World /\ cache \in World /\ pending \in Pending
  BY TypeParts
<1>2. PICK old, new : old = cache.cluster /\ new = server.cluster
  OBVIOUS
<1>3. new \in ClusterState
  BY <1>1, <1>2, WorldShared
<1>4. /\ cache'.cluster = new
      /\ cache'.claim = cache.claim /\ cache'.address = cache.address
      /\ cache'.pool = cache.pool
  <2>1. cache' = [cache EXCEPT !.cluster = new]
    BY <1>2 DEF WatchCluster
  <2> QED
    BY <1>1, <1>3, <2>1, WorldShared
<1>5. /\ UNCHANGED <<delayed, timers, cur, late>>
      /\ queue \subseteq queue' /\ dropped \subseteq dropped'
  BY DEF WatchCluster, Queue, worker
<1>6. UpToDate(c)' <=> UpToDate(c)
  BY <1>1 DEF WatchCluster, UpToDate, Pending
<1>7. /\ ClusterEvent(old, new) /\ cache.claim[c] # None /\ c \in Clustered => c \in queue'
      /\ new = None /\ old # None /\ old.paused /\ cache.claim[c] # None /\ c \in Clustered =>
           c \in dropped'
  BY <1>2 DEF WatchCluster, Queue, Unannounced, ResourceNotPaused, Subject, ClusterToIPClaims,
     CachedClaims
<1>8. CASE ~ClusterWait(cache, c)
  <2>1. /\ Wanting(cache', c) => Wanting(cache, c)
        /\ Seeking(cache', c) => Seeking(cache, c)
    BY <1>4, <1>8 DEF Wanting, Seeking, PoolWait
  <2> QED
    BY <1>4, <1>5, <1>6, <2>1, StillTold
<1>9. CASE ClusterWait(cache, c)
  <2> SUFFICES ASSUME Wanting(cache', c), c \notin queue'
               PROVE  Told(c)' /\ Prompted(c)'
    BY ToldNow
  <2>1. PICK obj : obj = cache.claim[c]
    OBVIOUS
  <2>2. obj # None /\ cache'.claim[c] = obj /\ ~ClusterWait(cache', c)
    BY <1>4, <2>1 DEF Wanting
  <2>3. /\ c \in Clustered
        /\ IF old = None THEN ~obj.deleting ELSE old.paused
        /\ ~(IF new = None THEN ~obj.deleting ELSE new.paused)
    BY <1>2, <1>4, <1>9, <2>1, <2>2 DEF ClusterWait
  <2>4. ~ClusterEvent(old, new)
    BY <1>7, <2>1, <2>2, <2>3
  <2>5. new = None /\ old # None /\ old.paused /\ obj.deleting
    BY <2>3, <2>4 DEF ClusterEvent, ResourceNotPaused, Subject, IsUpdate
  <2>6. c \in dropped' /\ ~Seeking(cache', c)
    BY <1>7, <2>1, <2>2, <2>3, <2>5 DEF Seeking
  <2>7. Prompted(c)' <=>
          (c \in delayed' \ late' /\ UpToDate(c)' /\ Wanting(cache', c) /\ cur' # c
             /\ Seeking(cache', c) => c \in queue' \/ cache'.pool.free = 0)
    BY DEF Prompted, Wanting, Seeking, ClusterWait, PoolWait
  <2> QED
    BY <2>6, <2>7 DEF Told
<1> QED
  BY <1>8, <1>9

(* The list at the start has every claim that is not paused.               *)
LEMMA ListedFirst ==
    ASSUME NEW w, NEW c \in Claims \ Foreign, Wanting(w, c)
    PROVE  c \in InitialQueue(w)
BY DEF InitialQueue, CachedClaims, ClaimEvent, ResourceNotPaused, Subject, ClaimReferencesPoolKind,
   Wanting

(* A restart lists every claim.                                            *)
LEMMA RestartTold ==
    ASSUME NEW c \in Claims \ Foreign, Restart
    PROVE  Told(c)' /\ Prompted(c)'
<1>1. cache' = server /\ queue' = InitialQueue(server)
  BY DEF Restart
<1>2. Wanting(server, c) => c \in InitialQueue(server)
  BY ListedFirst
<1> QED
  BY <1>1, <1>2, ToldNow

-----------------------------------------------------------------------------
(* The cache and the request in progress.                                  *)

(* CaughtUp: an informer takes over the stored object.                     *)
LEMMA CaughtUpStep == TypeOK /\ CaughtUp /\ [Next]_vars => CaughtUp'
<1> SUFFICES ASSUME TypeOK, CaughtUp, [Next]_vars,
                    NEW c \in Claims, c \notin pending'.claim
             PROVE  cache'.claim[c] = server'.claim[c]
  BY DEF CaughtUp
<1>1. server \in World /\ cache \in World /\ pending \in Pending
  BY TypeParts
<1>2. CASE WriteStep
  BY <1>2, WritesPending DEF CaughtUp
<1>3. CASE WatchStep
  <2>1. UNCHANGED server
    BY <1>3 DEF WatchStep
  <2>2. \A d \in Claims : server.claim[d] \in ClaimState /\ server.address[d] \in AddressState
    BY <1>1, WorldUpdates
  <2>3. server.pool \in PoolState /\ server.cluster \in ClusterState
    BY <1>1, WorldShared
  <2>4. CASE UNCHANGED <<cache, pending>>
    BY <2>1, <2>4 DEF CaughtUp
  <2>5. ASSUME NEW d \in Claims, cache' = [cache EXCEPT !.claim[d] = server.claim[d]],
               pending' = [pending EXCEPT !.claim = @ \ {d}]
        PROVE  cache'.claim[c] = server'.claim[c]
    <3>1. /\ cache'.claim = [cache.claim EXCEPT ![d] = server.claim[d]]
          /\ cache.claim \in [Claims -> ClaimState]
      BY <1>1, <2>2, <2>5, WorldUpdates
    <3>2. c = d \/ c \notin pending.claim
      BY <1>1, <2>5 DEF Pending
    <3> QED
      BY <2>1, <3>1, <3>2 DEF CaughtUp
  <2>6. ASSUME NEW d \in Claims, cache' = [cache EXCEPT !.address[d] = server.address[d]],
               pending' = [pending EXCEPT !.address = @ \ {d}]
        PROVE  cache'.claim[c] = server'.claim[c]
    <3>1. cache'.claim = cache.claim
      BY <1>1, <2>2, <2>6, WorldUpdates
    <3>2. c \notin pending.claim
      BY <1>1, <2>6 DEF Pending
    <3> QED
      BY <2>1, <3>1, <3>2 DEF CaughtUp
  <2>7. CASE \/ /\ cache' = [cache EXCEPT !.pool = server.pool]
                /\ pending' = [pending EXCEPT !.pool = FALSE]
             \/ /\ cache' = [cache EXCEPT !.cluster = server.cluster]
                /\ pending' = [pending EXCEPT !.cluster = FALSE]
    <3>1. cache'.claim = cache.claim
      <4>1. CASE cache' = [cache EXCEPT !.pool = server.pool]
        BY <1>1, <2>3, <4>1, WorldShared
      <4>2. CASE cache' = [cache EXCEPT !.cluster = server.cluster]
        BY <1>1, <2>3, <4>2, WorldShared
      <4> QED
        BY <2>7, <4>1, <4>2
    <3>2. c \notin pending.claim
      BY <1>1, <2>7 DEF Pending
    <3> QED
      BY <2>1, <3>1, <3>2 DEF CaughtUp
  <2>8. CASE cache' = server
    BY <2>1, <2>8
  <2> QED
    BY <1>3, <2>4, <2>5, <2>6, <2>7, <2>8 DEF WatchStep
<1> QED
  BY <1>2, <1>3, ObjectSteps

(* DecidedInv: a request works on the claim it began with, or the event of *)
(* the change has queued the claim again.                                  *)
LEMMA DecidedStep == TypeOK /\ DecidedInv /\ [Next]_vars => DecidedInv'
<1> SUFFICES ASSUME TypeOK, DecidedInv, [Next]_vars PROVE DecidedInv'
  OBVIOUS
<1> DEFINE Fits(obj, phase) ==
             /\ phase = "addFinalizer" => ~obj.fin
             /\ phase \in {"allocate", "await"} => obj.fin /\ ~obj.deleting
             /\ phase \in {"release", "removeFinalizer", "hold"} => obj.fin /\ obj.deleting
<1>1. cur # None /\ cur \notin Foreign \cup queue /\ cache.claim[cur] # None
        /\ ~cache.claim[cur].paused => Fits(cache.claim[cur], doing)
  BY DEF DecidedInv
<1>2. ASSUME cur' # None => \/ cur' \in Foreign \cup queue' \/ cache'.claim[cur'] = None
                            \/ cache'.claim[cur'].paused \/ Fits(cache'.claim[cur'], doing')
      PROVE  DecidedInv'
  BY <1>2 DEF DecidedInv
<1>3. ASSUME UNCHANGED <<cur, doing>>, cur # None => cache'.claim[cur] = cache.claim[cur],
             queue \subseteq queue'
      PROVE  DecidedInv'
  <2> HIDE DEF Fits
  <2> QED
    BY <1>1, <1>2, <1>3
<1>4. CASE cur' = None
  BY <1>2, <1>4
<1>5. ASSUME NEW c \in Claims, Begin(c) PROVE DecidedInv'
  <2>1. cur' = c => doing' = Outcome(c) /\ UNCHANGED cache
    BY <1>5, QueueAssumption DEF Begin, Done, objects
  <2>2. c \in Foreign \/ cache.claim[c] = None \/ Fits(cache.claim[c], Outcome(c))
    BY DEF Outcome
  <2>3. cur' \in {c, None}
    BY <1>5 DEF Begin, Done
  <2> HIDE DEF Fits
  <2> QED
    BY <1>2, <2>1, <2>2, <2>3
<1>6. CASE Allocate \/ Release
  <2>1. UNCHANGED <<cur, cache, queue>>
    BY <1>6 DEF Allocate, Release, Goto, waiting
  <2>2. Fits(cache.claim[cur], doing) => Fits(cache.claim[cur], doing')
    BY <1>6 DEF Allocate, Release, Goto
  <2> HIDE DEF Fits
  <2> QED
    BY <1>1, <1>2, <2>1, <2>2
<1>7. CASE Users \/ UpdatePool
  BY <1>3, <1>7, UserSteps DEF User, UpdatePool, waiting, worker
<1>8. ASSUME NEW c \in Claims, BackoffExpires(c) \/ TimerFires(c) \/ Elapse(c) \/ Resync(c)
      PROVE  DecidedInv'
  BY <1>3, <1>8 DEF BackoffExpires, TimerFires, Elapse, Resync, Queue, objects, waiting, worker
<1>9. CASE AddFinalizer \/ SetAddressRef \/ RemoveFinalizer \/ Hold \/ Retry \/ WaitTimeout \/ Fail
           \/ Restart
  BY <1>4, <1>9 DEF AddFinalizer, SetAddressRef, RemoveFinalizer, Hold, Retry, WaitTimeout, Fail,
     Restart, RetryLater, Done
<1>10. server \in World /\ cache \in World
  BY TypeParts
<1>11. cur # None => cur \in Claims
  BY DEF TypeOK
<1>12. ASSUME NEW c \in Claims, WatchClaim(c) PROVE DecidedInv'
  <2>1. /\ cache' = [cache EXCEPT !.claim[c] = server.claim[c]]
        /\ UNCHANGED <<cur, doing>> /\ queue \subseteq queue'
    BY <1>12 DEF WatchClaim, Queue, worker
  <2>2. server.claim[c] \in ClaimState
    BY <1>10, WorldUpdates
  <2>3. /\ cache'.claim = [cache.claim EXCEPT ![c] = server.claim[c]]
        /\ cache.claim \in [Claims -> ClaimState]
    BY <1>10, <2>1, <2>2, WorldUpdates
  <2>4. CASE cur # c
    BY <1>3, <1>11, <2>1, <2>3, <2>4
  <2>5. CASE cur = c
    <3>1. cache'.claim[c] = server.claim[c]
      BY <2>3
    <3>2. ClaimEvent(c, cache.claim[c], server.claim[c]) => c \in queue'
      BY <1>12 DEF WatchClaim, Queue
    <3>3. \/ c \in Foreign \cup queue' \/ server.claim[c] = None
          \/ server.claim[c].paused
      BY <3>2 DEF ClaimEvent, ResourceNotPaused, Subject, ClaimReferencesPoolKind
    <3> HIDE DEF Fits
    <3> QED
      BY <1>2, <2>1, <2>5, <3>1, <3>3
  <2> QED
    BY <2>4, <2>5
<1>13. ASSUME NEW c \in Claims, WatchAddress(c) PROVE DecidedInv'
  <2>1. /\ cache' = [cache EXCEPT !.address[c] = server.address[c]]
        /\ UNCHANGED <<cur, doing>> /\ queue \subseteq queue'
    BY <1>13 DEF WatchAddress, Queue, worker
  <2>2. server.address[c] \in AddressState
    BY <1>10, WorldUpdates
  <2>3. cache'.claim = cache.claim
    BY <1>10, <2>1, <2>2, WorldUpdates
  <2> QED
    BY <1>3, <2>1, <2>3
<1>14. CASE WatchPool \/ WatchCluster
  <2>1. UNCHANGED <<cur, doing>> /\ queue \subseteq queue'
    BY <1>14 DEF WatchPool, WatchCluster, Queue, worker
  <2>2. server.pool \in PoolState /\ server.cluster \in ClusterState
    BY <1>10, WorldShared
  <2>3. cache'.claim = cache.claim
    <3>1. CASE WatchPool
      BY <1>10, <2>2, <3>1, WorldShared DEF WatchPool
    <3>2. CASE WatchCluster
      BY <1>10, <2>2, <3>2, WorldShared DEF WatchCluster
    <3> QED
      BY <1>14, <3>1, <3>2
  <2> QED
    BY <1>3, <2>1, <2>3
<1>15. CASE UNCHANGED vars
  BY <1>3, <1>15 DEF vars
<1> HIDE DEF Fits
<1> QED
  BY <1>5, <1>6, <1>7, <1>8, <1>9, <1>12, <1>13, <1>14, <1>15 DEF Next, Steps, Watches

-----------------------------------------------------------------------------
(* Every claim is told.                                                    *)

ToldInv ==
    /\ TypeOK /\ CaughtUp /\ DecidedInv
    /\ NeverForgotten /\ PromptInv

(* Every step keeps NeverForgotten and PromptInv.                          *)
LEMMA ToldStep == ToldInv /\ [Next]_vars => ToldInv'
<1> SUFFICES ASSUME ToldInv, [Next]_vars PROVE ToldInv'
  OBVIOUS
<1>1. TypeOK /\ CaughtUp /\ DecidedInv /\ NeverForgotten /\ PromptInv
  BY DEF ToldInv
<1>2. (TypeOK /\ CaughtUp /\ DecidedInv)'
  BY <1>1, TypeOKStep, CaughtUpStep, DecidedStep
<1>3. delayed \subseteq Claims /\ delayed' \subseteq Claims
  BY <1>1, <1>2 DEF TypeOK
<1>4. ASSUME NEW c \in Claims \ Foreign PROVE Told(c)' /\ Prompted(c)'
  <2>1. Told(c) /\ Prompted(c)
    BY <1>1, <1>3, ByClaim
  <2>2. c # None
    BY QueueAssumption
  <2>3. CASE Users \/ UpdatePool \/ Allocate \/ Release
    BY <1>1, <2>1, <2>3, WritesTold
  <2>4. CASE \E d \in Claims : Elapse(d) \/ Resync(d) \/ BackoffExpires(d) \/ TimerFires(d)
    BY <2>1, <2>4, TimeTold
  <2>5. CASE \E d \in Claims : Begin(d)
    BY <2>1, <2>2, <2>5, BeginTold
  <2>6. CASE AddFinalizer \/ SetAddressRef \/ RemoveFinalizer
    BY <1>1, <2>1, <2>6, PatchTold
  <2>7. CASE Hold \/ Retry \/ WaitTimeout \/ Fail
    BY <1>1, <2>1, <2>7, RetryTold
  <2>8. CASE \E d \in Claims : WatchClaim(d) \/ WatchAddress(d)
    BY <1>1, <2>1, <2>8, EventTold
  <2>9. CASE WatchPool
    BY <1>1, <2>1, <2>9, PoolTold
  <2>10. CASE WatchCluster
    BY <1>1, <2>1, <2>10, ClusterTold
  <2>11. CASE Restart
    BY <2>11, RestartTold
  <2>12. CASE UNCHANGED vars
    <3>1. UNCHANGED <<cache, pending, cur, queue, delayed, timers, dropped, late>>
      BY <2>12 DEF vars
    <3>2. UpToDate(c)' <=> UpToDate(c)
      BY <3>1 DEF UpToDate
    <3> QED
      BY <2>1, <3>1, <3>2, StillTold
  <2> QED
    BY <2>3, <2>4, <2>5, <2>6, <2>7, <2>8, <2>9, <2>10, <2>11, <2>12 DEF Next, Steps, Watches
<1>5. NeverForgotten' /\ PromptInv'
  BY <1>3, <1>4, ByClaimNext
<1> QED
  BY <1>2, <1>5 DEF ToldInv

(* At the start every claim that is not paused is queued.                  *)
LEMMA ToldFirst == Init => ToldInv
<1> SUFFICES ASSUME Init PROVE ToldInv
  OBVIOUS
<1>1. TypeOK
  BY TypeOKInit
<1>2. /\ cache = server /\ queue = InitialQueue(server) /\ delayed = {} /\ cur = None
  BY DEF Init
<1>3. CaughtUp /\ DecidedInv
  BY <1>2 DEF CaughtUp, DecidedInv
<1>4. \A c \in Claims \ Foreign : Told(c)
  BY <1>2, ListedFirst DEF Told
<1>5. NeverForgotten
  BY <1>4, ByClaim
<1>6. PromptInv
  BY <1>2 DEF PromptInv
<1> QED
  BY <1>1, <1>3, <1>5, <1>6 DEF ToldInv

(* No order of events, requests, retries and restarts loses a claim: when  *)
(* the cache has what it needs it is queued or will be, unless what it     *)
(* waited for was deleted while paused, which the filters do not announce. *)
THEOREM NoClaimForgotten == Spec => []NeverForgotten
<1>1. ToldInv => NeverForgotten
  BY DEF ToldInv
<1> QED
  BY <1>1, ToldFirst, ToldStep, PTL DEF Spec

(* poolNoLongerEmpty wakes a claim that failed on an exhausted pool as     *)
(* soon as the cached status shows a free address, whatever happened to    *)
(* the claim, the pool and the cluster meanwhile.                          *)
THEOREM WokenOnceFree == Spec => []PromptOnceFree
<1>1. ToldInv => PromptOnceFree
  <2> SUFFICES ASSUME ToldInv, NEW c \in delayed \ (Foreign \cup late),
                      UpToDate(c), HasWork(c), Outcome(c) = "allocate",
                      ~Exhausted(cache, c),
                      ~cache.claim[c].paused, cur # c
               PROVE  c \in queue \/ cache.pool.free = None \/ cache.pool.free <= 0
    BY DEF PromptOnceFree
  <2>1. cache.claim[c] # None
    BY DEF Outcome
  <2>2. Waiting(c)
    BY <2>1 DEF Waiting
  <2>3. c \in queue \/ cache.pool.free = 0
    BY <2>2 DEF ToldInv, PromptInv
  <2> QED
    BY <2>3
<1> QED
  BY <1>1, ToldFirst, ToldStep, PTL DEF Spec

=============================================================================
