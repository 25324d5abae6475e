----------------------------- MODULE ClaimQueue -----------------------------
(***************************************************************************)
(* What wakes a claim: the watches of the claim controller, their          *)
(* predicates, the work queue behind them and the ways a request ends.     *)
(*                                                                         *)
(* Reconcile returns without a retry when a claim has to wait for its      *)
(* cluster or its pool, so the claim depends on the event that ends the    *)
(* wait passing every filter.  The module follows several claims of one    *)
(* pool and one cluster through the events, the requests and the retries.  *)
(*                                                                         *)
(* server is what the API server stores and cache what the informers show. *)
(* An informer brings one object up to date at a time and may skip states  *)
(* in between, as it does after it had to list again.  What can go wrong   *)
(* with the write of an address is the subject of ClaimReconciler; here it *)
(* exists or does not, and takes one of the pool or one that the pool had. *)
(***************************************************************************)
EXTENDS Integers, FiniteSets

CONSTANTS
    Claims,         \* names of the IPAddressClaims
    Foreign,        \* claims that refer to a pool of another provider's kind
    Clustered,      \* claims with a cluster name or label
    Graces,         \* whether a pool may have addressReuseGracePeriodSeconds
    IPs,            \* the addresses
    Specs,          \* the sets of allocatable addresses a spec may denote
    Timeouts,       \* whether the wait for a cached address may time out
    None,           \* no object, no status
    MaxChanges      \* bound: requests of users, failures and restarts

ClaimObject == [paused : BOOLEAN, fin : BOOLEAN, deleting : BOOLEAN, ref : BOOLEAN]

(* spec is what the pool can give, without its gateway.  free is           *)
(* status.ipAddresses.free, None before the first status; it falls below   *)
(* zero when more addresses are in use than the pool has: those of claims  *)
(* that were given the same one, and those the spec no longer has.         *)
PoolObject == [paused : BOOLEAN, deleting : BOOLEAN, grace : BOOLEAN, spec : Specs,
               free : (-Cardinality(Claims) .. Cardinality(IPs)) \cup {None}]

ClusterObject == [paused : BOOLEAN]

ASSUME QueueAssumption ==
    /\ IsFiniteSet(Claims)
    /\ Foreign \subseteq Claims
    /\ Clustered \subseteq Claims
    /\ Graces \subseteq BOOLEAN
    /\ IPs \subseteq Nat /\ IsFiniteSet(IPs)
    /\ Specs \subseteq SUBSET IPs
    /\ Timeouts \in BOOLEAN
    /\ MaxChanges \in Nat
    /\ None \notin Claims \cup IPs \cup ClaimObject \cup PoolObject \cup ClusterObject

World == [claim   : [Claims -> ClaimObject \cup {None}],
          address : [Claims -> IPs \cup {None}],
          pool    : PoolObject \cup {None},
          cluster : ClusterObject \cup {None}]

VARIABLES
    server,         \* the objects as stored
    cache,          \* the objects as the informers show them
    pending,        \* the objects written since the informers looked
    queue,          \* claims whose request may start
    delayed,        \* claims that failed and wait for their backoff
    timers,         \* claims that wait for a RequeueAfter
    elapsed,        \* deleted claims whose grace period is over
    cur,            \* the claim being reconciled
    doing,          \* how its request goes on
    spec,           \* the spec of the pool it fetched
    dropped,        \* claims not told that their cluster or pool has gone
    late,           \* claims that wait with no sign of an exhausted pool
    teardown,       \* claims deleted after their pool
    changes         \* how many requests, failures and restarts there were

vars == <<server, cache, pending, queue, delayed, timers, elapsed, cur, doing,
          spec, dropped, late, teardown, changes>>
objects == <<server, cache, pending>>
waiting == <<queue, delayed, timers>>
worker == <<cur, doing, spec>>
ghosts == <<dropped, late, teardown>>

TypeOK ==
    /\ server \in World /\ cache \in World
    /\ pending \in [claim : SUBSET Claims, address : SUBSET Claims,
                    pool : BOOLEAN, cluster : BOOLEAN]
    /\ queue \subseteq Claims /\ delayed \subseteq Claims /\ timers \subseteq Claims
    /\ elapsed \subseteq Claims
    /\ cur \in Claims \cup {None}
    /\ doing \in {"idle", "addFinalizer", "allocate", "await",
                  "release", "removeFinalizer", "hold", "retry"}
    /\ (cur = None) <=> (doing = "idle")
    /\ doing = "allocate" => spec \in Specs
    /\ dropped \subseteq Claims /\ late \subseteq Claims /\ teardown \subseteq Claims
    /\ changes \in 0 .. MaxChanges

-----------------------------------------------------------------------------
(* The predicates.  An event is the change of an object from old to new;   *)
(* None stands for its absence before a create event and after a delete    *)
(* event.                                                                  *)

Subject(old, new) == IF new = None THEN old ELSE new
IsUpdate(old, new) == old # None /\ new # None

(* The filter of the whole controller: no event of a paused object.        *)
ResourceNotPaused(old, new) ==
    Subject(old, new) # None /\ ~Subject(old, new).paused

(* Its pool is of one of the kinds of this provider.                       *)
ClaimReferencesPoolKind(c) == c \notin Foreign

(* Mutant: only updates that change something pass.                        *)
ClaimEventOnChange(c, old, new) ==
    ResourceNotPaused(old, new) /\ ClaimReferencesPoolKind(c) /\ old # new

(* The claims themselves.                                                  *)
ClaimEvent(c, old, new) == ResourceNotPaused(old, new) /\ ClaimReferencesPoolKind(c)

(* The predicates of pools.  Neither says anything of deletions, and the   *)
(* second nothing of creations: predicate.Funcs lets those pass.           *)
ResourceTransitionedToUnpaused(old, new) ==
    \/ IsUpdate(old, new) /\ old.paused /\ ~new.paused
    \/ old = None /\ ~new.paused
    \/ new = None

PoolNoLongerEmpty(old, new) ==
    IsUpdate(old, new) => old.free = 0 /\ new.free # None /\ new.free > 0

(* Mutant: the pool that is no longer empty is not looked for.             *)
PoolEventUnpausedOnly(old, new) ==
    ResourceNotPaused(old, new) /\ ResourceTransitionedToUnpaused(old, new)

PoolEvent(old, new) ==
    /\ ResourceNotPaused(old, new)
    /\ ResourceTransitionedToUnpaused(old, new) \/ PoolNoLongerEmpty(old, new)

(* Mutant: the watch is there for unpaused clusters and for nothing else.  *)
ClusterEventUnpausedOnly(old, new) ==
    IsUpdate(old, new) /\ old.paused /\ ~new.paused

(* Clusters: unpaused, or created or deleted while not paused.             *)
ClusterEvent(old, new) ==
    /\ ResourceNotPaused(old, new)
    /\ IsUpdate(old, new) => old.paused

(* Which claims an event of the pool or the cluster queues: the cached     *)
(* claims that the indexes list.  The index by cluster has the claims of   *)
(* every provider.                                                         *)
CachedClaims(world) == {c \in Claims : world.claim[c] # None}
PoolToIPClaims(world) == CachedClaims(world) \ Foreign
ClusterToIPClaims(world) == CachedClaims(world) \cap Clustered

(* The queue after the initial list: a create event for every object.      *)
InitialQueue(world) ==
    {c \in CachedClaims(world) : ClaimEvent(c, None, world.claim[c])}
    \cup {c \in PoolToIPClaims(world) : world.pool # None /\ PoolEvent(None, world.pool)}
    \cup {c \in ClusterToIPClaims(world) : world.cluster # None /\ ClusterEvent(None, world.cluster)}
    \cup {c \in CachedClaims(world) : world.address[c] # None}

-----------------------------------------------------------------------------
(* How a request ends, as Reconcile and the handler decide on the cache.   *)

(* Mutant: a cluster that is not found holds deleted claims as well.       *)
WaitsForAnyCluster(c) ==
    /\ c \in Clustered
    /\ cache.cluster = None \/ cache.cluster.paused

(* A cluster that is not found only lets deleted claims pass.              *)
WaitsForCluster(c) ==
    /\ c \in Clustered
    /\ IF cache.cluster = None THEN ~cache.claim[c].deleting ELSE cache.cluster.paused

(* A pool that is not found only lets deleted claims pass.                 *)
WaitsForPool(c) ==
    IF cache.pool = None THEN ~cache.claim[c].deleting ELSE cache.pool.paused

(* ReleaseAddress: the grace period, unless the pool is going as well.     *)
Held(c) ==
    /\ cache.pool # None
    /\ cache.pool.grace
    /\ ~cache.pool.deleting
    /\ c \notin elapsed

InUse(world) == {d \in Claims : world.address[d] # None}
IPsOf(world) == {world.address[d] : d \in InUse(world)}

(* FindFreeAddress fails for a claim that has no address yet.              *)
Exhausted(world, c) == world.address[c] = None /\ world.pool.spec \subseteq IPsOf(world)

(* Reconcile, from the fetch of the claim to its first write.              *)
Outcome(c) ==
    IF cache.claim[c] = None THEN "return"
    ELSE IF WaitsForCluster(c) THEN "return"
    ELSE IF ~cache.claim[c].fin THEN "addFinalizer"
    ELSE IF c \in Foreign THEN "retry"              \* the pool is nil
    ELSE IF WaitsForPool(c) THEN "return"
    ELSE IF ~cache.claim[c].deleting THEN "allocate"
    ELSE IF Held(c) THEN "hold" ELSE "release"

-----------------------------------------------------------------------------
Fresh(paused) == [paused |-> paused, fin |-> FALSE, deleting |-> FALSE, ref |-> FALSE]

NewPool(paused, grace, addrs) ==
    [paused |-> paused, deleting |-> FALSE, grace |-> grace, spec |-> addrs, free |-> None]

Nothing == [claim |-> {}, address |-> {}, pool |-> FALSE, cluster |-> FALSE]

(* The manager starts on what users have created before.                   *)
Init ==
    /\ server \in [claim   : [Claims -> {Fresh(p) : p \in BOOLEAN} \cup {None}],
                   address : {[c \in Claims |-> None]},
                   pool    : {NewPool(p, g, addrs) : p \in BOOLEAN, g \in Graces, addrs \in Specs}
                             \cup {None},
                   cluster : ClusterObject \cup {None}]
    /\ cache = server
    /\ pending = Nothing
    /\ queue = InitialQueue(server)
    /\ delayed = {} /\ timers = {} /\ elapsed = {}
    /\ cur = None /\ doing = "idle" /\ spec = None
    /\ dropped = {} /\ late = {} /\ teardown = {}
    /\ changes = 0

-----------------------------------------------------------------------------
(* The API server stores a new version of what changes.                    *)
Write(world) ==
    /\ server' = world
    /\ pending' =
         [claim   |-> pending.claim \cup {c \in Claims : world.claim[c] # server.claim[c]},
          address |-> pending.address \cup {c \in Claims : world.address[c] # server.address[c]},
          pool    |-> pending.pool \/ world.pool # server.pool,
          cluster |-> pending.cluster \/ world.cluster # server.cluster]

(* The worker.  A claim that is queued while its request runs is queued    *)
(* again when it ends.                                                     *)
Goto(next) == doing' = next /\ UNCHANGED <<cur, spec>>
Done == cur' = None /\ doing' = "idle" /\ spec' = None

Begin(c) ==
    /\ cur = None
    /\ c \in queue
    /\ queue' = queue \ {c}
    /\ IF Outcome(c) = "return"
       THEN Done
       ELSE /\ cur' = c /\ doing' = Outcome(c)
            /\ spec' = IF Outcome(c) = "allocate" THEN cache.pool.spec ELSE None
    /\ dropped' = dropped \ {c}
    /\ UNCHANGED <<objects, delayed, timers, elapsed, late, teardown, changes>>

(* A deleted object goes with its finalizer.                               *)
Settle(obj) == IF obj.deleting /\ ~obj.fin THEN None ELSE obj

(* The deferred patch of the claim; one that is gone is left alone.        *)
PatchClaim(obj) ==
    Write(IF server.claim[cur] = None
          THEN server
          ELSE [server EXCEPT !.claim[cur] = Settle(obj)])

(* The finalizer is on: the event of this patch starts the next request.   *)
AddFinalizer ==
    /\ doing = "addFinalizer"
    /\ PatchClaim([server.claim[cur] EXCEPT !.fin = TRUE])
    /\ Done
    /\ UNCHANGED <<cache, waiting, elapsed, ghosts, changes>>

(* CreateOrPatch: an address that is cached stays what it is, another one  *)
(* gets the first of the pool that is not in use.                          *)
Unused == spec \ IPsOf(cache)

Allocate ==
    /\ doing = "allocate"
    /\ \/ cache.address[cur] # None /\ server.address[cur] # None /\ Write(server)
       \/ /\ cache.address[cur] = None /\ server.address[cur] = None
          /\ \E ip \in Unused :
               /\ \A x \in Unused : ip <= x
               /\ Write([server EXCEPT !.address[cur] = ip])
    /\ Goto("await")
    /\ UNCHANGED <<cache, waiting, elapsed, ghosts, changes>>

(* It fails: the address to patch is gone, the one to create is there, or  *)
(* the pool has none left.                                                 *)
AllocateFails ==
    /\ doing = "allocate"
    /\ IF cache.address[cur] # None
       THEN server.address[cur] = None
       ELSE server.address[cur] # None \/ Unused = {}

(* The poll that waits for the address to be cached, and the reference.    *)
SetAddressRef ==
    /\ doing = "await"
    /\ cache.address[cur] # None
    /\ PatchClaim([server.claim[cur] EXCEPT !.ref = TRUE])
    /\ Done
    /\ UNCHANGED <<cache, waiting, elapsed, ghosts, changes>>

(* reconcileDelete: the address if the cache has it, then the finalizer.   *)
Release ==
    /\ doing = "release"
    /\ Write(IF cache.address[cur] # None THEN [server EXCEPT !.address[cur] = None] ELSE server)
    /\ Goto("removeFinalizer")
    /\ UNCHANGED <<cache, waiting, elapsed, ghosts, changes>>

RemoveFinalizer ==
    /\ doing = "removeFinalizer"
    /\ PatchClaim([server.claim[cur] EXCEPT !.fin = FALSE])
    /\ Done
    /\ UNCHANGED <<cache, waiting, elapsed, ghosts, changes>>

(* The remaining grace period as RequeueAfter.                             *)
Hold ==
    /\ doing = "hold"
    /\ timers' = timers \cup {cur}
    /\ Done
    /\ UNCHANGED <<objects, queue, delayed, elapsed, ghosts, changes>>

(* An error: the claim is queued again after its backoff.                  *)
RetryLater ==
    /\ delayed' = delayed \cup {cur}
    /\ Done

(* Errors of the request itself: no pool of a kind the handler knows, or   *)
(* no address.                                                             *)
Retry ==
    /\ doing = "retry" \/ AllocateFails
    /\ RetryLater
    /\ late' = IF cache.pool # None /\ cache.pool.free = 0
               THEN late \ {cur}
               ELSE late \cup {cur}
    /\ UNCHANGED <<objects, queue, timers, elapsed, dropped, teardown, changes>>

(* The poll gives up.                                                      *)
WaitTimeout ==
    /\ Timeouts
    /\ doing = "await"
    /\ cache.address[cur] = None
    /\ RetryLater
    /\ late' = late \cup {cur}
    /\ UNCHANGED <<objects, queue, timers, elapsed, dropped, teardown, changes>>

BackoffExpires(c) ==
    /\ c \in delayed
    /\ delayed' = delayed \ {c}
    /\ queue' = queue \cup {c}
    /\ late' = late \ {c}
    /\ UNCHANGED <<objects, timers, elapsed, worker, dropped, teardown, changes>>

TimerFires(c) ==
    /\ c \in timers
    /\ c \in elapsed
    /\ timers' = timers \ {c}
    /\ queue' = queue \cup {c}
    /\ UNCHANGED <<objects, delayed, elapsed, worker, ghosts, changes>>

-----------------------------------------------------------------------------
(* The informers: the cache takes over an object, and its event is mapped  *)
(* to claims.                                                              *)

Queue(cs) == queue' = queue \cup cs

(* A deletion that the filters keep from the claims.                       *)
Unannounced(old, new, cs) == IF new = None /\ old # None /\ ~ResourceNotPaused(old, new) THEN cs ELSE {}

WatchClaim(c) ==
    LET old == cache.claim[c]
        new == server.claim[c]
    IN  /\ c \in pending.claim
        /\ pending' = [pending EXCEPT !.claim = @ \ {c}]
        /\ cache' = [cache EXCEPT !.claim[c] = new]
        /\ Queue(IF ClaimEvent(c, old, new) THEN {c} ELSE {})
        /\ UNCHANGED <<server, delayed, timers, elapsed, worker, ghosts, changes>>

(* Owns: the events of an address queue the claim that controls it.        *)
WatchAddress(c) ==
    /\ c \in pending.address
    /\ pending' = [pending EXCEPT !.address = @ \ {c}]
    /\ cache' = [cache EXCEPT !.address[c] = server.address[c]]
    /\ Queue({c})
    /\ UNCHANGED <<server, delayed, timers, elapsed, worker, ghosts, changes>>

WatchPool ==
    LET old == cache.pool
        new == server.pool
    IN  /\ pending.pool
        /\ pending' = [pending EXCEPT !.pool = FALSE]
        /\ cache' = [cache EXCEPT !.pool = new]
        /\ Queue(IF PoolEvent(old, new) THEN PoolToIPClaims(cache) ELSE {})
        /\ dropped' = dropped \cup Unannounced(old, new, PoolToIPClaims(cache))
        /\ late' = IF new # None /\ (new.free = None \/ new.free < 0)
                   THEN late \cup delayed
                   ELSE late
        /\ UNCHANGED <<server, delayed, timers, elapsed, worker, teardown, changes>>

WatchCluster ==
    LET old == cache.cluster
        new == server.cluster
    IN  /\ pending.cluster
        /\ pending' = [pending EXCEPT !.cluster = FALSE]
        /\ cache' = [cache EXCEPT !.cluster = new]
        /\ Queue(IF ClusterEvent(old, new) THEN ClusterToIPClaims(cache) ELSE {})
        /\ dropped' = dropped \cup Unannounced(old, new, ClusterToIPClaims(cache))
        /\ UNCHANGED <<server, delayed, timers, elapsed, worker, late, teardown, changes>>

(* Every ten hours the informers send an update event of every object.     *)
Resync(c) ==
    /\ c \in CachedClaims(cache)
    /\ ClaimEvent(c, cache.claim[c], cache.claim[c])
    /\ Queue({c})
    /\ UNCHANGED <<objects, delayed, timers, elapsed, worker, ghosts, changes>>

-----------------------------------------------------------------------------
(* The pool controller, as far as the claims notice it: the status, and    *)
(* the end of a deleted pool.                                              *)
(* Mutant: the difference is one of unsigned integers.                     *)
FreeUnsigned == (Cardinality(cache.pool.spec) - Cardinality(InUse(cache))) % 256

Free == Cardinality(cache.pool.spec) - Cardinality(InUse(cache))

UpdatePool ==
    /\ cache.pool # None
    /\ server.pool # None
    /\ Write([server EXCEPT !.pool =
           IF @.deleting
           THEN IF InUse(cache) # {} THEN @ ELSE None
           ELSE [@ EXCEPT !.free = Free]])
    /\ server' # server
    /\ UNCHANGED <<cache, waiting, elapsed, worker, ghosts, changes>>

-----------------------------------------------------------------------------
(* Users, time and faults.                                                 *)

User(world) ==
    /\ changes < MaxChanges
    /\ changes' = changes + 1
    /\ Write(world)
    /\ UNCHANGED <<cache, waiting, worker, dropped, late>>

CreateClaim(c, paused) ==
    /\ server.claim[c] = None
    /\ User([server EXCEPT !.claim[c] = Fresh(paused)])
    /\ UNCHANGED <<elapsed, teardown>>

TogglePausedClaim(c) ==
    /\ server.claim[c] # None
    /\ User([server EXCEPT !.claim[c].paused = ~@])
    /\ UNCHANGED <<elapsed, teardown>>

DeleteClaim(c) ==
    /\ server.claim[c] # None
    /\ ~server.claim[c].deleting
    /\ User([server EXCEPT !.claim[c] = Settle([@ EXCEPT !.deleting = TRUE])])
    /\ elapsed' = elapsed \ {c}
    /\ teardown' = IF server.pool # None /\ server.pool.deleting
                   THEN teardown \cup {c}
                   ELSE teardown \ {c}

(* Somebody takes the finalizer off an address and deletes it.             *)
RemoveAddress(c) ==
    /\ server.address[c] # None
    /\ User([server EXCEPT !.address[c] = None])
    /\ UNCHANGED <<elapsed, teardown>>

CreatePool(paused, grace, addrs) ==
    /\ server.pool = None
    /\ User([server EXCEPT !.pool = NewPool(paused, grace, addrs)])
    /\ teardown' = {}
    /\ UNCHANGED elapsed

(* A new range or gateway.  It may leave out what is in use: the webhook   *)
(* looks at its cache, and not at the gateway at all.                      *)
ChangeSpec(addrs) ==
    /\ server.pool # None
    /\ User([server EXCEPT !.pool.spec = addrs])
    /\ UNCHANGED <<elapsed, teardown>>

TogglePausedPool ==
    /\ server.pool # None
    /\ User([server EXCEPT !.pool.paused = ~@])
    /\ UNCHANGED <<elapsed, teardown>>

DeletePool ==
    /\ server.pool # None
    /\ ~server.pool.deleting
    /\ User([server EXCEPT !.pool.deleting = TRUE])
    /\ UNCHANGED <<elapsed, teardown>>

CreateCluster(paused) ==
    /\ server.cluster = None
    /\ User([server EXCEPT !.cluster = [paused |-> paused]])
    /\ UNCHANGED <<elapsed, teardown>>

TogglePausedCluster ==
    /\ server.cluster # None
    /\ User([server EXCEPT !.cluster.paused = ~@])
    /\ UNCHANGED <<elapsed, teardown>>

DeleteCluster ==
    /\ server.cluster # None
    /\ User([server EXCEPT !.cluster = None])
    /\ UNCHANGED <<elapsed, teardown>>

Users ==
    \/ \E c \in Claims : \/ \E paused \in BOOLEAN : CreateClaim(c, paused)
                         \/ TogglePausedClaim(c) \/ DeleteClaim(c) \/ RemoveAddress(c)
    \/ \E paused \in BOOLEAN, grace \in Graces, addrs \in Specs : CreatePool(paused, grace, addrs)
    \/ \E addrs \in Specs : ChangeSpec(addrs)
    \/ TogglePausedPool \/ DeletePool
    \/ \E paused \in BOOLEAN : CreateCluster(paused)
    \/ TogglePausedCluster \/ DeleteCluster

(* The grace period of a deleted claim ends.                               *)
Elapse(c) ==
    /\ server.claim[c] # None
    /\ server.claim[c].deleting
    /\ elapsed' = elapsed \cup {c}
    /\ elapsed' # elapsed
    /\ UNCHANGED <<objects, waiting, worker, ghosts, changes>>

(* A call fails.                                                           *)
Fail ==
    /\ doing \notin {"idle", "await"}
    /\ changes < MaxChanges
    /\ changes' = changes + 1
    /\ RetryLater
    /\ late' = late \cup {cur}
    /\ UNCHANGED <<objects, queue, timers, elapsed, dropped, teardown>>

(* The manager stops; the next one lists every object.                     *)
Restart ==
    /\ changes < MaxChanges
    /\ changes' = changes + 1
    /\ cache' = server
    /\ pending' = Nothing
    /\ queue' = InitialQueue(server)
    /\ delayed' = {} /\ timers' = {}
    /\ Done
    /\ dropped' = {} /\ late' = {}
    /\ UNCHANGED <<server, elapsed, teardown>>

Steps ==
    \/ AddFinalizer \/ Allocate \/ SetAddressRef \/ Release
    \/ RemoveFinalizer \/ Hold \/ Retry \/ WaitTimeout

Watches ==
    \/ \E c \in Claims : WatchClaim(c) \/ WatchAddress(c)
    \/ WatchPool \/ WatchCluster

Next ==
    \/ \E c \in Claims : Begin(c) \/ BackoffExpires(c) \/ TimerFires(c) \/ Elapse(c) \/ Resync(c)
    \/ Steps \/ Watches \/ UpdatePool
    \/ Users \/ Fail \/ Restart

Spec == Init /\ [][Next]_vars

(* The worker, the informers, the pool controller, time and the retries go *)
(* on; the one worker gets to every claim, as the queue is in order.  No   *)
(* resync is counted on.                                                   *)
FairSpec ==
    /\ Spec
    /\ WF_vars(Steps)
    /\ WF_vars(WatchPool) /\ WF_vars(WatchCluster)
    /\ WF_vars(UpdatePool)
    /\ \A c \in Claims :
         /\ SF_vars(Begin(c))
         /\ WF_vars(WatchClaim(c)) /\ WF_vars(WatchAddress(c))
         /\ WF_vars(BackoffExpires(c)) /\ WF_vars(TimerFires(c)) /\ WF_vars(Elapse(c))

-----------------------------------------------------------------------------
(* Properties.                                                             *)

(* The cache has caught up on the claim and its address.                   *)
UpToDate(c) == c \notin pending.claim \cup pending.address

(* A request would not leave the claim as it is.                           *)
HasWork(c) ==
    \/ Outcome(c) \in {"addFinalizer", "release", "hold", "retry"}
    \/ Outcome(c) = "allocate" /\ ~(cache.claim[c].ref /\ cache.address[c] # None)

(* No claim is forgotten: as soon as the cache has what a claim needs, the *)
(* claim is queued, or will be by its backoff or its timer.  Its events,   *)
(* those of its pool and of its cluster and the retries leave no gap, in   *)
(* whatever order they come and the requests end, other than the deletion  *)
(* of a paused pool or cluster.                                            *)
NeverForgotten ==
    \A c \in Claims \ Foreign :
        /\ UpToDate(c)
        /\ cache.claim[c] # None /\ ~cache.claim[c].paused
        /\ HasWork(c)
        /\ cur # c
        => c \in queue \cup delayed \cup timers \cup dropped

(* A claim that failed while the status of its pool showed no free address *)
(* does not sit out its backoff once the status shows one: what            *)
(* poolNoLongerEmpty is for.  It looks for a status of exactly zero, and   *)
(* misses a pool that was replaced, or that had less than nothing free, as *)
(* one has whose spec no longer covers what is in use.                     *)
PromptOnceFree ==
    \A c \in delayed \ (Foreign \cup late) :
        /\ UpToDate(c)
        /\ HasWork(c) /\ Outcome(c) = "allocate" /\ ~Exhausted(cache, c)
        /\ ~cache.claim[c].paused
        /\ cur # c
        => c \in queue \/ cache.pool.free = None \/ cache.pool.free <= 0

(* What the users left of the claim is what the controller can do for it:  *)
(* a deleted claim is gone and a live one has its address, unless a pause, *)
(* a missing object or an exhausted pool is in the way.                    *)
Served(c) ==
    \/ server.claim[c] = None
    \/ server.claim[c].paused
    \/ c \in Clustered /\ server.cluster # None /\ server.cluster.paused
    \/ server.pool # None /\ server.pool.paused
    \/ IF server.claim[c].deleting
       THEN FALSE
       ELSE \/ server.claim[c].ref /\ server.address[c] # None
            \/ c \in Clustered /\ server.cluster = None
            \/ server.pool = None
            \/ Exhausted(server, c)

(* Once users and faults rest, the events alone see to every claim but     *)
(* those that were not told of a deletion.                                 *)
ServedByEvents == <>[](\A c \in Claims \ Foreign : Served(c) \/ c \in dropped)

(* With the resync, also those.                                            *)
ServedAtLast ==
    (\A c \in Claims : WF_vars(Resync(c))) => <>[](\A c \in Claims \ Foreign : Served(c))

(* A claim that the cache shows as paused is not given an address.         *)
PausedClaimsWait ==
    [][\A c \in Claims :
         cur = None /\ cur' = c /\ doing' = "allocate" => ~cache.claim[c].paused]_vars

(* A claim that refers to another provider's pool is left alone.           *)
ForeignClaimsIgnored ==
    \A c \in Foreign : server.claim[c] # None => ~server.claim[c].fin

(* A claim deleted after its pool, as in the teardown of a cluster, does   *)
(* not wait for the grace period that ReleaseAddress grants.               *)
TeardownNotHeld ==
    [][\A c \in Claims :
         cur = None /\ cur' = c /\ doing' = "hold" => c \notin teardown]_vars

-----------------------------------------------------------------------------
(* Why they hold: inductive strengthenings of the properties above.        *)

(* The claim waits for a request that would not leave it as it is.         *)
Waiting(c) ==
    /\ UpToDate(c)
    /\ cache.claim[c] # None /\ ~cache.claim[c].paused
    /\ HasWork(c)
    /\ cur # c

(* What is not pending is cached.                                          *)
CaughtUp == \A c \in Claims : c \notin pending.claim => cache.claim[c] = server.claim[c]

(* The claim is still what its request was begun for, or its event has     *)
(* queued it again.                                                        *)
DecidedInv ==
    cur # None /\ cur \notin Foreign \cup queue /\ cache.claim[cur] # None
               /\ ~cache.claim[cur].paused =>
        LET obj == cache.claim[cur] IN
        /\ doing = "addFinalizer" => ~obj.fin
        /\ doing \in {"allocate", "await"} => obj.fin /\ ~obj.deleting
        /\ doing \in {"release", "removeFinalizer", "hold"} => obj.fin /\ obj.deleting

(* A claim that waits for an address and is not queued has a pool whose    *)
(* next status with a free address will queue it.                          *)
PromptInv ==
    \A c \in delayed \ (Foreign \cup late) :
        Waiting(c) /\ Outcome(c) = "allocate" =>
            c \in queue \/ cache.pool.free = 0

=============================================================================
