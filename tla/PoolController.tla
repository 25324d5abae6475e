--------------------------- MODULE PoolController ---------------------------
(***************************************************************************)
(* The life of one pool: the pool controller that protects it and counts   *)
(* its addresses (internal/controllers), the webhook that admits changes   *)
(* to it (internal/webhooks), and the claim controller that allocates from *)
(* it at the same time.  The three read the caches of one manager; the     *)
(* writes meet at the API server.                                          *)
(*                                                                         *)
(* As in ClaimReconciler an object is kept as a view, the sequence of the  *)
(* stored states the cache has not left behind.  The claim controller is   *)
(* reduced to what a pool can notice: it fetches the pool, writes an       *)
(* address, waits until the cache has it, and removes it when the claim is *)
(* gone.  The same module serves IP pools and prefix pools, which differ   *)
(* in how they count what is free; for a prefix pool IPs are sub-prefixes. *)
(***************************************************************************)
EXTENDS Integers, Sequences, FiniteSets

CONSTANTS
    Claims,         \* names of claims, and of their addresses
    IPs,            \* the addresses, or the sub-prefixes
    Specs,          \* the sets of allocatable addresses a spec may denote
    Kind,           \* "ip" or "prefix"
    Timeouts,       \* whether the wait for a cached address may time out
    None,           \* no object
    MaxLag,         \* bound: writes a cache may be behind
    MaxChanges      \* bound: requests of users, and failed calls

StatusObject == [total : Nat, used : Nat, free : Int, outOfRange : Nat]

(* A pool: ProtectPoolFinalizer, the deletion mark, what spec denotes, and *)
(* status.ipAddresses.                                                     *)
PoolObject ==
    [fin : BOOLEAN, deleting : BOOLEAN, spec : Specs, status : StatusObject \cup {None}]

ASSUME PoolAssumption ==
    /\ IPs \subseteq Nat /\ IsFiniteSet(IPs) /\ IsFiniteSet(Claims)
    /\ Specs \subseteq SUBSET IPs
    /\ Kind \in {"ip", "prefix"}
    /\ Timeouts \in BOOLEAN
    /\ None \notin IPs \cup PoolObject
    /\ MaxLag \in Nat \ {0}
    /\ MaxChanges \in Nat

VARIABLES
    pool,           \* the view of the pool
    used,           \* the view of the addresses: claim |-> address or None
    demand,         \* the claims that exist and are not being deleted
    ppc,            \* what the pool worker does next
    read,           \* the pool as the pool worker read it
    listed,         \* the addresses as the pool worker listed them
    queued,         \* a request for the pool is in the pool worker's queue
    cpc,            \* what the claim worker does next
    cur,            \* the claim it reconciles
    spec,           \* the spec of the pool it fetched
    request,        \* an admitted change of the pool, not yet stored
    changes,        \* how many requests and failures there were
    crossed,        \* a claim's request overlapped with a change of the pool
    blind           \* a wait for a cached address has timed out

poolWorker == <<ppc, read, listed>>
claimWorker == <<cpc, cur, spec>>
vars == <<pool, used, demand, poolWorker, queued, claimWorker, request, changes, crossed, blind>>

Cached(view) == view[1]
Stored(view) == view[Len(view)]
Room(view) == Len(view) <= MaxLag
Write(view, obj) == IF Stored(view) = obj THEN view ELSE Append(view, obj)
Settle(obj) == IF obj.deleting /\ ~obj.fin THEN None ELSE obj

InUse(held) == {c \in Claims : held[c] # None}
IPsOf(held) == {held[c] : c \in InUse(held)}

(* Mutant: the prefixes out of range take up free ones.                    *)
StatusOfNotAddedBack(addrs, held) ==
    LET total == Cardinality(addrs)
        inUse == Cardinality(InUse(held))
    IN  [total |-> total, used |-> inUse,
         outOfRange |-> Cardinality({c \in InUse(held) : held[c] \notin addrs}),
         free |-> IF total - inUse < 0 THEN 0 ELSE total - inUse]

(* The status genericReconcile and genericPrefixReconcile compute.  An IP  *)
(* pool counts the distinct addresses out of range, a prefix pool the      *)
(* objects, and only the latter adds them back to what is free.            *)
StatusOf(addrs, held) ==
    LET total == Cardinality(addrs)
        inUse == Cardinality(InUse(held))
        outside == IF Kind = "ip"
                   THEN Cardinality(IPsOf(held) \ addrs)
                   ELSE Cardinality({c \in InUse(held) : held[c] \notin addrs})
        left == IF Kind = "ip" THEN total - inUse ELSE total - inUse + outside
    IN  [total |-> total, used |-> inUse, outOfRange |-> outside,
         free |-> IF Kind = "prefix" /\ left < 0 THEN 0 ELSE left]

(* Mutant: the addresses in use are not looked at.                         *)
ValidateUpdateUnchecked(addrs) == TRUE

(* ValidateUpdate: no address the webhook's cache has falls out of the     *)
(* pool.                                                                   *)
ValidateUpdate(addrs) == IPsOf(Cached(used)) \subseteq addrs

(* ValidateDelete: no address at all, unless the annotation skips it.      *)
ValidateDelete(skip) == skip \/ InUse(Cached(used)) = {}

-----------------------------------------------------------------------------
TypeOK ==
    /\ pool \in Seq(PoolObject \cup {None}) /\ Len(pool) \in 1 .. MaxLag + 1
    /\ used \in Seq([Claims -> IPs \cup {None}]) /\ Len(used) \in 1 .. MaxLag + 1
    /\ demand \subseteq Claims
    /\ ppc \in {"idle", "list", "patch", "status"}
    /\ ppc # "idle" => read \in PoolObject
    /\ ppc \in {"patch", "status"} => listed \in [Claims -> IPs \cup {None}]
    /\ queued \in BOOLEAN
    /\ cpc \in {"idle", "create", "wait"}
    /\ cpc # "idle" => cur \in Claims /\ spec \in Specs
    /\ request # None => request.old \in PoolObject /\ request.new \in PoolObject
    /\ changes \in 0 .. MaxChanges
    /\ crossed \in BOOLEAN /\ blind \in BOOLEAN

NewPool(addrs) == [fin |-> FALSE, deleting |-> FALSE, spec |-> addrs, status |-> None]

Init ==
    /\ \E addrs \in Specs : pool = <<NewPool(addrs)>>
    /\ used = << [c \in Claims |-> None] >>
    /\ demand = {}
    /\ ppc = "idle" /\ read = None /\ listed = None /\ queued = TRUE
    /\ cpc = "idle" /\ cur = None /\ spec = None
    /\ request = None
    /\ changes = 0
    /\ crossed = FALSE /\ blind = FALSE

-----------------------------------------------------------------------------
(* The pool controller: Reconcile and genericReconcile.                    *)

Return == ppc' = "idle" /\ read' = None /\ listed' = None

(* Mutant: a pool that is not found is reconciled.                         *)
ReconcilePoolUnchecked ==
    /\ ppc = "idle"
    /\ queued
    /\ queued' = FALSE
    /\ ppc' = "list" /\ read' = Cached(pool) /\ UNCHANGED listed
    /\ UNCHANGED <<pool, used, demand, claimWorker, request, changes, crossed, blind>>

ReconcilePool ==
    /\ ppc = "idle"
    /\ queued
    /\ queued' = FALSE
    /\ IF Cached(pool) = None
       THEN UNCHANGED poolWorker
       ELSE ppc' = "list" /\ read' = Cached(pool) /\ UNCHANGED listed
    /\ UNCHANGED <<pool, used, demand, claimWorker, request, changes, crossed, blind>>

ListAddressesInUse ==
    /\ ppc = "list"
    /\ listed' = Cached(used)
    /\ ppc' = "patch"
    /\ UNCHANGED <<pool, used, demand, read, queued, claimWorker, request, changes, crossed, blind>>

(* Mutants: a deletion takes the finalizer off whatever is in use, or      *)
(* never.                                                                  *)
ReconciledUnprotected(obj, held) ==
    IF obj.deleting
    THEN [obj EXCEPT !.fin = FALSE]
    ELSE [obj EXCEPT !.fin = TRUE, !.status = StatusOf(obj.spec, held)]

ReconciledForever(obj, held) ==
    IF obj.deleting
    THEN [obj EXCEPT !.fin = TRUE]
    ELSE [obj EXCEPT !.fin = TRUE, !.status = StatusOf(obj.spec, held)]

(* What genericReconcile makes of the pool it read: the finalizer is added *)
(* first, and taken off again only if a deletion was requested and nothing *)
(* is in use; the status is not touched during a deletion.                 *)
Reconciled(obj, held) ==
    IF obj.deleting
    THEN [obj EXCEPT !.fin = InUse(held) # {}]
    ELSE [obj EXCEPT !.fin = TRUE, !.status = StatusOf(obj.spec, held)]

(* The deferred patch carries only what changed since the pool was read.   *)
(* Its first call is about the metadata, and the webhook has to admit it;  *)
(* the second one, about the status, follows in any case.                  *)
PatchPool ==
    /\ ppc = "patch"
    /\ Room(pool)
    /\ LET fin      == Reconciled(read, listed).fin
           stored   == Stored(pool)
           admitted == stored # None /\ ValidateUpdate(stored.spec)
       IN  /\ pool' = IF fin # read.fin /\ admitted
                      THEN Write(pool, Settle([stored EXCEPT !.fin = fin]))
                      ELSE pool
           /\ queued' = (queued \/ (fin # read.fin /\ ~admitted))
    /\ ppc' = "status" /\ UNCHANGED <<read, listed>>
    /\ UNCHANGED <<used, demand, claimWorker, request, changes, crossed, blind>>

(* A merge patch of the status: the counts that differ from those read.    *)
(* The API server wants all of them in a status that had none.             *)
PatchedCount(new, old, stored) == IF new # old THEN new ELSE stored

PatchedStatus(new, old, stored) ==
    IF old = None
    THEN new
    ELSE [total      |-> PatchedCount(new.total, old.total, stored.total),
          used       |-> PatchedCount(new.used, old.used, stored.used),
          free       |-> PatchedCount(new.free, old.free, stored.free),
          outOfRange |-> PatchedCount(new.outOfRange, old.outOfRange, stored.outOfRange)]

Incomplete(new, old, stored) ==
    /\ old # None
    /\ stored = None
    /\ new.total = old.total \/ new.used = old.used \/ new.free = old.free
         \/ new.outOfRange = old.outOfRange

PatchStatus ==
    /\ ppc = "status"
    /\ Room(pool)
    /\ LET status   == Reconciled(read, listed).status
           stored   == Stored(pool)
           accepted == stored # None /\ ~Incomplete(status, read.status, stored.status)
       IN  /\ pool' = IF status # read.status /\ accepted
                      THEN Write(pool, [stored EXCEPT
                                          !.status = PatchedStatus(status, read.status, @)])
                      ELSE pool
           /\ queued' = (queued \/ (status # read.status /\ ~accepted))
    /\ Return
    /\ UNCHANGED <<used, demand, claimWorker, request, changes, crossed, blind>>

(* Mutant: an error is logged and dropped.                                 *)
PoolRequestDropped ==
    /\ ppc # "idle"
    /\ changes < MaxChanges
    /\ changes' = changes + 1
    /\ Return
    /\ UNCHANGED <<pool, used, demand, queued, claimWorker, request, crossed, blind>>

(* A call fails and the request is queued again.                           *)
PoolRequestFails ==
    /\ ppc # "idle"
    /\ changes < MaxChanges
    /\ changes' = changes + 1
    /\ queued' = TRUE
    /\ Return
    /\ UNCHANGED <<pool, used, demand, claimWorker, request, crossed, blind>>

(* The manager restarts: the caches list everything, which queues the pool.*)
Restart ==
    /\ changes < MaxChanges
    /\ changes' = changes + 1
    /\ pool' = <<Stored(pool)>> /\ used' = <<Stored(used)>>
    /\ queued' = TRUE
    /\ Return
    /\ cpc' = "idle" /\ cur' = None /\ spec' = None
    /\ UNCHANGED <<demand, request, crossed, blind>>

-----------------------------------------------------------------------------
(* The claim controller.                                                   *)

(* It does not ask whether the pool it fetched is being deleted.           *)
FetchPool(c) ==
    /\ cpc = "idle"
    /\ c \in demand
    /\ Cached(used)[c] = None
    /\ Cached(pool) # None
    /\ cpc' = "create" /\ cur' = c /\ spec' = Cached(pool).spec
    /\ crossed' = \/ crossed
                  \/ request # None
                  \/ Stored(pool) = None
                  \/ Stored(pool) # None /\ (Stored(pool).deleting \/ Stored(pool).spec # spec')
    /\ UNCHANGED <<pool, used, demand, poolWorker, queued, request, changes, blind>>

EndClaim == cpc' = "idle" /\ cur' = None /\ spec' = None

(* CreateOrPatch of a claim that has no address in the cache.  It fails if *)
(* the pool has none left, or if there is one that the cache lacks.        *)
EnsureAddress ==
    /\ cpc = "create"
    /\ LET free == spec \ IPsOf(Cached(used)) IN
         \/ /\ free = {} \/ Stored(used)[cur] # None
            /\ EndClaim
            /\ UNCHANGED used
         \/ /\ Stored(used)[cur] = None
            /\ Room(used)
            /\ \E ip \in free :
                 /\ \A x \in free : ip <= x
                 /\ used' = Write(used, [Stored(used) EXCEPT ![cur] = ip])
            /\ cpc' = "wait" /\ UNCHANGED <<cur, spec>>
    /\ UNCHANGED <<pool, demand, poolWorker, queued, request, changes, crossed, blind>>

AddressSeen ==
    /\ cpc = "wait"
    /\ Cached(used)[cur] # None
    /\ EndClaim
    /\ UNCHANGED <<pool, used, demand, poolWorker, queued, request, changes, crossed, blind>>

(* The poll gives up, and the next request goes by a cache that lacks the  *)
(* address; so it does after a create whose answer was lost.               *)
WaitTimeout ==
    /\ Timeouts
    /\ cpc = "wait"
    /\ Cached(used)[cur] = None
    /\ changes < MaxChanges
    /\ changes' = changes + 1
    /\ EndClaim
    /\ blind' = TRUE
    /\ UNCHANGED <<pool, used, demand, poolWorker, queued, request, crossed>>


(* reconcileDelete; the pool may be gone.  The address that a claim left   *)
(* behind, because it was not cached after a wait that timed out, is       *)
(* removed by hand.                                                        *)
ReleaseAddress(c) ==
    /\ cpc = "idle"
    /\ c \notin demand
    /\ Cached(used)[c] # None
    /\ Stored(used)[c] # None
    /\ Room(used)
    /\ used' = Write(used, [Stored(used) EXCEPT ![c] = None])
    /\ UNCHANGED <<pool, demand, poolWorker, queued, claimWorker, request, changes, crossed, blind>>

-----------------------------------------------------------------------------
(* Users and the API server.                                               *)

Change == changes < MaxChanges /\ changes' = changes + 1

CreateClaim(c) ==
    /\ Change
    /\ c \notin demand
    /\ demand' = demand \cup {c}
    /\ UNCHANGED <<pool, used, poolWorker, queued, claimWorker, request, crossed, blind>>

DeleteClaim(c) ==
    /\ Change
    /\ c \in demand
    /\ demand' = demand \ {c}
    /\ UNCHANGED <<pool, used, poolWorker, queued, claimWorker, request, crossed, blind>>

(* The webhook admits a change: it crosses a claim's request if the claim  *)
(* worker is at work, if the cache lags, or if the pool has addresses and  *)
(* no finalizer yet.                                                       *)
Admit(new) ==
    /\ request' = [old |-> Stored(pool), new |-> new]
    /\ crossed' = \/ crossed
                  \/ cpc # "idle"
                  \/ Len(used) > 1
                  \/ ~new.fin /\ InUse(Stored(used)) # {}
    /\ UNCHANGED <<pool, used, demand, poolWorker, queued, claimWorker, blind>>

RequestUpdate(addrs) ==
    /\ Change
    /\ request = None
    /\ Stored(pool) # None
    /\ ValidateUpdate(addrs)
    /\ Admit([Stored(pool) EXCEPT !.spec = addrs])

RequestDelete(skip) ==
    /\ Change
    /\ request = None
    /\ Stored(pool) # None
    /\ ValidateDelete(skip)
    /\ Admit([Stored(pool) EXCEPT !.deleting = TRUE])

(* The API server stores an admitted change unless the pool has changed    *)
(* since.                                                                  *)
Commit ==
    /\ request # None
    /\ Room(pool)
    /\ pool' = IF Stored(pool) = request.old THEN Write(pool, Settle(request.new)) ELSE pool
    /\ request' = None
    /\ UNCHANGED <<used, demand, poolWorker, queued, claimWorker, changes, crossed, blind>>

CreatePool(addrs) ==
    /\ Change
    /\ Stored(pool) = None
    /\ Room(pool)
    /\ pool' = Write(pool, NewPool(addrs))
    /\ crossed' = (crossed \/ cpc # "idle" \/ InUse(Stored(used)) # {} \/ Len(used) > 1)
    /\ UNCHANGED <<used, demand, poolWorker, queued, claimWorker, request, blind>>

(* The watches: each event of the pool and of its addresses queues it.     *)
WatchPool ==
    /\ Len(pool) > 1
    /\ pool' = Tail(pool)
    /\ queued' = TRUE
    /\ UNCHANGED <<used, demand, poolWorker, claimWorker, request, changes, crossed, blind>>

(* Mutant: the events of the addresses do not queue the pool.              *)
WatchAddressesSilently ==
    /\ Len(used) > 1
    /\ used' = Tail(used)
    /\ UNCHANGED <<pool, demand, poolWorker, queued, claimWorker, request, changes, crossed, blind>>

WatchAddresses ==
    /\ Len(used) > 1
    /\ used' = Tail(used)
    /\ queued' = TRUE
    /\ UNCHANGED <<pool, demand, poolWorker, claimWorker, request, changes, crossed, blind>>

-----------------------------------------------------------------------------
Controllers ==
    \/ ReconcilePool \/ ListAddressesInUse \/ PatchPool \/ PatchStatus
    \/ (\E c \in Claims : FetchPool(c) \/ ReleaseAddress(c))
    \/ EnsureAddress \/ AddressSeen \/ WaitTimeout

Users ==
    \/ \E c \in Claims : CreateClaim(c) \/ DeleteClaim(c)
    \/ \E addrs \in Specs : RequestUpdate(addrs) \/ CreatePool(addrs)
    \/ \E skip \in BOOLEAN : RequestDelete(skip)

Next == Controllers \/ Users \/ Commit \/ WatchPool \/ WatchAddresses
    \/ PoolRequestFails \/ Restart

Spec == Init /\ [][Next]_vars

(* A queued request is handed to an idle worker, in the order of the queue *)
(* among claims; a worker goes on, the API server answers and the watches  *)
(* deliver.                                                                *)
Fairness ==
    /\ WF_vars(ReconcilePool) /\ WF_vars(ListAddressesInUse)
    /\ WF_vars(PatchPool) /\ WF_vars(PatchStatus) /\ WF_vars(EnsureAddress) /\ WF_vars(AddressSeen)
    /\ \A c \in Claims : SF_vars(FetchPool(c)) /\ SF_vars(ReleaseAddress(c))
    /\ WF_vars(Commit) /\ WF_vars(WatchPool) /\ WF_vars(WatchAddresses)

FairSpec == Spec /\ Fairness

-----------------------------------------------------------------------------
(* Properties.                                                             *)

(* A pool does not go while it has addresses: what ProtectPoolFinalizer    *)
(* and ValidateDelete are there for.                                       *)
PoolOutlivesAddresses == Stored(pool) = None => InUse(Stored(used)) = {}

(* The finalizer does its work as long as no claim was served while its    *)
(* pool was changed, however genericReconcile, restarts and the watches    *)
(* interleave.                                                             *)
ProtectedUnlessCrossed == ~crossed => PoolOutlivesAddresses

(* A pool that carries ProtectPoolFinalizer and has an address is not      *)
(* removed, whatever genericReconcile listed before.                       *)
ProtectedPoolStays ==
    [][Stored(pool) # None /\ Stored(pool).fin /\ InUse(Stored(used)) # {} =>
         Stored(pool)' # None]_vars

(* Every allocated address is inside the pool: what ValidateUpdate is      *)
(* there for.                                                              *)
AllocatedInRange ==
    Stored(pool) # None => IPsOf(Stored(used)) \subseteq Stored(pool).spec

(* ValidateUpdate keeps them inside as long as no claim was served while   *)
(* its pool was changed.                                                   *)
InRangeUnlessCrossed == ~crossed => AllocatedInRange

(* The caches are up to date and the pool controller has nothing to do.    *)
Quiet == Len(pool) = 1 /\ Len(used) = 1 /\ ppc = "idle" /\ ~queued

Counted ==
    LET p == Stored(pool) IN
    p # None /\ ~p.deleting =>
      /\ p.fin \/ ~AllocatedInRange
      /\ p.status = StatusOf(p.spec, Stored(used))

(* No update is lost: once everything is quiet, genericReconcile has       *)
(* counted what is stored.                                                 *)
QuietIsCounted == Quiet => Counted

(* The status genericReconcile or genericPrefixReconcile leaves: free is   *)
(* the number of addresses, or prefixes, of the pool that nobody has.      *)
FreeIsUnallocated ==
    LET p == Stored(pool) IN
    Quiet /\ p # None /\ ~p.deleting =>
      p.status.free = Cardinality(p.spec \ IPsOf(Stored(used)))

(* genericPrefixReconcile keeps to it as long as no prefix was given       *)
(* twice, which takes a wait that timed out.                               *)
FreeUnlessBlind == ~blind => FreeIsUnallocated

(* Whatever users did, the status that genericReconcile patches settles on *)
(* the counts of what is stored.                                           *)
StatusConverges == <>[]Counted

(* A pool that is being deleted and has no addresses left goes, though     *)
(* the webhook has to admit the removal of ProtectPoolFinalizer.           *)
DeletedPoolGoes ==
    (Stored(pool) # None /\ Stored(pool).deleting /\ InUse(Stored(used)) = {})
        ~> (Stored(pool) = None \/ InUse(Stored(used)) # {})


-----------------------------------------------------------------------------
(* Why they hold: inductive strengthenings of the properties above.        *)

(* A patch that carries a status or a finalizer is counted on what was     *)
(* cached, or the pool is queued again.                                    *)
CountInv ==
    ~queued =>
        /\ ppc = "idle" /\ Len(pool) = 1 /\ Cached(pool) # None /\ ~Cached(pool).deleting =>
              Cached(pool).fin /\ Cached(pool).status = StatusOf(Cached(pool).spec, Cached(used))
        /\ ppc # "idle" => read = Cached(pool)
        /\ ppc \in {"patch", "status"} => listed = Cached(used)
        /\ ppc = "status" /\ Len(pool) = 1 => Reconciled(read, listed).fin = read.fin

Deleting(obj) == obj # None /\ obj.deleting

(* The pool worker is the only one that ends a deletion.  While it or its  *)
(* cache has seen a deletion, no pool created since is protected yet, so   *)
(* that what it decided on the old pool cannot end the new one; while it   *)
(* has not, no pool of the view has gone.                                  *)
Ended ==
    /\ \A i \in DOMAIN pool : pool[i] = None \/ pool[i].deleting \/ ~pool[i].fin
    /\ \A i, j \in DOMAIN pool : i < j /\ Deleting(pool[j]) => Deleting(pool[i])

Lasting == \A i, j \in DOMAIN pool : i < j /\ Deleting(pool[i]) => Deleting(pool[j])

DeletionInv ==
    /\ \A i \in DOMAIN pool : Deleting(pool[i]) => pool[i].fin
    /\ IF Deleting(Cached(pool)) THEN Ended ELSE Lasting
    /\ ppc # "idle" =>
          /\ read.deleting => read.fin /\ Ended
          /\ ~read.fin => Lasting
    /\ request # None =>
          /\ request.new.fin = request.old.fin
          /\ request.old.deleting => request.new.deleting

(* The view of the addresses only loses some.                              *)
Shrinking ==
    \A i, j \in DOMAIN used : i < j => InUse(used[j]) \subseteq InUse(used[i])

(* As long as nothing crossed: a claim is served from the pool as it is    *)
(* stored, a change waits with nobody served, and what the pool worker     *)
(* listed of a deleted pool is what the pool has left.                     *)
ServedInv ==
    ~crossed =>
        /\ PoolOutlivesAddresses
        /\ AllocatedInRange
        /\ cpc # "idle" =>
              /\ request = None
              /\ Stored(pool) # None /\ ~Stored(pool).deleting /\ spec = Stored(pool).spec
        /\ request # None \/ Deleting(Stored(pool)) => Shrinking
        /\ request # None =>
              /\ IPsOf(Stored(used)) \subseteq request.new.spec
              /\ ~request.new.fin => InUse(Stored(used)) = {}
        /\ ppc = "patch" /\ read.deleting /\ InUse(listed) = {} /\ Deleting(Stored(pool)) =>
              InUse(Stored(used)) = {}

(* As long as the one claim worker waits for its own writes, no address is *)
(* given twice: an address that is new in the view is the one it waits for.*)
HeldInv ==
    ~blind =>
    /\ \A c, d \in Claims : c # d /\ Stored(used)[c] = Stored(used)[d] => Stored(used)[c] = None
    /\ \A i, j \in DOMAIN used : \A c \in Claims :
          i < j =>
            /\ used[i][c] = None /\ used[j][c] # None => cpc = "wait" /\ cur = c
            /\ used[i][c] # None /\ used[j][c] # None => used[i][c] = used[j][c]
            /\ cpc = "wait" /\ cur = c /\ used[i][c] # None => used[j][c] # None
    /\ cpc = "create" => \A i \in DOMAIN used : used[i][cur] = None

=============================================================================
