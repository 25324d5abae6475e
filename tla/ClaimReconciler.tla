-------------------------- MODULE ClaimReconciler --------------------------
(***************************************************************************)
(* The claim controller of pkg/ipamutil: one worker that turns             *)
(* IPAddressClaims into IPAddresses and releases them again, with the      *)
(* handler of internal/controllers that picks the address.                 *)
(*                                                                         *)
(* The worker reads through the informer caches of its client and writes   *)
(* to the API server, so every read may be old when it is used.  Each kind *)
(* of object is kept as a view: the sequence of the states the API server  *)
(* went through that the cache has not left behind.  Its head is what the  *)
(* cache shows, its last element what the API server stores.               *)
(*                                                                         *)
(* A claim stands for its namespaced name, which is also the name of its   *)
(* IPAddress.  Pools and Clusters are only read here; the controller may   *)
(* find them in any state, at any time, and PoolRead and ClusterRead are   *)
(* the answers that the code tells apart.                                  *)
(***************************************************************************)
EXTENDS Integers, Sequences

CONSTANTS
    Claims,         \* names of the IPAddressClaims
    PoolOf,         \* the pool each claim refers to
    PoolSpecs,      \* the sets of allocatable addresses a pool's spec may denote
    IPs,            \* the addresses
    Adopted,        \* claims whose IPAddress exists beforehand, unmanaged
    None,           \* no object
    MaxLag,         \* bound: writes a cache may be behind
    MaxBlind,       \* bound: requests ended with a created address unseen
    MaxUID          \* bound: how often a claim of one name is created

ASSUME ClaimsAssumption ==
    /\ IPs \subseteq Nat
    /\ PoolSpecs \in [{PoolOf[c] : c \in Claims} -> SUBSET SUBSET IPs]
    /\ Adopted \subseteq Claims

ASSUME BoundsAssumption ==
    /\ MaxLag \in Nat \ {0}
    /\ MaxBlind \in Nat
    /\ MaxUID \in Nat \ {0}

(* An IPAddress: its address, whether it carries ProtectAddressFinalizer,  *)
(* whether its deletion was requested, and the uid of the claim that its   *)
(* controller reference names (0: none).                                   *)
AddressObject == [ip : IPs, fin : BOOLEAN, deleting : BOOLEAN, owner : 0 .. MaxUID]

(* An IPAddressClaim: whether it carries ReleaseAddressFinalizer, and      *)
(* whether status.addressRef is set.                                       *)
ClaimObject == [uid : 1 .. MaxUID, fin : BOOLEAN, deleting : BOOLEAN, ref : BOOLEAN]

ASSUME NoneAssumption ==
    None \notin AddressObject /\ None \notin ClaimObject /\ None \notin IPs

VARIABLES
    addresses,      \* the view of the IPAddresses
    claims,         \* the view of the IPAddressClaims
    pc,             \* what the worker does next
    cur,            \* the claim being reconciled
    claim,          \* the claim object as Reconcile read it
    got,            \* the address object as the worker read it
    want,           \* the address object CreateOrPatch is about to write
    born,           \* how many claims of each name were created
    blind           \* how often the worker moved on without seeing a new address

worker == <<pc, cur, claim, got, want>>
vars == <<addresses, claims, pc, cur, claim, got, want, born, blind>>

-----------------------------------------------------------------------------
(* Views.                                                                  *)

Cached(view) == view[1]
Stored(view) == view[Len(view)]

Room(view) == Len(view) <= MaxLag

(* The API server stores obj under name c; a write that changes nothing is *)
(* not a new version of the object.                                        *)
Write(view, c, obj) ==
    IF Stored(view)[c] = obj
    THEN view
    ELSE Append(view, [Stored(view) EXCEPT ![c] = obj])

(* A merge patch carries the fields the writer changed, no others, and no  *)
(* precondition on the version or the uid of the object it is applied to.  *)
Merge(old, new, stored) == IF old = new THEN stored ELSE new

PatchAddress(old, new, stored) ==
    [ip       |-> Merge(old.ip, new.ip, stored.ip),
     fin      |-> Merge(old.fin, new.fin, stored.fin),
     deleting |-> stored.deleting,
     owner    |-> Merge(old.owner, new.owner, stored.owner)]

PatchClaim(old, new, stored) ==
    [uid      |-> stored.uid,
     fin      |-> Merge(old.fin, new.fin, stored.fin),
     deleting |-> stored.deleting,
     ref      |-> Merge(old.ref, new.ref, stored.ref)]

(* An object whose deletion was requested goes with its last finalizer.    *)
Settle(obj) == IF obj.deleting /\ ~obj.fin THEN None ELSE obj

(* Delete removes an object without a finalizer and marks any other.       *)
Deleted(obj) == Settle([obj EXCEPT !.deleting = TRUE])

-----------------------------------------------------------------------------
(* What the reconciler reads and decides.                                  *)

ClusterReads == {"none", "active", "paused", "notFound"}

(* Reconcile goes on when the claim names no cluster, or one that is not   *)
(* paused; a cluster that is gone only lets a deletion pass.               *)
ClusterAllows(obj, cluster) ==
    \/ cluster \in {"none", "active"}
    \/ cluster = "notFound" /\ obj.deleting

(* "holding": a pool whose addressReuseGracePeriodSeconds have not elapsed *)
(* since the claim's deletion.                                             *)
PoolReads == {"ready", "holding", "paused", "notFound"}

(* FetchPool, the pause check and ReleaseAddress: a live claim needs its   *)
(* pool, a deleted one is also released without it.                        *)
PoolAllows(obj, pool) ==
    IF obj.deleting THEN pool \in {"ready", "notFound"} ELSE pool \in {"ready", "holding"}

(* Mutant: an address that is being deleted counts as free.                *)
LiveAddressesInUse(c) ==
    {d \in Claims : /\ PoolOf[d] = PoolOf[c]
                    /\ Cached(addresses)[d] # None
                    /\ ~Cached(addresses)[d].deleting}

(* ListAddressesInUse: the addresses of the claim's pool, as cached.       *)
AddressesInUse(c) ==
    {d \in Claims : PoolOf[d] = PoolOf[c] /\ Cached(addresses)[d] # None}

FreeAddresses(c, spec) ==
    spec \ {Cached(addresses)[d].ip : d \in AddressesInUse(c)}

(* FindFreeAddress: the lowest free address.                               *)
FindFreeAddress(c, spec) ==
    {ip \in FreeAddresses(c, spec) : \A x \in FreeAddresses(c, spec) : ip <= x}

-----------------------------------------------------------------------------
TypeOK ==
    /\ addresses \in Seq([Claims -> AddressObject \cup {None}])
    /\ Len(addresses) \in 1 .. MaxLag + 1
    /\ claims \in Seq([Claims -> ClaimObject \cup {None}])
    /\ Len(claims) \in 1 .. MaxLag + 1
    /\ pc \in {"idle", "addFinalizer", "get", "ensure", "write", "wait",
               "setRef", "release", "unprotect", "delete", "removeFinalizer"}
    /\ pc # "idle" => cur \in Claims /\ claim \in ClaimObject
    /\ pc \in {"ensure", "write", "unprotect"} => got \in AddressObject \cup {None}
    /\ pc = "unprotect" => got # None
    /\ pc = "write" => want \in AddressObject
    /\ born \in [Claims -> 0 .. MaxUID]
    /\ blind \in 0 .. MaxBlind

Unmanaged(ip) == [ip |-> ip, fin |-> FALSE, deleting |-> FALSE, owner |-> 0]

(* No claims yet.  The unmanaged addresses of a pool differ.               *)
Init ==
    /\ \E imported \in [Adopted -> IPs] :
         /\ \A c, d \in Adopted :
              c # d /\ PoolOf[c] = PoolOf[d] => imported[c] # imported[d]
         /\ addresses = << [c \in Claims |->
                IF c \in Adopted THEN Unmanaged(imported[c]) ELSE None] >>
    /\ claims = << [c \in Claims |-> None] >>
    /\ pc = "idle" /\ cur = None /\ claim = None /\ got = None /\ want = None
    /\ born = [c \in Claims |-> 0]
    /\ blind = 0

(* The request ends, with or without an error; an error only queues it     *)
(* again, and any claim may be reconciled at any time.                     *)
Return == pc' = "idle" /\ cur' = None /\ claim' = None /\ got' = None /\ want' = None

Goto(next) == pc' = next /\ UNCHANGED <<cur, claim, got, want>>

-----------------------------------------------------------------------------
(* Reconcile, up to the first write.  A request that returns before it     *)
(* changes nothing and is no step.                                         *)
Reconcile(c, cluster, pool) ==
    /\ pc = "idle"
    /\ LET obj == Cached(claims)[c] IN
         /\ obj # None
         /\ ClusterAllows(obj, cluster)
         /\ \/ ~obj.fin /\ pc' = "addFinalizer"
            \/ /\ obj.fin
               /\ PoolAllows(obj, pool)
               /\ pc' = IF obj.deleting THEN "release" ELSE "get"
         /\ cur' = c /\ claim' = obj /\ got' = None /\ want' = None
    /\ UNCHANGED <<addresses, claims, born, blind>>

(* The deferred patch of the claim, the last call of every request; a      *)
(* claim that is gone is left alone.                                       *)
PatchAndReturn(new) ==
    /\ Room(claims)
    /\ claims' = IF Stored(claims)[cur] = None
                 THEN claims
                 ELSE Write(claims, cur, Settle(PatchClaim(claim, new, Stored(claims)[cur])))
    /\ Return
    /\ UNCHANGED <<addresses, born, blind>>

AddFinalizer ==
    /\ pc = "addFinalizer"
    /\ PatchAndReturn([claim EXCEPT !.fin = TRUE])

(* CreateOrPatch gets the address from the cache ...                       *)
GetAddress ==
    /\ pc = "get"
    /\ got' = Cached(addresses)[cur]
    /\ pc' = "ensure"
    /\ UNCHANGED <<addresses, claims, cur, claim, want, born, blind>>

(* ensureIPAddressOwnerReferences: the claim becomes the controller of its *)
(* address, also in place of an earlier claim of the same name.            *)
OwnerReference == claim.uid

(* Mutant: the finalizer is not set on the address.                        *)
UnprotectedAddress(ip) ==
    [ip |-> ip, fin |-> got # None /\ got.fin,
     deleting |-> got # None /\ got.deleting, owner |-> OwnerReference]

(* The rest of what the callback of CreateOrPatch sets.                    *)
CompletedAddress(ip) ==
    [ip |-> ip, fin |-> TRUE,
     deleting |-> got # None /\ got.deleting, owner |-> OwnerReference]

(* Mutant: an address is picked although the claim has one.                *)
EnsureAddressAgain ==
    /\ pc = "ensure"
    /\ \E spec \in PoolSpecs[PoolOf[cur]] :
         \E ip \in FindFreeAddress(cur, spec) : want' = CompletedAddress(ip)
    /\ pc' = "write"
    /\ UNCHANGED <<addresses, claims, cur, claim, got, born, blind>>

(* ... and completes it: EnsureAddress picks an address unless the claim   *)
(* is among the addresses in use, then the controller reference and the    *)
(* finalizer are set.  A pool without a free address is an error, and so   *)
(* is an address that the list has and the get had not: the object stays   *)
(* without spec.address, which the API server refuses.                     *)
EnsureAddress ==
    /\ pc = "ensure"
    /\ \E spec \in PoolSpecs[PoolOf[cur]] :
         \E ip \in IF cur \in AddressesInUse(cur)
                   THEN {a.ip : a \in {got} \ {None}}
                   ELSE FindFreeAddress(cur, spec) :
           want' = CompletedAddress(ip)
    /\ pc' = "write"
    /\ UNCHANGED <<addresses, claims, cur, claim, got, born, blind>>

(* The write of CreateOrPatch: a create, which fails if the object exists, *)
(* or a patch, which fails if it does not and is not sent if it changes    *)
(* nothing.                                                                *)
Create ==
    /\ got = None
    /\ Stored(addresses)[cur] = None
    /\ Room(addresses)
    /\ addresses' = Write(addresses, cur, want)

Patch ==
    /\ got # None
    /\ Stored(addresses)[cur] # None \/ got = want
    /\ Room(addresses)
    /\ addresses' =
         IF got = want
         THEN addresses
         ELSE Write(addresses, cur, PatchAddress(got, want, Stored(addresses)[cur]))

CreateOrPatch ==
    /\ pc = "write"
    /\ Create \/ Patch
    /\ Goto("wait")
    /\ UNCHANGED <<claims, born, blind>>

(* The API server created the address but its answer was lost: Reconcile   *)
(* returns the error and does not wait.                                    *)
CreateUnanswered ==
    /\ pc = "write"
    /\ blind < MaxBlind
    /\ Create
    /\ blind' = blind + 1
    /\ Return
    /\ UNCHANGED <<claims, born>>

(* Mutant: Reconcile goes on without the wait.                             *)
AddressAssumedSeen ==
    /\ pc = "wait"
    /\ Goto("setRef")
    /\ UNCHANGED <<addresses, claims, born, blind>>

(* The poll that waits until the cache has an address of this name.        *)
AddressSeen ==
    /\ pc = "wait"
    /\ Cached(addresses)[cur] # None
    /\ Goto("setRef")
    /\ UNCHANGED <<addresses, claims, born, blind>>

(* The poll gives up after five seconds.                                   *)
WaitTimeout ==
    /\ pc = "wait"
    /\ Cached(addresses)[cur] = None
    /\ blind < MaxBlind
    /\ blind' = blind + 1
    /\ Return
    /\ UNCHANGED <<addresses, claims, born>>

SetAddressRef ==
    /\ pc = "setRef"
    /\ PatchAndReturn([claim EXCEPT !.ref = TRUE])

-----------------------------------------------------------------------------
(* Mutant: an address that is not found is unprotected all the same.       *)
GetForReleaseUnchecked ==
    /\ pc = "release"
    /\ got' = Cached(addresses)[cur]
    /\ pc' = IF got' # None /\ ~got'.fin THEN "delete" ELSE "unprotect"
    /\ UNCHANGED <<addresses, claims, cur, claim, want, born, blind>>

(* reconcileDelete, once ReleaseAddress lets it pass.                      *)
GetForRelease ==
    /\ pc = "release"
    /\ got' = Cached(addresses)[cur]
    /\ pc' = IF got' = None THEN "removeFinalizer"
             ELSE IF got'.fin THEN "unprotect" ELSE "delete"
    /\ UNCHANGED <<addresses, claims, cur, claim, want, born, blind>>

(* The patch that takes the finalizer off the address, and its deletion.   *)
Unprotect ==
    /\ Stored(addresses)[cur] # None
    /\ Room(addresses)
    /\ addresses' = Write(addresses, cur,
           Settle(PatchAddress(got, [got EXCEPT !.fin = FALSE], Stored(addresses)[cur])))

Delete(c) ==
    /\ Stored(addresses)[c] # None
    /\ Room(addresses)
    /\ addresses' = Write(addresses, c, Deleted(Stored(addresses)[c]))

(* Mutant: the address loses its finalizer and is not deleted.             *)
RemoveProtectionOnly ==
    /\ pc = "unprotect"
    /\ \/ Unprotect
       \/ Stored(addresses)[cur] = None /\ UNCHANGED addresses
    /\ Goto("removeFinalizer")
    /\ UNCHANGED <<claims, born, blind>>

(* An address that is gone is not deleted again.                           *)
RemoveProtection ==
    /\ pc = "unprotect"
    /\ \/ Unprotect /\ Goto("delete")
       \/ Stored(addresses)[cur] = None /\ UNCHANGED addresses /\ Goto("removeFinalizer")
    /\ UNCHANGED <<claims, born, blind>>

DeleteAddress ==
    /\ pc = "delete"
    /\ \/ Delete(cur)
       \/ Stored(addresses)[cur] = None /\ UNCHANGED addresses
    /\ Goto("removeFinalizer")
    /\ UNCHANGED <<claims, born, blind>>

RemoveFinalizer ==
    /\ pc = "removeFinalizer"
    /\ PatchAndReturn([claim EXCEPT !.fin = FALSE])

-----------------------------------------------------------------------------
(* A call fails, with or without an effect on the API server.  The create  *)
(* that takes effect is CreateUnanswered.                                  *)
Fail ==
    /\ pc \in {"addFinalizer", "get", "ensure", "write", "setRef",
               "release", "unprotect", "delete", "removeFinalizer"}
    /\ Return
    /\ UNCHANGED <<addresses, claims, born, blind>>

WriteUnanswered ==
    /\ \/ pc = "write" /\ Patch
       \/ pc = "unprotect" /\ Unprotect
       \/ pc = "delete" /\ Delete(cur)
    /\ Return
    /\ UNCHANGED <<claims, born, blind>>

(* The manager stops at any point; the next one lists every object before  *)
(* it starts its workers.                                                  *)
Restart ==
    /\ addresses' = <<Stored(addresses)>>
    /\ claims' = <<Stored(claims)>>
    /\ Return
    /\ UNCHANGED <<born, blind>>

-----------------------------------------------------------------------------
(* The rest of the cluster: users and the garbage collector, and the       *)
(* watches that bring the caches up to date.                               *)
CreateClaim(c) ==
    /\ Room(claims)
    /\ Stored(claims)[c] = None
    /\ born[c] < MaxUID
    /\ born' = [born EXCEPT ![c] = @ + 1]
    /\ claims' = Write(claims, c,
           [uid |-> born[c] + 1, fin |-> FALSE, deleting |-> FALSE, ref |-> FALSE])
    /\ UNCHANGED <<addresses, worker, blind>>

DeleteClaim(c) ==
    /\ Room(claims)
    /\ Stored(claims)[c] # None
    /\ claims' = Write(claims, c, Deleted(Stored(claims)[c]))
    /\ UNCHANGED <<addresses, worker, born, blind>>

DeleteAddressOf(c) ==
    /\ Delete(c)
    /\ UNCHANGED <<claims, worker, born, blind>>

WatchAddresses ==
    /\ Len(addresses) > 1
    /\ addresses' = Tail(addresses)
    /\ UNCHANGED <<claims, worker, born, blind>>

WatchClaims ==
    /\ Len(claims) > 1
    /\ claims' = Tail(claims)
    /\ UNCHANGED <<addresses, worker, born, blind>>

Worker ==
    \/ \E c \in Claims, cluster \in ClusterReads, pool \in PoolReads :
         Reconcile(c, cluster, pool)
    \/ AddFinalizer \/ GetAddress \/ EnsureAddress \/ CreateOrPatch
    \/ AddressSeen \/ SetAddressRef
    \/ GetForRelease \/ RemoveProtection \/ DeleteAddress \/ RemoveFinalizer

Fault == CreateUnanswered \/ WaitTimeout \/ Fail \/ WriteUnanswered \/ Restart

Environment ==
    \/ \E c \in Claims : CreateClaim(c) \/ DeleteClaim(c) \/ DeleteAddressOf(c)
    \/ WatchAddresses \/ WatchClaims

Next == Worker \/ Fault \/ Environment

Spec == Init /\ [][Next]_vars

-----------------------------------------------------------------------------
(* Properties.                                                             *)

(* Two IPAddresses of one pool never hold the same address: what           *)
(* EnsureAddress and the wait after CreateOrPatch are there for.           *)
UniqueAddresses ==
    \A c, d \in Claims :
        /\ c # d
        /\ PoolOf[c] = PoolOf[d]
        /\ Stored(addresses)[c] # None
        /\ Stored(addresses)[d] # None
        => Stored(addresses)[c].ip # Stored(addresses)[d].ip

(* Addresses are unique as long as no request ended with its new address   *)
(* unseen, whatever the lag of the caches, the calls that failed and the   *)
(* points at which the manager was restarted.                              *)
UniqueWhileSighted == blind = 0 => UniqueAddresses

(* The claim that the controller reference of an address names is stored,  *)
(* with ReleaseAddressFinalizer on it.                                     *)
HasClaim(c) ==
    LET address == Stored(addresses)[c]
        owner   == Stored(claims)[c]
    IN  address # None /\ address.owner # 0 =>
          owner # None /\ owner.fin /\ owner.uid = address.owner

(* An address that has a claim goes before the claim does: what            *)
(* ReleaseAddressFinalizer is there for.                                   *)
AlwaysReleased == \A c \in Claims : HasClaim(c)

(* An address written for a claim goes before the claim does, wherever     *)
(* reconcileDelete fails, is repeated or is cut off by a restart.          *)
ReleasedBeforeClaim == blind = 0 => \A c \in Claims \ Adopted : HasClaim(c)

(* Of a claim that took over an unmanaged address this is all that can be  *)
(* said: reconcileDelete may find the address cached without its finalizer *)
(* and leave it to the finalizer, but never without the deletion mark.     *)
ReleasedOrMarked ==
    blind = 0 => \A c \in Claims : HasClaim(c) \/ Stored(addresses)[c].deleting

(* A claim that was told of its address and is not being deleted.          *)
Bound(c) == Stored(claims)[c] # None /\ Stored(claims)[c].ref /\ ~Stored(claims)[c].deleting

(* Such a claim has its address, with ProtectAddressFinalizer against      *)
(* anybody else's deletion: status.addressRef never dangles, not even when *)
(* a claim of the same name was deleted and created again.                 *)
BoundClaimHasAddress ==
    blind = 0 =>
      \A c \in Claims :
        Bound(c) => /\ Stored(addresses)[c] # None
                    /\ Stored(addresses)[c].fin
                    /\ Stored(addresses)[c].owner = Stored(claims)[c].uid

(* The address of such a claim never changes: EnsureAddress and the merge  *)
(* patches leave it alone although they work on cached objects.            *)
AddressKept ==
    [][\A c \in Claims :
         blind = 0 /\ Bound(c) /\ Bound(c)' =>
           Stored(addresses)'[c] # None /\ Stored(addresses)'[c].ip = Stored(addresses)[c].ip]_vars

-----------------------------------------------------------------------------
(* Why addresses are unique: the inductive strengthening.                  *)

(* An address that some state of the view has and an earlier one lacks is  *)
(* the one the worker is waiting for.                                      *)
Awaited(view) ==
    \A c \in Claims : \A i, j \in DOMAIN view :
        i < j /\ view[i][c] = None /\ view[j][c] # None => pc = "wait" /\ cur = c

(* An address that went does not come back within the view.                *)
GoneForGood(view) ==
    \A c \in Claims : \A i, j, k \in DOMAIN view :
        i < j /\ j < k /\ view[i][c] # None /\ view[j][c] = None => view[k][c] = None

(* The states of the view agree on the address of a claim.                 *)
SameIP(view) ==
    \A c \in Claims : \A i, j \in DOMAIN view :
        view[i][c] # None /\ view[j][c] # None => view[i][c].ip = view[j][c].ip

(* What the worker found missing is missing everywhere.                    *)
Missing(view) == \A i \in DOMAIN view : view[i][cur] = None

(* The address about to be written is nobody else's, in any state of the   *)
(* view.                                                                   *)
NobodyElses(view) ==
    \A d \in Claims \ {cur} : \A i \in DOMAIN view :
        PoolOf[d] = PoolOf[cur] /\ view[i][d] # None => view[i][d].ip # want.ip

(* The inductive invariant: what EnsureAddress relies on when it takes the *)
(* cached list of addresses for the addresses in use.                      *)
UniqueInv ==
    blind = 0 =>
        /\ UniqueAddresses
        /\ Awaited(addresses)
        /\ GoneForGood(addresses)
        /\ SameIP(addresses)
        /\ pc \in {"ensure", "write"} /\ got = None => Missing(addresses)
        /\ pc = "write" /\ got # None /\ want.ip # got.ip => Missing(addresses)
        /\ pc = "write" /\ got = None => NobodyElses(addresses)

-----------------------------------------------------------------------------
(* Why claims are told the truth: the lives of the claims of one name, as  *)
(* the view of the claims and the request under way have them.             *)

(* A claim that may be given an address, and one that must give it back.   *)
Serving == {"get", "ensure", "write", "wait", "setRef"}
Releasing == {"release", "unprotect", "delete", "removeFinalizer"}

Live(obj) == obj # None /\ obj.fin /\ ~obj.deleting
Finalized(obj) == obj # None /\ obj.fin

(* What a later state of a name has to do with an earlier claim of it.  A  *)
(* claim with the finalizer stays until the worker, which has to see its   *)
(* deletion first, removes it; till the worker sees it gone, no other      *)
(* claim of that name has the finalizer.                                   *)
Follows(old, new) ==
    /\ Live(old) => new # None /\ new.uid = old.uid
    /\ new # None =>
         /\ old.uid <= new.uid
         /\ old.uid = new.uid => (old.fin => new.fin) /\ (old.deleting => new.deleting)
         /\ old.fin /\ new.fin => old.uid = new.uid

(* From the i-th state of the view on, the finalizer stays where it is.    *)
FinalizerStays(c, i) ==
    \A j, k \in DOMAIN claims :
        i <= j /\ j < k /\ Finalized(claims[j][c]) => Finalized(claims[k][c])

(* One state of the view.  While it is to be seen without the finalizer,   *)
(* the worker cannot see a deletion that makes it remove the finalizer of  *)
(* a later one.                                                            *)
ClaimLife(c, i) ==
    claims[i][c] # None =>
        /\ claims[i][c].uid <= born[c]
        /\ claims[i][c].deleting \/ claims[i][c].ref => claims[i][c].fin
        /\ \A j \in DOMAIN claims : i < j => Follows(claims[i][c], claims[j][c])
        /\ claims[i][c].fin \/ FinalizerStays(c, i)

(* The inductive invariant of the claims.  It does not depend on what the  *)
(* worker sees of the addresses.                                           *)
LifeInv ==
    /\ \A c \in Claims : \A i \in DOMAIN claims : ClaimLife(c, i)
    /\ \A c \in Claims : Stored(claims)[c] # None => Stored(claims)[c].uid = born[c]
    /\ pc # "idle" => /\ claim.uid <= born[cur]
                      /\ \A i \in DOMAIN claims : Follows(claim, claims[i][cur])
    /\ pc = "addFinalizer" => ~claim.fin /\ FinalizerStays(cur, 1)
    /\ pc \in Serving => Live(claim)
    /\ pc \in Releasing => claim.fin /\ claim.deleting

(* The claim with this uid may be given an address: it is live in some     *)
(* state of the view, or a request under way has read it so.               *)
MayServe(c, uid) ==
    \/ \E k \in DOMAIN claims : Live(claims[k][c]) /\ claims[k][c].uid = uid
    \/ pc \in Serving /\ cur = c /\ claim.uid = uid

Protected(obj, uid) == obj # None /\ obj.fin /\ obj.owner = uid

(* One state of the view of the addresses.  Unmanaged addresses were there *)
(* first; only a claim that the worker saw with its finalizer has an       *)
(* address; a claim that may be served keeps the one it has.               *)
AddressLife(c, i) ==
    LET obj == addresses[i][c] IN
    obj # None =>
        /\ obj.owner <= born[c]
        /\ obj.deleting => obj.fin
        /\ obj.owner = 0 =>
             /\ c \in Adopted /\ ~obj.fin
             /\ \A j \in DOMAIN addresses :
                  j < i => addresses[j][c] # None /\ addresses[j][c].owner = 0
        /\ \A k \in DOMAIN claims :
             claims[k][c] # None /\ claims[k][c].uid = obj.owner => claims[k][c].fin
        /\ c \notin Adopted /\ ~obj.fin =>
             \A j \in DOMAIN addresses : i < j => ~Finalized(addresses[j][c])
        /\ MayServe(c, obj.owner) =>
             \A j \in DOMAIN addresses : i <= j => Protected(addresses[j][c], obj.owner)

(* What is stored.  An address without its finalizer is one that is being  *)
(* released.                                                               *)
StoredLife(c) ==
    LET obj == Stored(addresses)[c] IN
    /\ obj # None /\ ~obj.fin /\ obj.owner # 0 => \A uid \in 1 .. MaxUID : ~MayServe(c, uid)
    /\ HasClaim(c) \/ (c \in Adopted /\ obj.deleting)
    /\ Bound(c) => Protected(obj, Stored(claims)[c].uid)

(* What the worker has read of the address and is about to do with it.     *)
RequestLife ==
    LET obj == Stored(addresses)[cur] IN
    /\ pc \in {"ensure", "write", "unprotect"} /\ got # None /\ (got.fin \/ got.owner # 0) =>
         \A j \in DOMAIN addresses : addresses[j][cur] # None => addresses[j][cur].owner # 0
    /\ pc \in {"ensure", "write"} /\ got # None /\ got.owner = claim.uid =>
         \A j \in DOMAIN addresses : Protected(addresses[j][cur], claim.uid)
    /\ pc = "write" => want.fin /\ want.owner = claim.uid
    /\ pc \in {"wait", "setRef"} => Protected(obj, claim.uid)
    /\ pc = "unprotect" => got.fin
    /\ pc = "delete" /\ cur \notin Adopted => ~Finalized(obj)
    /\ pc = "removeFinalizer" /\ obj # None => cur \in Adopted /\ obj.deleting

(* The inductive invariant of the addresses and their claims.              *)
LeaseInv ==
    blind = 0 =>
        /\ \A c \in Claims : \A i \in DOMAIN addresses : AddressLife(c, i)
        /\ \A c \in Claims : StoredLife(c)
        /\ RequestLife

=============================================================================
