------------------------ MODULE PoolControllerProofs ------------------------
(***************************************************************************)
(* Proofs about PoolController, for any number of claims, any ranges and   *)
(* any bounds: the states are well formed, the status settles on what is   *)
(* stored, and, as long as no claim is served while its pool changes, a    *)
(* pool outlives its addresses and contains them.                          *)
(***************************************************************************)
EXTENDS PoolController, FiniteSetTheorems, FunctionTheorems, TLAPS

-----------------------------------------------------------------------------
(* The views.                                                              *)

(* A write leaves the view as it is or adds one state to its end.          *)
LEMMA WriteView ==
    ASSUME NEW S, NEW view \in Seq(S), Len(view) >= 1, NEW obj \in S
    PROVE  /\ Write(view, obj) \in Seq(S)
           /\ Len(Write(view, obj)) \in {Len(view), Len(view) + 1}
           /\ Stored(Write(view, obj)) = obj
           /\ Cached(Write(view, obj)) = Cached(view)
           /\ DOMAIN view \subseteq DOMAIN Write(view, obj)
           /\ \A i \in DOMAIN view : Write(view, obj)[i] = view[i]
           /\ \A i \in DOMAIN Write(view, obj) :
                i \notin DOMAIN view =>
                    i = Len(view) + 1 /\ Write(view, obj)[i] = obj
           /\ Len(Write(view, obj)) = Len(view) =>
                Write(view, obj) = view /\ Stored(view) = obj
<1>1. CASE Stored(view) = obj
  BY <1>1 DEF Write, Stored, Cached
<1>2. CASE Stored(view) # obj
  BY <1>2 DEF Write, Stored, Cached
<1> QED
  BY <1>1, <1>2

(* A watch event takes the first state off.                                *)
LEMMA TailView ==
    ASSUME NEW S, NEW view \in Seq(S), Len(view) > 1
    PROVE  /\ Tail(view) \in Seq(S)
           /\ Len(Tail(view)) = Len(view) - 1
           /\ Stored(Tail(view)) = Stored(view)
           /\ Cached(Tail(view)) = view[2]
           /\ DOMAIN Tail(view) = 1 .. Len(view) - 1
           /\ \A i \in DOMAIN Tail(view) : i + 1 \in DOMAIN view /\ Tail(view)[i] = view[i + 1]
BY DEF Stored, Cached

(* The ends of a view are states of it.                                    *)
LEMMA EndsOfView ==
    ASSUME NEW S, NEW view \in Seq(S), Len(view) >= 1
    PROVE  /\ Cached(view) \in S /\ Stored(view) \in S
           /\ Len(view) \in Nat /\ DOMAIN view = 1 .. Len(view)
           /\ 1 \in DOMAIN view /\ Len(view) \in DOMAIN view
BY DEF Stored, Cached

-----------------------------------------------------------------------------
(* The types.                                                              *)

Held == [Claims -> IPs \cup {None}]

(* The addresses in use, and the status counted from them, are finite.     *)
LEMMA InUseFinite ==
    ASSUME NEW held \in Held
    PROVE  IsFiniteSet(InUse(held)) /\ IsFiniteSet(IPsOf(held)) /\ IPsOf(held) \subseteq IPs
<1>1. InUse(held) \in SUBSET Claims /\ IPsOf(held) \in SUBSET IPs
  BY DEF InUse, IPsOf, Held
<1> QED
  BY <1>1, FS_Subset, PoolAssumption

(* What genericReconcile counts is a status.                               *)
LEMMA StatusType ==
    ASSUME NEW addrs \in Specs, NEW held \in Held
    PROVE  StatusOf(addrs, held) \in StatusObject
<1> DEFINE outObjects == {c \in InUse(held) : held[c] \notin addrs}
           outside == IPsOf(held) \ addrs
<1>1. outObjects \in SUBSET InUse(held) /\ outside \in SUBSET IPsOf(held) /\ addrs \in SUBSET IPs
  BY PoolAssumption
<1>2. /\ IsFiniteSet(addrs) /\ IsFiniteSet(outObjects) /\ IsFiniteSet(outside)
  BY <1>1, InUseFinite, FS_Subset, PoolAssumption
<1>3. /\ Cardinality(addrs) \in Nat /\ Cardinality(InUse(held)) \in Nat
      /\ Cardinality(outObjects) \in Nat /\ Cardinality(outside) \in Nat
  BY <1>2, InUseFinite, FS_CardinalityType
<1> QED
  BY <1>3 DEF StatusOf, StatusObject

(* What genericReconcile and the deferred patch make of a pool is a pool.  *)
LEMMA ReconciledType ==
    ASSUME NEW obj \in PoolObject, NEW held \in Held
    PROVE  /\ Reconciled(obj, held) \in PoolObject
           /\ Reconciled(obj, held).spec = obj.spec
           /\ Reconciled(obj, held).deleting = obj.deleting
           /\ Reconciled(obj, held).fin = (~obj.deleting \/ InUse(held) # {})
           /\ obj.deleting => Reconciled(obj, held).status = obj.status
           /\ ~obj.deleting => Reconciled(obj, held).status = StatusOf(obj.spec, held)
<1>1. obj.spec \in Specs
  BY DEF PoolObject
<1>2. StatusOf(obj.spec, held) \in StatusObject
  BY <1>1, StatusType
<1> QED
  BY <1>2 DEF Reconciled, PoolObject

(* The first patch changes the finalizer, and leaves nothing only of a     *)
(* deleted pool.                                                           *)
LEMMA FinalizerPatched ==
    ASSUME NEW stored \in PoolObject, NEW fin \in BOOLEAN, NEW p,
           p = Settle([stored EXCEPT !.fin = fin])
    PROVE  /\ p = None => stored.deleting /\ ~fin
           /\ p # None => /\ p \in PoolObject /\ (stored.deleting => p.fin)
                          /\ p.deleting = stored.deleting /\ p.spec = stored.spec
                          /\ p.fin = fin
<1> DEFINE q == [stored EXCEPT !.fin = fin]
<1>1. /\ q \in PoolObject /\ q.deleting = stored.deleting /\ q.spec = stored.spec
      /\ q.fin = fin
  BY DEF PoolObject
<1>2. q # None
  BY <1>1, PoolAssumption
<1> HIDE DEF q
<1>3. p = IF q.deleting /\ ~q.fin THEN None ELSE q
  BY DEF Settle, q
<1> QED
  BY <1>1, <1>2, <1>3

(* The second patch: what a merge makes of a status is a status, and it is *)
(* the new one if the stored one is the one that was read.                 *)
LEMMA StatusPatched ==
    ASSUME NEW new \in StatusObject, NEW old \in StatusObject \cup {None}
    PROVE  /\ PatchedStatus(new, old, old) = new
           /\ \A st \in StatusObject \cup {None} :
                ~Incomplete(new, old, st) => PatchedStatus(new, old, st) \in StatusObject
<1>1. PatchedStatus(new, old, old) = new
  BY DEF PatchedStatus, PatchedCount, StatusObject
<1>2. ASSUME NEW st \in StatusObject, old # None
      PROVE  PatchedStatus(new, old, st) \in StatusObject
  BY <1>2 DEF PatchedStatus, PatchedCount, StatusObject
<1>3. ASSUME ~Incomplete(new, old, None), old # None
      PROVE  PatchedStatus(new, old, None) \in StatusObject
  <2>1. /\ new.total # old.total /\ new.used # old.used
        /\ new.free # old.free /\ new.outOfRange # old.outOfRange
    BY <1>3 DEF Incomplete
  <2> QED
    BY <1>3, <2>1 DEF PatchedStatus, PatchedCount, StatusObject
<1>4. old = None => \A st \in StatusObject \cup {None} : PatchedStatus(new, old, st) = new
  BY DEF PatchedStatus
<1> QED
  BY <1>1, <1>2, <1>3, <1>4

(* What users ask for of a pool is a pool, and its storage leaves it or    *)
(* nothing.                                                                *)
LEMMA RequestedType ==
    ASSUME NEW obj \in PoolObject, NEW addrs \in Specs
    PROVE  /\ [obj EXCEPT !.spec = addrs] \in PoolObject
           /\ [obj EXCEPT !.deleting = TRUE] \in PoolObject
           /\ NewPool(addrs) \in PoolObject
           /\ Settle(obj) \in PoolObject \cup {None}
BY DEF PoolObject, NewPool, Settle

(* What the steps do to the two views.                                     *)
ViewStep(view, next, S) ==
    \/ next = view
    \/ Room(view) /\ \E obj \in S : next = Write(view, obj)
    \/ Len(view) > 1 /\ next = Tail(view)
    \/ next = <<Stored(view)>>

(* Such a step keeps the type of a view.                                   *)
LEMMA ViewStepType ==
    ASSUME NEW S, NEW view \in Seq(S), Len(view) \in 1 .. MaxLag + 1, NEW next,
           ViewStep(view, next, S)
    PROVE  next \in Seq(S) /\ Len(next) \in 1 .. MaxLag + 1
<1>1. MaxLag \in Nat /\ Len(view) \in Nat /\ Len(view) >= 1
  BY PoolAssumption
<1>2. CASE Room(view) /\ \E obj \in S : next = Write(view, obj)
  BY <1>1, <1>2, WriteView DEF Room
<1>3. CASE Len(view) > 1 /\ next = Tail(view)
  BY <1>1, <1>3, TailView
<1>4. CASE next = <<Stored(view)>>
  BY <1>1, <1>4, EndsOfView
<1> QED
  BY <1>2, <1>3, <1>4 DEF ViewStep

Pools == PoolObject \cup {None}

(* What the pool worker decides of the finalizer.                          *)
Keeps == ~read.deleting \/ InUse(listed) # {}

(* The pool worker patches the finalizer, to what it decided.              *)
LEMMA PatchStep ==
    ASSUME TypeOK, PatchPool
    PROVE  /\ read \in PoolObject /\ listed \in Held
           /\ \/ /\ pool' = pool
                 /\ \/ read.fin = Keeps
                    \/ Stored(pool) = None
                    \/ ~ValidateUpdate(Stored(pool).spec)
              \/ /\ Stored(pool) \in PoolObject /\ read.fin # Keeps
                 /\ \E obj \in Pools :
                      /\ pool' = Write(pool, obj)
                      /\ obj = None => Stored(pool).deleting /\ ~Keeps
                      /\ obj # None =>
                           /\ obj \in PoolObject /\ (Stored(pool).deleting => obj.fin)
                           /\ obj.deleting = Stored(pool).deleting
                           /\ obj.spec = Stored(pool).spec
                           /\ obj.fin = Keeps
           /\ ViewStep(pool, pool', Pools)
<1>1. read \in PoolObject /\ listed \in Held /\ Room(pool)
  BY DEF TypeOK, PatchPool, Held
<1>2. Reconciled(read, listed).fin = Keeps
  BY <1>1, ReconciledType DEF Keeps
<1>3. Stored(pool) \in Pools
  BY EndsOfView DEF TypeOK, Pools
<1>4. CASE /\ pool' = pool
           /\ read.fin = Keeps \/ Stored(pool) = None \/ ~ValidateUpdate(Stored(pool).spec)
  BY <1>1, <1>4 DEF ViewStep
<1>5. CASE /\ Stored(pool) # None /\ read.fin # Keeps
           /\ pool' = Write(pool, Settle([Stored(pool) EXCEPT !.fin = Keeps]))
  <2>1. Stored(pool) \in PoolObject
    BY <1>3, <1>5 DEF Pools
  <2>2. PICK obj : obj = Settle([Stored(pool) EXCEPT !.fin = Keeps])
    OBVIOUS
  <2>3. Keeps \in BOOLEAN
    BY DEF Keeps
  <2>4. /\ obj = None => Stored(pool).deleting /\ ~Keeps
        /\ obj # None => /\ obj \in PoolObject /\ (Stored(pool).deleting => obj.fin)
                         /\ obj.deleting = Stored(pool).deleting
                         /\ obj.spec = Stored(pool).spec
                         /\ obj.fin = Keeps
    BY <2>1, <2>2, <2>3, FinalizerPatched
  <2>5. obj \in Pools /\ pool' = Write(pool, obj)
    BY <1>5, <2>2, <2>4 DEF Pools
  <2> QED
    BY <1>1, <1>5, <2>1, <2>4, <2>5 DEF ViewStep
<1> QED
  BY <1>2, <1>4, <1>5 DEF PatchPool

(* The pool worker patches the status, and nothing else.                   *)
LEMMA StatusStep ==
    ASSUME TypeOK, PatchStatus
    PROVE  /\ read \in PoolObject /\ listed \in Held
           /\ \/ pool' = pool
              \/ /\ Stored(pool) \in PoolObject /\ ~read.deleting
                 /\ StatusOf(read.spec, listed) # read.status
                 /\ \E obj \in PoolObject :
                      /\ pool' = Write(pool, obj)
                      /\ obj.deleting = Stored(pool).deleting /\ obj.fin = Stored(pool).fin
                      /\ obj.spec = Stored(pool).spec
                      /\ obj.status = PatchedStatus(StatusOf(read.spec, listed), read.status,
                                                    Stored(pool).status)
           /\ ViewStep(pool, pool', Pools)
<1> DEFINE new == Reconciled(read, listed).status
<1>1. read \in PoolObject /\ listed \in Held /\ Room(pool)
  BY DEF TypeOK, PatchStatus, Held
<1>2. Stored(pool) \in Pools
  BY EndsOfView DEF TypeOK, Pools
<1>3. CASE pool' = pool
  BY <1>1, <1>3 DEF ViewStep
<1>4. CASE /\ Stored(pool) # None /\ new # read.status
           /\ ~Incomplete(new, read.status, Stored(pool).status)
           /\ pool' = Write(pool, [Stored(pool) EXCEPT
                        !.status = PatchedStatus(new, read.status, Stored(pool).status)])
  <2>1. /\ Stored(pool) \in PoolObject /\ Stored(pool).status \in StatusObject \cup {None}
        /\ read.status \in StatusObject \cup {None} /\ read.spec \in Specs
    BY <1>1, <1>2, <1>4 DEF Pools, PoolObject
  <2>2. ~read.deleting /\ new = StatusOf(read.spec, listed)
    BY <1>1, <1>4, ReconciledType
  <2>3. new \in StatusObject
    BY <1>1, <2>1, <2>2, StatusType
  <2>4. PICK st \in StatusObject : st = PatchedStatus(new, read.status, Stored(pool).status)
    BY <1>4, <2>1, <2>3, StatusPatched
  <2>5. PICK obj : obj = [Stored(pool) EXCEPT !.status = st]
    OBVIOUS
  <2>6. /\ obj \in PoolObject /\ obj.deleting = Stored(pool).deleting
        /\ obj.fin = Stored(pool).fin /\ obj.spec = Stored(pool).spec /\ obj.status = st
    BY <2>1, <2>5 DEF PoolObject
  <2>7. pool' = Write(pool, obj) /\ obj \in Pools
    BY <1>4, <2>4, <2>5, <2>6 DEF Pools
  <2>8. ViewStep(pool, pool', Pools)
    BY <1>1, <2>7 DEF ViewStep
  <2> QED
    BY <1>1, <1>4, <2>1, <2>2, <2>4, <2>6, <2>7, <2>8
<1> QED
  BY <1>3, <1>4 DEF PatchStatus

(* A claim's address is written or removed.                                *)
LEMMA UsedStep ==
    ASSUME TypeOK, [Next]_vars
    PROVE  ViewStep(used, used', Held)
<1>1. Stored(used) \in Held /\ Cached(used) \in Held
  BY EndsOfView DEF TypeOK, Held
<1>2. CASE EnsureAddress
  <2>1. cur \in Claims /\ spec \in Specs /\ spec \subseteq IPs
    BY <1>2, PoolAssumption DEF EnsureAddress, TypeOK
  <2>2. \A ip \in IPs : [Stored(used) EXCEPT ![cur] = ip] \in Held
    BY <1>1, <2>1 DEF Held
  <2> QED
    BY <1>2, <2>1, <2>2 DEF EnsureAddress, ViewStep
<1>3. ASSUME NEW c \in Claims, ReleaseAddress(c) PROVE ViewStep(used, used', Held)
  <2>1. [Stored(used) EXCEPT ![c] = None] \in Held
    BY <1>1 DEF Held
  <2> QED
    BY <1>3, <2>1 DEF ReleaseAddress, ViewStep
<1>4. CASE UNCHANGED used
  BY <1>4 DEF ViewStep
<1>5. CASE Restart \/ WatchAddresses
  BY <1>5 DEF Restart, WatchAddresses, ViewStep
<1> QED
  BY <1>2, <1>3, <1>4, <1>5 DEF Next, Controllers, Users, vars, ReconcilePool,
     ListAddressesInUse, PatchPool, PatchStatus, FetchPool, AddressSeen, WaitTimeout, CreateClaim, DeleteClaim,
     RequestUpdate, RequestDelete, Admit, CreatePool, Commit, WatchPool, PoolRequestFails

(* The pool is patched, created, changed or removed.                       *)
LEMMA PoolStep ==
    ASSUME TypeOK, [Next]_vars
    PROVE  ViewStep(pool, pool', Pools)
<1>1. CASE PatchPool \/ PatchStatus
  BY <1>1, PatchStep, StatusStep
<1>2. CASE Commit
  <2>1. request.new \in PoolObject
    BY <1>2 DEF Commit, TypeOK
  <2>2. Settle(request.new) \in Pools
    BY <2>1 DEF Settle, Pools
  <2> QED
    BY <1>2, <2>2 DEF Commit, ViewStep
<1>3. ASSUME NEW addrs \in Specs, CreatePool(addrs) PROVE ViewStep(pool, pool', Pools)
  <2>1. NewPool(addrs) \in Pools
    BY DEF Pools, NewPool, PoolObject
  <2> QED
    BY <1>3, <2>1 DEF CreatePool, ViewStep
<1>4. CASE UNCHANGED pool
  BY <1>4 DEF ViewStep
<1>5. CASE Restart \/ WatchPool
  BY <1>5 DEF Restart, WatchPool, ViewStep
<1> QED
  BY <1>1, <1>2, <1>3, <1>4, <1>5 DEF Next, Controllers, Users, vars, ReconcilePool,
     ListAddressesInUse, FetchPool, EnsureAddress, AddressSeen, WaitTimeout, ReleaseAddress,
     CreateClaim, DeleteClaim, RequestUpdate, RequestDelete, Admit, WatchAddresses, PoolRequestFails

(* The other variables.                                                    *)
WorkersOK ==
    /\ demand \subseteq Claims
    /\ ppc \in {"idle", "list", "patch", "status"}
    /\ ppc # "idle" => read \in PoolObject
    /\ ppc \in {"patch", "status"} => listed \in Held
    /\ queued \in BOOLEAN
    /\ cpc \in {"idle", "create", "wait"}
    /\ cpc # "idle" => cur \in Claims /\ spec \in Specs
    /\ request # None => request.old \in PoolObject /\ request.new \in PoolObject
    /\ changes \in 0 .. MaxChanges
    /\ crossed \in BOOLEAN /\ blind \in BOOLEAN

(* The bounds are numbers.                                                 *)
LEMMA BoundsType == MaxLag \in Nat /\ MaxLag >= 1 /\ MaxChanges \in Nat
BY PoolAssumption

(* Every step keeps the types.                                             *)
LEMMA TypeOKStep == TypeOK /\ [Next]_vars => TypeOK'
<1> SUFFICES ASSUME TypeOK, [Next]_vars PROVE TypeOK'
  OBVIOUS
<1>1. /\ pool' \in Seq(Pools) /\ Len(pool') \in 1 .. MaxLag + 1
  <2>1. pool \in Seq(Pools) /\ Len(pool) \in 1 .. MaxLag + 1
    BY DEF TypeOK, Pools
  <2> QED
    BY <2>1, PoolStep, ViewStepType
<1>2. /\ used' \in Seq(Held) /\ Len(used') \in 1 .. MaxLag + 1
  <2>1. used \in Seq(Held) /\ Len(used) \in 1 .. MaxLag + 1
    BY DEF TypeOK, Held
  <2> QED
    BY <2>1, UsedStep, ViewStepType
<1>3. /\ Cached(pool) \in Pools /\ Stored(pool) \in Pools
      /\ Cached(used) \in Held /\ Stored(used) \in Held
  BY EndsOfView DEF TypeOK, Pools, Held
<1>4. WorkersOK
  BY DEF TypeOK, WorkersOK, Held
<1>5. WorkersOK'
  <2>1. CASE ReconcilePool \/ ListAddressesInUse
    BY <1>3, <1>4, <2>1 DEF WorkersOK, ReconcilePool, ListAddressesInUse, Pools,
       poolWorker, claimWorker
  <2>2. CASE PatchPool
    <3>1. queued' \in BOOLEAN
      BY <1>4, <2>2, Zenon DEF PatchPool, WorkersOK
    <3> QED
      BY <1>4, <2>2, <3>1 DEF WorkersOK, PatchPool, claimWorker
  <2>11. CASE PatchStatus
    <3>1. queued' \in BOOLEAN
      BY <1>4, <2>11, Zenon DEF PatchStatus, WorkersOK
    <3> QED
      BY <1>4, <2>11, <3>1 DEF WorkersOK, PatchStatus, Return, claimWorker
  <2>12. CASE WaitTimeout
    BY <1>4, <2>12, BoundsType DEF WorkersOK, WaitTimeout, EndClaim, poolWorker
  <2>7. CASE PoolRequestFails
    BY <1>4, <2>7, BoundsType DEF WorkersOK, PoolRequestFails, Return, claimWorker
  <2>8. CASE Restart
    BY <1>4, <2>8, BoundsType DEF WorkersOK, Restart, Return
  <2>9. CASE EnsureAddress \/ AddressSeen
    BY <1>4, <2>9 DEF WorkersOK, EnsureAddress, EndClaim, AddressSeen, poolWorker
  <2>10. CASE WatchPool \/ WatchAddresses
    BY <1>4, <2>10 DEF WorkersOK, WatchPool, WatchAddresses, poolWorker, claimWorker
  <2>3. ASSUME NEW c \in Claims,
               FetchPool(c) \/ ReleaseAddress(c) \/ CreateClaim(c) \/ DeleteClaim(c)
        PROVE  WorkersOK'
    <3>1. Cached(pool) # None => Cached(pool).spec \in Specs
      BY <1>3 DEF Pools, PoolObject
    <3>2. CASE FetchPool(c)
      <4>1. crossed' \in BOOLEAN
        BY <1>4, <3>2, Zenon DEF FetchPool, WorkersOK
      <4> QED
        BY <1>4, <3>1, <3>2, <4>1 DEF WorkersOK, FetchPool, poolWorker
    <3> QED
      BY <1>4, <2>3, <3>2, BoundsType DEF WorkersOK, ReleaseAddress, CreateClaim, DeleteClaim,
         Change, poolWorker, claimWorker
  <2>4. ASSUME NEW addrs \in Specs, RequestUpdate(addrs) \/ CreatePool(addrs)
        PROVE  WorkersOK'
    <3>1. Stored(pool) # None =>
             Stored(pool) \in PoolObject /\ [Stored(pool) EXCEPT !.spec = addrs] \in PoolObject
      BY <1>3, RequestedType DEF Pools
    <3>2. crossed' \in BOOLEAN
      <4>1. CASE RequestUpdate(addrs)
        BY <4>1, Zenon DEF RequestUpdate, Admit
      <4>2. CASE CreatePool(addrs)
        BY <4>2, Zenon DEF CreatePool
      <4> QED
        BY <2>4, <4>1, <4>2
    <3>3. CASE RequestUpdate(addrs)
      BY <1>4, <3>1, <3>2, <3>3, BoundsType DEF WorkersOK, RequestUpdate, Admit, Change,
         poolWorker, claimWorker
    <3>4. CASE CreatePool(addrs)
      BY <1>4, <3>2, <3>4, BoundsType DEF WorkersOK, CreatePool, Change, poolWorker, claimWorker
    <3> QED
      BY <2>4, <3>3, <3>4
  <2>5. ASSUME NEW skip \in BOOLEAN, RequestDelete(skip) PROVE WorkersOK'
    <3>1. Stored(pool) # None =>
             /\ Stored(pool) \in PoolObject
             /\ [Stored(pool) EXCEPT !.deleting = TRUE] \in PoolObject
      BY <1>3, RequestedType DEF Pools, PoolObject
    <3>2. crossed' \in BOOLEAN
      BY <2>5, Zenon DEF RequestDelete, Admit
    <3> QED
      BY <1>4, <2>5, <3>1, <3>2, BoundsType DEF WorkersOK, RequestDelete, Admit,
         Change, poolWorker, claimWorker
  <2>6. CASE Commit \/ UNCHANGED vars
    BY <1>4, <2>6 DEF WorkersOK, Commit, vars, poolWorker, claimWorker
  <2> QED
    BY <2>1, <2>2, <2>3, <2>4, <2>5, <2>6, <2>7, <2>8, <2>9, <2>10,
       <2>11, <2>12 DEF Next, Controllers, Users
<1> QED
  BY <1>1, <1>2, <1>5 DEF TypeOK, WorkersOK, Pools, Held

(* The initial states are typed.                                           *)
LEMMA TypeOKInit == Init => TypeOK
<1> SUFFICES ASSUME Init PROVE TypeOK
  OBVIOUS
<1>1. PICK addrs \in Specs : pool = <<NewPool(addrs)>>
  BY DEF Init
<1>2. NewPool(addrs) \in PoolObject
  BY DEF NewPool, PoolObject
<1>3. [c \in Claims |-> None] \in [Claims -> IPs \cup {None}]
  OBVIOUS
<1> QED
  <2>1. pool \in Seq(PoolObject \cup {None}) /\ Len(pool) = 1
    BY <1>1, <1>2
  <2>2. used \in Seq([Claims -> IPs \cup {None}]) /\ Len(used) = 1
    BY <1>3 DEF Init
  <2>3. /\ demand = {} /\ ppc = "idle" /\ cpc = "idle" /\ request = None /\ changes = 0
        /\ queued \in BOOLEAN /\ crossed \in BOOLEAN /\ blind \in BOOLEAN
    BY Zenon DEF Init
  <2> QED
    BY <2>1, <2>2, <2>3, BoundsType DEF TypeOK

(* Reconcile, the webhooks, the claim controller and the API server keep   *)
(* every state of PoolController well formed: in particular the counts of  *)
(* genericReconcile are numbers, and only free may be below zero.          *)
THEOREM PoolTypes == Spec => []TypeOK
BY TypeOKInit, TypeOKStep, PTL DEF Spec

-----------------------------------------------------------------------------
(* The status.                                                             *)

(* The types of what the workers read.                                     *)
LEMMA Ends ==
    ASSUME TypeOK
    PROVE  /\ pool \in Seq(Pools) /\ Len(pool) \in Nat /\ Len(pool) >= 1
           /\ DOMAIN pool = 1 .. Len(pool)
           /\ Cached(pool) \in Pools /\ Stored(pool) \in Pools
           /\ used \in Seq(Held) /\ Len(used) \in Nat /\ Len(used) >= 1
           /\ DOMAIN used = 1 .. Len(used)
           /\ Cached(used) \in Held /\ Stored(used) \in Held
<1>1. /\ pool \in Seq(Pools) /\ Len(pool) \in Nat /\ Len(pool) >= 1
      /\ used \in Seq(Held) /\ Len(used) \in Nat /\ Len(used) >= 1
  BY DEF TypeOK, Pools, Held
<1> QED
  BY <1>1, EndsOfView

(* What the pool worker sees is what it saw.                               *)
SameSight ==
    /\ UNCHANGED <<ppc, read, listed, queued>>
    /\ Cached(pool)' = Cached(pool) /\ Cached(used)' = Cached(used)
    /\ Len(pool') = 1 => Len(pool) = 1

(* A write does not show in the caches.                                    *)
LEMMA WriteUnseen ==
    ASSUME TypeOK
    PROVE  /\ \A obj \in Held : used' = Write(used, obj) => Cached(used)' = Cached(used)
           /\ \A obj \in Pools : pool' = Write(pool, obj) =>
                Cached(pool)' = Cached(pool) /\ (Len(pool') = 1 => Len(pool) = 1)
<1>1. ASSUME NEW obj \in Held, used' = Write(used, obj)
      PROVE  Cached(used)' = Cached(used)
  <2>1. Cached(Write(used, obj)) = Cached(used)
    BY Ends, WriteView
  <2> QED
    BY <1>1, <2>1 DEF Cached
<1>2. ASSUME NEW obj \in Pools, pool' = Write(pool, obj)
      PROVE  Cached(pool)' = Cached(pool) /\ (Len(pool') = 1 => Len(pool) = 1)
  <2>1. Cached(Write(pool, obj)) = Cached(pool)
    BY Ends, WriteView
  <2>2. Len(Write(pool, obj)) \in {Len(pool), Len(pool) + 1}
    BY Ends, WriteView
  <2>3. Cached(pool)' = Cached(pool)
    BY <1>2, <2>1 DEF Cached
  <2>4. Len(pool') = Len(pool) \/ Len(pool') = Len(pool) + 1
    BY <1>2, <2>2
  <2>5. Len(pool) \in Nat /\ Len(pool) >= 1
    BY Ends
  <2> QED
    BY <2>3, <2>4, <2>5
<1> QED
  BY <1>1, <1>2

(* The writes of the claim controller and of users do not show at once.    *)
LEMMA Unseen ==
    ASSUME TypeOK,
           \/ EnsureAddress \/ AddressSeen \/ WaitTimeout \/ Commit \/ UNCHANGED vars
           \/ \E c \in Claims :
                FetchPool(c) \/ ReleaseAddress(c) \/ CreateClaim(c) \/ DeleteClaim(c)
           \/ \E addrs \in Specs : RequestUpdate(addrs) \/ CreatePool(addrs)
           \/ \E skip \in BOOLEAN : RequestDelete(skip)
    PROVE  SameSight
<1>1. ASSUME NEW c \in Claims,
             FetchPool(c) \/ CreateClaim(c) \/ DeleteClaim(c)
      PROVE  SameSight
  BY <1>1 DEF SameSight, FetchPool, CreateClaim, DeleteClaim, poolWorker
<1>2. CASE \/ \E addrs \in Specs : RequestUpdate(addrs)
           \/ \E skip \in BOOLEAN : RequestDelete(skip)
  BY <1>2 DEF SameSight, RequestUpdate, RequestDelete, Admit, poolWorker
<1>3. CASE EnsureAddress
  <2>1. /\ UNCHANGED <<pool, ppc, read, listed, queued>>
        /\ UNCHANGED used \/ \E ip \in spec : used' = Write(used, [Stored(used) EXCEPT ![cur] = ip])
    BY <1>3 DEF EnsureAddress, poolWorker
  <2>2. \A ip \in spec : [Stored(used) EXCEPT ![cur] = ip] \in Held
    BY <1>3, Ends, PoolAssumption DEF EnsureAddress, TypeOK, Held
  <2> QED
    BY <2>1, <2>2, WriteUnseen DEF SameSight
<1>4. ASSUME NEW c \in Claims, ReleaseAddress(c) PROVE SameSight
  <2>1. [Stored(used) EXCEPT ![c] = None] \in Held
    BY Ends DEF Held
  <2> QED
    BY <1>4, <2>1, WriteUnseen DEF SameSight, ReleaseAddress, poolWorker
<1>5. ASSUME NEW addrs \in Specs, CreatePool(addrs) PROVE SameSight
  <2>1. NewPool(addrs) \in Pools
    BY DEF Pools, NewPool, PoolObject
  <2> QED
    BY <1>5, <2>1, WriteUnseen DEF SameSight, CreatePool, poolWorker
<1>6. CASE Commit
  <2>1. request.new \in PoolObject
    BY <1>6 DEF Commit, TypeOK
  <2>2. Settle(request.new) \in Pools
    BY <2>1 DEF Settle, Pools
  <2> QED
    BY <1>6, <2>2, WriteUnseen DEF SameSight, Commit, poolWorker
<1>7. CASE AddressSeen \/ WaitTimeout \/ UNCHANGED vars
  BY <1>7 DEF SameSight, AddressSeen, WaitTimeout, vars, poolWorker
<1> QED
  BY <1>1, <1>2, <1>3, <1>4, <1>5, <1>6, <1>7

(* What the pool worker read and listed stays what the caches show, while  *)
(* its patches do not show in them.                                        *)
LEMMA PatchUnseen ==
    ASSUME TypeOK, CountInv, PatchPool \/ PatchStatus, ~queued'
    PROVE  /\ ~queued /\ read = Cached(pool) /\ listed = Cached(used)
           /\ Cached(pool)' = Cached(pool) /\ Cached(used)' = Cached(used)
           /\ Len(pool') = 1 =>
                Len(pool) = 1 /\ Stored(pool) = read /\ Stored(pool) # None
<1>1. ~queued /\ ppc \in {"patch", "status"} /\ UNCHANGED used
  BY Zenon DEF PatchPool, PatchStatus
<1>2. read = Cached(pool) /\ listed = Cached(used)
  BY <1>1 DEF CountInv
<1>3. pool' = pool \/ \E obj \in Pools : pool' = Write(pool, obj)
  BY PatchStep, StatusStep DEF Pools
<1>4. Cached(pool)' = Cached(pool) /\ (Len(pool') = 1 => Len(pool) = 1)
  BY <1>3, WriteUnseen
<1>5. Cached(used)' = Cached(used)
  BY <1>1 DEF Cached
<1>6. Len(pool) = 1 => Stored(pool) = Cached(pool)
  BY DEF Stored, Cached
<1>7. read # None
  BY PatchStep, StatusStep, PoolAssumption
<1> QED
  BY <1>1, <1>2, <1>4, <1>5, <1>6, <1>7

(* A write that leaves one state in the view wrote what was there.         *)
LEMMA NothingWritten ==
    ASSUME TypeOK, NEW obj \in Pools, pool' = Write(pool, obj), Len(pool') = 1
    PROVE  obj = Stored(pool)
<1>1. /\ Len(Write(pool, obj)) \in {Len(pool), Len(pool) + 1}
      /\ Len(Write(pool, obj)) = Len(pool) => Stored(pool) = obj
  BY Ends, WriteView
<1> QED
  BY <1>1, Ends

(* A patch of the finalizer that is not followed by another request        *)
(* changed the pool, or found the finalizer as it should be.               *)
LEMMA PatchCounts ==
    ASSUME TypeOK, CountInv, PatchPool, ~queued', Len(pool') = 1
    PROVE  Reconciled(read, listed).fin = read.fin
<1>1. /\ Stored(pool) = read /\ Stored(pool) # None
  BY PatchUnseen
<1>2. Reconciled(read, listed).fin = Keeps
  BY PatchStep, ReconciledType DEF Keeps
<1>3. ~(Keeps # read.fin /\ ~(Stored(pool) # None /\ ValidateUpdate(Stored(pool).spec)))
  <2>1. ~(Reconciled(read, listed).fin # read.fin
            /\ ~(Stored(pool) # None /\ ValidateUpdate(Stored(pool).spec)))
    BY Zenon DEF PatchPool
  <2> QED
    BY <1>2, <2>1
<1>4. read.fin = Keeps
  <2> SUFFICES ASSUME read.fin # Keeps PROVE FALSE
    OBVIOUS
  <2>1. PICK obj \in Pools : /\ pool' = Write(pool, obj)
                             /\ obj = None \/ obj.fin = Keeps
    BY <1>1, <1>3, PatchStep
  <2>2. obj = Stored(pool)
    BY <2>1, NothingWritten
  <2> QED
    BY <1>1, <2>1, <2>2
<1> QED
  BY <1>2, <1>4

(* A patch of the status that is not followed by another request changed   *)
(* the pool, or found it counted.                                          *)
LEMMA StatusCounts ==
    ASSUME TypeOK, CountInv, PatchStatus, ~queued', Len(pool') = 1, ~Cached(pool)'.deleting
    PROVE  /\ Cached(pool)'.fin
           /\ Cached(pool)'.status = StatusOf(Cached(pool)'.spec, Cached(used)')
<1> DEFINE new == StatusOf(read.spec, listed)
<1>1. /\ read = Cached(pool) /\ listed = Cached(used) /\ ~queued
      /\ Cached(pool)' = Cached(pool) /\ Cached(used)' = Cached(used)
      /\ Len(pool) = 1 /\ Stored(pool) = read /\ Stored(pool) # None
  BY PatchUnseen
<1>2. /\ read \in PoolObject /\ listed \in Held /\ ~read.deleting /\ ppc = "status"
  BY <1>1, StatusStep DEF PatchStatus
<1>3. /\ Reconciled(read, listed).fin = TRUE /\ Reconciled(read, listed).status = new
  BY <1>2, ReconciledType
<1>4. read.fin
  BY <1>1, <1>2, <1>3 DEF CountInv
<1>5. read.status \in StatusObject \cup {None} /\ new \in StatusObject
  BY <1>2, StatusType DEF PoolObject
<1> HIDE DEF new
<1>6. ~(new # read.status
          /\ ~(Stored(pool) # None /\ ~Incomplete(new, read.status, Stored(pool).status)))
  <2>1. ~(Reconciled(read, listed).status # read.status
            /\ ~(Stored(pool) # None /\ ~Incomplete(Reconciled(read, listed).status, read.status,
                                                    Stored(pool).status)))
    BY Zenon DEF PatchStatus
  <2> QED
    BY <1>3, <2>1
<1>7. new = read.status
  <2> SUFFICES ASSUME new # read.status PROVE FALSE
    OBVIOUS
  <2>1. pool' = Write(pool, [Stored(pool) EXCEPT
                  !.status = PatchedStatus(new, read.status, Stored(pool).status)])
    BY <1>3, <1>6 DEF PatchStatus
  <2>2. PatchedStatus(new, read.status, Stored(pool).status) = new
    BY <1>1, <1>5, StatusPatched
  <2>3. PICK obj : obj = [Stored(pool) EXCEPT !.status = new]
    OBVIOUS
  <2>4. obj \in Pools /\ obj.status = new
    BY <1>1, <1>2, <1>5, <2>3 DEF PoolObject, Pools
  <2>5. obj = Stored(pool)
    BY <2>1, <2>2, <2>3, <2>4, NothingWritten
  <2> QED
    BY <1>1, <2>4, <2>5
<1>8. Cached(pool)' = read /\ Cached(used)' = listed
  BY <1>1
<1> QED
  BY <1>4, <1>7, <1>8 DEF new

(* Every step keeps CountInv.                                              *)
LEMMA CountInvStep == TypeOK /\ CountInv /\ [Next]_vars => CountInv'
<1> SUFFICES ASSUME TypeOK, CountInv, [Next]_vars, ~queued' PROVE CountInv'
  BY DEF CountInv
<1>1. CASE SameSight
  BY <1>1 DEF SameSight, CountInv
<1>2. CASE ReconcilePool
  BY <1>2 DEF ReconcilePool, CountInv, poolWorker
<1>3. CASE ListAddressesInUse
  BY <1>3 DEF ListAddressesInUse, CountInv
<1>4. CASE PatchPool
  <2>1. ppc' = "status" /\ UNCHANGED <<read, listed>>
    BY <1>4 DEF PatchPool
  <2>2. read = Cached(pool)' /\ listed = Cached(used)'
    BY <1>4, PatchUnseen
  <2>3. Len(pool') = 1 => Reconciled(read, listed).fin = read.fin
    BY <1>4, PatchCounts
  <2>4. Reconciled(read, listed)' = Reconciled(read, listed)
    BY <2>1 DEF Reconciled, StatusOf, InUse, IPsOf
  <2> QED
    BY <2>1, <2>2, <2>3, <2>4 DEF CountInv
<1>6. CASE PatchStatus
  <2>1. ppc' = "idle"
    BY <1>6 DEF PatchStatus, Return
  <2> QED
    BY <1>6, <2>1, StatusCounts DEF CountInv
<1>5. ~(WatchPool \/ WatchAddresses \/ PoolRequestFails \/ Restart)
  BY DEF WatchPool, WatchAddresses, PoolRequestFails, Restart
<1> QED
  BY <1>1, <1>2, <1>3, <1>4, <1>5, <1>6, Unseen DEF Next, Controllers, Users

(* No update is lost: when the caches show what is stored and the pool     *)
(* worker has nothing to do, genericReconcile has counted what is stored,  *)
(* however its reads, patches and failures fell between the writes of      *)
(* others.                                                                 *)
THEOREM StatusSettles == Spec => []QuietIsCounted
<1>1. Init => CountInv
  BY Zenon DEF Init, CountInv
<1>2. TypeOK /\ CountInv => QuietIsCounted
  BY Ends DEF CountInv, QuietIsCounted, Quiet, Counted, Stored, Cached
<1> QED
  BY <1>1, <1>2, CountInvStep, PoolTypes, PTL DEF Spec

-----------------------------------------------------------------------------
(* What is free.                                                           *)

(* The view of the addresses after a write.                                *)
LEMMA UsedWritten ==
    ASSUME TypeOK, NEW obj \in Held, used' = Write(used, obj)
    PROVE  /\ Stored(used)' = obj
           /\ \A i \in DOMAIN used' :
                \/ i \in DOMAIN used /\ used'[i] = used[i]
                \/ i = Len(used) + 1 /\ used'[i] = obj
<1>1. /\ Stored(Write(used, obj)) = obj
      /\ \A i \in DOMAIN used : Write(used, obj)[i] = used[i]
      /\ \A i \in DOMAIN Write(used, obj) :
           i \notin DOMAIN used => i = Len(used) + 1 /\ Write(used, obj)[i] = obj
  BY Ends, WriteView
<1>2. Stored(used)' = Stored(Write(used, obj))
  BY DEF Stored
<1> QED
  BY <1>1, <1>2

(* The addresses of a view are of their type.                              *)
LEMMA UsedTypes ==
    ASSUME TypeOK
    PROVE  /\ \A i \in DOMAIN used : used[i] \in Held
           /\ used[1] = Cached(used) /\ used[Len(used)] = Stored(used)
           /\ 1 \in DOMAIN used /\ Len(used) \in DOMAIN used
           /\ \A i \in DOMAIN used : i \in Nat /\ 1 <= i /\ i <= Len(used)
BY Ends DEF Cached, Stored

(* Nothing new is in the view unless the claim worker waits for it.        *)
LEMMA NothingNew ==
    ASSUME TypeOK, HeldInv, ~blind, cpc # "wait", NEW i \in DOMAIN used, NEW c \in Claims
    PROVE  /\ used[i][c] = None => Stored(used)[c] = None
           /\ used[i][c] # None /\ Stored(used)[c] # None => used[i][c] = Stored(used)[c]
<1>1. i = Len(used) \/ i < Len(used)
  BY UsedTypes, Ends
<1> QED
  BY <1>1, UsedTypes DEF HeldInv

(* An address is given to a claim that has none, and nobody has it.        *)
LEMMA HeldEnsure ==
    ASSUME TypeOK, HeldInv, ~blind, EnsureAddress
    PROVE  HeldInv'
<1>1. cpc = "create" /\ cur \in Claims /\ spec \subseteq IPs
  BY PoolAssumption DEF EnsureAddress, TypeOK
<1>2. CASE UNCHANGED used /\ cpc' = "idle"
  BY <1>1, <1>2 DEF HeldInv
<1>3. CASE /\ cpc' = "wait" /\ UNCHANGED cur
           /\ \E ip \in spec \ IPsOf(Cached(used)) :
                used' = Write(used, [Stored(used) EXCEPT ![cur] = ip])
  <2>1. PICK ip \in spec \ IPsOf(Cached(used)) :
           used' = Write(used, [Stored(used) EXCEPT ![cur] = ip])
    BY <1>3
  <2>2. PICK obj \in Held :
           /\ used' = Write(used, obj)
           /\ obj[cur] = ip /\ \A d \in Claims : d # cur => obj[d] = Stored(used)[d]
    <3>1. [Stored(used) EXCEPT ![cur] = ip] \in Held
      BY <1>1, Ends DEF Held
    <3> QED
      BY <1>1, <2>1, <3>1, Ends DEF Held
  <2>3. /\ Stored(used)' = obj
        /\ \A i \in DOMAIN used' :
             \/ i \in DOMAIN used /\ used'[i] = used[i]
             \/ i = Len(used) + 1 /\ used'[i] = obj
    BY <2>2, UsedWritten
  <2>4. ip # None /\ ip \in IPs
    BY <1>1, <2>1, PoolAssumption
  <2>5. \A d \in Claims : d # cur => obj[d] # ip
    <3> SUFFICES ASSUME NEW d \in Claims, d # cur, Stored(used)[d] = ip PROVE FALSE
      BY <2>2
    <3>1. Cached(used)[d] # None /\ Cached(used)[d] = ip
      BY <1>1, <2>4, NothingNew, UsedTypes
    <3> QED
      BY <2>1, <3>1 DEF IPsOf, InUse
  <2>6. \A c, d \in Claims : c # d /\ obj[c] = obj[d] => obj[c] = None
    BY <2>2, <2>5 DEF HeldInv
  <2>7. ASSUME NEW i \in DOMAIN used', NEW j \in DOMAIN used', i < j, NEW c \in Claims
        PROVE  /\ used'[i][c] = None /\ used'[j][c] # None => c = cur
               /\ used'[i][c] # None /\ used'[j][c] # None => used'[i][c] = used'[j][c]
               /\ c = cur /\ used'[i][c] # None => used'[j][c] # None
    <3>1. i \in DOMAIN used /\ used'[i] = used[i]
      BY <2>3, <2>7, Ends
    <3>2. used[i][cur] = None
      BY <1>1, <3>1 DEF HeldInv
    <3>3. CASE j \in DOMAIN used /\ used'[j] = used[j]
      BY <1>1, <2>7, <3>1, <3>2, <3>3 DEF HeldInv
    <3>4. CASE j = Len(used) + 1 /\ used'[j] = obj
      BY <1>1, <2>2, <3>1, <3>2, <3>4, NothingNew
    <3> QED
      BY <2>3, <3>3, <3>4
  <2>8. cpc' = "wait" /\ cur' = cur
    BY <1>3
  <2>9. \A c, d \in Claims : c # d /\ Stored(used)'[c] = Stored(used)'[d] => Stored(used)'[c] = None
    BY <2>3, <2>6
  <2> QED
    BY ONLY <2>7, <2>8, <2>9 DEF HeldInv
<1> QED
  BY <1>2, <1>3 DEF EnsureAddress, EndClaim

(* An address is removed.                                                  *)
LEMMA HeldRelease ==
    ASSUME TypeOK, HeldInv, ~blind, NEW c \in Claims, ReleaseAddress(c)
    PROVE  HeldInv'
<1>1. PICK obj \in Held :
         /\ used' = Write(used, obj)
         /\ obj[c] = None /\ \A d \in Claims : d # c => obj[d] = Stored(used)[d]
  <2>1. [Stored(used) EXCEPT ![c] = None] \in Held
    BY Ends DEF Held
  <2> QED
    BY <2>1, Ends DEF ReleaseAddress, Held
<1>2. /\ Stored(used)' = obj
      /\ \A i \in DOMAIN used' :
           \/ i \in DOMAIN used /\ used'[i] = used[i]
           \/ i = Len(used) + 1 /\ used'[i] = obj
  BY <1>1, UsedWritten
<1>3. cpc = "idle" /\ cpc' = "idle"
  BY DEF ReleaseAddress, claimWorker
<1>4. \A b, d \in Claims : b # d /\ obj[b] = obj[d] => obj[b] = None
  BY <1>1 DEF HeldInv
<1>5. ASSUME NEW i \in DOMAIN used', NEW j \in DOMAIN used', i < j, NEW d \in Claims
      PROVE  /\ ~(used'[i][d] = None /\ used'[j][d] # None)
             /\ used'[i][d] # None /\ used'[j][d] # None => used'[i][d] = used'[j][d]
  <2>1. i \in DOMAIN used /\ used'[i] = used[i]
    BY <1>2, <1>5, Ends
  <2>2. CASE j \in DOMAIN used /\ used'[j] = used[j]
    BY <1>3, <1>5, <2>1, <2>2 DEF HeldInv
  <2>3. CASE j = Len(used) + 1 /\ used'[j] = obj
    BY <1>1, <1>3, <2>1, <2>3, NothingNew
  <2> QED
    BY <1>2, <2>2, <2>3
<1> QED
  BY <1>2, <1>3, <1>4, <1>5 DEF HeldInv

(* Every step keeps HeldInv.                                               *)
LEMMA HeldInvStep == TypeOK /\ HeldInv /\ [Next]_vars => HeldInv'
<1> SUFFICES ASSUME TypeOK, HeldInv, [Next]_vars, ~blind' PROVE HeldInv'
  BY DEF HeldInv
<1>6. ~blind /\ ~WaitTimeout
  <2>1. ~WaitTimeout
    BY DEF WaitTimeout
  <2>2. \A c \in Claims :
          FetchPool(c) \/ ReleaseAddress(c) \/ CreateClaim(c) \/ DeleteClaim(c) => ~blind
    BY DEF FetchPool, ReleaseAddress, CreateClaim, DeleteClaim
  <2>3. /\ \A addrs \in Specs : RequestUpdate(addrs) \/ CreatePool(addrs) => ~blind
        /\ \A skip \in BOOLEAN : RequestDelete(skip) => ~blind
    BY DEF RequestUpdate, RequestDelete, Admit, CreatePool
  <2>4. ReconcilePool \/ ListAddressesInUse \/ PatchPool \/ PatchStatus \/ PoolRequestFails => ~blind
    BY DEF ReconcilePool, ListAddressesInUse, PatchPool, PatchStatus, PoolRequestFails
  <2>5. \/ EnsureAddress \/ AddressSeen \/ Commit \/ WatchPool \/ WatchAddresses \/ Restart
        \/ UNCHANGED vars
        => ~blind
    BY DEF EnsureAddress, AddressSeen, Commit, WatchPool, WatchAddresses, Restart, vars
  <2> QED
    BY <2>1, <2>2, <2>3, <2>4, <2>5 DEF Next, Controllers, Users
<1>1. CASE UNCHANGED <<used, cpc, cur>>
  BY <1>1, <1>6 DEF HeldInv
<1>2. ASSUME NEW c \in Claims, FetchPool(c) PROVE HeldInv'
  <2>1. cpc = "idle" /\ cpc' = "create" /\ cur' = c /\ UNCHANGED used /\ Cached(used)[c] = None
    BY <1>2 DEF FetchPool
  <2>2. \A i \in DOMAIN used : used[i][c] = None
    <3> SUFFICES ASSUME NEW i \in DOMAIN used PROVE used[i][c] = None
      OBVIOUS
    <3>1. i = 1 \/ 1 < i
      BY UsedTypes
    <3> QED
      BY <1>6, <2>1, <3>1, UsedTypes DEF HeldInv
  <2> QED
    BY <1>6, <2>1, <2>2 DEF HeldInv
<1>3. CASE AddressSeen
  <2>1. /\ cpc = "wait" /\ cpc' = "idle" /\ UNCHANGED used /\ cur \in Claims
        /\ used[1][cur] # None
    BY <1>3, UsedTypes DEF AddressSeen, EndClaim, TypeOK
  <2>2. ASSUME NEW i \in DOMAIN used PROVE used[i][cur] # None
    <3>1. i = 1 \/ 1 < i
      BY UsedTypes
    <3> QED
      BY <1>6, <2>1, <3>1, UsedTypes DEF HeldInv
  <2> QED
    BY <1>6, <2>1, <2>2 DEF HeldInv
<1>4. CASE Restart
  <2>1. used' = <<Stored(used)>> /\ cpc' = "idle"
    BY <1>4 DEF Restart
  <2>2. DOMAIN used' = {1} /\ Stored(used)' = Stored(used)
    BY <2>1 DEF Stored
  <2> QED
    BY <1>6, <2>1, <2>2 DEF HeldInv
<1>5. CASE WatchAddresses
  <2>1. Len(used) > 1 /\ used' = Tail(used) /\ UNCHANGED <<cpc, cur>>
    BY <1>5 DEF WatchAddresses, claimWorker
  <2>2. /\ Stored(Tail(used)) = Stored(used)
        /\ DOMAIN Tail(used) = 1 .. Len(used) - 1
        /\ \A i \in DOMAIN Tail(used) : i + 1 \in DOMAIN used /\ Tail(used)[i] = used[i + 1]
    BY <2>1, TailView, Ends
  <2>3. /\ Stored(used)' = Stored(used)
        /\ \A i \in DOMAIN used' : i \in Nat /\ i + 1 \in DOMAIN used /\ used'[i] = used[i + 1]
    BY <2>1, <2>2, Ends DEF Stored
  <2>4. \A i, j \in DOMAIN used' : i < j => i + 1 < j + 1
    BY <2>3
  <2>5. ASSUME NEW i \in DOMAIN used', NEW j \in DOMAIN used', i < j, NEW c \in Claims
        PROVE  /\ used'[i][c] = None /\ used'[j][c] # None => cpc' = "wait" /\ cur' = c
               /\ used'[i][c] # None /\ used'[j][c] # None => used'[i][c] = used'[j][c]
               /\ cpc' = "wait" /\ cur' = c /\ used'[i][c] # None => used'[j][c] # None
    BY <1>6, <2>1, <2>3, <2>4, <2>5 DEF HeldInv
  <2>6. ASSUME cpc' = "create", NEW i \in DOMAIN used' PROVE used'[i][cur'] = None
    BY <1>6, <2>1, <2>3, <2>6 DEF HeldInv
  <2> QED
    BY <1>6, <2>3, <2>5, <2>6 DEF HeldInv
<1> QED
  BY <1>1, <1>2, <1>3, <1>4, <1>5, <1>6, HeldEnsure, HeldRelease DEF Next, Controllers, Users, vars,
     claimWorker, ReconcilePool, ListAddressesInUse, PatchPool, PatchStatus, CreateClaim, DeleteClaim,
     RequestUpdate, RequestDelete, Admit, CreatePool, Commit, WatchPool, PoolRequestFails

(* Claims that hold different addresses are as many as their addresses.    *)
LEMMA CountHeld ==
    ASSUME NEW held \in Held, NEW S \in SUBSET InUse(held),
           \A c, d \in Claims : c # d /\ held[c] = held[d] => held[c] = None
    PROVE  Cardinality({held[c] : c \in S}) = Cardinality(S)
<1> DEFINE T == {held[c] : c \in S}
           f == [c \in S |-> held[c]]
<1>1. S \subseteq Claims /\ \A c \in S : held[c] # None
  BY DEF InUse
<1>2. IsFiniteSet(S)
  BY InUseFinite, FS_Subset
<1>3. f \in Injection(S, T)
  BY <1>1 DEF Injection, IsInjective
<1>4. f \in Surjection(S, T)
  BY DEF Surjection
<1>5. f \in Bijection(S, T)
  BY <1>3, <1>4 DEF Bijection
<1> QED
  BY <1>2, <1>5, FS_Bijection DEF ExistsBijection

(* What genericPrefixReconcile counts as free, of prefixes nobody shares.  *)
LEMMA FreeCounted ==
    ASSUME Kind = "prefix", NEW addrs \in Specs, NEW held \in Held,
           \A c, d \in Claims : c # d /\ held[c] = held[d] => held[c] = None
    PROVE  StatusOf(addrs, held).free = Cardinality(addrs \ IPsOf(held))
<1> DEFINE outObjects == {c \in InUse(held) : held[c] \notin addrs}
           A == Cardinality(addrs)
           U == Cardinality(InUse(held))
           O == Cardinality(IPsOf(held) \ addrs)
           F == Cardinality(addrs \ IPsOf(held))
           I == Cardinality(addrs \cap IPsOf(held))
<1>1. IsFiniteSet(addrs)
  BY FS_Subset, PoolAssumption
<1>2. IsFiniteSet(IPsOf(held))
  BY InUseFinite
<1>3. IsFiniteSet(addrs \ IPsOf(held)) /\ F = A - I
  BY <1>1, FS_Difference
<1>4. IsFiniteSet(IPsOf(held) \ addrs) /\ O = Cardinality(IPsOf(held)) - Cardinality(IPsOf(held) \cap addrs)
  BY <1>2, FS_Difference
<1>5. IPsOf(held) \cap addrs = addrs \cap IPsOf(held)
  OBVIOUS
<1>6. Cardinality(IPsOf(held)) = U
  BY CountHeld DEF IPsOf
<1>7. Cardinality(outObjects) = O
  <2>1. outObjects \in SUBSET InUse(held)
    OBVIOUS
  <2>2. {held[c] : c \in outObjects} = IPsOf(held) \ addrs
    BY DEF IPsOf
  <2> QED
    BY <2>1, <2>2, CountHeld
<1>8. IsFiniteSet(addrs \cap IPsOf(held))
  BY <1>1, FS_Intersection
<1>9. A \in Nat /\ O \in Nat /\ F \in Nat /\ I \in Nat /\ U \in Nat
  BY <1>1, <1>2, <1>3, <1>4, <1>6, <1>8, FS_CardinalityType
<1>10. O = U - I
  BY <1>4, <1>5, <1>6
<1> HIDE DEF A, U, O, F, I
<1>11. StatusOf(addrs, held).free = IF A - U + O < 0 THEN 0 ELSE A - U + O
  BY <1>7 DEF StatusOf, A, U
<1>12. A - U + O = F
  BY <1>3, <1>9, <1>10
<1>13. StatusOf(addrs, held).free = F
  BY <1>9, <1>11, <1>12
<1> QED
  BY <1>13 DEF F

(* genericPrefixReconcile: once it has settled, the status of a prefix     *)
(* pool counts as free the prefixes nobody has, those in use out of range  *)
(* notwithstanding, as long as no wait of the claim controller timed out.  *)
THEOREM PrefixFreeSettles == ASSUME Kind = "prefix" PROVE Spec => []FreeUnlessBlind
<1>1. Init => CountInv
  BY Zenon DEF Init, CountInv
<1>2. Init => HeldInv
  <2> SUFFICES ASSUME Init PROVE HeldInv
    OBVIOUS
  <2>1. used = << [c \in Claims |-> None] >> /\ cpc = "idle"
    BY DEF Init
  <2>2. DOMAIN used = {1} /\ Stored(used) = [c \in Claims |-> None]
    BY <2>1 DEF Stored
  <2> QED
    BY <2>1, <2>2 DEF HeldInv
<1>3. TypeOK /\ CountInv /\ HeldInv => FreeUnlessBlind
  <2> SUFFICES ASSUME TypeOK, CountInv, HeldInv, ~blind, Quiet, Stored(pool) # None,
                      ~Stored(pool).deleting
               PROVE  Stored(pool).status.free =
                        Cardinality(Stored(pool).spec \ IPsOf(Stored(used)))
    BY DEF FreeUnlessBlind, FreeIsUnallocated
  <2>1. Stored(pool) = Cached(pool) /\ Stored(used) = Cached(used)
    BY DEF Quiet, Stored, Cached
  <2>2. Stored(pool).status = StatusOf(Stored(pool).spec, Stored(used))
    BY <2>1 DEF Quiet, CountInv
  <2>3. Stored(pool).spec \in Specs /\ Stored(used) \in Held
    BY Ends DEF Pools, PoolObject
  <2>4. \A c, d \in Claims : c # d /\ Stored(used)[c] = Stored(used)[d] => Stored(used)[c] = None
    BY DEF HeldInv
  <2> QED
    BY <2>2, <2>3, <2>4, FreeCounted
<1> QED
  BY <1>1, <1>2, <1>3, CountInvStep, HeldInvStep, PoolTypes, PTL DEF Spec

-----------------------------------------------------------------------------
(* The deletion of the pool.                                               *)

(* The view of the pool after a write.                                     *)
LEMMA PoolWritten ==
    ASSUME TypeOK, NEW obj \in Pools, pool' = Write(pool, obj)
    PROVE  /\ Stored(pool)' = obj /\ Cached(pool)' = Cached(pool)
           /\ \A i \in DOMAIN pool' :
                \/ i \in DOMAIN pool /\ pool'[i] = pool[i]
                \/ i = Len(pool) + 1 /\ pool'[i] = obj
<1>1. /\ Stored(Write(pool, obj)) = obj
      /\ \A i \in DOMAIN pool : Write(pool, obj)[i] = pool[i]
      /\ \A i \in DOMAIN Write(pool, obj) :
           i \notin DOMAIN pool => i = Len(pool) + 1 /\ Write(pool, obj)[i] = obj
  BY Ends, WriteView
<1>2. Stored(pool)' = Stored(Write(pool, obj))
  BY DEF Stored
<1>3. Cached(pool)' = Cached(pool)
  BY WriteUnseen
<1> QED
  BY <1>1, <1>2, <1>3

(* The pools of a view are of their type.                                  *)
LEMMA PoolViewTypes ==
    ASSUME TypeOK
    PROVE  /\ \A i \in DOMAIN pool : pool[i] \in Pools
           /\ pool[1] = Cached(pool) /\ pool[Len(pool)] = Stored(pool)
           /\ 1 \in DOMAIN pool /\ Len(pool) \in DOMAIN pool
           /\ \A i \in DOMAIN pool : i \in Nat /\ 1 <= i /\ i <= Len(pool)
BY Ends DEF Cached, Stored

Guarded == \A i \in DOMAIN pool : Deleting(pool[i]) => pool[i].fin

Seen == IF Deleting(Cached(pool)) THEN Ended ELSE Lasting

Decided ==
    ppc # "idle" =>
        /\ read.deleting => read.fin /\ Ended
        /\ ~read.fin => Lasting

Asked ==
    request # None =>
        /\ request.new.fin = request.old.fin
        /\ request.old.deleting => request.new.deleting

(* DeletionInv by its parts.                                               *)
LEMMA DeletionParts == DeletionInv <=> Guarded /\ Seen /\ Decided /\ Asked
BY DEF DeletionInv, Guarded, Seen, Decided, Asked

(* What is at the end of the view follows what is in it.                   *)
LEMMA EndFollows ==
    ASSUME TypeOK, NEW i \in DOMAIN pool
    PROVE  /\ Lasting /\ Deleting(pool[i]) => Deleting(Stored(pool))
           /\ Ended /\ Deleting(Stored(pool)) => Deleting(pool[i])
<1>1. i = Len(pool) \/ i < Len(pool)
  BY PoolViewTypes, Ends
<1> QED
  BY <1>1, PoolViewTypes DEF Lasting, Ended

(* What a write has to be, to keep the parts.                              *)
LEMMA WriteParts ==
    ASSUME TypeOK, NEW obj \in Pools, pool' = Write(pool, obj)
    PROVE  /\ Guarded /\ (Deleting(obj) => obj.fin) => Guarded'
           /\ Lasting /\ (Deleting(Stored(pool)) => Deleting(obj)) => Lasting'
           /\ /\ Ended /\ (Deleting(obj) => Deleting(Stored(pool)))
              /\ obj = None \/ obj.deleting \/ ~obj.fin
              => Ended'
<1>1. \A i \in DOMAIN pool' :
         \/ i \in DOMAIN pool /\ pool'[i] = pool[i]
         \/ i = Len(pool) + 1 /\ pool'[i] = obj
  BY PoolWritten
<1>2. \A i, j \in DOMAIN pool' : i < j => i \in DOMAIN pool /\ pool'[i] = pool[i]
  BY <1>1, Ends
<1>3. ASSUME Guarded, Deleting(obj) => obj.fin PROVE Guarded'
  BY <1>1, <1>3 DEF Guarded
<1>4. ASSUME Lasting, Deleting(Stored(pool)) => Deleting(obj) PROVE Lasting'
  <2> SUFFICES ASSUME NEW i \in DOMAIN pool', NEW j \in DOMAIN pool', i < j, Deleting(pool'[i])
               PROVE  Deleting(pool'[j])
    BY DEF Lasting, Deleting
  <2>1. i \in DOMAIN pool /\ pool'[i] = pool[i]
    BY <1>2
  <2>2. CASE j \in DOMAIN pool /\ pool'[j] = pool[j]
    BY <1>4, <2>1, <2>2 DEF Lasting
  <2>3. CASE pool'[j] = obj
    BY <1>4, <2>1, <2>3, EndFollows
  <2> QED
    BY <1>1, <2>2, <2>3
<1>5. ASSUME Ended, Deleting(obj) => Deleting(Stored(pool)),
             obj = None \/ obj.deleting \/ ~obj.fin
      PROVE  Ended'
  <2>1. ASSUME NEW i \in DOMAIN pool'
        PROVE  pool'[i] = None \/ pool'[i].deleting \/ ~pool'[i].fin
    BY <1>1, <1>5 DEF Ended
  <2>2. ASSUME NEW i \in DOMAIN pool', NEW j \in DOMAIN pool', i < j, Deleting(pool'[j])
        PROVE  Deleting(pool'[i])
    <3>1. i \in DOMAIN pool /\ pool'[i] = pool[i]
      BY <1>2, <2>2
    <3>2. CASE j \in DOMAIN pool /\ pool'[j] = pool[j]
      BY <1>5, <2>2, <3>1, <3>2 DEF Ended
    <3>3. CASE pool'[j] = obj
      BY <1>5, <2>2, <3>1, <3>3, EndFollows
    <3> QED
      BY <1>1, <3>2, <3>3
  <2> QED
    BY <2>1, <2>2 DEF Ended, Deleting
<1> QED
  BY <1>3, <1>4, <1>5

(* The parts after a write that a worker does not decide.                  *)
LEMMA WriteKeepsParts ==
    ASSUME TypeOK, Guarded, Seen, Decided, NEW obj \in Pools, pool' = Write(pool, obj),
           UNCHANGED poolWorker,
           Deleting(obj) => obj.fin,
           Deleting(Stored(pool)) => Deleting(obj),
           Ended => /\ Deleting(obj) => Deleting(Stored(pool))
                    /\ obj = None \/ obj.deleting \/ ~obj.fin
    PROVE  Guarded' /\ Seen' /\ Decided'
<1>1. Guarded' /\ (Lasting => Lasting') /\ (Ended => Ended')
  BY WriteParts
<1>2. Cached(pool)' = Cached(pool)
  BY PoolWritten
<1>3. Deleting(Cached(pool))' = Deleting(Cached(pool))
  BY <1>2 DEF Deleting
<1>4. UNCHANGED <<ppc, read>>
  BY DEF poolWorker
<1> QED
  BY <1>1, <1>3, <1>4 DEF Seen, Decided

(* A change is stored.                                                     *)
LEMMA CommitParts ==
    ASSUME TypeOK, DeletionInv, Commit
    PROVE  Guarded' /\ Seen' /\ Decided'
<1>1. /\ request.old \in PoolObject /\ request.new \in PoolObject /\ UNCHANGED poolWorker
      /\ request # None
  BY DEF TypeOK, Commit
<1>2. CASE pool' = pool
  BY <1>1, <1>2, DeletionParts DEF Guarded, Seen, Decided, Ended, Lasting, poolWorker, Cached
<1>3. CASE Stored(pool) = request.old /\ pool' = Write(pool, Settle(request.new))
  <2> DEFINE obj == Settle(request.new)
  <2>1. /\ request.new.fin = request.old.fin
        /\ request.old.deleting => request.new.deleting
    BY <1>1, DeletionParts DEF Asked
  <2>2. request.old # None /\ request.new # None
    BY <1>1, PoolAssumption
  <2>3. \/ obj = None /\ request.new.deleting /\ ~request.new.fin
        \/ obj = request.new /\ (request.new.deleting => request.new.fin)
    BY DEF Settle
  <2>4. obj \in Pools
    BY <1>1 DEF Settle, Pools
  <2>5. Deleting(Stored(pool)) => request.old.fin
    BY <1>3, DeletionParts, PoolViewTypes DEF Guarded
  <2>6. Ended => request.old.deleting \/ ~request.old.fin
    BY <1>3, <2>2, PoolViewTypes DEF Ended
  <2> HIDE DEF obj
  <2>7. Deleting(obj) => obj.fin
    BY <2>3 DEF Deleting
  <2>8. Deleting(Stored(pool)) => Deleting(obj)
    BY <1>3, <2>1, <2>2, <2>3, <2>5 DEF Deleting
  <2>9. Ended => /\ Deleting(obj) => Deleting(Stored(pool))
                 /\ obj = None \/ obj.deleting \/ ~obj.fin
    BY <1>3, <2>1, <2>2, <2>3, <2>6 DEF Deleting
  <2> QED
    BY <1>1, <1>3, <2>4, <2>7, <2>8, <2>9, DeletionParts, WriteKeepsParts DEF obj
<1> QED
  BY <1>2, <1>3 DEF Commit

(* A pool is created where there is none.                                  *)
LEMMA CreateParts ==
    ASSUME TypeOK, DeletionInv, NEW addrs \in Specs, CreatePool(addrs)
    PROVE  Guarded' /\ Seen' /\ Decided'
<1>1. NewPool(addrs) \in Pools /\ ~NewPool(addrs).fin /\ ~NewPool(addrs).deleting
  BY DEF NewPool, Pools, PoolObject
<1>2. pool' = Write(pool, NewPool(addrs)) /\ UNCHANGED poolWorker /\ Stored(pool) = None
  BY DEF CreatePool
<1> QED
  BY <1>1, <1>2, DeletionParts, WriteKeepsParts DEF Deleting

(* What the patch of the finalizer makes of a pool.                        *)
LEMMA PatchDecides ==
    ASSUME TypeOK, DeletionInv, PatchPool
    PROVE  \/ pool' = pool
           \/ /\ Stored(pool) # None
              /\ \E obj \in Pools :
                   /\ pool' = Write(pool, obj)
                   /\ obj = None => /\ Stored(pool).deleting /\ read.deleting
                                    /\ InUse(listed) = {} /\ Ended
                   /\ obj # None => /\ obj.deleting = Stored(pool).deleting
                                    /\ obj.spec = Stored(pool).spec
                                    /\ obj.deleting => obj.fin
                                    /\ obj.fin => Lasting /\ ~read.deleting
                                    /\ ~read.fin => obj.fin
                   /\ ~read.fin => obj # None
<1>1. /\ read \in PoolObject /\ ppc = "patch" /\ read.fin \in BOOLEAN /\ read.deleting \in BOOLEAN
  BY PatchStep DEF PatchPool, PoolObject
<1>2. CASE pool' = pool
  BY <1>2
<1>3. CASE /\ Stored(pool) \in PoolObject /\ read.fin # Keeps
           /\ \E obj \in Pools :
                /\ pool' = Write(pool, obj)
                /\ obj = None => Stored(pool).deleting /\ ~Keeps
                /\ obj # None =>
                     /\ obj \in PoolObject /\ (Stored(pool).deleting => obj.fin)
                     /\ obj.deleting = Stored(pool).deleting
                     /\ obj.spec = Stored(pool).spec
                     /\ obj.fin = Keeps
  <2>1. /\ read.deleting => read.fin /\ Ended
        /\ ~read.fin => Lasting
    BY <1>1, DeletionParts DEF Decided
  <2>2. /\ Keeps => ~read.fin /\ ~read.deleting
        /\ ~Keeps => read.fin /\ read.deleting /\ InUse(listed) = {}
    BY <1>1, <1>3, <2>1 DEF Keeps
  <2>3. Stored(pool) # None
    BY <1>3, PoolAssumption
  <2> QED
    BY <1>3, <2>1, <2>2, <2>3
<1> QED
  BY <1>2, <1>3, PatchStep

(* The patch of the finalizer keeps the parts.                             *)
LEMMA PatchParts ==
    ASSUME TypeOK, DeletionInv, PatchPool
    PROVE  Guarded' /\ Seen' /\ Decided'
<1>1. ppc = "patch" /\ UNCHANGED read
  BY DEF PatchPool
<1>2. CASE pool' = pool
  BY <1>1, <1>2, DeletionParts DEF Guarded, Seen, Decided, Ended, Lasting, Deleting, Cached
<1>3. ASSUME Stored(pool) # None, NEW obj \in Pools,
             /\ pool' = Write(pool, obj)
             /\ obj = None => Stored(pool).deleting /\ read.deleting /\ Ended
             /\ obj # None => /\ obj.deleting = Stored(pool).deleting
                              /\ obj.deleting => obj.fin
                              /\ obj.fin => Lasting /\ ~read.deleting
                              /\ ~read.fin => obj.fin
             /\ ~read.fin => obj # None
      PROVE  Guarded' /\ Seen' /\ Decided'
  <2>1. Cached(pool)' = Cached(pool)
    BY <1>3, PoolWritten
  <2>2. Guarded'
    BY <1>3, WriteParts, DeletionParts DEF Deleting
  <2>3. Deleting(obj) => Deleting(Stored(pool))
    BY <1>3 DEF Deleting
  <2>4. obj # None => (Deleting(Stored(pool)) => Deleting(obj))
    BY <1>3 DEF Deleting
  <2>5. ASSUME Deleting(Cached(pool)) PROVE Ended'
    <3>1. Ended
      BY <2>5, DeletionParts DEF Seen
    <3>2. Lasting => Stored(pool).deleting
      BY <2>5, EndFollows, PoolViewTypes DEF Deleting
    <3>3. obj = None \/ obj.deleting \/ ~obj.fin
      BY <1>3, <3>2
    <3> QED
      BY <1>3, <2>3, <3>1, <3>3, WriteParts
  <2>6. ASSUME ~Deleting(Cached(pool)) PROVE Lasting'
    <3>1. Lasting
      BY <2>6, DeletionParts DEF Seen
    <3>2. obj # None
      BY <1>3, <2>6, EndFollows, PoolViewTypes DEF Deleting
    <3> QED
      BY <1>3, <2>4, <3>1, <3>2, WriteParts
  <2>7. Seen'
    BY <2>1, <2>5, <2>6 DEF Seen, Deleting
  <2>8. ASSUME read.deleting PROVE read.fin /\ Ended'
    <3>1. read.fin /\ Ended
      BY <1>1, <2>8, DeletionParts DEF Decided
    <3>2. obj = None \/ ~obj.fin
      BY <1>3, <2>8
    <3> QED
      BY <1>3, <2>3, <3>1, <3>2, WriteParts
  <2>9. ASSUME ~read.fin PROVE Lasting'
    <3>1. Lasting
      BY <1>1, <2>9, DeletionParts DEF Decided
    <3> QED
      BY <1>3, <2>4, <2>9, <3>1, WriteParts
  <2> QED
    BY <1>1, <2>2, <2>7, <2>8, <2>9 DEF Decided
<1> QED
  BY <1>2, <1>3, PatchDecides

(* The patch of the status keeps the parts.                                *)
LEMMA StatusParts ==
    ASSUME TypeOK, DeletionInv, PatchStatus
    PROVE  Guarded' /\ Seen' /\ Decided'
<1>1. Decided'
  BY DEF PatchStatus, Return, Decided
<1>2. CASE pool' = pool
  BY <1>1, <1>2, DeletionParts DEF Guarded, Seen, Ended, Lasting, Deleting, Cached
<1>3. ASSUME Stored(pool) \in PoolObject, NEW obj \in PoolObject, pool' = Write(pool, obj),
             obj.deleting = Stored(pool).deleting, obj.fin = Stored(pool).fin
      PROVE  Guarded' /\ Seen'
  <2>1. obj \in Pools /\ obj # None /\ Stored(pool) # None
    BY <1>3, PoolAssumption DEF Pools
  <2>2. Cached(pool)' = Cached(pool)
    BY <1>3, <2>1, PoolWritten
  <2>3. Deleting(obj) <=> Deleting(Stored(pool))
    BY <1>3, <2>1 DEF Deleting
  <2>4. Deleting(obj) => obj.fin
    BY <1>3, <2>3, DeletionParts, PoolViewTypes DEF Guarded, Deleting
  <2>5. Ended => obj = None \/ obj.deleting \/ ~obj.fin
    BY <1>3, <2>1, PoolViewTypes DEF Ended
  <2>6. Guarded' /\ (Lasting => Lasting') /\ (Ended => Ended')
    BY <1>3, <2>1, <2>3, <2>4, <2>5, WriteParts, DeletionParts
  <2> QED
    BY <2>2, <2>6, DeletionParts DEF Seen, Deleting
<1> QED
  BY <1>1, <1>2, <1>3, StatusStep

(* A watch event keeps the parts: the pool that is cached next is followed *)
(* as the one before it was.                                               *)
LEMMA WatchParts ==
    ASSUME TypeOK, DeletionInv, WatchPool
    PROVE  Guarded' /\ Seen' /\ Decided'
<1>1. Len(pool) > 1 /\ pool' = Tail(pool) /\ UNCHANGED <<ppc, read>>
  BY DEF WatchPool, poolWorker
<1>2. /\ Cached(Tail(pool)) = pool[2]
      /\ DOMAIN Tail(pool) = 1 .. Len(pool) - 1
      /\ \A i \in DOMAIN Tail(pool) : i + 1 \in DOMAIN pool /\ Tail(pool)[i] = pool[i + 1]
  BY <1>1, TailView, Ends
<1>3. /\ Cached(pool)' = pool[2] /\ 2 \in DOMAIN pool
      /\ \A i \in DOMAIN pool' : i \in Nat /\ i >= 1 /\ i + 1 \in DOMAIN pool
                                 /\ pool'[i] = pool[i + 1]
  BY <1>1, <1>2, Ends DEF Cached
<1>4. \A i, j \in DOMAIN pool' : i < j => i + 1 < j + 1
  BY <1>3
<1>5. Ended => Ended'
  BY <1>3, <1>4 DEF Ended, Deleting
<1>6. Lasting => Lasting'
  BY <1>3, <1>4 DEF Lasting, Deleting
<1>7. Guarded'
  BY <1>3, DeletionParts DEF Guarded, Deleting
<1>8. Decided'
  BY <1>1, <1>5, <1>6, DeletionParts DEF Decided
<1>9. \A i \in DOMAIN pool' : i + 1 = 2 \/ 2 < i + 1
  BY <1>3
<1>10. ASSUME Deleting(pool[2]) PROVE Ended'
  <2>1. CASE Deleting(Cached(pool))
    BY <1>5, <2>1, DeletionParts DEF Seen
  <2>2. CASE ~Deleting(Cached(pool))
    <3>1. Lasting
      BY <2>2, DeletionParts DEF Seen
    <3>2. \A i \in DOMAIN pool' : Deleting(pool'[i])
      BY <1>3, <1>9, <1>10, <3>1 DEF Lasting
    <3> QED
      BY <3>2 DEF Ended, Deleting
  <2> QED
    BY <2>1, <2>2
<1>11. ASSUME ~Deleting(pool[2]) PROVE Lasting'
  <2>1. CASE ~Deleting(Cached(pool))
    BY <1>6, <2>1, DeletionParts DEF Seen
  <2>2. CASE Deleting(Cached(pool))
    <3>1. Ended
      BY <2>2, DeletionParts DEF Seen
    <3>2. \A i \in DOMAIN pool' : ~Deleting(pool'[i])
      BY <1>3, <1>9, <1>11, <3>1 DEF Ended
    <3> QED
      BY <3>2 DEF Lasting, Deleting
  <2> QED
    BY <2>1, <2>2
<1>12. Seen'
  BY <1>3, <1>10, <1>11 DEF Seen, Deleting
<1> QED
  BY <1>7, <1>8, <1>12

(* A change is requested of the pool that is stored.                       *)
LEMMA AskedStep ==
    ASSUME TypeOK, Asked, [Next]_vars
    PROVE  Asked'
<1>1. ASSUME NEW addrs \in Specs, RequestUpdate(addrs) PROVE Asked'
  <2>1. Stored(pool) \in PoolObject
    BY <1>1, Ends DEF RequestUpdate, Pools
  <2>2. request' = [old |-> Stored(pool), new |-> [Stored(pool) EXCEPT !.spec = addrs]]
    BY <1>1 DEF RequestUpdate, Admit
  <2> QED
    BY <2>1, <2>2 DEF Asked, PoolObject
<1>2. ASSUME NEW skip \in BOOLEAN, RequestDelete(skip) PROVE Asked'
  <2>1. Stored(pool) \in PoolObject
    BY <1>2, Ends DEF RequestDelete, Pools
  <2>2. request' = [old |-> Stored(pool), new |-> [Stored(pool) EXCEPT !.deleting = TRUE]]
    BY <1>2 DEF RequestDelete, Admit
  <2> QED
    BY <2>1, <2>2 DEF Asked, PoolObject
<1>3. CASE Commit \/ UNCHANGED request
  BY <1>3 DEF Commit, Asked
<1> QED
  BY <1>1, <1>2, <1>3 DEF Next, Controllers, Users, vars, ReconcilePool, ListAddressesInUse,
     PatchPool, PatchStatus, FetchPool, EnsureAddress, AddressSeen, WaitTimeout, ReleaseAddress,
     CreateClaim, DeleteClaim, CreatePool, WatchPool, WatchAddresses, PoolRequestFails, Restart

(* Every step keeps DeletionInv.                                           *)
LEMMA DeletionInvStep == TypeOK /\ DeletionInv /\ [Next]_vars => DeletionInv'
<1> SUFFICES ASSUME TypeOK, DeletionInv, [Next]_vars PROVE DeletionInv'
  OBVIOUS
<1>0. Asked'
  BY AskedStep, DeletionParts
<1> SUFFICES Guarded' /\ Seen' /\ Decided'
  BY <1>0 DEF DeletionInv, Guarded, Seen, Decided, Asked
<1>1. Guarded /\ Seen /\ Decided
  BY DeletionParts
<1>2. CASE UNCHANGED pool /\ (UNCHANGED <<ppc, read>> \/ ppc' = "idle")
  BY <1>1, <1>2 DEF Guarded, Seen, Decided, Ended, Lasting, Deleting, Cached
<1>3. CASE ReconcilePool
  <2>1. CASE UNCHANGED poolWorker
    BY <1>2, <1>3, <2>1 DEF ReconcilePool, poolWorker
  <2>2. CASE Cached(pool) # None /\ read' = Cached(pool)
    <3>1. UNCHANGED pool
      BY <1>3 DEF ReconcilePool
    <3>2. Guarded' /\ Seen' /\ (Ended => Ended') /\ (Lasting => Lasting')
      BY <1>1, <3>1 DEF Guarded, Seen, Ended, Lasting, Deleting, Cached
    <3>3. /\ Cached(pool).deleting => Cached(pool).fin /\ Ended
          /\ ~Cached(pool).deleting => Lasting
      BY <1>1, <2>2, PoolViewTypes DEF Guarded, Seen, Deleting
    <3>4. /\ read'.deleting => read'.fin /\ Ended'
          /\ ~read'.fin => Lasting'
      BY <2>2, <3>2, <3>3
    <3> QED
      BY <3>2, <3>4 DEF Decided
  <2> QED
    BY <1>3, <2>1, <2>2 DEF ReconcilePool
<1>4. CASE ListAddressesInUse
  BY <1>1, <1>4 DEF ListAddressesInUse, Guarded, Seen, Decided, Ended, Lasting, Deleting, Cached
<1>5. CASE Restart
  <2>1. pool' = <<Stored(pool)>> /\ ppc' = "idle"
    BY <1>5 DEF Restart, Return
  <2>2. DOMAIN pool' = {1} /\ pool'[1] = Stored(pool) /\ Cached(pool)' = Stored(pool)
    BY <2>1 DEF Cached
  <2>3. Lasting' /\ Decided'
    BY <2>1, <2>2 DEF Lasting, Decided
  <2>4. Guarded'
    BY <1>1, <2>2, PoolViewTypes DEF Guarded, Deleting
  <2>5. Deleting(Stored(pool)) => Ended'
    BY <2>2 DEF Ended, Deleting
  <2>6. Seen'
    BY <2>2, <2>3, <2>5 DEF Seen, Deleting
  <2> QED
    BY <2>3, <2>4, <2>6
<1>6. CASE PoolRequestFails
  BY <1>2, <1>6 DEF PoolRequestFails, Return
<1>7. CASE EnsureAddress \/ AddressSeen \/ WaitTimeout \/ WatchAddresses \/ UNCHANGED vars
  BY <1>2, <1>7 DEF EnsureAddress, AddressSeen, WaitTimeout, WatchAddresses, vars, poolWorker
<1>8. ASSUME NEW c \in Claims, FetchPool(c) \/ ReleaseAddress(c) \/ CreateClaim(c) \/ DeleteClaim(c)
      PROVE  Guarded' /\ Seen' /\ Decided'
  BY <1>2, <1>8 DEF FetchPool, ReleaseAddress, CreateClaim, DeleteClaim, poolWorker
<1>9. CASE \/ \E addrs \in Specs : RequestUpdate(addrs)
           \/ \E skip \in BOOLEAN : RequestDelete(skip)
  BY <1>2, <1>9 DEF RequestUpdate, RequestDelete, Admit, poolWorker
<1> QED
  BY <1>3, <1>4, <1>5, <1>6, <1>7, <1>8, <1>9, CommitParts, CreateParts, PatchParts,
     StatusParts, WatchParts DEF Next, Controllers, Users

-----------------------------------------------------------------------------
(* The claims that are served.                                             *)

(* Nothing that ServedInv looks at gets worse.                             *)
LEMMA ServedStay ==
    ASSUME ServedInv, UNCHANGED <<cpc, spec, request, crossed>>,
           Stored(pool)' = Stored(pool), Stored(used)' = Stored(used),
           Shrinking => Shrinking',
           UNCHANGED <<ppc, read, listed>> \/ ppc' # "patch"
    PROVE  ServedInv'
BY DEF ServedInv, PoolOutlivesAddresses, AllocatedInRange, Deleting

(* Fewer addresses.                                                        *)
LEMMA FewerHeld ==
    ASSUME NEW held \in Held, NEW c \in Claims, NEW less \in Held,
           less = [held EXCEPT ![c] = None]
    PROVE  InUse(less) \subseteq InUse(held) /\ IPsOf(less) \subseteq IPsOf(held)
BY DEF Held, InUse, IPsOf

(* An empty set of addresses in use has no addresses.                      *)
LEMMA NothingHeld ==
    ASSUME NEW held, InUse(held) = {}
    PROVE  IPsOf(held) = {}
BY DEF IPsOf

(* A request that starts is served from the pool that is stored.           *)
LEMMA ServedFetch ==
    ASSUME TypeOK, ServedInv, NEW c \in Claims, FetchPool(c)
    PROVE  ServedInv'
<1>1. UNCHANGED <<pool, used, ppc, read, listed, request>>
  BY DEF FetchPool, poolWorker
<1> SUFFICES ASSUME ~crossed' PROVE ServedInv'
  BY DEF ServedInv
<1>2. /\ ~crossed /\ request = None /\ Stored(pool) # None
      /\ ~(Stored(pool) # None /\ (Stored(pool).deleting \/ Stored(pool).spec # spec'))
  BY Zenon DEF FetchPool
<1> QED
  BY <1>1, <1>2 DEF ServedInv, PoolOutlivesAddresses, AllocatedInRange, Deleting, Shrinking,
     Stored

(* The address that is given is one of the pool that is stored.            *)
LEMMA ServedEnsure ==
    ASSUME TypeOK, ServedInv, EnsureAddress
    PROVE  ServedInv'
<1>1. /\ cpc = "create" /\ cur \in Claims /\ spec \subseteq IPs
      /\ UNCHANGED <<pool, ppc, read, listed, request, crossed>>
  BY PoolAssumption DEF EnsureAddress, TypeOK, poolWorker
<1> SUFFICES ASSUME ~crossed PROVE ServedInv'
  BY <1>1 DEF ServedInv
<1>2. /\ PoolOutlivesAddresses /\ AllocatedInRange /\ request = None
      /\ Stored(pool) # None /\ ~Stored(pool).deleting /\ spec = Stored(pool).spec
  BY <1>1 DEF ServedInv
<1>3. Stored(pool)' = Stored(pool) /\ ~Deleting(Stored(pool))'
  BY <1>1, <1>2 DEF Stored, Deleting
<1>4. CASE UNCHANGED used /\ cpc' = "idle"
  BY <1>1, <1>2, <1>3, <1>4 DEF ServedInv, PoolOutlivesAddresses, AllocatedInRange, Stored
<1>5. CASE /\ cpc' = "wait" /\ UNCHANGED spec
           /\ \E ip \in spec : used' = Write(used, [Stored(used) EXCEPT ![cur] = ip])
  <2>1. PICK ip \in spec : used' = Write(used, [Stored(used) EXCEPT ![cur] = ip])
    BY <1>5
  <2>2. PICK obj \in Held : obj = [Stored(used) EXCEPT ![cur] = ip]
    BY <1>1, Ends DEF Held
  <2>3. Stored(used)' = obj
    BY <2>1, <2>2, UsedWritten
  <2>4. IPsOf(obj) \subseteq IPsOf(Stored(used)) \cup {ip}
    BY <1>1, <2>2, Ends DEF IPsOf, InUse, Held
  <2>5. IPsOf(obj) \subseteq Stored(pool).spec
    BY <1>2, <2>1, <2>4 DEF AllocatedInRange
  <2>6. AllocatedInRange'
    BY <1>3, <2>3, <2>5 DEF AllocatedInRange
  <2>7. PoolOutlivesAddresses'
    BY <1>2, <1>3 DEF PoolOutlivesAddresses
  <2>8. request' = None /\ Stored(pool)' # None /\ ~Stored(pool)'.deleting
        /\ spec' = Stored(pool)'.spec
    BY <1>1, <1>2, <1>3, <1>5
  <2> QED
    BY <1>3, <2>6, <2>7, <2>8 DEF ServedInv
<1> QED
  BY <1>4, <1>5 DEF EnsureAddress, EndClaim

(* An address is removed.                                                  *)
LEMMA ServedRelease ==
    ASSUME TypeOK, ServedInv, NEW c \in Claims, ReleaseAddress(c)
    PROVE  ServedInv'
<1>1. UNCHANGED <<pool, ppc, read, listed, cpc, spec, request, crossed>>
  BY DEF ReleaseAddress, poolWorker, claimWorker
<1>2. PICK obj \in Held : obj = [Stored(used) EXCEPT ![c] = None] /\ used' = Write(used, obj)
  BY Ends DEF Held, ReleaseAddress
<1>3. /\ Stored(used)' = obj
      /\ \A i \in DOMAIN used' :
           \/ i \in DOMAIN used /\ used'[i] = used[i]
           \/ i = Len(used) + 1 /\ used'[i] = obj
  BY <1>2, UsedWritten
<1>4. InUse(obj) \subseteq InUse(Stored(used)) /\ IPsOf(obj) \subseteq IPsOf(Stored(used))
  BY <1>2, FewerHeld, Ends
<1>5. ASSUME Shrinking PROVE Shrinking'
  <2> SUFFICES ASSUME NEW i \in DOMAIN used', NEW j \in DOMAIN used', i < j
               PROVE  InUse(used'[j]) \subseteq InUse(used'[i])
    BY DEF Shrinking, InUse
  <2>1. i \in DOMAIN used /\ used'[i] = used[i]
    BY <1>3, Ends
  <2>2. InUse(Stored(used)) \subseteq InUse(used[i])
    <3>1. i = Len(used) \/ i < Len(used)
      BY <2>1, UsedTypes, Ends
    <3> QED
      BY <1>5, <2>1, <3>1, UsedTypes DEF Shrinking
  <2>3. CASE j \in DOMAIN used /\ used'[j] = used[j]
    BY <1>5, <2>1, <2>3 DEF Shrinking
  <2>4. CASE used'[j] = obj
    BY <1>4, <2>1, <2>2, <2>4
  <2> QED
    BY <1>3, <2>3, <2>4
<1>6. /\ InUse(Stored(used)') \subseteq InUse(Stored(used))
      /\ IPsOf(Stored(used)') \subseteq IPsOf(Stored(used))
  BY <1>3, <1>4
<1>7. Stored(pool)' = Stored(pool)
  BY <1>1 DEF Stored
<1>8. (PoolOutlivesAddresses => PoolOutlivesAddresses') /\ (AllocatedInRange => AllocatedInRange')
  <2>1. InUse(Stored(used))' = InUse(Stored(used)') /\ IPsOf(Stored(used))' = IPsOf(Stored(used)')
    BY DEF InUse, IPsOf
  <2> QED
    BY <1>6, <1>7, <2>1 DEF PoolOutlivesAddresses, AllocatedInRange
<1> SUFFICES ASSUME ~crossed PROVE ServedInv'
  BY <1>1 DEF ServedInv
<1>9. /\ PoolOutlivesAddresses' /\ AllocatedInRange'
      /\ request # None \/ Deleting(Stored(pool)) => Shrinking'
  BY <1>5, <1>8 DEF ServedInv
<1>10. /\ request # None =>
            /\ IPsOf(Stored(used)') \subseteq request.new.spec
            /\ ~request.new.fin => InUse(Stored(used)') = {}
       /\ ppc = "patch" /\ read.deleting /\ InUse(listed) = {} /\ Deleting(Stored(pool)) =>
            InUse(Stored(used)') = {}
  BY <1>6 DEF ServedInv
<1> QED
  BY <1>1, <1>7, <1>9, <1>10 DEF ServedInv, Deleting, InUse, IPsOf

(* A change is asked for while nobody is served and the caches show what   *)
(* is stored.                                                              *)
LEMMA ServedAdmit ==
    ASSUME TypeOK, ServedInv, NEW new, Admit(new),
           ~crossed' /\ AllocatedInRange => IPsOf(Cached(used)) \subseteq new.spec
    PROVE  ServedInv'
<1>1. /\ UNCHANGED <<pool, used, ppc, read, listed, cpc, spec>>
      /\ request' = [old |-> Stored(pool), new |-> new]
  BY DEF Admit, poolWorker, claimWorker
<1> SUFFICES ASSUME ~crossed' PROVE ServedInv'
  BY DEF ServedInv
<1>2. /\ ~crossed /\ cpc = "idle" /\ ~(Len(used) > 1)
      /\ ~(~new.fin /\ InUse(Stored(used)) # {})
  BY Zenon DEF Admit
<1>3. Len(used) = 1
  BY <1>2, Ends
<1>4. Shrinking' /\ Cached(used) = Stored(used)
  BY <1>1, <1>3, Ends DEF Shrinking, Cached, Stored
<1>5. request'.new = new
  BY <1>1
<1>6. PoolOutlivesAddresses /\ AllocatedInRange
  BY <1>2 DEF ServedInv
<1>7. /\ IPsOf(Stored(used)) \subseteq new.spec
      /\ ~new.fin => InUse(Stored(used)) = {}
  BY <1>2, <1>4, <1>6
<1>8. Stored(used)' = Stored(used) /\ Stored(pool)' = Stored(pool)
  BY <1>1 DEF Stored
<1>9. /\ PoolOutlivesAddresses' /\ AllocatedInRange'
      /\ ppc' = "patch" /\ read'.deleting /\ InUse(listed') = {} /\ Deleting(Stored(pool)') =>
           InUse(Stored(used)') = {}
  BY <1>1, <1>2, <1>6, <1>8 DEF ServedInv, PoolOutlivesAddresses, AllocatedInRange
<1> QED
  BY <1>1, <1>2, <1>4, <1>5, <1>7, <1>8, <1>9 DEF ServedInv, Deleting, InUse, IPsOf

(* A change that is stored was asked for while nobody was served.          *)
LEMMA ServedCommit ==
    ASSUME TypeOK, DeletionInv, ServedInv, Commit
    PROVE  ServedInv'
<1>1. /\ request.old \in PoolObject /\ request.new \in PoolObject /\ request # None
      /\ request' = None /\ UNCHANGED <<used, ppc, read, listed, cpc, spec, crossed>>
  BY DEF TypeOK, Commit, poolWorker, claimWorker
<1>2. Stored(used)' = Stored(used) /\ (Shrinking => Shrinking')
  BY <1>1 DEF Stored, Shrinking
<1> SUFFICES ASSUME ~crossed PROVE ServedInv'
  BY <1>1 DEF ServedInv
<1>3. /\ PoolOutlivesAddresses /\ AllocatedInRange /\ cpc = "idle" /\ Shrinking
      /\ IPsOf(Stored(used)) \subseteq request.new.spec
      /\ ~request.new.fin => InUse(Stored(used)) = {}
  BY <1>1 DEF ServedInv
<1>4. CASE pool' = pool
  <2>1. Stored(pool)' = Stored(pool)
    BY <1>4 DEF Stored
  <2> QED
    BY <1>1, <1>2, <1>3, <2>1 DEF ServedInv, PoolOutlivesAddresses, AllocatedInRange, Deleting
<1>5. CASE Stored(pool) = request.old /\ pool' = Write(pool, Settle(request.new))
  <2>1. PICK obj \in Pools : obj = Settle(request.new)
    BY <1>1 DEF Settle, Pools
  <2>2. Stored(pool)' = obj
    BY <1>5, <2>1, PoolWritten
  <2>3. /\ obj = None => ~request.new.fin
        /\ obj # None => obj = request.new /\ (obj.deleting => obj.fin)
    BY <1>1, <2>1, PoolAssumption DEF Settle
  <2>4. PoolOutlivesAddresses' /\ AllocatedInRange'
    BY <1>2, <1>3, <2>2, <2>3 DEF PoolOutlivesAddresses, AllocatedInRange
  <2>5. ASSUME ppc = "patch", read.deleting, InUse(listed) = {}, Deleting(obj)
        PROVE  InUse(Stored(used)) = {}
    <3>1. request.new.fin = request.old.fin /\ request.old # None
      BY <1>1, DeletionParts, PoolAssumption DEF Asked
    <3>2. Ended
      BY <2>5, DeletionParts DEF Decided
    <3>3. Stored(pool).deleting \/ ~Stored(pool).fin
      BY <1>5, <3>1, <3>2, PoolViewTypes DEF Ended
    <3>4. Deleting(Stored(pool))
      BY <1>5, <2>3, <2>5, <3>1, <3>3 DEF Deleting
    <3> QED
      BY <2>5, <3>4 DEF ServedInv
  <2> QED
    BY <1>1, <1>2, <1>3, <2>2, <2>4, <2>5 DEF ServedInv, Deleting
<1> QED
  BY <1>4, <1>5 DEF Commit

(* A pool is created where nothing is in use.                              *)
LEMMA ServedCreate ==
    ASSUME TypeOK, ServedInv, NEW addrs \in Specs, CreatePool(addrs)
    PROVE  ServedInv'
<1>1. UNCHANGED <<used, ppc, read, listed, cpc, spec, request>>
  BY DEF CreatePool, poolWorker, claimWorker
<1> SUFFICES ASSUME ~crossed' PROVE ServedInv'
  BY DEF ServedInv
<1>2. ~crossed /\ cpc = "idle" /\ InUse(Stored(used)) = {} /\ ~(Len(used) > 1)
  BY Zenon DEF CreatePool
<1>3. Shrinking' /\ Stored(used)' = Stored(used)
  BY <1>1, <1>2, Ends DEF Shrinking, Stored
<1>4. PICK obj \in Pools : obj = NewPool(addrs) /\ pool' = Write(pool, obj)
  BY DEF CreatePool, NewPool, Pools, PoolObject
<1>5. Stored(pool)' = obj
  BY <1>4, PoolWritten
<1>6. ~obj.deleting
  BY <1>4 DEF NewPool
<1>7. InUse(Stored(used))' = {} /\ IPsOf(Stored(used))' = {}
  BY <1>2, <1>3, NothingHeld
<1>8. PoolOutlivesAddresses' /\ AllocatedInRange'
  BY <1>7 DEF PoolOutlivesAddresses, AllocatedInRange
<1> QED
  BY <1>1, <1>2, <1>3, <1>5, <1>6, <1>7, <1>8 DEF ServedInv, Deleting

(* A pool that is patched keeps its deletion mark and its range, and goes  *)
(* only if nothing is in use.                                              *)
LEMMA ServedWrite ==
    ASSUME TypeOK, ServedInv, UNCHANGED <<used, cpc, spec, request, crossed>>, ppc' # "patch",
           NEW obj \in Pools, pool' = Write(pool, obj), Stored(pool) # None,
           obj = None => /\ ppc = "patch" /\ read.deleting /\ InUse(listed) = {}
                         /\ Stored(pool).deleting,
           obj # None => obj.deleting = Stored(pool).deleting /\ obj.spec = Stored(pool).spec
    PROVE  ServedInv'
<1>1. Stored(used)' = Stored(used) /\ (Shrinking => Shrinking')
  BY DEF Stored, Shrinking
<1>2. Stored(pool)' = obj
  BY PoolWritten
<1> SUFFICES ASSUME ~crossed PROVE ServedInv'
  BY DEF ServedInv
<1>3. PoolOutlivesAddresses' /\ AllocatedInRange'
  BY <1>1, <1>2 DEF ServedInv, PoolOutlivesAddresses, AllocatedInRange, Deleting
<1>4. cpc # "idle" => request = None /\ obj # None /\ ~obj.deleting /\ spec = obj.spec
  BY DEF ServedInv
<1>5. request # None \/ Deleting(obj) => Shrinking
  BY DEF ServedInv, Deleting
<1>6. request # None =>
        /\ IPsOf(Stored(used)) \subseteq request.new.spec
        /\ ~request.new.fin => InUse(Stored(used)) = {}
  BY DEF ServedInv
<1> QED
  BY <1>1, <1>2, <1>3, <1>4, <1>5, <1>6 DEF ServedInv, Deleting

(* The two patches: a deletion ends only if nothing is in use.             *)
LEMMA ServedPatch ==
    ASSUME TypeOK, DeletionInv, ServedInv, PatchPool \/ PatchStatus
    PROVE  ServedInv'
<1>1. /\ ppc' # "patch" /\ UNCHANGED <<used, cpc, spec, request, crossed>>
      /\ PatchPool => ppc = "patch"
  BY DEF PatchPool, PatchStatus, Return, claimWorker
<1>2. CASE pool' = pool
  <2>1. /\ Stored(used)' = Stored(used) /\ (Shrinking => Shrinking')
        /\ Stored(pool)' = Stored(pool)
    BY <1>1, <1>2 DEF Stored, Shrinking
  <2> QED
    BY <1>1, <2>1, ServedStay
<1>3. CASE PatchPool
  BY <1>1, <1>2, <1>3, PatchDecides, ServedWrite
<1>4. CASE PatchStatus
  <2>1. CASE pool' # pool
    <3>1. Stored(pool) # None
      BY <1>4, <2>1, StatusStep, PoolAssumption
    <3>2. PICK obj \in PoolObject :
             /\ pool' = Write(pool, obj)
             /\ obj.deleting = Stored(pool).deleting /\ obj.spec = Stored(pool).spec
      BY <1>4, <2>1, StatusStep
    <3>3. obj \in Pools /\ obj # None
      BY PoolAssumption DEF Pools
    <3> QED
      BY <1>1, <3>1, <3>2, <3>3, ServedWrite
  <2> QED
    BY <1>2, <2>1
<1> QED
  BY <1>3, <1>4

(* What is listed of a pool that is being deleted is at least what is left.*)
LEMMA ServedList ==
    ASSUME TypeOK, ServedInv, ListAddressesInUse
    PROVE  ServedInv'
<1>1. /\ ppc = "list" /\ listed' = Cached(used)
      /\ UNCHANGED <<pool, used, read, cpc, spec, request, crossed>>
  BY DEF ListAddressesInUse, claimWorker
<1>2. /\ Stored(used)' = Stored(used) /\ (Shrinking => Shrinking')
      /\ Stored(pool)' = Stored(pool)
  BY <1>1 DEF Stored, Shrinking
<1>3. ASSUME Shrinking, InUse(Cached(used)) = {} PROVE InUse(Stored(used)) = {}
  <2>1. Len(used) = 1 \/ 1 < Len(used)
    BY Ends
  <2> QED
    BY <1>3, <2>1, UsedTypes DEF Shrinking
<1>4. (PoolOutlivesAddresses => PoolOutlivesAddresses') /\ (AllocatedInRange => AllocatedInRange')
  BY <1>2 DEF PoolOutlivesAddresses, AllocatedInRange
<1> QED
  BY <1>1, <1>2, <1>3, <1>4 DEF ServedInv, Deleting

(* Every step keeps ServedInv.                                             *)
LEMMA ServedInvStep == TypeOK /\ DeletionInv /\ ServedInv /\ [Next]_vars => ServedInv'
<1> SUFFICES ASSUME TypeOK, DeletionInv, ServedInv, [Next]_vars PROVE ServedInv'
  OBVIOUS
<1>1. CASE /\ UNCHANGED <<pool, used, cpc, spec, request, crossed>>
           /\ UNCHANGED <<ppc, read, listed>> \/ ppc' # "patch"
  <2>1. /\ Stored(pool)' = Stored(pool) /\ Stored(used)' = Stored(used)
        /\ Shrinking => Shrinking'
    BY <1>1 DEF Stored, Shrinking
  <2> QED
    BY <1>1, <2>1, ServedStay
<1>2. CASE ReconcilePool \/ PoolRequestFails \/ UNCHANGED vars
  BY <1>1, <1>2 DEF ReconcilePool, PoolRequestFails, Return, vars, poolWorker, claimWorker
<1>3. ASSUME NEW c \in Claims, CreateClaim(c) \/ DeleteClaim(c) PROVE ServedInv'
  BY <1>1, <1>3 DEF CreateClaim, DeleteClaim, poolWorker, claimWorker
<1>4. CASE AddressSeen \/ WaitTimeout
  <2>1. /\ UNCHANGED <<pool, used, ppc, read, listed, request, crossed>> /\ cpc' = "idle"
    BY <1>4 DEF AddressSeen, WaitTimeout, EndClaim, poolWorker
  <2>2. /\ Stored(pool)' = Stored(pool) /\ Stored(used)' = Stored(used)
        /\ Shrinking => Shrinking'
    BY <2>1 DEF Stored, Shrinking
  <2>3. (PoolOutlivesAddresses => PoolOutlivesAddresses') /\ (AllocatedInRange => AllocatedInRange')
    BY <2>2 DEF PoolOutlivesAddresses, AllocatedInRange
  <2> QED
    BY <2>1, <2>2, <2>3 DEF ServedInv, Deleting
<1>5. CASE Restart
  <2>1. /\ used' = <<Stored(used)>> /\ pool' = <<Stored(pool)>> /\ ppc' = "idle" /\ cpc' = "idle"
        /\ UNCHANGED <<request, crossed>>
    BY <1>5 DEF Restart, Return
  <2>2. /\ Stored(pool)' = Stored(pool) /\ Stored(used)' = Stored(used) /\ Shrinking'
    BY <2>1 DEF Stored, Shrinking
  <2>3. (PoolOutlivesAddresses => PoolOutlivesAddresses') /\ (AllocatedInRange => AllocatedInRange')
    BY <2>2 DEF PoolOutlivesAddresses, AllocatedInRange
  <2> QED
    BY <2>1, <2>2, <2>3 DEF ServedInv, Deleting
<1>6. CASE WatchPool
  <2>1. /\ Len(pool) > 1 /\ pool' = Tail(pool)
        /\ UNCHANGED <<used, ppc, read, listed, cpc, spec, request, crossed>>
    BY <1>6 DEF WatchPool, poolWorker, claimWorker
  <2>2. Stored(Tail(pool)) = Stored(pool)
    BY <2>1, Ends, TailView
  <2>3. /\ Stored(pool)' = Stored(pool) /\ Stored(used)' = Stored(used)
        /\ Shrinking => Shrinking'
    BY <2>1, <2>2 DEF Stored, Shrinking
  <2> QED
    BY <2>1, <2>3, ServedStay
<1>7. CASE WatchAddresses
  <2>1. /\ Len(used) > 1 /\ used' = Tail(used)
        /\ UNCHANGED <<pool, ppc, read, listed, cpc, spec, request, crossed>>
    BY <1>7 DEF WatchAddresses, poolWorker, claimWorker
  <2>2. /\ Stored(Tail(used)) = Stored(used)
        /\ DOMAIN Tail(used) = 1 .. Len(used) - 1
        /\ \A i \in DOMAIN Tail(used) : i + 1 \in DOMAIN used /\ Tail(used)[i] = used[i + 1]
    BY <2>1, Ends, TailView
  <2>3. /\ Stored(pool)' = Stored(pool) /\ Stored(used)' = Stored(used)
        /\ \A i \in DOMAIN used' : i \in Nat /\ i + 1 \in DOMAIN used /\ used'[i] = used[i + 1]
    BY <2>1, <2>2, Ends DEF Stored
  <2>4. \A i, j \in DOMAIN used' : i < j => i + 1 < j + 1
    BY <2>3
  <2>5. Shrinking => Shrinking'
    BY <2>3, <2>4 DEF Shrinking, InUse
  <2> QED
    BY <2>1, <2>3, <2>5, ServedStay
<1>8. ASSUME NEW addrs \in Specs, RequestUpdate(addrs) PROVE ServedInv'
  <2>1. PICK new : new = [Stored(pool) EXCEPT !.spec = addrs] /\ Admit(new)
    BY <1>8 DEF RequestUpdate
  <2>2. new.spec = addrs
    BY <1>8, <2>1, Ends DEF RequestUpdate, Pools, PoolObject
  <2>3. IPsOf(Cached(used)) \subseteq new.spec
    BY <1>8, <2>2 DEF RequestUpdate, ValidateUpdate
  <2> QED
    BY <2>1, <2>3, ServedAdmit
<1>9. ASSUME NEW skip \in BOOLEAN, RequestDelete(skip) PROVE ServedInv'
  <2>1. PICK new : new = [Stored(pool) EXCEPT !.deleting = TRUE] /\ Admit(new)
    BY <1>9 DEF RequestDelete
  <2>2. new.spec = Stored(pool).spec /\ Stored(pool) # None
    BY <1>9, <2>1, Ends DEF RequestDelete, Pools, PoolObject
  <2>3. ASSUME ~crossed', AllocatedInRange PROVE IPsOf(Cached(used)) \subseteq new.spec
    <3>1. ~(Len(used) > 1)
      BY <2>1, <2>3, Zenon DEF Admit
    <3>2. Cached(used) = Stored(used)
      BY <3>1, Ends DEF Cached, Stored
    <3> QED
      BY <2>2, <2>3, <3>2 DEF AllocatedInRange
  <2> QED
    BY <2>1, <2>3, ServedAdmit
<1> QED
  BY <1>2, <1>3, <1>4, <1>5, <1>6, <1>7, <1>8, <1>9, ServedFetch, ServedEnsure, ServedRelease,
     ServedCommit, ServedCreate, ServedPatch, ServedList DEF Next, Controllers, Users

(* The invariants of the deletion and of the claims hold initially.        *)
LEMMA PoolInvInit == Init => DeletionInv /\ ServedInv
<1> SUFFICES ASSUME Init PROVE DeletionInv /\ ServedInv
  OBVIOUS
<1>1. PICK addrs \in Specs : pool = <<NewPool(addrs)>>
  BY DEF Init
<1>2. /\ used = << [c \in Claims |-> None] >> /\ ppc = "idle" /\ cpc = "idle" /\ request = None
  BY DEF Init
<1>3. ~NewPool(addrs).deleting /\ NewPool(addrs) \in PoolObject
  BY DEF NewPool, PoolObject
<1>4. /\ DOMAIN pool = {1} /\ pool[1] = NewPool(addrs) /\ Cached(pool) = NewPool(addrs)
      /\ Stored(pool) = NewPool(addrs) /\ Stored(pool) # None
  BY <1>1, <1>3, PoolAssumption DEF Cached, Stored
<1>5. InUse(Stored(used)) = {}
  BY <1>2 DEF InUse, Stored
<1>6. IPsOf(Stored(used)) = {}
  BY <1>5, NothingHeld
<1>7. DeletionInv
  BY <1>2, <1>3, <1>4 DEF DeletionInv, Lasting, Deleting
<1>8. ServedInv
  BY <1>2, <1>3, <1>4, <1>5, <1>6 DEF ServedInv, PoolOutlivesAddresses, AllocatedInRange, Deleting
<1> QED
  BY <1>7, <1>8

(* As long as nothing crossed, ProtectPoolFinalizer and ValidateDelete     *)
(* keep a pool until its last address is gone, whatever the pool worker    *)
(* decided on what it read and listed before.                              *)
THEOREM FinalizerProtects == Spec => []ProtectedUnlessCrossed
<1>1. ServedInv => ProtectedUnlessCrossed
  BY DEF ServedInv, ProtectedUnlessCrossed
<1> QED
  BY <1>1, PoolInvInit, DeletionInvStep, ServedInvStep, PoolTypes, PTL DEF Spec

(* As long as nothing crossed, ValidateUpdate, which looks at a cache,     *)
(* keeps every allocated address in the stored range.                      *)
THEOREM UpdatesKeepRange == Spec => []InRangeUnlessCrossed
<1>1. ServedInv => InRangeUnlessCrossed
  BY DEF ServedInv, InRangeUnlessCrossed
<1> QED
  BY <1>1, PoolInvInit, DeletionInvStep, ServedInvStep, PoolTypes, PTL DEF Spec

=============================================================================
