----------------------- MODULE ClaimReconcilerProofs -----------------------
(***************************************************************************)
(* Proofs about ClaimReconciler, for every set of claims, pools and        *)
(* addresses and every bound.  In this order: types, and the uniqueness of *)
(* addresses; claims and their addresses, where a claim that was told of   *)
(* its address has it and keeps it, and goes after its address; and the    *)
(* refinement, where each step of the controller, its users, the informers *)
(* and the failures is a step of Allocation or leaves what the promise is  *)
(* about unchanged.                                                        *)
(***************************************************************************)
EXTENDS ClaimRefinement, TLAPS

-----------------------------------------------------------------------------
(* Views.                                                                  *)

(* A write leaves a view as it is, or appends to it one state that differs *)
(* from the stored one in the name written.                                *)
LEMMA WriteView ==
    ASSUME NEW S, NEW view \in Seq([Claims -> S]), Len(view) >= 1,
           NEW c \in Claims, NEW obj \in S
    PROVE  LET next == [Stored(view) EXCEPT ![c] = obj] IN
           /\ Stored(view) \in [Claims -> S]
           /\ next \in [Claims -> S]
           /\ \/ Write(view, c, obj) = view /\ Stored(view)[c] = obj
              \/ Write(view, c, obj) = Append(view, next)
BY DEF Write, Stored

(* A write of the API server that has room keeps the type of a view.       *)
LEMMA WriteType ==
    ASSUME NEW S, NEW view \in Seq([Claims -> S]), Len(view) >= 1, Room(view),
           NEW c \in Claims, NEW obj \in S
    PROVE  /\ Write(view, c, obj) \in Seq([Claims -> S])
           /\ Len(Write(view, c, obj)) \in 1 .. MaxLag + 1
<1> DEFINE next == [Stored(view) EXCEPT ![c] = obj]
<1>1. next \in [Claims -> S]
  BY WriteView
<1>2. CASE Write(view, c, obj) = view
  BY <1>2, BoundsAssumption DEF Room
<1>3. CASE Write(view, c, obj) = Append(view, next)
  BY <1>1, <1>3, BoundsAssumption DEF Room
<1>4. Write(view, c, obj) = view \/ Write(view, c, obj) = Append(view, next)
  BY DEF Write
<1> QED
  BY <1>2, <1>3, <1>4

(* The states of a view to which one is appended.                          *)
LEMMA AppendView ==
    ASSUME NEW T, NEW view \in Seq(T), NEW next \in T
    PROVE  /\ Len(Append(view, next)) = Len(view) + 1
           /\ DOMAIN Append(view, next) = 1 .. Len(view) + 1
           /\ \A i \in DOMAIN view : Append(view, next)[i] = view[i]
           /\ Append(view, next)[Len(view) + 1] = next
OBVIOUS

(* A watch event keeps the type of a view.                                 *)
LEMMA TailType ==
    ASSUME NEW T, NEW view \in Seq(T), Len(view) \in 1 .. MaxLag + 1, Len(view) > 1
    PROVE  Tail(view) \in Seq(T) /\ Len(Tail(view)) \in 1 .. MaxLag + 1
BY BoundsAssumption

(* The list after a restart is a view.                                     *)
LEMMA RestartType ==
    ASSUME NEW T, NEW view \in Seq(T), Len(view) >= 1
    PROVE  <<Stored(view)>> \in Seq(T) /\ Len(<<Stored(view)>>) \in 1 .. MaxLag + 1
BY BoundsAssumption DEF Stored

-----------------------------------------------------------------------------
(* Objects.                                                                *)

(* A finalizer or a deletion leaves an object of its kind, or nothing.     *)
LEMMA ObjectTypes ==
    /\ \A obj \in AddressObject :
         /\ Settle(obj) \in AddressObject \cup {None}
         /\ Deleted(obj) \in AddressObject \cup {None}
    /\ \A obj \in ClaimObject :
         /\ Settle(obj) \in ClaimObject \cup {None}
         /\ Deleted(obj) \in ClaimObject \cup {None}
BY DEF AddressObject, ClaimObject, Settle, Deleted

(* A merge patch leaves an object of its kind.                             *)
LEMMA PatchTypes ==
    /\ \A old, new, obj \in AddressObject : PatchAddress(old, new, obj) \in AddressObject
    /\ \A old, new, obj \in ClaimObject : PatchClaim(old, new, obj) \in ClaimObject
BY DEF AddressObject, ClaimObject, PatchAddress, PatchClaim, Merge

-----------------------------------------------------------------------------
(* Type correctness.                                                       *)

(* What a view shows of a name is an object of its kind, or None.          *)
LEMMA ReadTypes ==
    ASSUME TypeOK, NEW c \in Claims
    PROVE  /\ Cached(addresses)[c] \in AddressObject \cup {None}
           /\ Stored(addresses)[c] \in AddressObject \cup {None}
           /\ Cached(claims)[c] \in ClaimObject \cup {None}
           /\ Stored(claims)[c] \in ClaimObject \cup {None}
BY DEF TypeOK, Cached, Stored

(* The types of the two views, by themselves.                              *)
ViewsOK ==
    /\ addresses \in Seq([Claims -> AddressObject \cup {None}])
    /\ Len(addresses) \in 1 .. MaxLag + 1
    /\ claims \in Seq([Claims -> ClaimObject \cup {None}])
    /\ Len(claims) \in 1 .. MaxLag + 1

(* The part of TypeOK about the views.                                     *)
LEMMA TypeOKViews == TypeOK => ViewsOK
BY DEF TypeOK, ViewsOK

(* Any write of the API server keeps the types of the views.               *)
LEMMA AddressWriteType ==
    ASSUME TypeOK, Room(addresses), NEW c \in Claims,
           NEW obj \in AddressObject \cup {None},
           addresses' = Write(addresses, c, obj), UNCHANGED claims
    PROVE  ViewsOK'
<1> DEFINE S == AddressObject \cup {None}
<1>1. addresses \in Seq([Claims -> S]) /\ Len(addresses) >= 1
  BY TypeOKViews DEF ViewsOK
<1>2. obj \in S
  OBVIOUS
<1> HIDE DEF S
<1>3. addresses' \in Seq([Claims -> S]) /\ Len(addresses)' \in 1 .. MaxLag + 1
  BY <1>1, <1>2, WriteType
<1> USE DEF S
<1> QED
  BY <1>3, TypeOKViews DEF ViewsOK

(* The same of a write of a claim.                                         *)
LEMMA ClaimWriteType ==
    ASSUME TypeOK, Room(claims), NEW c \in Claims,
           NEW obj \in ClaimObject \cup {None},
           claims' = Write(claims, c, obj), UNCHANGED addresses
    PROVE  ViewsOK'
<1> DEFINE S == ClaimObject \cup {None}
<1>1. claims \in Seq([Claims -> S]) /\ Len(claims) >= 1
  BY TypeOKViews DEF ViewsOK
<1>2. obj \in S
  OBVIOUS
<1> HIDE DEF S
<1>3. claims' \in Seq([Claims -> S]) /\ Len(claims)' \in 1 .. MaxLag + 1
  BY <1>1, <1>2, WriteType
<1> USE DEF S
<1> QED
  BY <1>3, TypeOKViews DEF ViewsOK

(* The deferred patch of the claim.                                        *)
LEMMA PatchAndReturnType ==
    ASSUME TypeOK, pc # "idle", NEW new \in ClaimObject, PatchAndReturn(new)
    PROVE  TypeOK'
<1>1. cur \in Claims /\ claim \in ClaimObject
  BY DEF TypeOK
<1>2. Stored(claims)[cur] \in ClaimObject \cup {None}
  BY <1>1, ReadTypes
<1>3. ViewsOK'
  <2>1. CASE Stored(claims)[cur] = None
    BY <2>1, TypeOKViews DEF PatchAndReturn, ViewsOK
  <2>2. CASE Stored(claims)[cur] # None
    <3> DEFINE obj == Settle(PatchClaim(claim, new, Stored(claims)[cur]))
    <3>1. obj \in ClaimObject \cup {None}
      BY <1>1, <1>2, <2>2, PatchTypes, ObjectTypes
    <3> QED
      BY <1>1, <2>2, <3>1, ClaimWriteType DEF PatchAndReturn
  <2> QED
    BY <2>1, <2>2
<1> QED
  BY <1>3 DEF PatchAndReturn, Return, TypeOK, ViewsOK

(* The types of the addresses that the worker and others write.            *)
LEMMA WorkerWriteTypes ==
    ASSUME TypeOK
    PROVE  /\ pc = "write" /\ Create /\ UNCHANGED claims => ViewsOK'
           /\ pc = "write" /\ Patch /\ UNCHANGED claims => ViewsOK'
           /\ pc = "unprotect" /\ Unprotect /\ UNCHANGED claims => ViewsOK'
           /\ \A c \in Claims : Delete(c) /\ UNCHANGED claims => ViewsOK'
<1>1. ASSUME pc = "write", Create, UNCHANGED claims PROVE ViewsOK'
  BY <1>1, AddressWriteType DEF TypeOK, Create
<1>2. ASSUME pc = "write", Patch, UNCHANGED claims PROVE ViewsOK'
  <2>1. CASE got = want
    BY <1>2, <2>1, TypeOKViews DEF Patch, ViewsOK
  <2>2. CASE got # want
    <3>1. cur \in Claims /\ got \in AddressObject /\ want \in AddressObject
      BY <1>2 DEF TypeOK, Patch
    <3>2. Stored(addresses)[cur] \in AddressObject
      BY <1>2, <2>2, <3>1, ReadTypes DEF Patch
    <3>3. PatchAddress(got, want, Stored(addresses)[cur]) \in AddressObject
      BY <3>1, <3>2, PatchTypes
    <3> QED
      BY <1>2, <2>2, <3>1, <3>3, AddressWriteType DEF Patch
  <2> QED
    BY <2>1, <2>2
<1>3. ASSUME pc = "unprotect", Unprotect, UNCHANGED claims PROVE ViewsOK'
  <2> DEFINE new == [got EXCEPT !.fin = FALSE]
  <2>1. cur \in Claims /\ got \in AddressObject /\ new \in AddressObject
    BY <1>3 DEF TypeOK, AddressObject
  <2>2. Stored(addresses)[cur] \in AddressObject
    BY <1>3, <2>1, ReadTypes DEF Unprotect
  <2>3. Settle(PatchAddress(got, new, Stored(addresses)[cur])) \in AddressObject \cup {None}
    BY <2>1, <2>2, PatchTypes, ObjectTypes
  <2> QED
    BY <1>3, <2>1, <2>3, AddressWriteType DEF Unprotect
<1>4. ASSUME NEW c \in Claims, Delete(c), UNCHANGED claims PROVE ViewsOK'
  <2>1. Stored(addresses)[c] \in AddressObject
    BY <1>4, ReadTypes DEF Delete
  <2>2. Deleted(Stored(addresses)[c]) \in AddressObject \cup {None}
    BY <2>1, ObjectTypes
  <2> QED
    BY <1>4, <2>2, AddressWriteType DEF Delete
<1> QED
  BY <1>1, <1>2, <1>3, <1>4

(* Every step of the reconciler, the faults and the cluster keeps TypeOK.  *)
LEMMA TypeOKStep == TypeOK /\ [Next]_vars => TypeOK'
<1> SUFFICES ASSUME TypeOK, [Next]_vars PROVE TypeOK'
  OBVIOUS
<1>1. ASSUME NEW c \in Claims, NEW cluster, NEW pool, Reconcile(c, cluster, pool) PROVE TypeOK'
  <2>1. Cached(claims)[c] \in ClaimObject
    BY <1>1, ReadTypes DEF Reconcile
  <2> QED
    BY <1>1, <2>1 DEF Reconcile, TypeOK
<1>2. CASE AddFinalizer
  <2>1. [claim EXCEPT !.fin = TRUE] \in ClaimObject
    BY <1>2 DEF AddFinalizer, TypeOK, ClaimObject
  <2> QED
    BY <1>2, <2>1, PatchAndReturnType DEF AddFinalizer
<1>3. CASE GetAddress
  <2>1. cur \in Claims /\ Cached(addresses)[cur] \in AddressObject \cup {None}
    BY <1>3, ReadTypes DEF GetAddress, TypeOK
  <2> QED
    BY <1>3, <2>1 DEF GetAddress, TypeOK
<1>4. CASE EnsureAddress
  <2>1. cur \in Claims /\ claim \in ClaimObject /\ got \in AddressObject \cup {None}
    BY <1>4 DEF EnsureAddress, TypeOK
  <2>2. PICK spec \in PoolSpecs[PoolOf[cur]] :
          \E ip \in IF cur \in AddressesInUse(cur)
                    THEN {a.ip : a \in {got} \ {None}}
                    ELSE FindFreeAddress(cur, spec) :
            want' = [ip |-> ip, fin |-> TRUE, deleting |-> got # None /\ got.deleting,
                     owner |-> claim.uid]
    BY <1>4 DEF EnsureAddress, CompletedAddress, OwnerReference
  <2>3. PICK ip : /\ \/ got # None /\ ip = got.ip
                     \/ ip \in spec
                  /\ want' = [ip |-> ip, fin |-> TRUE, deleting |-> got # None /\ got.deleting,
                              owner |-> claim.uid]
    BY <2>2 DEF FindFreeAddress, FreeAddresses
  <2>4. spec \subseteq IPs
    BY <2>1, ClaimsAssumption
  <2>5. ip \in IPs
    BY <2>1, <2>3, <2>4 DEF AddressObject
  <2>6. (got # None /\ got.deleting) \in BOOLEAN
    OBVIOUS
  <2>7. claim.uid \in 0 .. MaxUID
    BY <2>1, BoundsAssumption DEF ClaimObject
  <2>8. want' \in AddressObject
    BY <2>3, <2>5, <2>6, <2>7 DEF AddressObject
  <2> QED
    BY <1>4, <2>8 DEF EnsureAddress, TypeOK
<1>5. CASE CreateOrPatch
  BY <1>5, WorkerWriteTypes DEF CreateOrPatch, Goto, TypeOK, ViewsOK
<1>6. CASE AddressSeen
  BY <1>6 DEF AddressSeen, Goto, TypeOK
<1>7. CASE SetAddressRef
  <2>1. [claim EXCEPT !.ref = TRUE] \in ClaimObject
    BY <1>7 DEF SetAddressRef, TypeOK, ClaimObject
  <2> QED
    BY <1>7, <2>1, PatchAndReturnType DEF SetAddressRef
<1>8. CASE GetForRelease
  <2>1. cur \in Claims /\ Cached(addresses)[cur] \in AddressObject \cup {None}
    BY <1>8, ReadTypes DEF GetForRelease, TypeOK
  <2> QED
    BY <1>8, <2>1 DEF GetForRelease, TypeOK
<1>9. CASE RemoveProtection
  BY <1>9, WorkerWriteTypes DEF RemoveProtection, Goto, TypeOK, ViewsOK
<1>10. CASE DeleteAddress
  <2>1. cur \in Claims
    BY <1>10 DEF DeleteAddress, TypeOK
  <2> QED
    BY <1>10, <2>1, WorkerWriteTypes DEF DeleteAddress, Goto, TypeOK, ViewsOK
<1>11. CASE RemoveFinalizer
  <2>1. [claim EXCEPT !.fin = FALSE] \in ClaimObject
    BY <1>11 DEF RemoveFinalizer, TypeOK, ClaimObject
  <2> QED
    BY <1>11, <2>1, PatchAndReturnType DEF RemoveFinalizer
<1>12. CASE CreateUnanswered
  BY <1>12, WorkerWriteTypes, BoundsAssumption DEF CreateUnanswered, Return, TypeOK, ViewsOK
<1>13. CASE WaitTimeout
  BY <1>13, BoundsAssumption DEF WaitTimeout, Return, TypeOK
<1>14. CASE Fail
  BY <1>14 DEF Fail, Return, TypeOK
<1>15. CASE WriteUnanswered
  <2>1. pc = "delete" => cur \in Claims
    BY DEF TypeOK
  <2> QED
    BY <1>15, <2>1, WorkerWriteTypes DEF WriteUnanswered, Return, TypeOK, ViewsOK
<1>16. CASE Restart
  <2>1. ViewsOK'
    BY <1>16, RestartType, TypeOKViews DEF Restart, ViewsOK
  <2> QED
    BY <1>16, <2>1 DEF Restart, Return, TypeOK, ViewsOK
<1>17. ASSUME NEW c \in Claims, CreateClaim(c) PROVE TypeOK'
  <2>1. born[c] + 1 \in 1 .. MaxUID
    BY <1>17, BoundsAssumption DEF CreateClaim, TypeOK
  <2>2. ViewsOK'
    BY <1>17, <2>1, ClaimWriteType DEF CreateClaim, ClaimObject
  <2>3. born' \in [Claims -> 0 .. MaxUID]
    BY <1>17, <2>1 DEF CreateClaim, TypeOK
  <2> QED
    BY <1>17, <2>2, <2>3 DEF CreateClaim, worker, TypeOK, ViewsOK
<1>18. ASSUME NEW c \in Claims, DeleteClaim(c) PROVE TypeOK'
  <2>1. Stored(claims)[c] \in ClaimObject
    BY <1>18, ReadTypes DEF DeleteClaim
  <2>2. ViewsOK'
    BY <1>18, <2>1, ObjectTypes, ClaimWriteType DEF DeleteClaim
  <2> QED
    BY <1>18, <2>2 DEF DeleteClaim, worker, TypeOK, ViewsOK
<1>19. ASSUME NEW c \in Claims, DeleteAddressOf(c) PROVE TypeOK'
  BY <1>19, WorkerWriteTypes DEF DeleteAddressOf, worker, TypeOK, ViewsOK
<1>20. CASE WatchAddresses
  <2>1. ViewsOK'
    BY <1>20, TailType, TypeOKViews DEF WatchAddresses, ViewsOK
  <2> QED
    BY <1>20, <2>1 DEF WatchAddresses, worker, TypeOK, ViewsOK
<1>21. CASE WatchClaims
  <2>1. ViewsOK'
    BY <1>21, TailType, TypeOKViews DEF WatchClaims, ViewsOK
  <2> QED
    BY <1>21, <2>1 DEF WatchClaims, worker, TypeOK, ViewsOK
<1>22. CASE UNCHANGED vars
  BY <1>22 DEF vars, TypeOK
<1> QED
  BY <1>1, <1>2, <1>3, <1>4, <1>5, <1>6, <1>7, <1>8, <1>9, <1>10, <1>11, <1>12,
     <1>13, <1>14, <1>15, <1>16, <1>17, <1>18, <1>19, <1>20, <1>21, <1>22
     DEF Next, Worker, Fault, Environment

(* TypeOK holds when no claim has been created yet.                        *)
LEMMA TypeOKInit == Init => TypeOK
<1> SUFFICES ASSUME Init PROVE TypeOK
  OBVIOUS
<1>1. PICK imported \in [Adopted -> IPs] :
        addresses = << [c \in Claims |->
            IF c \in Adopted THEN Unmanaged(imported[c]) ELSE None] >>
  BY DEF Init
<1>2. \A c \in Adopted : Unmanaged(imported[c]) \in AddressObject
  BY BoundsAssumption DEF Unmanaged, AddressObject
<1>3. [c \in Claims |-> IF c \in Adopted THEN Unmanaged(imported[c]) ELSE None]
        \in [Claims -> AddressObject \cup {None}]
  BY <1>2
<1>4. ViewsOK
  BY <1>1, <1>3, BoundsAssumption DEF Init, ViewsOK
<1> QED
  BY <1>4, BoundsAssumption DEF Init, TypeOK, ViewsOK

(* Every object in the API server and in the caches, and every object the  *)
(* worker holds, has its type, in every behaviour of the reconciler.       *)
THEOREM TypeCorrect == Spec => []TypeOK
<1>1. Init => TypeOK
  BY TypeOKInit
<1>2. TypeOK /\ [Next]_vars => TypeOK'
  BY TypeOKStep
<1> QED
  BY <1>1, <1>2, PTL DEF Spec

-----------------------------------------------------------------------------
(* Uniqueness.                                                             *)

(* What a write does to the states of the view of the addresses.           *)
LEMMA WrittenView ==
    ASSUME TypeOK, NEW c \in Claims, NEW obj \in AddressObject \cup {None},
           addresses' = Write(addresses, c, obj)
    PROVE  \/ addresses' = addresses
           \/ /\ Len(addresses') = Len(addresses) + 1
              /\ DOMAIN addresses' = 1 .. Len(addresses) + 1
              /\ \A i \in DOMAIN addresses : addresses'[i] = addresses[i]
              /\ addresses'[Len(addresses) + 1][c] = obj
              /\ \A d \in Claims \ {c} :
                   addresses'[Len(addresses) + 1][d] = Stored(addresses)[d]
<1> DEFINE next == [Stored(addresses) EXCEPT ![c] = obj]
<1>1. Stored(addresses) \in [Claims -> AddressObject \cup {None}]
  BY DEF TypeOK, Stored
<1>2. next \in [Claims -> AddressObject \cup {None}] /\ next[c] = obj
  BY <1>1
<1>3. \A d \in Claims \ {c} : next[d] = Stored(addresses)[d]
  BY <1>1
<1>4. addresses' = addresses \/ addresses' = Append(addresses, next)
  BY DEF Write
<1>5. addresses \in Seq([Claims -> AddressObject \cup {None}])
  BY DEF TypeOK
<1> HIDE DEF next
<1>6. CASE addresses' = Append(addresses, next)
  BY <1>2, <1>3, <1>5, <1>6, AppendView
<1> QED
  BY <1>4, <1>6

(* The part of the invariant that is about the view alone.                 *)
ViewInv ==
    /\ UniqueAddresses
    /\ Awaited(addresses)
    /\ GoneForGood(addresses)
    /\ SameIP(addresses)

(* A write that removes an address or keeps its ip.                        *)
LEMMA FadingWrite ==
    ASSUME TypeOK, ViewInv, NEW c \in Claims, NEW obj \in AddressObject \cup {None},
           addresses' = Write(addresses, c, obj),
           obj # None => Stored(addresses)[c] # None /\ obj.ip = Stored(addresses)[c].ip,
           pc # "wait" \/ UNCHANGED <<pc, cur>>
    PROVE  /\ ViewInv'
           /\ UNCHANGED cur /\ cur \in Claims /\ Missing(addresses) => Missing(addresses)'
           /\ UNCHANGED <<cur, want>> /\ NobodyElses(addresses) => NobodyElses(addresses)'
<1> DEFINE n == Len(addresses)
<1>1. n \in Nat /\ n >= 1 /\ DOMAIN addresses = 1 .. n /\ Stored(addresses) = addresses[n]
  BY DEF TypeOK, Stored
<1>2. CASE addresses' = addresses
  BY <1>2 DEF ViewInv, UniqueAddresses, Awaited, GoneForGood, SameIP, Missing, NobodyElses, Stored
<1>3. CASE /\ Len(addresses') = n + 1
           /\ DOMAIN addresses' = 1 .. n + 1
           /\ \A i \in 1 .. n : addresses'[i] = addresses[i]
           /\ addresses'[n + 1][c] = obj
           /\ \A d \in Claims \ {c} : addresses'[n + 1][d] = addresses[n][d]
  <2>1. \A d \in Claims : addresses'[n + 1][d] # None =>
          /\ addresses[n][d] # None
          /\ addresses'[n + 1][d].ip = addresses[n][d].ip
    BY <1>1, <1>3
  <2>2. Stored(addresses)' = addresses'[n + 1]
    BY <1>3 DEF Stored
  <2> HIDE DEF n
  <2>3. UniqueAddresses'
    BY <1>1, <2>1, <2>2 DEF ViewInv, UniqueAddresses
  <2>4. Awaited(addresses)'
    BY <1>1, <1>3, <2>1 DEF ViewInv, Awaited
  <2>5. GoneForGood(addresses)'
    BY <1>1, <1>3, <2>1 DEF ViewInv, GoneForGood
  <2>6. SameIP(addresses)'
    BY <1>1, <1>3, <2>1 DEF ViewInv, SameIP
  <2>7. UNCHANGED cur /\ cur \in Claims /\ Missing(addresses) => Missing(addresses)'
    BY <1>1, <1>3, <2>1 DEF Missing
  <2>8. UNCHANGED <<cur, want>> /\ NobodyElses(addresses) => NobodyElses(addresses)'
    BY <1>1, <1>3, <2>1 DEF NobodyElses
  <2> QED
    BY <2>3, <2>4, <2>5, <2>6, <2>7, <2>8 DEF ViewInv
<1> QED
  BY <1>1, <1>2, <1>3, WrittenView

(* The create: nothing of that name was anywhere in the view, and nobody   *)
(* else has the address.                                                   *)
LEMMA CreatingWrite ==
    ASSUME TypeOK, ViewInv, pc = "write", Create, Missing(addresses),
           NobodyElses(addresses), pc' = "wait", UNCHANGED cur
    PROVE  ViewInv'
<1> DEFINE n == Len(addresses)
<1>1. cur \in Claims /\ want \in AddressObject
  BY DEF TypeOK
<1>2. n \in Nat /\ n >= 1 /\ DOMAIN addresses = 1 .. n /\ Stored(addresses) = addresses[n]
  BY DEF TypeOK, Stored
<1>3. want # None
  BY <1>1, NoneAssumption
<1>4. addresses' # addresses
  BY <1>3 DEF Create, Write, Stored
<1>5. /\ Len(addresses') = n + 1
      /\ DOMAIN addresses' = 1 .. n + 1
      /\ \A i \in 1 .. n : addresses'[i] = addresses[i]
      /\ addresses'[n + 1][cur] = want
      /\ \A d \in Claims \ {cur} : addresses'[n + 1][d] = addresses[n][d]
  BY <1>1, <1>2, <1>4, WrittenView DEF Create
<1>6. Stored(addresses)' = addresses'[n + 1]
  BY <1>5 DEF Stored
<1> HIDE DEF n
<1>7. UniqueAddresses'
  BY <1>1, <1>2, <1>5, <1>6 DEF ViewInv, UniqueAddresses, NobodyElses
<1>8. Awaited(addresses)'
  BY <1>2, <1>5 DEF ViewInv, Awaited
<1>9. GoneForGood(addresses)'
  BY <1>1, <1>2, <1>5 DEF ViewInv, GoneForGood, Missing
<1>10. SameIP(addresses)'
  BY <1>1, <1>2, <1>5 DEF ViewInv, SameIP, Missing
<1> QED
  BY <1>7, <1>8, <1>9, <1>10 DEF ViewInv

(* The cache moves on.                                                     *)
LEMMA WatchedView ==
    ASSUME TypeOK, ViewInv, WatchAddresses
    PROVE  /\ ViewInv'
           /\ Missing(addresses) => Missing(addresses)'
           /\ NobodyElses(addresses) => NobodyElses(addresses)'
<1> DEFINE n == Len(addresses)
<1>1. n \in Nat /\ n > 1 /\ DOMAIN addresses = 1 .. n
  BY DEF TypeOK, WatchAddresses
<1>2. /\ Len(addresses') = n - 1
      /\ DOMAIN addresses' = 1 .. n - 1
      /\ \A i \in 1 .. n - 1 : addresses'[i] = addresses[i + 1]
  BY DEF TypeOK, WatchAddresses
<1>3. Stored(addresses)' = Stored(addresses)
  BY <1>1, <1>2 DEF Stored
<1>4. pc' = pc /\ cur' = cur /\ want' = want
  BY DEF WatchAddresses, worker
<1> HIDE DEF n
<1>5. \A i \in DOMAIN addresses' : i + 1 \in DOMAIN addresses /\ addresses'[i] = addresses[i + 1]
  BY <1>1, <1>2
<1>6. \A i, j \in DOMAIN addresses' : i < j => i + 1 < j + 1
  BY <1>2
<1>7. UniqueAddresses'
  BY <1>3 DEF ViewInv, UniqueAddresses
<1>8. Awaited(addresses)'
  BY <1>4, <1>5, <1>6 DEF ViewInv, Awaited
<1>9. GoneForGood(addresses)'
  BY <1>5, <1>6 DEF ViewInv, GoneForGood
<1>10. SameIP(addresses)'
  BY <1>5 DEF ViewInv, SameIP
<1>11. Missing(addresses) => Missing(addresses)'
  BY <1>4, <1>5 DEF Missing
<1>12. NobodyElses(addresses) => NobodyElses(addresses)'
  BY <1>4, <1>5 DEF NobodyElses
<1> QED
  BY <1>7, <1>8, <1>9, <1>10, <1>11, <1>12 DEF ViewInv

(* A restart leaves one state in the view.                                 *)
LEMMA RestartedView ==
    ASSUME TypeOK, ViewInv, addresses' = <<Stored(addresses)>>
    PROVE  ViewInv'
<1>1. DOMAIN addresses' = {1} /\ Stored(addresses)' = Stored(addresses)
  BY DEF Stored
<1>2. UniqueAddresses'
  BY <1>1 DEF ViewInv, UniqueAddresses
<1>3. Awaited(addresses)' /\ GoneForGood(addresses)' /\ SameIP(addresses)'
  BY <1>1 DEF Awaited, GoneForGood, SameIP
<1> QED
  BY <1>2, <1>3 DEF ViewInv

(* A worker that is not waiting, or sees what it waits for, misses nothing *)
(* of what is stored.                                                      *)
LEMMA ViewInvFrame ==
    ASSUME TypeOK, ViewInv, UNCHANGED addresses,
           \/ pc # "wait"
           \/ Cached(addresses)[cur] # None
    PROVE  ViewInv'
<1>1. 1 \in DOMAIN addresses /\ \A i \in DOMAIN addresses : i \in Nat /\ i >= 1
  BY DEF TypeOK
<1>2. ASSUME NEW c \in Claims, NEW i \in DOMAIN addresses, NEW j \in DOMAIN addresses,
             i < j, addresses[i][c] = None, addresses[j][c] # None
      PROVE  FALSE
  <2>1. pc = "wait" /\ cur = c
    BY <1>2 DEF ViewInv, Awaited
  <2>2. addresses[1][c] # None
    BY <2>1 DEF Cached
  <2>3. 1 < i
    BY <1>1, <1>2, <2>2
  <2> QED
    BY <1>1, <1>2, <2>2, <2>3 DEF ViewInv, GoneForGood
<1>3. Awaited(addresses)'
  BY <1>2 DEF Awaited
<1> QED
  BY <1>3 DEF ViewInv, UniqueAddresses, GoneForGood, SameIP, Stored

(* The three kinds of write that never introduce an address.               *)
LEMMA FadingObjects ==
    ASSUME NEW stored \in AddressObject, NEW old \in AddressObject, NEW new \in AddressObject,
           old.ip = new.ip
    PROVE  /\ PatchAddress(old, new, stored) \in AddressObject
           /\ PatchAddress(old, new, stored).ip = stored.ip
           /\ LET obj == Settle(PatchAddress(old, new, stored))
              IN  obj \in AddressObject \cup {None} /\ (obj # None => obj.ip = stored.ip)
           /\ LET obj == Deleted(stored)
              IN  obj \in AddressObject \cup {None} /\ (obj # None => obj.ip = stored.ip)
BY DEF AddressObject, PatchAddress, Merge, Settle, Deleted

(* Taking the finalizer off an address keeps the view's invariant.         *)
LEMMA UnprotectKeeps ==
    ASSUME TypeOK, ViewInv, pc = "unprotect", Unprotect
    PROVE  ViewInv'
<1> DEFINE new == [got EXCEPT !.fin = FALSE]
           obj == Settle(PatchAddress(got, new, Stored(addresses)[cur]))
<1>1. /\ cur \in Claims /\ got \in AddressObject
      /\ new \in AddressObject /\ new.ip = got.ip
  BY DEF TypeOK, AddressObject
<1>2. Stored(addresses)[cur] \in AddressObject
  BY <1>1, ReadTypes DEF Unprotect
<1>3. obj \in AddressObject \cup {None} /\ (obj # None => obj.ip = Stored(addresses)[cur].ip)
  BY <1>1, <1>2, FadingObjects
<1>4. addresses' = Write(addresses, cur, obj) /\ Stored(addresses)[cur] # None
  BY DEF Unprotect
<1> QED
  BY <1>1, <1>3, <1>4, FadingWrite

(* A deletion of an address keeps the view's invariant.                    *)
LEMMA DeleteKeeps ==
    ASSUME TypeOK, ViewInv, NEW c \in Claims, Delete(c),
           pc # "wait" \/ UNCHANGED <<pc, cur>>
    PROVE  /\ ViewInv'
           /\ UNCHANGED cur /\ cur \in Claims /\ Missing(addresses) => Missing(addresses)'
           /\ UNCHANGED <<cur, want>> /\ NobodyElses(addresses) => NobodyElses(addresses)'
<1> DEFINE obj == Deleted(Stored(addresses)[c])
<1>1. Stored(addresses)[c] \in AddressObject
  BY ReadTypes DEF Delete
<1>2. obj \in AddressObject \cup {None} /\ (obj # None => obj.ip = Stored(addresses)[c].ip)
  BY <1>1, FadingObjects
<1>3. addresses' = Write(addresses, c, obj) /\ Stored(addresses)[c] # None
  BY DEF Delete
<1> QED
  BY <1>2, <1>3, FadingWrite

(* A patch never changes the ip: had EnsureAddress picked a new one, the   *)
(* address would be gone.                                                  *)
LEMMA PatchKeeps ==
    ASSUME TypeOK, ViewInv, pc = "write", Patch,
           got # None /\ want.ip # got.ip => Missing(addresses)
    PROVE  ViewInv'
<1> DEFINE obj == PatchAddress(got, want, Stored(addresses)[cur])
<1>1. cur \in Claims /\ got \in AddressObject /\ want \in AddressObject
  BY DEF TypeOK, Patch
<1>2. CASE got = want
  <2>1. UNCHANGED addresses
    BY <1>2 DEF Patch
  <2> QED
    BY <2>1, ViewInvFrame
<1>3. CASE got # want
  <2>1. Stored(addresses)[cur] # None /\ Stored(addresses)[cur] \in AddressObject
    BY <1>1, <1>3, ReadTypes DEF Patch
  <2>2. want.ip = got.ip
    BY <2>1 DEF Missing, Stored, TypeOK, Patch
  <2>3. obj \in AddressObject /\ obj.ip = Stored(addresses)[cur].ip
    BY <1>1, <2>1, <2>2, FadingObjects
  <2>4. addresses' = Write(addresses, cur, obj)
    BY <1>3 DEF Patch
  <2> QED
    BY <1>1, <2>1, <2>3, <2>4, FadingWrite
<1> QED
  BY <1>2, <1>3

(* EnsureAddress sees every address there is, so what it picks is free.    *)
LEMMA EnsuredAddress ==
    ASSUME TypeOK, ViewInv, EnsureAddress, got = None => Missing(addresses)
    PROVE  /\ got # None /\ want'.ip # got.ip => Missing(addresses)'
           /\ got = None => NobodyElses(addresses)'
<1>1. /\ cur \in Claims /\ pc = "ensure"
      /\ UNCHANGED <<addresses, cur, got>>
  BY DEF EnsureAddress, TypeOK
<1>2. 1 \in DOMAIN addresses /\ \A i \in DOMAIN addresses : i \in Nat /\ i >= 1
  BY DEF TypeOK
<1>3. ASSUME NEW d \in Claims, NEW i \in DOMAIN addresses, addresses[i][d] # None
      PROVE  addresses[1][d] # None /\ addresses[1][d].ip = addresses[i][d].ip
  <2>1. addresses[1][d] # None
    BY <1>1, <1>2, <1>3 DEF ViewInv, Awaited
  <2> QED
    BY <1>2, <1>3, <2>1 DEF ViewInv, SameIP
<1>4. PICK spec \in PoolSpecs[PoolOf[cur]] :
        \E ip \in IF cur \in AddressesInUse(cur)
                  THEN {a.ip : a \in {got} \ {None}}
                  ELSE FindFreeAddress(cur, spec) :
          want'.ip = ip
  BY DEF EnsureAddress, CompletedAddress
<1>5. CASE cur \in AddressesInUse(cur)
  <2>1. got # None /\ want'.ip = got.ip
    BY <1>4, <1>5
  <2> QED
    BY <2>1
<1>6. CASE cur \notin AddressesInUse(cur)
  <2>1. Missing(addresses)
    BY <1>1, <1>3, <1>6 DEF AddressesInUse, Cached, Missing
  <2>2. want'.ip \in FreeAddresses(cur, spec)
    BY <1>4, <1>6 DEF FindFreeAddress
  <2>3. NobodyElses(addresses)'
    BY <1>1, <1>3, <2>2 DEF FreeAddresses, AddressesInUse, Cached, NobodyElses
  <2> QED
    BY <1>1, <2>1, <2>3 DEF Missing
<1> QED
  BY <1>5, <1>6

(* A worker that has seen every address it created had seen them before.   *)
LEMMA StillSighted ==
    ASSUME TypeOK, [Next]_vars, blind' = 0
    PROVE  blind = 0
<1>1. blind \in Nat
  BY DEF TypeOK
<1>2. blind' = blind \/ blind' = blind + 1
  BY DEF Next, Worker, Fault, Environment, vars, Reconcile, AddFinalizer, GetAddress,
         EnsureAddress, CreateOrPatch, AddressSeen, SetAddressRef, GetForRelease,
         RemoveProtection, DeleteAddress, RemoveFinalizer, PatchAndReturn,
         CreateUnanswered, WaitTimeout, Fail, WriteUnanswered, Restart, CreateClaim,
         DeleteClaim, DeleteAddressOf, WatchAddresses, WatchClaims
<1> QED
  BY <1>1, <1>2

(* Every step keeps the strengthened invariant of uniqueness.              *)
LEMMA UniqueInvStep == TypeOK /\ UniqueInv /\ [Next]_vars => UniqueInv'
<1> SUFFICES ASSUME TypeOK, UniqueInv, [Next]_vars, blind' = 0 PROVE UniqueInv'
  BY DEF UniqueInv
<1>1. blind = 0
  BY StillSighted
<1>2. /\ ViewInv
      /\ pc \in {"ensure", "write"} /\ got = None => Missing(addresses)
      /\ pc = "write" /\ got # None /\ want.ip # got.ip => Missing(addresses)
      /\ pc = "write" /\ got = None => NobodyElses(addresses)
  BY <1>1 DEF UniqueInv, ViewInv
<1>3. pc # "idle" => cur \in Claims
  BY DEF TypeOK
<1>4. ASSUME ViewInv', pc' \notin {"ensure", "write"} PROVE UniqueInv'
  BY <1>4 DEF UniqueInv, ViewInv
<1>5. ASSUME UNCHANGED <<addresses, worker>> PROVE UniqueInv'
  BY <1>2, <1>5 DEF worker, UniqueInv, ViewInv, UniqueAddresses, Awaited, GoneForGood,
                    SameIP, Missing, NobodyElses, Stored
<1>6. ASSUME NEW c \in Claims, NEW cluster, NEW pool, Reconcile(c, cluster, pool) PROVE UniqueInv'
  BY <1>2, <1>4, <1>6, ViewInvFrame DEF Reconcile
<1>7. CASE AddFinalizer \/ SetAddressRef \/ RemoveFinalizer
  BY <1>2, <1>4, <1>7, ViewInvFrame
     DEF AddFinalizer, SetAddressRef, RemoveFinalizer, PatchAndReturn, Return
<1>8. CASE GetAddress
  <2>1. ViewInv'
    BY <1>2, <1>8, ViewInvFrame DEF GetAddress
  <2>2. got' = None => Missing(addresses)'
    <3>1. 1 \in DOMAIN addresses /\ \A i \in DOMAIN addresses : i \in Nat /\ i >= 1
      BY DEF TypeOK
    <3>2. cur \in Claims /\ pc = "get" /\ got' = addresses[1][cur]
      BY <1>3, <1>8 DEF GetAddress, Cached
    <3>3. addresses[1][cur] = None => Missing(addresses)
      BY <1>2, <3>1, <3>2 DEF ViewInv, Awaited, Missing
    <3> QED
      BY <1>8, <3>2, <3>3 DEF GetAddress, Missing
  <2> QED
    BY <1>8, <2>1, <2>2 DEF GetAddress, UniqueInv, ViewInv
<1>9. CASE EnsureAddress
  <2>1. ViewInv'
    BY <1>2, <1>9, ViewInvFrame DEF EnsureAddress
  <2>2. /\ got # None /\ want'.ip # got.ip => Missing(addresses)'
        /\ got = None => NobodyElses(addresses)'
    BY <1>2, <1>9, EnsuredAddress DEF EnsureAddress
  <2>3. got = None => Missing(addresses)'
    BY <1>2, <1>9 DEF EnsureAddress, Missing
  <2> QED
    BY <1>9, <2>1, <2>2, <2>3 DEF EnsureAddress, UniqueInv, ViewInv
<1>10. CASE CreateOrPatch
  <2>1. CASE Create
    BY <1>2, <1>4, <1>10, <2>1, CreatingWrite DEF CreateOrPatch, Create, Goto
  <2>2. CASE Patch
    BY <1>2, <1>4, <1>10, <2>2, PatchKeeps DEF CreateOrPatch, Goto
  <2> QED
    BY <1>10, <2>1, <2>2 DEF CreateOrPatch
<1>11. CASE AddressSeen
  BY <1>2, <1>4, <1>11, ViewInvFrame DEF AddressSeen, Goto
<1>12. CASE GetForRelease
  BY <1>2, <1>4, <1>12, ViewInvFrame DEF GetForRelease
<1>13. CASE RemoveProtection
  BY <1>2, <1>4, <1>13, UnprotectKeeps, ViewInvFrame DEF RemoveProtection, Goto
<1>14. CASE DeleteAddress
  BY <1>2, <1>3, <1>4, <1>14, DeleteKeeps, ViewInvFrame DEF DeleteAddress, Goto
<1>15. CASE CreateUnanswered \/ WaitTimeout
  BY <1>1, <1>15 DEF CreateUnanswered, WaitTimeout
<1>16. CASE Fail
  BY <1>2, <1>4, <1>16, ViewInvFrame DEF Fail, Return
<1>17. CASE WriteUnanswered
  BY <1>2, <1>3, <1>4, <1>17, PatchKeeps, UnprotectKeeps, DeleteKeeps
     DEF WriteUnanswered, Return
<1>18. CASE Restart
  BY <1>2, <1>4, <1>18, RestartedView DEF Restart, Return
<1>19. ASSUME NEW c \in Claims, CreateClaim(c) \/ DeleteClaim(c) PROVE UniqueInv'
  BY <1>5, <1>19 DEF CreateClaim, DeleteClaim
<1>20. ASSUME NEW c \in Claims, DeleteAddressOf(c) PROVE UniqueInv'
  <2>1. Delete(c) /\ pc' = pc /\ cur' = cur /\ got' = got /\ want' = want
    BY <1>20 DEF DeleteAddressOf, worker
  <2>2. /\ ViewInv'
        /\ cur \in Claims /\ Missing(addresses) => Missing(addresses)'
        /\ NobodyElses(addresses) => NobodyElses(addresses)'
    BY <1>2, <2>1, DeleteKeeps
  <2> QED
    BY <1>2, <1>3, <2>1, <2>2 DEF UniqueInv, ViewInv
<1>21. CASE WatchAddresses
  <2>1. /\ ViewInv'
        /\ Missing(addresses) => Missing(addresses)'
        /\ NobodyElses(addresses) => NobodyElses(addresses)'
    BY <1>2, <1>21, WatchedView
  <2> QED
    BY <1>2, <1>21, <2>1 DEF WatchAddresses, worker, UniqueInv, ViewInv
<1>22. CASE WatchClaims \/ UNCHANGED vars
  BY <1>5, <1>22 DEF WatchClaims, vars, worker
<1> QED
  BY <1>6, <1>7, <1>8, <1>9, <1>10, <1>11, <1>12, <1>13, <1>14, <1>15, <1>16, <1>17,
     <1>18, <1>19, <1>20, <1>21, <1>22 DEF Next, Worker, Fault, Environment

(* The strengthened invariant holds initially.                             *)
LEMMA UniqueInvInit == Init => UniqueInv
<1> SUFFICES ASSUME Init PROVE UniqueInv
  OBVIOUS
<1>1. PICK imported \in [Adopted -> IPs] :
        /\ \A c, d \in Adopted :
             c # d /\ PoolOf[c] = PoolOf[d] => imported[c] # imported[d]
        /\ addresses = << [c \in Claims |->
               IF c \in Adopted THEN Unmanaged(imported[c]) ELSE None] >>
  BY DEF Init
<1>2. DOMAIN addresses = {1} /\ Stored(addresses) = addresses[1]
  BY <1>1 DEF Stored
<1>3. \A c \in Claims : Stored(addresses)[c] # None =>
        c \in Adopted /\ Stored(addresses)[c].ip = imported[c]
  BY <1>1, <1>2 DEF Unmanaged
<1>4. UniqueAddresses
  BY <1>1, <1>3 DEF UniqueAddresses
<1>5. Awaited(addresses) /\ GoneForGood(addresses) /\ SameIP(addresses)
  BY <1>2 DEF Awaited, GoneForGood, SameIP
<1> QED
  BY <1>4, <1>5 DEF Init, UniqueInv

(* What makes the next pick safe: addresses the cache lacks are the one    *)
(* the worker waits for, and what a request found missing or free stays so *)
(* in every state that the cache still has to show.                        *)
THEOREM NothingHidden == Spec => []UniqueInv
<1>1. Init => TypeOK /\ UniqueInv
  BY TypeOKInit, UniqueInvInit
<1>2. TypeOK /\ UniqueInv /\ [Next]_vars => (TypeOK /\ UniqueInv)'
  BY TypeOKStep, UniqueInvStep
<1> QED
  BY <1>1, <1>2, PTL DEF Spec

(* No two IPAddresses of a pool hold the same address as long as every     *)
(* request that created one saw it in the cache before it ended, for any   *)
(* number of claims and pools, any lag of the caches, restarts and failed  *)
(* calls included.                                                         *)
THEOREM Uniqueness == Spec => []UniqueWhileSighted
<1>1. UniqueInv => UniqueWhileSighted
  BY DEF UniqueInv, UniqueWhileSighted
<1> QED
  BY <1>1, NothingHidden, PTL

-----------------------------------------------------------------------------
(* The lives of claims.                                                    *)

(* What a write does to the states of the view of the claims.              *)
LEMMA WrittenClaims ==
    ASSUME TypeOK, NEW c \in Claims, NEW obj \in ClaimObject \cup {None},
           claims' = Write(claims, c, obj)
    PROVE  \/ claims' = claims /\ Stored(claims)[c] = obj
           \/ /\ Len(claims') = Len(claims) + 1
              /\ DOMAIN claims' = 1 .. Len(claims) + 1
              /\ \A i \in DOMAIN claims : claims'[i] = claims[i]
              /\ claims'[Len(claims) + 1][c] = obj
              /\ \A d \in Claims \ {c} :
                   claims'[Len(claims) + 1][d] = Stored(claims)[d]
<1> DEFINE next == [Stored(claims) EXCEPT ![c] = obj]
<1>1. Stored(claims) \in [Claims -> ClaimObject \cup {None}]
  BY DEF TypeOK, Stored
<1>2. next \in [Claims -> ClaimObject \cup {None}] /\ next[c] = obj
  BY <1>1
<1>3. \A d \in Claims \ {c} : next[d] = Stored(claims)[d]
  BY <1>1
<1>4. (claims' = claims /\ Stored(claims)[c] = obj) \/ claims' = Append(claims, next)
  BY DEF Write
<1>5. claims \in Seq([Claims -> ClaimObject \cup {None}])
  BY DEF TypeOK
<1> HIDE DEF next
<1>6. CASE claims' = Append(claims, next)
  BY <1>2, <1>3, <1>5, <1>6, AppendView
<1> QED
  BY <1>4, <1>6

(* The indices of a view.                                                  *)
LEMMA ClaimIndices ==
    ASSUME TypeOK
    PROVE  /\ Len(claims) \in Nat /\ Len(claims) >= 1
           /\ DOMAIN claims = 1 .. Len(claims)
           /\ Stored(claims) = claims[Len(claims)]
           /\ Cached(claims) = claims[1]
BY DEF TypeOK, Stored, Cached

(* What is in a view is an object with its fields, or None.                *)
LEMMA ClaimStates ==
    ASSUME TypeOK, NEW c \in Claims, NEW i \in DOMAIN claims, claims[i][c] # None
    PROVE  /\ claims[i][c] \in ClaimObject
           /\ claims[i][c].uid \in Nat /\ claims[i][c].uid >= 1 /\ claims[i][c].uid <= MaxUID
           /\ claims[i][c].fin \in BOOLEAN
           /\ claims[i][c].deleting \in BOOLEAN
           /\ claims[i][c].ref \in BOOLEAN
<1>1. claims[i][c] \in ClaimObject
  BY DEF TypeOK
<1> QED
  BY <1>1, BoundsAssumption DEF ClaimObject

(* The part of LifeInv that is about the view, and the part about the      *)
(* request.                                                                *)
LifeView ==
    /\ \A c \in Claims : \A i \in DOMAIN claims : ClaimLife(c, i)
    /\ \A c \in Claims : Stored(claims)[c] # None => Stored(claims)[c].uid = born[c]

LifeRequest ==
    /\ pc # "idle" => /\ claim.uid <= born[cur]
                      /\ \A i \in DOMAIN claims : Follows(claim, claims[i][cur])
    /\ pc = "addFinalizer" => ~claim.fin /\ FinalizerStays(cur, 1)
    /\ pc \in Serving => Live(claim)
    /\ pc \in Releasing => claim.fin /\ claim.deleting

(* The two parts are the whole.                                            *)
LEMMA LifeParts == LifeInv <=> LifeView /\ LifeRequest
BY DEF LifeInv, LifeView, LifeRequest

(* A state that fits to the ones before it may be stored.                  *)
LEMMA LifeWrite ==
    ASSUME TypeOK, LifeView, NEW c \in Claims, NEW obj \in ClaimObject \cup {None},
           claims' = Write(claims, c, obj),
           \A d \in Claims : born[d] \in Nat /\ born'[d] \in Nat /\ born[d] <= born'[d],
           \A d \in Claims \ {c} : born'[d] = born[d],
           obj # None => /\ obj.uid = born'[c]
                         /\ obj.deleting \/ obj.ref => obj.fin,
           \A i \in DOMAIN claims : claims[i][c] # None =>
               /\ Follows(claims[i][c], obj)
               /\ ~claims[i][c].fin /\ (\E j \in DOMAIN claims : i <= j /\ Finalized(claims[j][c]))
                    => Finalized(obj)
    PROVE  LifeView'
<1>1. PICK n \in Nat :
        /\ n = Len(claims) /\ n >= 1 /\ DOMAIN claims = 1 .. n /\ Stored(claims) = claims[n]
  BY ClaimIndices
<1>2. CASE claims' = claims /\ Stored(claims)[c] = obj
  <2>1. Stored(claims)' = Stored(claims)
    BY <1>2 DEF Stored
  <2>2. \A d \in Claims : Stored(claims)[d] # None => Stored(claims)[d].uid = born'[d]
    BY <1>2 DEF LifeView
  <2>3. ASSUME NEW d \in Claims, NEW i \in DOMAIN claims, claims[i][d] # None
        PROVE  claims[i][d].uid <= born'[d]
    BY <2>3, ClaimStates DEF LifeView, ClaimLife
  <2>4. \A d \in Claims : \A i \in DOMAIN claims : ClaimLife(d, i)'
    BY <1>2, <2>3 DEF LifeView, ClaimLife, FinalizerStays
  <2> QED
    BY <1>2, <2>1, <2>2, <2>4 DEF LifeView
<1>3. CASE /\ Len(claims') = n + 1
           /\ DOMAIN claims' = 1 .. n + 1
           /\ \A i \in 1 .. n : claims'[i] = claims[i]
           /\ claims'[n + 1][c] = obj
           /\ \A d \in Claims \ {c} : claims'[n + 1][d] = claims[n][d]
  <2>1. Stored(claims)' = claims'[n + 1]
    BY <1>3 DEF Stored
  <2>2. \A d \in Claims : Stored(claims)'[d] # None => Stored(claims)'[d].uid = born'[d]
    BY <1>1, <1>3, <2>1 DEF LifeView
  <2>3. ASSUME NEW d \in Claims, NEW i \in 1 .. n, claims[i][d] # None
        PROVE  /\ claims[i][d].uid <= born'[d]
               /\ claims[i][d].deleting \/ claims[i][d].ref => claims[i][d].fin
    BY <1>1, <2>3, ClaimStates DEF LifeView, ClaimLife
  <2>4. ASSUME NEW d \in Claims, NEW i \in 1 .. n, claims[i][d] # None
        PROVE  Follows(claims[i][d], claims'[n + 1][d])
    <3>1. CASE d = c
      BY <1>1, <1>3, <2>4, <3>1
    <3>2. CASE d # c /\ i < n
      BY <1>1, <1>3, <2>4, <3>2 DEF LifeView, ClaimLife
    <3>3. CASE d # c /\ i = n
      <4>1. claims[n][d].uid \in Nat
        BY <1>1, <2>4, <3>3, ClaimStates
      <4> QED
        BY <1>1, <1>3, <2>4, <3>3, <4>1 DEF Follows, Live
    <3> QED
      BY <1>1, <3>1, <3>2, <3>3
  <2>5. ASSUME NEW d \in Claims, NEW i \in 1 .. n, claims[i][d] # None, ~claims[i][d].fin
        PROVE  FinalizerStays(d, i)'
    <3> SUFFICES ASSUME NEW j \in 1 .. n + 1, NEW k \in 1 .. n + 1, i <= j, j < k,
                        Finalized(claims'[j][d])
                 PROVE  Finalized(claims'[k][d])
      BY <1>3 DEF FinalizerStays
    <3>1. j \in 1 .. n /\ claims'[j] = claims[j] /\ Finalized(claims[j][d])
      BY <1>1, <1>3
    <3>2. FinalizerStays(d, i)
      BY <1>1, <2>5 DEF LifeView, ClaimLife
    <3>3. CASE k \in 1 .. n
      BY <1>1, <1>3, <3>1, <3>2, <3>3 DEF FinalizerStays
    <3>4. CASE k = n + 1 /\ d = c
      BY <1>1, <1>3, <2>5, <3>1, <3>4
    <3>5. CASE k = n + 1 /\ d # c
      <4>1. claims'[k][d] = claims[n][d]
        BY <1>3, <3>5
      <4>2. Finalized(claims[n][d])
        BY <1>1, <3>1, <3>2 DEF FinalizerStays
      <4> QED
        BY <4>1, <4>2
    <3> QED
      BY <1>1, <3>3, <3>4, <3>5
  <2>6. ASSUME NEW d \in Claims, claims'[n + 1][d] # None
        PROVE  /\ claims'[n + 1][d].uid <= born'[d]
               /\ claims'[n + 1][d].deleting \/ claims'[n + 1][d].ref => claims'[n + 1][d].fin
    <3>1. CASE d = c
      BY <1>3, <2>6, <3>1
    <3>2. CASE d # c
      BY <1>1, <1>3, <2>3, <2>6, <3>2
    <3> QED
      BY <3>1, <3>2
  <2>7. ASSUME NEW d \in Claims, NEW i \in 1 .. n
        PROVE  ClaimLife(d, i)'
    <3>1. \A j \in 1 .. n : claims[i][d] # None /\ i < j => Follows(claims[i][d], claims[j][d])
      BY <1>1 DEF LifeView, ClaimLife
    <3>2. \A j \in 1 .. n + 1 : claims[i][d] # None /\ i < j => Follows(claims'[i][d], claims'[j][d])
      BY <1>1, <1>3, <2>4, <3>1
    <3>3. claims[i][d] # None => claims[i][d].fin \in BOOLEAN
      BY <1>1, ClaimStates
    <3> QED
      BY <1>1, <1>3, <2>3, <2>5, <3>2, <3>3 DEF ClaimLife
  <2>8. ASSUME NEW d \in Claims
        PROVE  ClaimLife(d, n + 1)'
    <3>1. \A j \in 1 .. n + 1 : ~(n + 1 < j)
      BY <1>1
    <3>2. FinalizerStays(d, n + 1)'
      BY <1>1, <1>3 DEF FinalizerStays
    <3> QED
      BY <1>3, <2>6, <3>1, <3>2 DEF ClaimLife
  <2>9. \A i \in DOMAIN claims' : i \in 1 .. n \/ i = n + 1
    BY <1>1, <1>3
  <2>10. \A d \in Claims : \A i \in DOMAIN claims' : ClaimLife(d, i)'
    BY <2>7, <2>8, <2>9
  <2> QED
    BY <2>2, <2>10 DEF LifeView
<1> QED
  BY <1>1, <1>2, <1>3, WrittenClaims

(* What is stored follows every state of the view.                         *)
LEMMA StoredFollows ==
    ASSUME TypeOK, LifeView, NEW c \in Claims, NEW i \in DOMAIN claims, claims[i][c] # None
    PROVE  /\ Follows(claims[i][c], Stored(claims)[c])
           /\ ~claims[i][c].fin /\ (\E j \in DOMAIN claims : i <= j /\ Finalized(claims[j][c]))
                => Finalized(Stored(claims)[c])
<1>1. PICK n \in Nat :
        /\ n = Len(claims) /\ n >= 1 /\ DOMAIN claims = 1 .. n /\ Stored(claims) = claims[n]
  BY ClaimIndices
<1>2. claims[i][c].uid \in Nat /\ claims[i][c].fin \in BOOLEAN
  BY ClaimStates
<1>3. Follows(claims[i][c], claims[n][c])
  <2>1. CASE i = n
    BY <1>2, <2>1 DEF Follows, Live
  <2>2. CASE i < n
    BY <1>1, <2>2 DEF LifeView, ClaimLife
  <2> QED
    BY <1>1, <2>1, <2>2
<1>4. ASSUME ~claims[i][c].fin, NEW j \in DOMAIN claims, i <= j, Finalized(claims[j][c])
      PROVE  Finalized(claims[n][c])
  <2>1. FinalizerStays(c, i)
    BY <1>4 DEF LifeView, ClaimLife
  <2>2. j = n \/ j < n
    BY <1>1
  <2> QED
    BY <1>1, <1>4, <2>1, <2>2 DEF FinalizerStays
<1> QED
  BY <1>1, <1>3, <1>4

(* The deletion of a claim follows whatever the claim does.                *)
LEMMA DeletedFollows ==
    ASSUME NEW old \in ClaimObject, NEW stored \in ClaimObject, Follows(old, stored),
           stored.deleting => stored.fin
    PROVE  /\ Follows(old, Deleted(stored))
           /\ stored.fin => Finalized(Deleted(stored))
           /\ Deleted(stored) # None =>
                /\ Deleted(stored).uid = stored.uid
                /\ Deleted(stored).fin
<1>1. stored.fin \in BOOLEAN /\ old.fin \in BOOLEAN /\ old.deleting \in BOOLEAN
  BY DEF ClaimObject
<1>2. CASE stored.fin
  <2>1. Deleted(stored) = [stored EXCEPT !.deleting = TRUE]
    BY <1>2 DEF Deleted, Settle, ClaimObject
  <2>2. Deleted(stored) \in ClaimObject /\ Deleted(stored) # None
    BY <2>1, NoneAssumption DEF ClaimObject
  <2>3. /\ Deleted(stored).uid = stored.uid /\ Deleted(stored).fin
        /\ Deleted(stored).deleting
    BY <1>2, <2>1 DEF ClaimObject
  <2> QED
    BY <1>2, <2>2, <2>3, NoneAssumption DEF Follows, Live, Finalized
<1>3. CASE ~stored.fin
  <2>1. Deleted(stored) = None
    BY <1>3 DEF Deleted, Settle, ClaimObject
  <2>2. ~Live(old)
    BY <1>1, <1>3, NoneAssumption DEF Follows, Live
  <2> QED
    BY <1>3, <2>1, <2>2 DEF Follows
<1> QED
  BY <1>1, <1>2, <1>3

(* So does a new claim when there is none.                                 *)
LEMMA CreatedFollows ==
    ASSUME NEW old \in ClaimObject, Follows(old, None),
           NEW obj \in ClaimObject, ~obj.fin, old.uid < obj.uid
    PROVE  Follows(old, obj)
BY NoneAssumption DEF Follows, Live, ClaimObject

(* A write of somebody else under the request.                             *)
LEMMA RequestWrite ==
    ASSUME TypeOK, LifeRequest, UNCHANGED <<pc, cur, claim>>,
           NEW c \in Claims, NEW obj \in ClaimObject \cup {None},
           claims' = Write(claims, c, obj),
           \A d \in Claims : born[d] \in Nat /\ born'[d] \in Nat /\ born[d] <= born'[d],
           pc # "idle" /\ cur = c =>
               /\ Follows(claim, obj)
               /\ Finalized(Stored(claims)[c]) => Finalized(obj)
    PROVE  LifeRequest'
<1>1. PICK n \in Nat :
        /\ n = Len(claims) /\ n >= 1 /\ DOMAIN claims = 1 .. n /\ Stored(claims) = claims[n]
  BY ClaimIndices
<1>2. pc # "idle" => cur \in Claims /\ claim.uid \in Nat
  BY DEF TypeOK, ClaimObject
<1>3. pc # "idle" => claim.uid <= born'[cur]
  BY <1>2 DEF LifeRequest
<1>4. ASSUME claims' = claims PROVE LifeRequest'
  BY <1>3, <1>4 DEF LifeRequest, FinalizerStays
<1>5. ASSUME /\ Len(claims') = n + 1
             /\ DOMAIN claims' = 1 .. n + 1
             /\ \A i \in 1 .. n : claims'[i] = claims[i]
             /\ claims'[n + 1][c] = obj
             /\ \A d \in Claims \ {c} : claims'[n + 1][d] = claims[n][d]
      PROVE  LifeRequest'
  <2>1. ASSUME pc # "idle", NEW i \in 1 .. n + 1
        PROVE  Follows(claim, claims'[i][cur])
    BY <1>1, <1>2, <1>5, <2>1 DEF LifeRequest
  <2>2. ASSUME pc = "addFinalizer", NEW j \in 1 .. n + 1, NEW k \in 1 .. n + 1,
               j < k, Finalized(claims'[j][cur])
        PROVE  Finalized(claims'[k][cur])
    <3>1. j \in 1 .. n /\ 1 <= j /\ Finalized(claims[j][cur])
      BY <1>1, <1>5, <2>2
    <3>2. FinalizerStays(cur, 1)
      BY <2>2 DEF LifeRequest
    <3>3. Finalized(claims[n][cur])
      BY <1>1, <3>1, <3>2 DEF FinalizerStays
    <3>4. CASE k = n + 1
      BY <1>1, <1>2, <1>5, <2>2, <3>3, <3>4
    <3>5. CASE k \in 1 .. n
      BY <1>1, <1>5, <2>2, <3>1, <3>2, <3>5 DEF FinalizerStays
    <3> QED
      BY <1>1, <3>4, <3>5
  <2>3. pc = "addFinalizer" => FinalizerStays(cur, 1)'
    BY <1>5, <2>2 DEF FinalizerStays
  <2> QED
    BY <1>3, <1>5, <2>1, <2>3 DEF LifeRequest
<1> QED
  BY <1>1, <1>4, <1>5, WrittenClaims

(* The cache moves on.                                                     *)
LEMMA WatchedLife ==
    ASSUME TypeOK, LifeInv, WatchClaims
    PROVE  LifeInv'
<1>1. PICK n \in Nat :
        /\ n = Len(claims) /\ n > 1 /\ DOMAIN claims = 1 .. n /\ Stored(claims) = claims[n]
  BY ClaimIndices DEF WatchClaims
<1>2. /\ Len(claims') = n - 1
      /\ DOMAIN claims' = 1 .. n - 1
      /\ \A i \in 1 .. n - 1 : claims'[i] = claims[i + 1]
  BY <1>1 DEF TypeOK, WatchClaims
<1>3. Stored(claims)' = Stored(claims)
  BY <1>1, <1>2 DEF Stored
<1>4. UNCHANGED <<pc, cur, claim, born>>
  BY DEF WatchClaims, worker
<1>5. \A i \in DOMAIN claims' : i \in Nat /\ i >= 1 /\ i + 1 \in DOMAIN claims /\ claims'[i] = claims[i + 1]
  BY <1>1, <1>2
<1>6. ASSUME NEW c, NEW i \in Nat, FinalizerStays(c, i + 1) PROVE FinalizerStays(c, i)'
  BY <1>5, <1>6 DEF FinalizerStays
<1>7. \A c : FinalizerStays(c, 1) => FinalizerStays(c, 1)'
  BY <1>5 DEF FinalizerStays
<1>8. ASSUME NEW c \in Claims, NEW i \in DOMAIN claims' PROVE ClaimLife(c, i)'
  <2>1. ClaimLife(c, i + 1)
    BY <1>5 DEF LifeInv
  <2>2. \A j \in DOMAIN claims' : i < j => i + 1 < j + 1
    BY <1>5
  <2> QED
    BY <1>4, <1>5, <1>6, <2>1, <2>2 DEF ClaimLife
<1> QED
  BY <1>3, <1>4, <1>5, <1>7, <1>8 DEF LifeInv

(* A restart leaves one state in the view, and no request.                 *)
LEMMA RestartedLife ==
    ASSUME TypeOK, LifeInv, Restart
    PROVE  LifeInv'
<1>1. DOMAIN claims' = {1} /\ claims'[1] = Stored(claims) /\ Stored(claims)' = Stored(claims)
  BY DEF Restart, Stored
<1>2. pc' = "idle" /\ born' = born
  BY DEF Restart, Return
<1>3. ASSUME NEW c \in Claims PROVE ClaimLife(c, 1)'
  <2>1. ClaimLife(c, Len(claims))
    BY ClaimIndices DEF LifeInv
  <2> QED
    BY <1>1, <1>2, <2>1, ClaimIndices DEF ClaimLife, FinalizerStays
<1> QED
  BY <1>1, <1>2, <1>3 DEF LifeInv, Serving, Releasing

(* The deferred patch keeps the uid and the deletion mark of what it is    *)
(* applied to.                                                             *)
LEMMA PatchedClaim ==
    ASSUME NEW old \in ClaimObject, NEW new \in ClaimObject, NEW stored \in ClaimObject
    PROVE  LET obj == PatchClaim(old, new, stored) IN
           /\ obj \in ClaimObject /\ obj # None
           /\ obj.uid = stored.uid /\ obj.deleting = stored.deleting
           /\ obj.fin = Merge(old.fin, new.fin, stored.fin)
           /\ obj.ref = Merge(old.ref, new.ref, stored.ref)
BY NoneAssumption DEF ClaimObject, PatchClaim, Merge

(* The deferred patch of a request that adds the finalizer, to whatever    *)
(* claim is there now.                                                     *)
LEMMA AddFinalizerWrite ==
    ASSUME TypeOK, LifeInv, AddFinalizer, Stored(claims)[cur] # None
    PROVE  LET stored == Stored(claims)[cur] IN
           \E obj \in ClaimObject :
             /\ claims' = Write(claims, cur, obj)
             /\ obj # None /\ obj.fin
             /\ obj.uid = stored.uid /\ obj.deleting = stored.deleting /\ obj.ref = stored.ref
<1> DEFINE stored == Stored(claims)[cur]
           new == [claim EXCEPT !.fin = TRUE]
           patched == PatchClaim(claim, new, stored)
<1>1. /\ cur \in Claims /\ claim \in ClaimObject /\ claim.fin = FALSE
      /\ new \in ClaimObject /\ new.fin = TRUE /\ new.ref = claim.ref
      /\ stored \in ClaimObject
  BY ReadTypes DEF AddFinalizer, TypeOK, ClaimObject, LifeInv
<1>2. claims' = Write(claims, cur, Settle(patched))
  BY DEF AddFinalizer, PatchAndReturn
<1> HIDE DEF new, stored
<1>3. /\ patched \in ClaimObject /\ patched # None
      /\ patched.uid = stored.uid /\ patched.deleting = stored.deleting
      /\ patched.fin = Merge(claim.fin, new.fin, stored.fin)
      /\ patched.ref = Merge(claim.ref, new.ref, stored.ref)
  BY <1>1, PatchedClaim
<1>4. patched.fin = TRUE /\ patched.ref = stored.ref
  BY <1>1, <1>3 DEF Merge
<1> HIDE DEF patched
<1>5. Settle(patched) = patched
  BY <1>4 DEF Settle
<1> QED
  BY <1>2, <1>3, <1>4, <1>5 DEF stored

(* It keeps the lives of the claims in order.                              *)
LEMMA AddFinalizerLife ==
    ASSUME TypeOK, LifeInv, AddFinalizer
    PROVE  LifeView'
<1> DEFINE stored == Stored(claims)[cur]
<1>1. cur \in Claims /\ FinalizerStays(cur, 1)
  BY DEF AddFinalizer, TypeOK, LifeInv
<1>2. LifeView /\ born' = born /\ \A d \in Claims : born[d] \in Nat
  BY DEF AddFinalizer, PatchAndReturn, TypeOK, LifeInv, LifeView
<1>3. CASE stored = None
  BY <1>2, <1>3 DEF AddFinalizer, PatchAndReturn, LifeView, ClaimLife, FinalizerStays
<1>4. CASE stored # None
  <2>1. stored \in ClaimObject /\ stored.uid = born[cur] /\ stored.fin \in BOOLEAN
    BY <1>1, <1>2, <1>4, ReadTypes DEF LifeView, ClaimObject
  <2>2. PICK obj \in ClaimObject :
          /\ claims' = Write(claims, cur, obj)
          /\ obj # None /\ obj.fin
          /\ obj.uid = stored.uid /\ obj.deleting = stored.deleting
    BY <1>4, AddFinalizerWrite
  <2>3. ASSUME NEW i \in DOMAIN claims, claims[i][cur] # None
        PROVE  Follows(claims[i][cur], obj)
    <3>1. claims[i][cur] \in ClaimObject /\ claims[i][cur].fin \in BOOLEAN
      BY <1>1, <2>3, ClaimStates
    <3>2. Follows(claims[i][cur], stored)
      BY <1>1, <1>2, <2>3, StoredFollows
    <3>3. claims[i][cur].fin => Finalized(stored)
      <4>1. i = Len(claims) \/ (1 <= i /\ i < Len(claims))
        BY ClaimIndices
      <4> QED
        BY <1>1, <2>3, <4>1, ClaimIndices DEF FinalizerStays, Finalized
    <3> QED
      BY <1>4, <2>1, <2>2, <3>1, <3>2, <3>3 DEF Follows, Live, Finalized
  <2> QED
    BY <1>1, <1>2, <2>1, <2>2, <2>3, LifeWrite DEF Finalized
<1> QED
  BY <1>3, <1>4

(* The deferred patch of a request that sets the reference: the claim that *)
(* the request read is still there.                                        *)
LEMMA SetAddressRefWrite ==
    ASSUME TypeOK, LifeInv, SetAddressRef
    PROVE  LET stored == Stored(claims)[cur] IN
           /\ stored # None /\ stored \in ClaimObject
           /\ stored.fin /\ stored.uid = claim.uid /\ stored.uid = born[cur]
           /\ \E obj \in ClaimObject :
                /\ claims' = Write(claims, cur, obj)
                /\ obj # None /\ obj.fin /\ obj.fin = stored.fin
                /\ obj.uid = stored.uid /\ obj.deleting = stored.deleting
                /\ obj.ref = TRUE \/ obj.ref = stored.ref
<1> DEFINE stored == Stored(claims)[cur]
           new == [claim EXCEPT !.ref = TRUE]
           patched == PatchClaim(claim, new, stored)
<1>1. /\ cur \in Claims /\ claim \in ClaimObject /\ Live(claim)
      /\ new \in ClaimObject /\ new.fin = claim.fin /\ new.ref = TRUE /\ claim.ref \in BOOLEAN
  BY DEF SetAddressRef, TypeOK, ClaimObject, LifeInv, Serving
<1>2. Follows(claim, stored)
  BY ClaimIndices DEF SetAddressRef, LifeInv
<1>3. /\ stored # None /\ stored \in ClaimObject /\ stored.fin
      /\ stored.uid = claim.uid /\ stored.uid = born[cur]
  BY <1>1, <1>2, ReadTypes DEF Follows, Live, LifeInv
<1>4. claims' = Write(claims, cur, Settle(patched))
  BY <1>3 DEF SetAddressRef, PatchAndReturn
<1> HIDE DEF new, stored
<1>5. /\ patched \in ClaimObject /\ patched # None
      /\ patched.uid = stored.uid /\ patched.deleting = stored.deleting
      /\ patched.fin = Merge(claim.fin, new.fin, stored.fin)
      /\ patched.ref = Merge(claim.ref, new.ref, stored.ref)
  BY <1>1, <1>3, PatchedClaim
<1>6. patched.fin = stored.fin
  BY <1>1, <1>5 DEF Merge
<1>7. patched.ref = TRUE \/ patched.ref = stored.ref
  BY <1>1, <1>5 DEF Merge
<1> HIDE DEF patched
<1>8. Settle(patched) = patched
  BY <1>3, <1>6 DEF Settle
<1> QED
  BY <1>3, <1>4, <1>5, <1>6, <1>7, <1>8 DEF stored

(* It keeps the lives of the claims in order.                              *)
LEMMA SetAddressRefLife ==
    ASSUME TypeOK, LifeInv, SetAddressRef
    PROVE  LifeView'
<1> DEFINE stored == Stored(claims)[cur]
<1>1. cur \in Claims
  BY DEF SetAddressRef, TypeOK
<1>2. LifeView /\ born' = born /\ \A d \in Claims : born[d] \in Nat
  BY DEF SetAddressRef, PatchAndReturn, TypeOK, LifeInv, LifeView
<1>3. stored # None /\ stored \in ClaimObject /\ stored.fin /\ stored.uid = born[cur]
  BY SetAddressRefWrite
<1>4. PICK obj \in ClaimObject :
        /\ claims' = Write(claims, cur, obj)
        /\ obj # None /\ obj.fin /\ obj.fin = stored.fin
        /\ obj.uid = stored.uid /\ obj.deleting = stored.deleting
  BY SetAddressRefWrite
<1>5. ASSUME NEW i \in DOMAIN claims, claims[i][cur] # None
      PROVE  Follows(claims[i][cur], obj)
  <2>1. Follows(claims[i][cur], stored)
    BY <1>1, <1>2, <1>5, StoredFollows
  <2> QED
    BY <1>3, <1>4, <2>1 DEF Follows, Live
<1> QED
  BY <1>1, <1>2, <1>3, <1>4, <1>5, LifeWrite DEF Finalized

(* The deferred patch of a request that removes the finalizer: it removes  *)
(* the claim that was read, or finds nothing to remove.                    *)
LEMMA RemoveFinalizerLife ==
    ASSUME TypeOK, LifeInv, RemoveFinalizer
    PROVE  /\ LifeView'
           /\ \/ claims' = claims
              \/ /\ Stored(claims)[cur] # None /\ Stored(claims)[cur].deleting
                 /\ claims' = Write(claims, cur, None)
<1> DEFINE stored == Stored(claims)[cur]
           new == [claim EXCEPT !.fin = FALSE]
           patched == PatchClaim(claim, new, stored)
           obj == Settle(patched)
<1>1. /\ cur \in Claims /\ claim \in ClaimObject /\ claim.fin = TRUE /\ claim.deleting
      /\ new \in ClaimObject /\ new.fin = FALSE /\ new.ref = claim.ref
      /\ pc # "idle"
  BY DEF RemoveFinalizer, TypeOK, ClaimObject, LifeInv, Releasing
<1>2. LifeView /\ born' = born /\ \A d \in Claims : born[d] \in Nat
  BY DEF RemoveFinalizer, PatchAndReturn, TypeOK, LifeInv, LifeView
<1>3. \A i \in DOMAIN claims : Follows(claim, claims[i][cur])
  BY <1>1 DEF LifeInv
<1>4. ASSUME claims' = claims PROVE LifeView'
  BY <1>2, <1>4 DEF LifeView, ClaimLife, FinalizerStays
<1>5. CASE stored = None
  BY <1>4, <1>5 DEF RemoveFinalizer, PatchAndReturn
<1>6. CASE stored # None /\ ~stored.fin
  <2>1. stored \in ClaimObject
    BY <1>1, <1>6, ReadTypes
  <2>2. ~stored.deleting
    BY <1>1, <1>2, <1>6, ClaimIndices DEF LifeView, ClaimLife
  <2>3. obj = stored
    <3>1. stored.fin = FALSE /\ claim.fin = TRUE /\ claim.ref \in BOOLEAN /\ stored.deleting \in BOOLEAN
      BY <1>1, <1>6, <2>1 DEF ClaimObject
    <3>2. PatchClaim(claim, new, stored) =
            [uid |-> stored.uid, fin |-> stored.fin, deleting |-> stored.deleting, ref |-> stored.ref]
      BY <1>1, <3>1 DEF PatchClaim, Merge
    <3>3. PatchClaim(claim, new, stored) = stored
      BY <2>1, <3>2 DEF ClaimObject
    <3> QED
      BY <2>2, <3>3 DEF Settle
  <2>4. claims' = Write(claims, cur, stored)
    BY <1>6, <2>3 DEF RemoveFinalizer, PatchAndReturn
  <2>5. claims' = claims
    BY <2>4 DEF Write
  <2> QED
    BY <1>4, <2>5
<1>7. CASE stored # None /\ stored.fin
  <2>1. stored \in ClaimObject
    BY <1>1, <1>7, ReadTypes
  <2>2. Follows(claim, stored)
    BY <1>3, ClaimIndices
  <2>3. stored.deleting
    BY <1>1, <1>7, <2>2 DEF Follows
  <2>4. obj = None
    <3> HIDE DEF new, stored
    <3>1. /\ patched.deleting = stored.deleting
          /\ patched.fin = Merge(claim.fin, new.fin, stored.fin)
      BY <1>1, <2>1, PatchedClaim
    <3>2. patched.fin = FALSE
      BY <1>1, <3>1 DEF Merge
    <3> HIDE DEF patched
    <3> QED
      BY <2>3, <3>1, <3>2 DEF Settle
  <2>5. claims' = Write(claims, cur, None)
    BY <1>7, <2>4 DEF RemoveFinalizer, PatchAndReturn
  <2>6. ASSUME NEW i \in DOMAIN claims, claims[i][cur] # None
        PROVE  /\ Follows(claims[i][cur], None)
               /\ claims[i][cur].fin \/ \A j \in DOMAIN claims : i <= j => ~Finalized(claims[j][cur])
    <3>1. /\ Follows(claim, claims[i][cur])
          /\ claims[i][cur] \in ClaimObject /\ claims[i][cur].uid \in Nat /\ claim.uid \in Nat
      BY <1>1, <1>3, <2>6, ClaimStates DEF ClaimObject
    <3>2. ~Live(claims[i][cur])
      BY <1>1, <2>6, <3>1 DEF Follows, Live
    <3>3. ASSUME ~claims[i][cur].fin, NEW j \in DOMAIN claims, i <= j, Finalized(claims[j][cur])
          PROVE  FALSE
      <4>1. i < j
        BY <2>6, <3>3, ClaimIndices DEF Finalized
      <4>2. Follows(claims[i][cur], claims[j][cur])
        BY <1>1, <1>2, <2>6, <4>1 DEF LifeView, ClaimLife
      <4>3. claims[j][cur].uid = claim.uid
        BY <1>1, <1>3, <3>3 DEF Follows, Finalized
      <4>4. claims[i][cur].uid = claim.uid
        BY <2>6, <3>1, <3>3, <4>2, <4>3 DEF Follows, Finalized
      <4> QED
        BY <1>1, <2>6, <3>1, <3>3, <4>4 DEF Follows
    <3> QED
      BY <3>2, <3>3 DEF Follows
  <2>7. LifeView'
    BY <1>1, <1>2, <2>5, <2>6, LifeWrite
  <2> QED
    BY <1>7, <2>3, <2>5, <2>7
<1>8. stored # None => stored.fin \in BOOLEAN
  BY <1>1, ReadTypes DEF ClaimObject
<1> QED
  BY <1>5, <1>6, <1>7, <1>8

(* Every step keeps the lives of the claims in order.                      *)
LEMMA LifeInvStep == TypeOK /\ LifeInv /\ [Next]_vars => LifeInv'
<1> SUFFICES ASSUME TypeOK, LifeInv, [Next]_vars PROVE LifeInv'
  OBVIOUS
<1>1. /\ LifeView /\ LifeRequest
      /\ \A c \in Claims : born[c] \in Nat
      /\ pc # "idle" => cur \in Claims /\ claim \in ClaimObject
  BY LifeParts DEF TypeOK
<1>2. ASSUME UNCHANGED <<claims, born>> PROVE LifeView'
  BY <1>1, <1>2 DEF LifeView, ClaimLife, FinalizerStays, Stored
<1>3. ASSUME LifeView', pc' = "idle" PROVE LifeInv'
  BY <1>3 DEF LifeView, LifeInv, Serving, Releasing
<1>4. ASSUME UNCHANGED <<claims, born, cur, claim>>,
             \/ pc' = pc
             \/ pc \in Serving /\ pc' \in Serving
             \/ pc \in Releasing /\ pc' \in Releasing
      PROVE  LifeInv'
  BY <1>1, <1>2, <1>4 DEF LifeInv, LifeView, LifeRequest, FinalizerStays, Serving, Releasing
<1>5. ASSUME NEW c \in Claims, NEW cluster, NEW pool, Reconcile(c, cluster, pool) PROVE LifeInv'
  <2> DEFINE obj == claims[1][c]
  <2>1. /\ UNCHANGED <<claims, born>>
        /\ cur' = c /\ claim' = obj /\ obj # None
        /\ \/ ~obj.fin /\ pc' = "addFinalizer"
           \/ obj.fin /\ obj.deleting /\ pc' = "release"
           \/ obj.fin /\ ~obj.deleting /\ pc' = "get"
    BY <1>5 DEF Reconcile, Cached
  <2>2. 1 \in DOMAIN claims /\ \A i \in DOMAIN claims : i = 1 \/ 1 < i
    BY ClaimIndices
  <2>3. obj.uid \in Nat /\ obj.fin \in BOOLEAN /\ obj.deleting \in BOOLEAN
    BY <2>1, <2>2, ClaimStates
  <2>4. ClaimLife(c, 1)
    BY <1>1, <2>2 DEF LifeView
  <2>5. Follows(obj, obj)
    BY <2>1, <2>3 DEF Follows, Live
  <2>6. \A i \in DOMAIN claims : Follows(obj, claims[i][c])
    BY <2>1, <2>2, <2>4, <2>5 DEF ClaimLife
  <2>7. obj.uid <= born[c] /\ (obj.fin \/ FinalizerStays(c, 1))
    BY <2>1, <2>4 DEF ClaimLife
  <2>8. FinalizerStays(c, 1) => FinalizerStays(c, 1)'
    BY <2>1 DEF FinalizerStays
  <2> HIDE DEF obj
  <2>9. LifeRequest'
    BY <2>1, <2>6, <2>7, <2>8 DEF LifeRequest, Serving, Releasing, Live
  <2> QED
    BY <1>2, <2>1, <2>9 DEF LifeInv, LifeView, LifeRequest
<1>6. CASE AddFinalizer
  BY <1>3, <1>6, AddFinalizerLife DEF AddFinalizer, PatchAndReturn, Return
<1>7. CASE SetAddressRef
  BY <1>3, <1>7, SetAddressRefLife DEF SetAddressRef, PatchAndReturn, Return
<1>8. CASE RemoveFinalizer
  BY <1>3, <1>8, RemoveFinalizerLife DEF RemoveFinalizer, PatchAndReturn, Return
<1>9. CASE GetAddress \/ EnsureAddress \/ CreateOrPatch \/ AddressSeen
  BY <1>4, <1>9 DEF GetAddress, EnsureAddress, CreateOrPatch, AddressSeen, Goto, Serving
<1>10. CASE GetForRelease \/ RemoveProtection \/ DeleteAddress
  BY <1>4, <1>10 DEF GetForRelease, RemoveProtection, DeleteAddress, Goto, Releasing
<1>11. CASE CreateUnanswered \/ WaitTimeout \/ Fail \/ WriteUnanswered
  BY <1>2, <1>3, <1>11 DEF CreateUnanswered, WaitTimeout, Fail, WriteUnanswered, Return
<1>12. CASE Restart
  BY <1>12, RestartedLife
<1>13. ASSUME NEW c \in Claims, CreateClaim(c) PROVE LifeInv'
  <2> DEFINE obj == [uid |-> born[c] + 1, fin |-> FALSE, deleting |-> FALSE, ref |-> FALSE]
  <2>1. /\ claims' = Write(claims, c, obj) /\ Stored(claims)[c] = None
        /\ UNCHANGED <<pc, cur, claim>>
    BY <1>13 DEF CreateClaim, worker
  <2>2. born[c] + 1 \in 1 .. MaxUID /\ obj \in ClaimObject
    BY <1>13, BoundsAssumption DEF CreateClaim, TypeOK, ClaimObject
  <2>3. /\ born'[c] = born[c] + 1
        /\ \A d \in Claims \ {c} : born'[d] = born[d]
        /\ \A d \in Claims : born[d] \in Nat /\ born'[d] \in Nat /\ born[d] <= born'[d]
    BY <1>13 DEF CreateClaim, TypeOK
  <2>4. obj.uid = born[c] + 1 /\ ~obj.fin /\ ~obj.deleting /\ ~obj.ref
    OBVIOUS
  <2> HIDE DEF obj
  <2>5. ASSUME NEW i \in DOMAIN claims, claims[i][c] # None
        PROVE  /\ Follows(claims[i][c], obj)
               /\ ~claims[i][c].fin /\ (\E j \in DOMAIN claims : i <= j /\ Finalized(claims[j][c]))
                    => Finalized(obj)
    <3>1. /\ Follows(claims[i][c], None)
          /\ ~(~claims[i][c].fin /\ \E j \in DOMAIN claims : i <= j /\ Finalized(claims[j][c]))
      BY <1>1, <2>1, <2>5, StoredFollows DEF Finalized
    <3>2. claims[i][c] \in ClaimObject /\ claims[i][c].uid < obj.uid
      BY <1>1, <2>4, <2>5, ClaimStates DEF LifeView, ClaimLife
    <3> QED
      BY <2>2, <2>4, <3>1, <3>2, CreatedFollows
  <2>6. LifeView'
    BY <1>1, <2>1, <2>2, <2>3, <2>4, <2>5, LifeWrite
  <2>7. pc # "idle" /\ cur = c => Follows(claim, obj)
    <3> SUFFICES ASSUME pc # "idle", cur = c PROVE Follows(claim, obj)
      OBVIOUS
    <3>1. Follows(claim, None)
      BY <1>1, <2>1, ClaimIndices DEF LifeRequest
    <3>2. claim.uid < obj.uid
      BY <1>1, <2>4 DEF LifeRequest, ClaimObject
    <3> QED
      BY <1>1, <2>2, <2>4, <3>1, <3>2, CreatedFollows
  <2>8. LifeRequest'
    BY <1>1, <2>1, <2>2, <2>3, <2>7, RequestWrite DEF Finalized
  <2> QED
    BY <2>6, <2>8 DEF LifeInv, LifeView, LifeRequest
<1>14. ASSUME NEW c \in Claims, DeleteClaim(c) PROVE LifeInv'
  <2> DEFINE stored == Stored(claims)[c]
             obj == Deleted(stored)
  <2>1. /\ claims' = Write(claims, c, obj) /\ stored # None /\ stored \in ClaimObject
        /\ UNCHANGED <<pc, cur, claim, born>>
    BY <1>14, ReadTypes DEF DeleteClaim, worker
  <2>2. (stored.deleting => stored.fin) /\ stored.uid = born[c]
    BY <1>1, <2>1, ClaimIndices DEF LifeView, ClaimLife
  <2>3. obj \in ClaimObject \cup {None}
    BY <2>1, ObjectTypes
  <2> HIDE DEF obj
  <2>4. /\ stored.fin => Finalized(obj)
        /\ obj # None => obj.uid = stored.uid /\ obj.fin
    <3>1. Follows(stored, stored)
      BY <2>1 DEF Follows, Live, ClaimObject
    <3> QED
      BY <2>1, <2>2, <3>1, DeletedFollows DEF obj
  <2>5. ASSUME NEW i \in DOMAIN claims, claims[i][c] # None
        PROVE  /\ Follows(claims[i][c], obj)
               /\ ~claims[i][c].fin /\ (\E j \in DOMAIN claims : i <= j /\ Finalized(claims[j][c]))
                    => Finalized(obj)
    <3>1. /\ Follows(claims[i][c], stored)
          /\ ~claims[i][c].fin /\ (\E j \in DOMAIN claims : i <= j /\ Finalized(claims[j][c]))
               => Finalized(stored)
      BY <1>1, <2>5, StoredFollows
    <3>2. claims[i][c] \in ClaimObject
      BY <2>5, ClaimStates
    <3>3. Follows(claims[i][c], obj)
      BY <2>1, <2>2, <3>1, <3>2, DeletedFollows DEF obj
    <3> QED
      BY <2>4, <3>1, <3>3 DEF Finalized
  <2>6. LifeView'
    BY <1>1, <2>1, <2>2, <2>3, <2>4, <2>5, LifeWrite
  <2>7. pc # "idle" /\ cur = c => Follows(claim, obj)
    <3> SUFFICES ASSUME pc # "idle", cur = c PROVE Follows(claim, obj)
      OBVIOUS
    <3>1. Follows(claim, stored)
      BY <1>1, ClaimIndices DEF LifeRequest
    <3> QED
      BY <1>1, <2>1, <2>2, <3>1, DeletedFollows DEF obj
  <2>8. LifeRequest'
    BY <1>1, <2>1, <2>3, <2>4, <2>7, RequestWrite DEF Finalized
  <2> QED
    BY <2>6, <2>8 DEF LifeInv, LifeView, LifeRequest
<1>15. ASSUME NEW c \in Claims, DeleteAddressOf(c) PROVE LifeInv'
  BY <1>4, <1>15 DEF DeleteAddressOf, worker
<1>16. CASE WatchAddresses \/ UNCHANGED vars
  BY <1>4, <1>16 DEF WatchAddresses, worker, vars
<1>17. CASE WatchClaims
  BY <1>17, WatchedLife
<1> QED
  BY <1>5, <1>6, <1>7, <1>8, <1>9, <1>10, <1>11, <1>12, <1>13, <1>14, <1>15, <1>16, <1>17
     DEF Next, Worker, Fault, Environment

(* No claims, no requests.                                                 *)
LEMMA LifeInvInit == Init => LifeInv
<1> SUFFICES ASSUME Init PROVE LifeInv
  OBVIOUS
<1>1. /\ DOMAIN claims = {1} /\ \A c \in Claims : claims[1][c] = None
      /\ Stored(claims) = claims[1] /\ pc = "idle"
  BY DEF Init, Stored
<1> QED
  BY <1>1 DEF LifeInv, ClaimLife, Serving, Releasing

(* LifeInv always holds, whatever the worker sees of the addresses: a      *)
(* claim with ReleaseAddressFinalizer stays until a request that has read  *)
(* its deletion removes the finalizer, and no merge patch made from an old *)
(* claim takes it from a newer claim of the same name.                     *)
THEOREM ClaimLives == Spec => []LifeInv
<1>1. Init => TypeOK /\ LifeInv
  BY TypeOKInit, LifeInvInit
<1>2. TypeOK /\ LifeInv /\ [Next]_vars => (TypeOK /\ LifeInv)'
  BY TypeOKStep, LifeInvStep
<1> QED
  BY <1>1, <1>2, PTL DEF Spec

-----------------------------------------------------------------------------
(* Addresses and the claims they are for.                                  *)

(* The indices of the view of the addresses.                               *)
LEMMA AddressIndices ==
    ASSUME TypeOK
    PROVE  /\ Len(addresses) \in Nat /\ Len(addresses) >= 1
           /\ DOMAIN addresses = 1 .. Len(addresses)
           /\ Stored(addresses) = addresses[Len(addresses)]
           /\ Cached(addresses) = addresses[1]
BY DEF TypeOK, Stored, Cached

(* The fields of an address.                                               *)
LEMMA AddressFields ==
    ASSUME NEW obj \in AddressObject
    PROVE  /\ obj # None
           /\ obj.owner \in Nat /\ obj.owner <= MaxUID
           /\ obj.fin \in BOOLEAN /\ obj.deleting \in BOOLEAN /\ obj.ip \in IPs
BY NoneAssumption, BoundsAssumption DEF AddressObject

(* What is in the view is an address with its fields, or None.             *)
LEMMA AddressStates ==
    ASSUME TypeOK, NEW c \in Claims, NEW i \in DOMAIN addresses, addresses[i][c] # None
    PROVE  /\ addresses[i][c] \in AddressObject
           /\ addresses[i][c].owner \in Nat /\ addresses[i][c].owner <= MaxUID
           /\ addresses[i][c].fin \in BOOLEAN /\ addresses[i][c].deleting \in BOOLEAN
<1>1. addresses[i][c] \in AddressObject
  BY DEF TypeOK
<1> QED
  BY <1>1, AddressFields

(* The part of LeaseInv that is about the two views.                       *)
LeaseView ==
    /\ \A c \in Claims : \A i \in DOMAIN addresses : AddressLife(c, i)
    /\ \A c \in Claims : StoredLife(c)

(* No claim may be served that could not be before.                        *)
NoneServedAnew ==
    \A c \in Claims : \A uid \in Nat : MayServe(c, uid)' => MayServe(c, uid)

(* As long as that is so and the views are left alone, LeaseView stays.    *)
LEMMA LeaseFrame ==
    ASSUME TypeOK, LeaseView, NoneServedAnew, UNCHANGED <<addresses, claims, born>>
    PROVE  LeaseView'
<1>1. ASSUME NEW c \in Claims, NEW i \in DOMAIN addresses PROVE AddressLife(c, i)'
  <2>1. AddressLife(c, i)
    BY DEF LeaseView
  <2>2. addresses[i][c] # None /\ MayServe(c, addresses[i][c].owner)'
          => MayServe(c, addresses[i][c].owner)
    BY AddressStates DEF NoneServedAnew
  <2> QED
    BY <2>1, <2>2 DEF AddressLife
<1>2. ASSUME NEW c \in Claims PROVE StoredLife(c)'
  <2>1. StoredLife(c)
    BY DEF LeaseView
  <2>2. \A uid \in 1 .. MaxUID : MayServe(c, uid)' => MayServe(c, uid)
    BY BoundsAssumption DEF NoneServedAnew
  <2> QED
    BY <2>1, <2>2 DEF StoredLife, HasClaim, Bound, Stored
<1> QED
  BY <1>1, <1>2 DEF LeaseView

(* The address obj may be stored for c.                                    *)
Fits(c, obj) ==
    /\ obj # None =>
         /\ obj.owner <= born[c]
         /\ obj.deleting => obj.fin
         /\ obj.owner # 0
         /\ \A k \in DOMAIN claims :
              claims[k][c] # None /\ claims[k][c].uid = obj.owner => claims[k][c].fin
         /\ ~obj.fin => \A uid \in Nat : ~MayServe(c, uid)
         /\ \/ /\ Stored(claims)[c] # None /\ Stored(claims)[c].fin
               /\ Stored(claims)[c].uid = obj.owner
            \/ c \in Adopted /\ obj.deleting
    /\ \A i \in DOMAIN addresses : addresses[i][c] # None =>
         /\ c \notin Adopted /\ ~addresses[i][c].fin => ~Finalized(obj)
         /\ MayServe(c, addresses[i][c].owner) => Protected(obj, addresses[i][c].owner)
    /\ Bound(c) => Protected(obj, Stored(claims)[c].uid)

(* A write of an address that fits keeps LeaseView.                        *)
LEMMA LeaseWrite ==
    ASSUME TypeOK, LeaseView, NoneServedAnew, UNCHANGED <<claims, born>>,
           NEW c \in Claims, NEW obj \in AddressObject \cup {None},
           addresses' = Write(addresses, c, obj), Fits(c, obj)
    PROVE  LeaseView'
<1>1. PICK n \in Nat :
        /\ n = Len(addresses) /\ n >= 1 /\ DOMAIN addresses = 1 .. n
        /\ Stored(addresses) = addresses[n]
  BY AddressIndices
<1>2. CASE addresses' = addresses
  BY <1>2, LeaseFrame
<1>3. CASE /\ Len(addresses') = n + 1
           /\ DOMAIN addresses' = 1 .. n + 1
           /\ \A i \in 1 .. n : addresses'[i] = addresses[i]
           /\ addresses'[n + 1][c] = obj
           /\ \A d \in Claims \ {c} : addresses'[n + 1][d] = addresses[n][d]
  <2>1. Stored(addresses)' = addresses'[n + 1] /\ Stored(claims)' = Stored(claims)
    BY <1>3 DEF Stored
  <2>2. ASSUME NEW d \in Claims, NEW i \in 1 .. n
        PROVE  AddressLife(d, i)'
    <3>1. AddressLife(d, i) /\ AddressLife(d, n)
      BY <1>1 DEF LeaseView
    <3>2. addresses[i][d] # None /\ MayServe(d, addresses[i][d].owner)'
            => MayServe(d, addresses[i][d].owner)
      BY <1>1, <1>3, AddressStates DEF NoneServedAnew
    <3>3. addresses[i][d] # None /\ d \notin Adopted /\ ~addresses[i][d].fin
            => ~Finalized(addresses'[n + 1][d])
      BY <1>1, <1>3, <3>1 DEF Fits, AddressLife, Finalized
    <3>4. addresses[i][d] # None /\ MayServe(d, addresses[i][d].owner)
            => Protected(addresses'[n + 1][d], addresses[i][d].owner)
      BY <1>1, <1>3, <3>1 DEF Fits, AddressLife
    <3>5. \A j \in 1 .. n + 1 : j \in 1 .. n \/ (j = n + 1 /\ ~(j < i))
      BY <1>1
    <3> SUFFICES ASSUME addresses[i][d] # None PROVE AddressLife(d, i)'
      BY <1>3 DEF AddressLife
    <3>6. addresses[i][d].owner = 0 =>
            /\ d \in Adopted /\ ~addresses[i][d].fin
            /\ \A j \in 1 .. n + 1 :
                 j < i => addresses'[j][d] # None /\ addresses'[j][d].owner = 0
      BY <1>1, <1>3, <3>1, <3>5 DEF AddressLife
    <3>7. d \notin Adopted /\ ~addresses[i][d].fin =>
            \A j \in 1 .. n + 1 : i < j => ~Finalized(addresses'[j][d])
      BY <1>1, <1>3, <3>1, <3>3, <3>5 DEF AddressLife
    <3>8. MayServe(d, addresses[i][d].owner) =>
            \A j \in 1 .. n + 1 : i <= j => Protected(addresses'[j][d], addresses[i][d].owner)
      BY <1>1, <1>3, <3>1, <3>4, <3>5 DEF AddressLife
    <3> QED
      BY <1>1, <1>3, <3>1, <3>2, <3>6, <3>7, <3>8 DEF AddressLife
  <2>3. ASSUME NEW d \in Claims
        PROVE  AddressLife(d, n + 1)'
    <3>1. AddressLife(d, n)
      BY <1>1 DEF LeaseView
    <3>2. \A j \in 1 .. n + 1 : ~(n + 1 < j) /\ (n + 1 <= j => j = n + 1)
      BY <1>1
    <3>3. CASE d = c
      <4>1. obj # None => obj.owner \in Nat /\ obj.fin \in BOOLEAN
        BY AddressFields
      <4>2. obj # None /\ MayServe(c, obj.owner)' => obj.fin
        BY <4>1 DEF NoneServedAnew, Fits
      <4> QED
        BY <1>1, <1>3, <3>2, <3>3, <4>2 DEF AddressLife, Fits, Protected
    <3>4. CASE d # c
      <4>1. addresses'[n + 1][d] = addresses[n][d]
        BY <1>3, <3>4
      <4>2. addresses[n][d] # None /\ MayServe(d, addresses[n + 1][d].owner)'
              => MayServe(d, addresses[n][d].owner)
        BY <1>1, <4>1, AddressStates DEF NoneServedAnew
      <4> SUFFICES ASSUME addresses[n][d] # None PROVE AddressLife(d, n + 1)'
        BY <4>1 DEF AddressLife
      <4>3. addresses[n][d].owner = 0 =>
              /\ d \in Adopted /\ ~addresses[n][d].fin
              /\ \A j \in 1 .. n + 1 :
                   j < n + 1 => addresses'[j][d] # None /\ addresses'[j][d].owner = 0
        <5>1. \A j \in 1 .. n + 1 : j < n + 1 => j \in 1 .. n /\ (j < n \/ j = n)
          BY <1>1
        <5> QED
          BY <1>1, <1>3, <3>1, <5>1 DEF AddressLife
      <4>4. MayServe(d, addresses[n][d].owner) =>
              Protected(addresses'[n + 1][d], addresses[n][d].owner)
        BY <1>1, <3>1, <4>1 DEF AddressLife
      <4> QED
        BY <1>3, <1>1, <3>1, <3>2, <4>1, <4>2, <4>3, <4>4 DEF AddressLife
    <3> QED
      BY <3>3, <3>4
  <2>4. ASSUME NEW d \in Claims
        PROVE  StoredLife(d)'
    <3>1. \A uid \in 1 .. MaxUID : uid \in Nat /\ (MayServe(d, uid)' => MayServe(d, uid))
      BY BoundsAssumption DEF NoneServedAnew
    <3>2. CASE d = c
      <4>1. Stored(addresses)'[d] = obj
        BY <1>3, <2>1, <3>2
      <4> QED
        BY <2>1, <3>1, <3>2, <4>1 DEF StoredLife, HasClaim, Bound, Fits
    <3>3. CASE d # c
      <4>1. Stored(addresses)'[d] = Stored(addresses)[d] /\ StoredLife(d)
        BY <1>1, <1>3, <2>1, <3>3 DEF LeaseView
      <4> QED
        BY <2>1, <3>1, <4>1 DEF StoredLife, HasClaim, Bound
    <3> QED
      BY <3>2, <3>3
  <2>5. \A i \in DOMAIN addresses' : i \in 1 .. n \/ i = n + 1
    BY <1>1, <1>3
  <2> QED
    BY <2>2, <2>3, <2>4, <2>5 DEF LeaseView
<1> QED
  BY <1>1, <1>2, <1>3, WrittenView

(* The claim that a request serves is the one that is stored, and no other *)
(* claim of its name may be served.                                        *)
LEMMA ServedClaim ==
    ASSUME TypeOK, LifeInv, pc \in Serving
    PROVE  /\ cur \in Claims /\ claim \in ClaimObject /\ claim.uid \in Nat /\ claim.uid >= 1
           /\ claim.uid <= born[cur]
           /\ MayServe(cur, claim.uid)
           /\ \A uid : MayServe(cur, uid) => uid = claim.uid
           /\ \A k \in DOMAIN claims :
                claims[k][cur] # None => claims[k][cur].uid = claim.uid /\ claims[k][cur].fin
           /\ Stored(claims)[cur] # None /\ Stored(claims)[cur].fin
           /\ Stored(claims)[cur].uid = claim.uid
<1>1. /\ pc # "idle" /\ cur \in Claims /\ claim \in ClaimObject
      /\ claim.uid \in Nat /\ claim.uid >= 1
  BY DEF TypeOK, Serving, ClaimObject
<1>2. Live(claim) /\ claim.fin /\ claim.uid <= born[cur]
  BY <1>1 DEF LifeInv, Live
<1>3. \A k \in DOMAIN claims :
        claims[k][cur] # None /\ claims[k][cur].uid = claim.uid /\ claims[k][cur].fin
  BY <1>1, <1>2 DEF LifeInv, Follows
<1>4. MayServe(cur, claim.uid) /\ \A uid : MayServe(cur, uid) => uid = claim.uid
  BY <1>3 DEF MayServe
<1> QED
  BY <1>1, <1>2, <1>3, <1>4, ClaimIndices

(* Of the name whose claim a request releases no claim may be served.      *)
LEMMA ReleasedClaim ==
    ASSUME TypeOK, LifeInv, pc \in Releasing
    PROVE  /\ cur \in Claims
           /\ \A uid : ~MayServe(cur, uid)
           /\ ~Bound(cur)
<1>1. pc # "idle" /\ pc \notin Serving /\ cur \in Claims /\ claim \in ClaimObject
  BY DEF TypeOK, Serving, Releasing
<1>2. claim.fin /\ claim.deleting
  BY DEF LifeInv
<1>3. \A k \in DOMAIN claims : ~Live(claims[k][cur])
  BY <1>1, <1>2 DEF LifeInv, Follows, Live
<1>4. \A k \in DOMAIN claims : claims[k][cur] # None /\ claims[k][cur].ref => claims[k][cur].fin
  BY <1>1 DEF LifeInv, ClaimLife
<1> QED
  BY <1>1, <1>3, <1>4, ClaimIndices DEF MayServe, Bound, Live

(* An address with its finalizer and its controller reference fits the     *)
(* claim that is served, unless it comes back after it was released.       *)
LEMMA ServedFits ==
    ASSUME TypeOK, LifeInv, pc \in Serving,
           NEW obj \in AddressObject, Protected(obj, claim.uid),
           cur \notin Adopted =>
             \A i \in DOMAIN addresses : addresses[i][cur] # None => addresses[i][cur].fin
    PROVE  Fits(cur, obj)
<1>1. /\ obj # None /\ obj.fin /\ obj.owner = claim.uid
  BY DEF Protected
<1>2. \A i \in DOMAIN addresses : MayServe(cur, addresses[i][cur].owner)
        => Protected(obj, addresses[i][cur].owner)
  BY ServedClaim
<1>3. Bound(cur) => Protected(obj, Stored(claims)[cur].uid)
  BY ServedClaim
<1> QED
  BY <1>1, <1>2, <1>3, ServedClaim DEF Fits

(* So does a deletion whatever happens, and the patch of a release.        *)
LEMMA DeletedAddress ==
    ASSUME NEW obj \in AddressObject
    PROVE  /\ Deleted(obj) \in AddressObject \cup {None}
           /\ obj.fin => /\ Deleted(obj) # None /\ Deleted(obj).fin /\ Deleted(obj).deleting
                         /\ Deleted(obj).owner = obj.owner /\ Deleted(obj).ip = obj.ip
           /\ ~obj.fin => Deleted(obj) = None
<1>1. CASE obj.fin
  <2>1. Deleted(obj) = [obj EXCEPT !.deleting = TRUE]
    BY <1>1 DEF Deleted, Settle, AddressObject
  <2>2. Deleted(obj) \in AddressObject
    BY <2>1 DEF AddressObject
  <2> QED
    BY <1>1, <2>1, <2>2, NoneAssumption DEF AddressObject
<1>2. CASE ~obj.fin
  BY <1>2 DEF Deleted, Settle, AddressObject
<1> QED
  BY <1>1, <1>2, AddressFields

(* The last state of the view satisfies what AddressLife says of the       *)
(* states after it.                                                        *)
LEMMA StoredAddress ==
    ASSUME TypeOK, LeaseView, NEW c \in Claims
    PROVE  /\ AddressLife(c, Len(addresses))
           /\ \A i \in DOMAIN addresses : addresses[i][c] # None =>
                /\ MayServe(c, addresses[i][c].owner) =>
                     Protected(Stored(addresses)[c], addresses[i][c].owner)
                /\ c \notin Adopted /\ ~addresses[i][c].fin => ~Finalized(Stored(addresses)[c])
<1>1. PICK n \in Nat :
        /\ n = Len(addresses) /\ n >= 1 /\ DOMAIN addresses = 1 .. n
        /\ Stored(addresses) = addresses[n]
  BY AddressIndices
<1>2. ASSUME NEW i \in DOMAIN addresses, addresses[i][c] # None
      PROVE  /\ MayServe(c, addresses[i][c].owner) =>
                  Protected(addresses[n][c], addresses[i][c].owner)
             /\ c \notin Adopted /\ ~addresses[i][c].fin => ~Finalized(addresses[n][c])
  <2>1. AddressLife(c, i)
    BY DEF LeaseView
  <2>2. i <= n /\ (i = n \/ i < n) /\ n \in DOMAIN addresses
    BY <1>1
  <2> QED
    BY <1>2, <2>1, <2>2 DEF AddressLife, Finalized
<1> QED
  BY <1>1, <1>2 DEF LeaseView

(* A deletion of an address fits.                                          *)
LEMMA DeletedFits ==
    ASSUME TypeOK, LeaseView, NEW c \in Claims, Stored(addresses)[c] # None
    PROVE  Fits(c, Deleted(Stored(addresses)[c]))
<1> DEFINE stored == Stored(addresses)[c]
           obj == Deleted(stored)
<1>1. /\ stored \in AddressObject /\ stored # None
      /\ stored.fin \in BOOLEAN /\ stored.owner \in Nat
  BY ReadTypes, AddressFields
<1>2. /\ obj \in AddressObject \cup {None}
      /\ stored.fin => /\ obj # None /\ obj.fin /\ obj.deleting
                       /\ obj.owner = stored.owner
      /\ ~stored.fin => obj = None
  BY <1>1, DeletedAddress
<1>3. AddressLife(c, Len(addresses)) /\ StoredLife(c)
  BY StoredAddress DEF LeaseView
<1>4. \A uid : Protected(stored, uid) => Protected(obj, uid)
  BY <1>2 DEF Protected
<1>5. ~stored.fin \/ obj = None => ~Finalized(obj)
  BY <1>2 DEF Finalized
<1> HIDE DEF obj
<1>6. \A i \in DOMAIN addresses : addresses[i][c] # None =>
        /\ c \notin Adopted /\ ~addresses[i][c].fin => ~Finalized(obj)
        /\ MayServe(c, addresses[i][c].owner) => Protected(obj, addresses[i][c].owner)
  BY <1>1, <1>4, <1>5, StoredAddress DEF Finalized
<1>7. Bound(c) => Protected(obj, Stored(claims)[c].uid)
  BY <1>3, <1>4 DEF StoredLife
<1>8. ASSUME obj # None
      PROVE  /\ obj.fin
             /\ obj.owner <= born[c]
             /\ obj.owner # 0
             /\ \A k \in DOMAIN claims :
                  claims[k][c] # None /\ claims[k][c].uid = obj.owner => claims[k][c].fin
             /\ \/ /\ Stored(claims)[c] # None /\ Stored(claims)[c].fin
                   /\ Stored(claims)[c].uid = obj.owner
                \/ c \in Adopted /\ obj.deleting
  <2>1. stored.fin /\ obj.fin /\ obj.owner = stored.owner /\ obj.deleting
    BY <1>1, <1>2, <1>8
  <2>2. stored.owner # 0
    BY <1>1, <1>3, <2>1, AddressIndices DEF AddressLife
  <2> QED
    BY <1>1, <1>3, <2>1, <2>2, AddressIndices DEF AddressLife, StoredLife, HasClaim
<1>9. Fits(c, obj)
  BY <1>6, <1>7, <1>8 DEF Fits
<1> QED
  BY <1>9 DEF obj

(* What is stored after a write.                                           *)
LEMMA StoredAfterWrite ==
    ASSUME TypeOK, NEW c \in Claims, NEW obj \in AddressObject \cup {None},
           addresses' = Write(addresses, c, obj)
    PROVE  /\ Stored(addresses)'[c] = obj
           /\ \A d \in Claims \ {c} : Stored(addresses)'[d] = Stored(addresses)[d]
<1>1. CASE Stored(addresses)[c] = obj
  BY <1>1 DEF Write, Stored
<1>2. CASE Stored(addresses)[c] # obj
  <2> DEFINE next == [Stored(addresses) EXCEPT ![c] = obj]
  <2>1. addresses' = Append(addresses, next)
    BY <1>2 DEF Write
  <2>2. /\ Stored(addresses) \in [Claims -> AddressObject \cup {None}]
        /\ addresses \in Seq([Claims -> AddressObject \cup {None}])
        /\ next \in [Claims -> AddressObject \cup {None}]
    BY DEF TypeOK, Stored
  <2>3. next[c] = obj /\ \A d \in Claims \ {c} : next[d] = Stored(addresses)[d]
    BY <2>2
  <2> HIDE DEF next
  <2>4. Stored(addresses)' = next
    BY <2>1, <2>2, AppendView DEF Stored
  <2> QED
    BY <2>3, <2>4
<1> QED
  BY <1>1, <1>2

(* What CreateOrPatch writes has the finalizer and names the claim, also   *)
(* when it patches an address on the ground of an old copy.                *)
LEMMA PatchedAddress ==
    ASSUME TypeOK, LifeInv, LeaseView, RequestLife, pc = "write", Patch, got # want
    PROVE  LET obj == PatchAddress(got, want, Stored(addresses)[cur]) IN
           /\ obj \in AddressObject
           /\ Protected(obj, claim.uid)
           /\ cur \notin Adopted =>
                \A i \in DOMAIN addresses : addresses[i][cur] # None => addresses[i][cur].fin
           /\ addresses' = Write(addresses, cur, obj)
<1> DEFINE stored == Stored(addresses)[cur]
           obj == PatchAddress(got, want, stored)
<1>1. /\ cur \in Claims /\ got # None /\ got \in AddressObject /\ want \in AddressObject
      /\ stored # None /\ stored \in AddressObject
      /\ addresses' = Write(addresses, cur, obj)
  BY ReadTypes DEF TypeOK, Patch
<1>2. /\ obj \in AddressObject /\ obj # None
      /\ obj.fin = Merge(got.fin, want.fin, stored.fin)
      /\ obj.owner = Merge(got.owner, want.owner, stored.owner)
  BY <1>1, NoneAssumption DEF PatchAddress, Merge, AddressObject
<1>3. /\ stored.fin \in BOOLEAN /\ got.fin \in BOOLEAN /\ want.fin = TRUE
      /\ want.owner = claim.uid
      /\ got.fin \/ got.owner # 0 => stored.owner # 0
      /\ got.owner = claim.uid => Protected(stored, claim.uid)
  <2>1. want.fin \in BOOLEAN /\ want.fin
    BY <1>1, AddressFields DEF RequestLife
  <2> QED
    BY <1>1, <2>1, AddressFields, AddressIndices DEF RequestLife
<1>4. pc \in Serving
  BY DEF Serving
<1>5. /\ claim.uid \in 1 .. MaxUID /\ MayServe(cur, claim.uid)
  BY <1>4, ServedClaim DEF ClaimObject
<1>6. StoredLife(cur) /\ AddressLife(cur, Len(addresses))
  BY <1>1, StoredAddress DEF LeaseView
<1>7. stored.owner # 0 => stored.fin
  BY <1>1, <1>5, <1>6 DEF StoredLife
<1>8. Protected(obj, claim.uid)
  BY <1>2, <1>3, <1>7 DEF Protected, Merge
<1>9. ASSUME cur \notin Adopted, NEW i \in DOMAIN addresses, addresses[i][cur] # None
      PROVE  addresses[i][cur].fin
  <2>1. stored.owner # 0
    BY <1>1, <1>6, <1>9, AddressIndices DEF AddressLife
  <2>2. Finalized(stored)
    BY <1>1, <1>7, <2>1 DEF Finalized
  <2> QED
    BY <1>1, <1>9, <2>2, StoredAddress, AddressStates
<1> QED
  BY <1>1, <1>2, <1>8, <1>9

(* CreateOrPatch keeps LeaseView and leaves the claim its address.         *)
LEMMA PatchLease ==
    ASSUME TypeOK, LifeInv, LeaseView, RequestLife, NoneServedAnew, pc = "write", Patch,
           UNCHANGED <<claims, born>>
    PROVE  LeaseView' /\ Protected(Stored(addresses)'[cur], claim.uid)
<1>1. pc \in Serving /\ cur \in Claims
  BY DEF Serving, TypeOK
<1>2. CASE got = want
  <2>1. addresses' = addresses /\ got # None
    BY <1>2 DEF Patch
  <2>2. Protected(Stored(addresses)[cur], claim.uid)
    BY <1>2, <2>1, AddressIndices DEF RequestLife
  <2>3. Stored(addresses)' = Stored(addresses)
    BY <2>1 DEF Stored
  <2> QED
    BY <2>1, <2>2, <2>3, LeaseFrame
<1>3. CASE got # want
  <2> DEFINE obj == PatchAddress(got, want, Stored(addresses)[cur])
  <2>1. /\ obj \in AddressObject /\ Protected(obj, claim.uid)
        /\ cur \notin Adopted =>
             \A i \in DOMAIN addresses : addresses[i][cur] # None => addresses[i][cur].fin
        /\ addresses' = Write(addresses, cur, obj)
    BY <1>3, PatchedAddress
  <2> HIDE DEF obj
  <2>2. Fits(cur, obj)
    BY <1>1, <2>1, ServedFits
  <2> QED
    BY <1>1, <2>1, <2>2, LeaseWrite, StoredAfterWrite
<1> QED
  BY <1>2, <1>3

(* So does a create, of an address that no state of the view has.          *)
LEMMA CreateLease ==
    ASSUME TypeOK, LifeInv, LeaseView, RequestLife, NoneServedAnew, pc = "write", Create,
           Missing(addresses), UNCHANGED <<claims, born>>
    PROVE  LeaseView' /\ Protected(Stored(addresses)'[cur], claim.uid)
<1>1. pc \in Serving /\ cur \in Claims /\ want \in AddressObject
  BY DEF Serving, TypeOK
<1>2. Protected(want, claim.uid) /\ addresses' = Write(addresses, cur, want)
  BY <1>1, NoneAssumption DEF RequestLife, Protected, Create
<1>3. Fits(cur, want)
  BY <1>1, <1>2, ServedFits DEF Missing
<1> QED
  BY <1>1, <1>2, <1>3, LeaseWrite, StoredAfterWrite

(* The patch that takes the finalizer off an address that is released.     *)
LEMMA UnprotectLease ==
    ASSUME TypeOK, LifeInv, LeaseView, RequestLife, NoneServedAnew, pc = "unprotect", Unprotect,
           UNCHANGED <<claims, born>>
    PROVE  LeaseView' /\ ~Finalized(Stored(addresses)'[cur])
<1> DEFINE stored == Stored(addresses)[cur]
           new == [got EXCEPT !.fin = FALSE]
           patched == PatchAddress(got, new, stored)
           obj == Settle(patched)
<1>1. /\ cur \in Claims /\ got \in AddressObject /\ got # None
      /\ stored # None /\ stored \in AddressObject
      /\ addresses' = Write(addresses, cur, obj)
  BY ReadTypes DEF TypeOK, Unprotect
<1>2. pc \in Releasing
  BY DEF Releasing
<1>3. got.fin = TRUE /\ stored.owner # 0
  <2>1. got.fin /\ got.fin \in BOOLEAN
    BY <1>1, AddressFields DEF RequestLife
  <2> QED
    BY <1>1, <2>1, AddressIndices DEF RequestLife
<1>4. new \in AddressObject /\ new.fin = FALSE /\ new.owner = got.owner
  BY <1>1 DEF AddressObject
<1> HIDE DEF new
<1>5. /\ patched \in AddressObject /\ patched # None /\ patched.fin = FALSE
      /\ patched.owner = stored.owner /\ patched.deleting = stored.deleting
  BY <1>1, <1>3, <1>4, NoneAssumption DEF PatchAddress, Merge, AddressObject
<1> HIDE DEF patched
<1>6. /\ obj \in AddressObject \cup {None}
      /\ obj # None => /\ obj.fin = FALSE /\ obj.owner = stored.owner
                       /\ ~stored.deleting /\ ~obj.deleting
  BY <1>5 DEF Settle
<1> HIDE DEF obj
<1>7. AddressLife(cur, Len(addresses)) /\ StoredLife(cur)
  BY <1>1, StoredAddress DEF LeaseView
<1>8. ~Finalized(obj)
  BY <1>6 DEF Finalized
<1>9. (\A uid : ~MayServe(cur, uid)) /\ ~Bound(cur)
  BY <1>2, ReleasedClaim
<1>10. ASSUME obj # None
       PROVE  /\ obj.owner <= born[cur]
              /\ obj.deleting => obj.fin
              /\ obj.owner # 0
              /\ \A k \in DOMAIN claims :
                   claims[k][cur] # None /\ claims[k][cur].uid = obj.owner => claims[k][cur].fin
              /\ Stored(claims)[cur] # None /\ Stored(claims)[cur].fin
              /\ Stored(claims)[cur].uid = obj.owner
  BY <1>1, <1>3, <1>6, <1>7, <1>10, AddressIndices DEF AddressLife, StoredLife, HasClaim
<1>11. Fits(cur, obj)
  BY <1>8, <1>9, <1>10 DEF Fits
<1> QED
  BY <1>1, <1>6, <1>8, <1>11, LeaseWrite, StoredAfterWrite

(* What is stored of the claims after a write.                             *)
LEMMA StoredAfterClaimWrite ==
    ASSUME TypeOK, NEW c \in Claims, NEW obj \in ClaimObject \cup {None},
           claims' = Write(claims, c, obj)
    PROVE  /\ Stored(claims)'[c] = obj
           /\ \A d \in Claims \ {c} : Stored(claims)'[d] = Stored(claims)[d]
<1>1. PICK n \in Nat :
        /\ n = Len(claims) /\ n >= 1 /\ DOMAIN claims = 1 .. n /\ Stored(claims) = claims[n]
  BY ClaimIndices
<1>2. CASE claims' = claims /\ Stored(claims)[c] = obj
  BY <1>2 DEF Stored
<1>3. CASE /\ Len(claims') = n + 1
           /\ claims'[n + 1][c] = obj
           /\ \A d \in Claims \ {c} : claims'[n + 1][d] = claims[n][d]
  BY <1>1, <1>3 DEF Stored
<1> QED
  BY <1>1, <1>2, <1>3, WrittenClaims

(* The claim obj may be stored under the name c: it does not make a claim  *)
(* live that an address was written for before, or that is being released. *)
FitsClaim(c, obj) ==
    /\ Live(obj) /\ ~MayServe(c, obj.uid) =>
         /\ \A i \in DOMAIN addresses : addresses[i][c] # None => addresses[i][c].owner # obj.uid
         /\ Stored(addresses)[c] # None /\ Stored(addresses)[c].owner # 0 =>
              Stored(addresses)[c].fin
    /\ obj # None /\ ~obj.fin =>
         \A i \in DOMAIN addresses : addresses[i][c] # None => addresses[i][c].owner # obj.uid
    /\ Stored(addresses)[c] # None /\ Stored(addresses)[c].owner # 0 =>
         \/ obj # None /\ obj.fin /\ obj.uid = Stored(addresses)[c].owner
         \/ c \in Adopted /\ Stored(addresses)[c].deleting
    /\ obj # None /\ obj.ref /\ ~obj.deleting => Protected(Stored(addresses)[c], obj.uid)

(* Such a write keeps LeaseView.                                           *)
LEMMA ClaimWriteLease ==
    ASSUME TypeOK, LeaseView, UNCHANGED addresses,
           pc' \in Serving => UNCHANGED <<pc, cur, claim>>,
           \A d \in Claims : born[d] \in Nat /\ born'[d] \in Nat /\ born[d] <= born'[d],
           NEW c \in Claims, NEW obj \in ClaimObject \cup {None},
           claims' = Write(claims, c, obj), FitsClaim(c, obj)
    PROVE  LeaseView'
<1>1. PICK n \in Nat :
        /\ n = Len(claims) /\ n >= 1 /\ DOMAIN claims = 1 .. n /\ Stored(claims) = claims[n]
  BY ClaimIndices
<1>2. \A k \in DOMAIN claims' :
        \/ k \in DOMAIN claims /\ claims'[k] = claims[k]
        \/ /\ claims'[k][c] = obj
           /\ \A d \in Claims \ {c} : claims'[k][d] = claims[n][d]
  <2>1. ASSUME /\ DOMAIN claims' = 1 .. n + 1
               /\ \A i \in 1 .. n : claims'[i] = claims[i]
               /\ claims'[n + 1][c] = obj
               /\ \A d \in Claims \ {c} : claims'[n + 1][d] = claims[n][d],
               NEW k \in DOMAIN claims'
        PROVE  \/ k \in DOMAIN claims /\ claims'[k] = claims[k]
               \/ /\ claims'[k][c] = obj
                  /\ \A d \in Claims \ {c} : claims'[k][d] = claims[n][d]
    <3>1. k \in 1 .. n \/ k = n + 1
      BY <1>1, <2>1
    <3> QED
      BY <1>1, <2>1, <3>1
  <2> QED
    BY <1>1, <2>1, WrittenClaims
<1>3. /\ Stored(claims)'[c] = obj
      /\ \A d \in Claims \ {c} : Stored(claims)'[d] = Stored(claims)[d]
  BY StoredAfterClaimWrite
<1>4. Stored(addresses)' = Stored(addresses)
  BY DEF Stored
<1>5. ASSUME NEW d \in Claims, NEW uid, MayServe(d, uid)'
      PROVE  MayServe(d, uid) \/ (d = c /\ Live(obj) /\ obj.uid = uid)
  <2>1. CASE pc' \in Serving /\ cur' = d /\ claim'.uid = uid
    BY <2>1 DEF MayServe
  <2>2. ASSUME NEW k \in DOMAIN claims', Live(claims'[k][d]), claims'[k][d].uid = uid
        PROVE  MayServe(d, uid) \/ (d = c /\ Live(obj) /\ obj.uid = uid)
    BY <1>1, <1>2, <2>2 DEF MayServe
  <2> QED
    BY <1>5, <2>1, <2>2 DEF MayServe
<1>6. ASSUME NEW d \in Claims, NEW i \in DOMAIN addresses PROVE AddressLife(d, i)'
  <2> SUFFICES ASSUME addresses[i][d] # None PROVE AddressLife(d, i)'
    BY DEF AddressLife
  <2>1. AddressLife(d, i) /\ addresses[i][d].owner \in Nat
    BY AddressStates DEF LeaseView
  <2>2. addresses[i][d].owner <= born'[d]
    BY <2>1 DEF AddressLife
  <2>3. \A k \in DOMAIN claims' :
          claims'[k][d] # None /\ claims'[k][d].uid = addresses[i][d].owner => claims'[k][d].fin
    BY <1>1, <1>2, <2>1 DEF AddressLife, FitsClaim
  <2>4. MayServe(d, addresses[i][d].owner)' => MayServe(d, addresses[i][d].owner)
    BY <1>5 DEF FitsClaim
  <2> QED
    BY <2>1, <2>2, <2>3, <2>4 DEF AddressLife
<1>7. ASSUME NEW d \in Claims PROVE StoredLife(d)'
  <2>1. StoredLife(d)
    BY DEF LeaseView
  <2>2. ASSUME Stored(addresses)[d] # None, ~Stored(addresses)[d].fin, Stored(addresses)[d].owner # 0,
               NEW uid \in 1 .. MaxUID
        PROVE  ~MayServe(d, uid)'
    BY <1>5, <2>1, <2>2 DEF StoredLife, FitsClaim
  <2>3. CASE d = c
    BY <1>3, <1>4, <2>1, <2>2, <2>3 DEF StoredLife, HasClaim, Bound, FitsClaim
  <2>4. CASE d # c
    BY <1>3, <1>4, <2>1, <2>2, <2>4 DEF StoredLife, HasClaim, Bound
  <2> QED
    BY <2>3, <2>4
<1> QED
  BY <1>6, <1>7 DEF LeaseView

(* The deletion of a claim.                                                *)
LEMMA DeletedClaim ==
    ASSUME NEW obj \in ClaimObject
    PROVE  /\ Deleted(obj) \in ClaimObject \cup {None}
           /\ obj.fin => /\ Deleted(obj) # None /\ Deleted(obj).fin /\ Deleted(obj).deleting
                         /\ Deleted(obj).uid = obj.uid
           /\ ~obj.fin => Deleted(obj) = None
<1>1. CASE obj.fin
  <2>1. Deleted(obj) = [obj EXCEPT !.deleting = TRUE]
    BY <1>1 DEF Deleted, Settle, ClaimObject
  <2>2. Deleted(obj) \in ClaimObject
    BY <2>1 DEF ClaimObject
  <2> QED
    BY <1>1, <2>1, <2>2, NoneAssumption DEF ClaimObject
<1>2. CASE ~obj.fin
  BY <1>2 DEF Deleted, Settle, ClaimObject
<1>3. obj.fin \in BOOLEAN
  BY DEF ClaimObject
<1> QED
  BY <1>1, <1>2, <1>3

(* The three deferred patches keep LeaseView: the one that adds the        *)
(* finalizer gives it to a claim that has no address yet, ...              *)
LEMMA AddFinalizerLease ==
    ASSUME TypeOK, LifeInv, LeaseView, AddFinalizer
    PROVE  LeaseView'
<1> DEFINE stored == Stored(claims)[cur]
           address == Stored(addresses)[cur]
<1>1. /\ cur \in Claims /\ pc \notin Serving
      /\ pc' \notin Serving /\ UNCHANGED <<addresses, born>>
      /\ \A d \in Claims : born[d] \in Nat
  BY DEF AddFinalizer, PatchAndReturn, Return, TypeOK, Serving
<1>2. CASE stored = None
  <2>1. claims' = claims
    BY <1>2 DEF AddFinalizer, PatchAndReturn
  <2>2. NoneServedAnew
    BY <1>1, <2>1 DEF NoneServedAnew, MayServe
  <2> QED
    BY <1>1, <2>1, <2>2, LeaseFrame
<1>3. CASE stored # None
  <2>1. PICK obj \in ClaimObject :
          /\ claims' = Write(claims, cur, obj)
          /\ obj # None /\ obj.fin
          /\ obj.uid = stored.uid /\ obj.deleting = stored.deleting /\ obj.ref = stored.ref
    BY <1>3, AddFinalizerWrite
  <2>2. /\ stored \in ClaimObject /\ stored.fin \in BOOLEAN
        /\ StoredLife(cur) /\ AddressLife(cur, Len(addresses))
    BY <1>1, <1>3, ReadTypes, StoredAddress DEF LeaseView, ClaimObject
  <2>3. stored.ref /\ ~obj.deleting => Protected(address, obj.uid)
    BY <1>3, <2>1, <2>2 DEF StoredLife, Bound
  <2>4. address # None /\ address.owner # 0 =>
          \/ obj.uid = address.owner
          \/ cur \in Adopted /\ address.deleting
    BY <2>1, <2>2 DEF StoredLife, HasClaim
  <2>5. stored.fin /\ ~stored.deleting => MayServe(cur, obj.uid)
    BY <1>3, <2>1, ClaimIndices DEF MayServe, Live
  <2>6. ASSUME ~stored.fin
        PROVE  /\ \A i \in DOMAIN addresses :
                    addresses[i][cur] # None => addresses[i][cur].owner # obj.uid
               /\ address # None /\ address.owner # 0 => address.fin
    <3>1. \A i \in DOMAIN addresses : AddressLife(cur, i)
      BY <1>1 DEF LeaseView
    <3>2. address # None /\ address.owner # 0 => address.deleting
      BY <2>2, <2>6 DEF StoredLife, HasClaim
    <3> QED
      BY <1>3, <2>1, <2>2, <2>6, <3>1, <3>2, ClaimIndices, AddressIndices DEF AddressLife
  <2>7. FitsClaim(cur, obj)
    BY <2>1, <2>2, <2>3, <2>4, <2>5, <2>6 DEF FitsClaim, Live
  <2> QED
    BY <1>1, <2>1, <2>7, ClaimWriteLease
<1> QED
  BY <1>2, <1>3

(* ... the one that sets the reference finds the address protected, ...    *)
LEMMA SetAddressRefLease ==
    ASSUME TypeOK, LifeInv, LeaseView, RequestLife, SetAddressRef
    PROVE  LeaseView'
<1> DEFINE stored == Stored(claims)[cur]
           address == Stored(addresses)[cur]
<1>1. /\ cur \in Claims /\ pc \in Serving
      /\ pc' \notin Serving /\ UNCHANGED <<addresses, born>>
      /\ \A d \in Claims : born[d] \in Nat
  BY DEF SetAddressRef, PatchAndReturn, Return, TypeOK, Serving
<1>2. stored # None /\ stored.uid = claim.uid /\ MayServe(cur, claim.uid)
  BY <1>1, SetAddressRefWrite, ServedClaim
<1>3. PICK obj \in ClaimObject :
        /\ claims' = Write(claims, cur, obj)
        /\ obj # None /\ obj.fin /\ obj.uid = stored.uid
  BY SetAddressRefWrite
<1>4. Protected(address, claim.uid)
  BY DEF RequestLife, SetAddressRef
<1>5. FitsClaim(cur, obj)
  BY <1>2, <1>3, <1>4 DEF FitsClaim, Protected
<1> QED
  BY <1>1, <1>3, <1>5, ClaimWriteLease

(* ... and the one that removes the finalizer finds the address gone, or   *)
(* going.                                                                  *)
LEMMA RemoveFinalizerLease ==
    ASSUME TypeOK, LifeInv, LeaseView, RequestLife, RemoveFinalizer
    PROVE  LeaseView'
<1>1. /\ cur \in Claims /\ pc' \notin Serving /\ UNCHANGED <<addresses, born>>
      /\ \A d \in Claims : born[d] \in Nat
  BY DEF RemoveFinalizer, PatchAndReturn, Return, TypeOK, Serving
<1>2. CASE claims' = claims
  <2>1. NoneServedAnew
    BY <1>1, <1>2 DEF NoneServedAnew, MayServe
  <2> QED
    BY <1>1, <1>2, <2>1, LeaseFrame
<1>3. CASE claims' = Write(claims, cur, None)
  <2>1. Stored(addresses)[cur] # None => cur \in Adopted /\ Stored(addresses)[cur].deleting
    BY DEF RequestLife, RemoveFinalizer
  <2>2. FitsClaim(cur, None)
    BY <2>1 DEF FitsClaim, Live
  <2> QED
    BY <1>1, <1>3, <2>2, ClaimWriteLease
<1> QED
  BY <1>2, <1>3, RemoveFinalizerLife

(* So do the users.                                                        *)
LEMMA CreateClaimLease ==
    ASSUME TypeOK, LifeInv, LeaseView, NEW c \in Claims, CreateClaim(c)
    PROVE  LeaseView'
<1> DEFINE obj == [uid |-> born[c] + 1, fin |-> FALSE, deleting |-> FALSE, ref |-> FALSE]
<1>1. /\ claims' = Write(claims, c, obj) /\ Stored(claims)[c] = None
      /\ UNCHANGED <<addresses, pc, cur, claim>>
  BY DEF CreateClaim, worker
<1>2. born[c] + 1 \in 1 .. MaxUID /\ obj \in ClaimObject /\ born[c] \in Nat
  BY BoundsAssumption DEF CreateClaim, TypeOK, ClaimObject
<1>3. \A d \in Claims : born[d] \in Nat /\ born'[d] \in Nat /\ born[d] <= born'[d]
  BY DEF CreateClaim, TypeOK
<1>4. obj.uid = born[c] + 1 /\ ~obj.fin /\ ~obj.deleting /\ ~obj.ref
  OBVIOUS
<1> HIDE DEF obj
<1>5. \A i \in DOMAIN addresses : addresses[i][c] # None => addresses[i][c].owner # obj.uid
  <2> SUFFICES ASSUME NEW i \in DOMAIN addresses, addresses[i][c] # None
               PROVE  addresses[i][c].owner # obj.uid
    OBVIOUS
  <2>1. AddressLife(c, i) /\ addresses[i][c].owner \in Nat
    BY AddressStates DEF LeaseView
  <2> QED
    BY <1>2, <1>4, <2>1 DEF AddressLife
<1>6. StoredLife(c)
  BY DEF LeaseView
<1>7. FitsClaim(c, obj)
  BY <1>1, <1>4, <1>5, <1>6 DEF FitsClaim, Live, StoredLife, HasClaim
<1> QED
  BY <1>1, <1>2, <1>3, <1>7, ClaimWriteLease

(* A claim with an address has the finalizer, and is only marked.          *)
LEMMA DeleteClaimLease ==
    ASSUME TypeOK, LifeInv, LeaseView, NEW c \in Claims, DeleteClaim(c)
    PROVE  LeaseView'
<1> DEFINE stored == Stored(claims)[c]
           obj == Deleted(stored)
<1>1. /\ claims' = Write(claims, c, obj) /\ stored # None /\ stored \in ClaimObject
      /\ stored.fin \in BOOLEAN
      /\ UNCHANGED <<addresses, pc, cur, claim, born>>
      /\ \A d \in Claims : born[d] \in Nat
  BY ReadTypes DEF DeleteClaim, worker, TypeOK, ClaimObject
<1>2. /\ obj \in ClaimObject \cup {None}
      /\ stored.fin => /\ obj # None /\ obj.fin /\ obj.deleting /\ obj.uid = stored.uid
      /\ ~stored.fin => obj = None
  BY <1>1, DeletedClaim
<1> HIDE DEF obj
<1>3. StoredLife(c)
  BY DEF LeaseView
<1>4. Stored(addresses)[c] # None /\ Stored(addresses)[c].owner # 0 =>
        \/ obj # None /\ obj.fin /\ obj.uid = Stored(addresses)[c].owner
        \/ c \in Adopted /\ Stored(addresses)[c].deleting
  BY <1>1, <1>2, <1>3 DEF StoredLife, HasClaim
<1>5. obj # None => obj.fin /\ obj.deleting
  BY <1>1, <1>2
<1>6. FitsClaim(c, obj)
  BY <1>4, <1>5 DEF FitsClaim, Live
<1> QED
  BY <1>1, <1>2, <1>6, ClaimWriteLease

(* The watches: what is left of the views is as it was.                    *)
LEMMA WatchClaimsLease ==
    ASSUME TypeOK, LeaseView, RequestLife, WatchClaims
    PROVE  LeaseView' /\ RequestLife'
<1>1. PICK n \in Nat :
        /\ n = Len(claims) /\ n > 1 /\ DOMAIN claims = 1 .. n /\ Stored(claims) = claims[n]
  BY ClaimIndices DEF WatchClaims
<1>2. /\ Len(claims') = n - 1
      /\ DOMAIN claims' = 1 .. n - 1
      /\ \A i \in 1 .. n - 1 : claims'[i] = claims[i + 1]
  BY <1>1 DEF TypeOK, WatchClaims
<1>3. Stored(claims)' = Stored(claims)
  BY <1>1, <1>2 DEF Stored
<1>4. \A i \in DOMAIN claims' : i + 1 \in DOMAIN claims /\ claims'[i] = claims[i + 1]
  BY <1>1, <1>2
<1>5. UNCHANGED <<addresses, pc, cur, claim, got, want, born>>
  BY DEF WatchClaims, worker
<1>6. ASSUME NEW c, NEW uid, MayServe(c, uid)' PROVE MayServe(c, uid)
  BY <1>4, <1>5, <1>6 DEF MayServe
<1>7. ASSUME NEW c \in Claims, NEW i \in DOMAIN addresses PROVE AddressLife(c, i)'
  <2>1. AddressLife(c, i)
    BY DEF LeaseView
  <2>2. MayServe(c, addresses[i][c].owner)' => MayServe(c, addresses[i][c].owner)
    BY <1>5, <1>6
  <2>3. addresses[i][c] # None => \A k \in DOMAIN claims' :
          claims'[k][c] # None /\ claims'[k][c].uid = addresses[i][c].owner => claims'[k][c].fin
    BY <1>4, <2>1 DEF AddressLife
  <2> QED
    BY <1>5, <2>1, <2>2, <2>3 DEF AddressLife
<1>8. ASSUME NEW c \in Claims PROVE StoredLife(c)'
  <2>1. StoredLife(c)
    BY DEF LeaseView
  <2> QED
    BY <1>3, <1>5, <1>6, <2>1 DEF StoredLife, HasClaim, Bound, Stored
<1> QED
  BY <1>5, <1>7, <1>8 DEF LeaseView, RequestLife, Stored

(* ... also of the addresses, ...                                          *)
LEMMA WatchAddressesLease ==
    ASSUME TypeOK, LeaseView, RequestLife, WatchAddresses
    PROVE  LeaseView' /\ RequestLife'
<1>1. PICK n \in Nat :
        /\ n = Len(addresses) /\ n > 1 /\ DOMAIN addresses = 1 .. n
        /\ Stored(addresses) = addresses[n]
  BY AddressIndices DEF WatchAddresses
<1>2. /\ Len(addresses') = n - 1
      /\ DOMAIN addresses' = 1 .. n - 1
      /\ \A i \in 1 .. n - 1 : addresses'[i] = addresses[i + 1]
  BY <1>1 DEF TypeOK, WatchAddresses
<1>3. Stored(addresses)' = Stored(addresses)
  BY <1>1, <1>2 DEF Stored
<1>4. \A i \in DOMAIN addresses' :
        i \in Nat /\ i + 1 \in DOMAIN addresses /\ addresses'[i] = addresses[i + 1]
  BY <1>1, <1>2
<1>5. UNCHANGED <<claims, pc, cur, claim, got, want, born>>
  BY DEF WatchAddresses, worker
<1>6. \A c, uid : MayServe(c, uid)' <=> MayServe(c, uid)
  BY <1>5 DEF MayServe
<1>7. ASSUME NEW c \in Claims, NEW i \in DOMAIN addresses' PROVE AddressLife(c, i)'
  <2>1. AddressLife(c, i + 1) /\ addresses'[i] = addresses[i + 1] /\ i \in Nat
    BY <1>4 DEF LeaseView
  <2> SUFFICES ASSUME addresses[i + 1][c] # None PROVE AddressLife(c, i)'
    BY <2>1 DEF AddressLife
  <2>2. \A j \in DOMAIN addresses' :
          /\ j \in Nat /\ j + 1 \in DOMAIN addresses /\ addresses'[j] = addresses[j + 1]
          /\ (j < i => j + 1 < i + 1) /\ (i < j => i + 1 < j + 1) /\ (i <= j => i + 1 <= j + 1)
    BY <1>4, <2>1
  <2>3. addresses[i + 1][c].owner = 0 => \A j \in DOMAIN addresses' :
          j < i => addresses'[j][c] # None /\ addresses'[j][c].owner = 0
    BY <2>1, <2>2 DEF AddressLife
  <2>4. c \notin Adopted /\ ~addresses[i + 1][c].fin =>
          \A j \in DOMAIN addresses' : i < j => ~Finalized(addresses'[j][c])
    BY <2>1, <2>2 DEF AddressLife
  <2>5. MayServe(c, addresses[i + 1][c].owner) =>
          \A j \in DOMAIN addresses' : i <= j => Protected(addresses'[j][c], addresses[i + 1][c].owner)
    BY <2>1, <2>2 DEF AddressLife
  <2>6. MayServe(c, addresses[i][c].owner)' => MayServe(c, addresses[i + 1][c].owner)
    BY <1>6, <2>1
  <2> QED
    BY <1>5, <2>1, <2>3, <2>4, <2>5, <2>6 DEF AddressLife
<1>8. ASSUME NEW c \in Claims PROVE StoredLife(c)'
  <2>1. StoredLife(c)
    BY DEF LeaseView
  <2> QED
    BY <1>3, <1>5, <1>6, <2>1 DEF StoredLife, HasClaim, Bound, Stored
<1>9. RequestLife'
  BY <1>3, <1>4, <1>5 DEF RequestLife
<1> QED
  BY <1>7, <1>8, <1>9 DEF LeaseView

(* ... and after a restart.                                                *)
LEMMA RestartLease ==
    ASSUME TypeOK, LeaseView, Restart
    PROVE  LeaseView'
<1>1. /\ DOMAIN addresses' = {1} /\ addresses'[1] = Stored(addresses)
      /\ Stored(addresses)' = Stored(addresses)
      /\ DOMAIN claims' = {1} /\ claims'[1] = Stored(claims)
      /\ Stored(claims)' = Stored(claims)
      /\ pc' \notin Serving /\ born' = born
  BY DEF Restart, Return, Stored, Serving
<1>2. ASSUME NEW c, NEW uid, MayServe(c, uid)' PROVE MayServe(c, uid)
  BY <1>1, <1>2, ClaimIndices DEF MayServe
<1>3. ASSUME NEW c \in Claims PROVE AddressLife(c, 1)'
  <2>1. AddressLife(c, Len(addresses))
    BY StoredAddress
  <2>2. MayServe(c, addresses[1][c].owner)' => MayServe(c, Stored(addresses)[c].owner)
    BY <1>1, <1>2
  <2> QED
    BY <1>1, <2>1, <2>2, ClaimIndices, AddressIndices DEF AddressLife
<1>4. ASSUME NEW c \in Claims PROVE StoredLife(c)'
  <2>1. StoredLife(c)
    BY DEF LeaseView
  <2> QED
    BY <1>1, <1>2, <2>1 DEF StoredLife, HasClaim, Bound
<1> QED
  BY <1>1, <1>3, <1>4 DEF LeaseView

(* What the worker reads of the address, in the cache.                     *)
LEMMA AddressRead ==
    ASSUME TypeOK, LeaseView, NEW c \in Claims, Cached(addresses)[c] # None
    PROVE  LET obj == Cached(addresses)[c] IN
           /\ obj.fin \/ obj.owner # 0 =>
                \A j \in DOMAIN addresses : addresses[j][c] # None => addresses[j][c].owner # 0
           /\ MayServe(c, obj.owner) =>
                \A j \in DOMAIN addresses : Protected(addresses[j][c], obj.owner)
           /\ c \notin Adopted /\ ~obj.fin => ~Finalized(Stored(addresses)[c])
<1>1. 1 \in DOMAIN addresses /\ \A j \in DOMAIN addresses : 1 <= j /\ (j = 1 \/ 1 < j)
  BY AddressIndices
<1>2. Cached(addresses) = addresses[1]
  BY DEF Cached
<1>3. \A j \in DOMAIN addresses : AddressLife(c, j)
  BY DEF LeaseView
<1>4. addresses[1][c].fin \/ addresses[1][c].owner # 0 =>
        \A j \in DOMAIN addresses : addresses[j][c] # None => addresses[j][c].owner # 0
  BY <1>1, <1>2, <1>3 DEF AddressLife
<1>5. MayServe(c, addresses[1][c].owner) =>
        \A j \in DOMAIN addresses : Protected(addresses[j][c], addresses[1][c].owner)
  BY <1>1, <1>2, <1>3 DEF AddressLife
<1> QED
  BY <1>1, <1>2, <1>4, <1>5, StoredAddress

(* A deletion by somebody else does not disturb the request.               *)
LEMMA DeleteRequest ==
    ASSUME TypeOK, LeaseView, RequestLife, NEW c \in Claims, DeleteAddressOf(c)
    PROVE  RequestLife'
<1> DEFINE stored == Stored(addresses)[c]
           obj == Deleted(stored)
<1>1. /\ stored # None /\ stored \in AddressObject /\ stored.fin \in BOOLEAN
      /\ addresses' = Write(addresses, c, obj)
      /\ UNCHANGED <<pc, cur, claim, got, want>>
  BY ReadTypes, AddressFields DEF DeleteAddressOf, Delete, worker
<1>2. /\ obj \in AddressObject \cup {None}
      /\ stored.fin => /\ obj # None /\ obj.fin /\ obj.deleting /\ obj.owner = stored.owner
      /\ ~stored.fin => obj = None
  BY <1>1, DeletedAddress
<1> HIDE DEF obj
<1>3. PICK n \in Nat :
        /\ n = Len(addresses) /\ n >= 1 /\ DOMAIN addresses = 1 .. n
        /\ Stored(addresses) = addresses[n]
  BY AddressIndices
<1>4. /\ Stored(addresses)'[c] = obj
      /\ \A d \in Claims \ {c} : Stored(addresses)'[d] = Stored(addresses)[d]
  BY <1>1, <1>2, StoredAfterWrite
<1>5. \A j \in DOMAIN addresses' :
        \/ j \in DOMAIN addresses /\ addresses'[j] = addresses[j]
        \/ /\ addresses'[j][c] = obj
           /\ \A d \in Claims \ {c} : addresses'[j][d] = addresses[n][d]
  <2>1. ASSUME /\ DOMAIN addresses' = 1 .. n + 1
               /\ \A i \in 1 .. n : addresses'[i] = addresses[i]
               /\ addresses'[n + 1][c] = obj
               /\ \A d \in Claims \ {c} : addresses'[n + 1][d] = addresses[n][d],
               NEW j \in DOMAIN addresses'
        PROVE  \/ j \in DOMAIN addresses /\ addresses'[j] = addresses[j]
               \/ /\ addresses'[j][c] = obj
                  /\ \A d \in Claims \ {c} : addresses'[j][d] = addresses[n][d]
    <3>1. j \in 1 .. n \/ j = n + 1
      BY <1>3, <2>1
    <3> QED
      BY <1>3, <2>1, <3>1
  <2> QED
    BY <1>1, <1>2, <1>3, <2>1, WrittenView
<1>6. \A uid : Protected(stored, uid) => Protected(obj, uid)
  BY <1>2 DEF Protected
<1>7. pc # "idle" => cur \in Claims
  BY DEF TypeOK
<1>8. n \in DOMAIN addresses
  BY <1>3
<1>9. ASSUME pc \in {"ensure", "write", "unprotect"}, got # None, got.fin \/ got.owner # 0
      PROVE  \A j \in DOMAIN addresses' : addresses'[j][cur] # None => addresses'[j][cur].owner # 0
  <2>1. \A j \in DOMAIN addresses : addresses[j][cur] # None => addresses[j][cur].owner # 0
    BY <1>9 DEF RequestLife
  <2>2. cur = c => stored.owner # 0
    BY <1>1, <1>3, <1>8, <2>1
  <2>3. obj # None => obj.owner = stored.owner
    BY <1>1, <1>2
  <2> QED
    BY <1>3, <1>5, <1>7, <1>8, <1>9, <2>1, <2>2, <2>3
<1>10. ASSUME pc \in {"ensure", "write"}, got # None, got.owner = claim.uid
       PROVE  \A j \in DOMAIN addresses' : Protected(addresses'[j][cur], claim.uid)
  <2>1. \A j \in DOMAIN addresses : Protected(addresses[j][cur], claim.uid)
    BY <1>10 DEF RequestLife
  <2> QED
    BY <1>3, <1>5, <1>6, <1>7, <1>8, <1>10, <2>1
<1>11. pc \in {"wait", "setRef"} => Protected(Stored(addresses)'[cur], claim.uid)
  BY <1>4, <1>6, <1>7 DEF RequestLife
<1>12. pc = "delete" /\ cur \notin Adopted => ~Finalized(Stored(addresses)'[cur])
  BY <1>1, <1>2, <1>4, <1>7 DEF RequestLife, Finalized
<1>13. pc = "removeFinalizer" /\ Stored(addresses)'[cur] # None =>
         cur \in Adopted /\ Stored(addresses)'[cur].deleting
  BY <1>1, <1>2, <1>4, <1>7 DEF RequestLife
<1> QED
  BY <1>1, <1>9, <1>10, <1>11, <1>12, <1>13 DEF RequestLife

(* Every step keeps the addresses and their claims in order.               *)
LEMMA LeaseInvStep == TypeOK /\ UniqueInv /\ LifeInv /\ LeaseInv /\ [Next]_vars => LeaseInv'
<1> SUFFICES ASSUME TypeOK, UniqueInv, LifeInv, LeaseInv, [Next]_vars, blind' = 0 PROVE LeaseInv'
  BY DEF LeaseInv
<1>1. blind = 0
  BY StillSighted
<1>2. /\ LeaseView /\ RequestLife
      /\ Awaited(addresses)
      /\ pc = "write" /\ got = None => Missing(addresses)
  BY <1>1 DEF LeaseInv, LeaseView, UniqueInv
<1>3. pc # "idle" => cur \in Claims
  BY DEF TypeOK
<1>4. ASSUME LeaseView', RequestLife' PROVE LeaseInv'
  BY <1>4 DEF LeaseInv, LeaseView
<1>5. pc' = "idle" => RequestLife'
  BY DEF RequestLife
<1>6. ASSUME UNCHANGED claims,
             pc' \in Serving => pc \in Serving /\ UNCHANGED <<cur, claim>>
      PROVE  NoneServedAnew
  BY <1>6 DEF NoneServedAnew, MayServe
<1>7. ASSUME NEW c \in Claims, NEW cluster, NEW pool, Reconcile(c, cluster, pool) PROVE LeaseInv'
  <2>1. /\ UNCHANGED <<addresses, claims, born>> /\ pc \notin Serving
        /\ cur' = c /\ claim' = claims[1][c] /\ claims[1][c] # None
        /\ pc' \in {"addFinalizer", "release", "get"}
        /\ pc' = "get" => claims[1][c].fin /\ ~claims[1][c].deleting
    BY <1>7 DEF Reconcile, Cached, Serving
  <2>2. NoneServedAnew
    BY <2>1, ClaimIndices DEF NoneServedAnew, MayServe, Live, Serving
  <2>3. RequestLife'
    BY <2>1 DEF RequestLife
  <2> QED
    BY <1>2, <1>4, <2>1, <2>2, <2>3, LeaseFrame
<1>8. CASE AddFinalizer
  BY <1>2, <1>4, <1>5, <1>8, AddFinalizerLease DEF AddFinalizer, PatchAndReturn, Return
<1>9. CASE SetAddressRef
  BY <1>2, <1>4, <1>5, <1>9, SetAddressRefLease DEF SetAddressRef, PatchAndReturn, Return
<1>10. CASE RemoveFinalizer
  BY <1>2, <1>4, <1>5, <1>10, RemoveFinalizerLease DEF RemoveFinalizer, PatchAndReturn, Return
<1>11. CASE GetAddress
  <2>1. /\ UNCHANGED <<addresses, claims, born, cur, claim>> /\ cur \in Claims
        /\ got' = Cached(addresses)[cur] /\ pc \in Serving /\ pc' = "ensure"
    BY <1>3, <1>11 DEF GetAddress, Serving
  <2>2. MayServe(cur, claim.uid)
    BY <2>1, ServedClaim
  <2>3. RequestLife'
    BY <1>2, <2>1, <2>2, AddressRead DEF RequestLife
  <2> QED
    BY <1>2, <1>4, <1>6, <2>1, <2>3, LeaseFrame
<1>12. CASE EnsureAddress
  <2>1. /\ UNCHANGED <<addresses, claims, born, cur, claim, got>>
        /\ pc = "ensure" /\ pc' = "write"
        /\ want'.fin /\ want'.owner = claim.uid
    BY <1>12 DEF EnsureAddress, CompletedAddress, OwnerReference
  <2>2. RequestLife'
    BY <1>2, <2>1 DEF RequestLife
  <2> QED
    BY <1>2, <1>4, <1>6, <2>1, <2>2, LeaseFrame DEF Serving
<1>13. CASE CreateOrPatch
  <2>1. /\ pc = "write" /\ pc' = "wait" /\ UNCHANGED <<claims, born, cur, claim>>
        /\ Create \/ Patch
    BY <1>13 DEF CreateOrPatch, Goto
  <2>2. NoneServedAnew
    BY <1>6, <2>1 DEF Serving
  <2>3. LeaseView' /\ Protected(Stored(addresses)'[cur], claim.uid)
    BY <1>2, <2>1, <2>2, CreateLease, PatchLease DEF Create
  <2>4. RequestLife'
    BY <2>1, <2>3 DEF RequestLife
  <2> QED
    BY <1>4, <2>3, <2>4
<1>14. CASE AddressSeen
  <2>1. /\ UNCHANGED <<addresses, claims, born, cur, claim, got>>
        /\ pc = "wait" /\ pc' = "setRef" /\ Stored(addresses)' = Stored(addresses)
    BY <1>14 DEF AddressSeen, Goto, Stored
  <2>2. RequestLife'
    BY <1>2, <2>1 DEF RequestLife
  <2> QED
    BY <1>2, <1>4, <1>6, <2>1, <2>2, LeaseFrame DEF Serving
<1>15. CASE GetForRelease
  <2>1. /\ UNCHANGED <<addresses, claims, born, cur, claim>> /\ cur \in Claims
        /\ got' = Cached(addresses)[cur] /\ pc = "release"
        /\ pc' = IF got' = None THEN "removeFinalizer"
                 ELSE IF got'.fin THEN "unprotect" ELSE "delete"
        /\ Stored(addresses)' = Stored(addresses)
    BY <1>3, <1>15 DEF GetForRelease, Stored
  <2>2. Cached(addresses)[cur] = None => Stored(addresses)[cur] = None
    <3>1. 1 \in DOMAIN addresses /\ Len(addresses) \in DOMAIN addresses
          /\ (1 = Len(addresses) \/ 1 < Len(addresses))
      BY AddressIndices
    <3> QED
      BY <1>2, <2>1, <3>1, AddressIndices DEF Awaited
  <2>3. pc' \in {"removeFinalizer", "unprotect", "delete"}
    BY <2>1
  <2>4. RequestLife'
    BY <1>2, <2>1, <2>2, <2>3, AddressRead DEF RequestLife
  <2> QED
    BY <1>2, <1>4, <1>6, <2>1, <2>3, <2>4, LeaseFrame DEF Serving
<1>16. CASE RemoveProtection
  <2>1. /\ UNCHANGED <<claims, born, cur, claim>> /\ pc = "unprotect" /\ cur \in Claims
        /\ pc' \in {"delete", "removeFinalizer"}
    BY <1>3, <1>16 DEF RemoveProtection, Goto
  <2>2. NoneServedAnew
    BY <1>6, <2>1 DEF Serving
  <2>3. CASE Unprotect /\ pc' = "delete"
    <3>1. LeaseView' /\ ~Finalized(Stored(addresses)'[cur])
      BY <1>2, <2>1, <2>2, <2>3, UnprotectLease
    <3> QED
      BY <1>4, <2>1, <2>3, <3>1 DEF RequestLife
  <2>4. CASE Stored(addresses)[cur] = None /\ UNCHANGED addresses /\ pc' = "removeFinalizer"
    <3>1. Stored(addresses)' = Stored(addresses)
      BY <2>4 DEF Stored
    <3>2. RequestLife'
      BY <2>1, <2>4, <3>1 DEF RequestLife
    <3> QED
      BY <1>2, <1>4, <2>1, <2>2, <2>4, <3>2, LeaseFrame
  <2> QED
    BY <1>16, <2>3, <2>4 DEF RemoveProtection, Goto
<1>17. ASSUME NEW c \in Claims, Delete(c), NoneServedAnew, UNCHANGED <<claims, born>>
       PROVE  LeaseView' /\ Stored(addresses)'[c] = Deleted(Stored(addresses)[c])
  <2> DEFINE obj == Deleted(Stored(addresses)[c])
  <2>1. /\ Stored(addresses)[c] # None /\ Stored(addresses)[c] \in AddressObject
        /\ addresses' = Write(addresses, c, obj)
    BY <1>17, ReadTypes DEF Delete
  <2>2. obj \in AddressObject \cup {None} /\ Fits(c, obj)
    BY <1>2, <2>1, DeletedFits, DeletedAddress
  <2> HIDE DEF obj
  <2>3. LeaseView' /\ Stored(addresses)'[c] = obj
    BY <1>2, <1>17, <2>1, <2>2, LeaseWrite, StoredAfterWrite
  <2> QED
    BY <2>3 DEF obj
<1>18. CASE DeleteAddress
  <2>1. /\ UNCHANGED <<claims, born, cur, claim>> /\ pc = "delete" /\ cur \in Claims
        /\ pc' = "removeFinalizer"
    BY <1>3, <1>18 DEF DeleteAddress, Goto
  <2>2. NoneServedAnew
    BY <1>6, <2>1 DEF Serving
  <2>3. CASE Delete(cur)
    <3>1. LeaseView' /\ Stored(addresses)'[cur] = Deleted(Stored(addresses)[cur])
      BY <1>17, <2>1, <2>2, <2>3
    <3>2. Stored(addresses)[cur] # None /\ Stored(addresses)[cur] \in AddressObject
          /\ Stored(addresses)[cur].fin \in BOOLEAN
      BY <2>1, <2>3, ReadTypes, AddressFields DEF Delete
    <3>3. cur \notin Adopted => ~Stored(addresses)[cur].fin
      BY <1>2, <2>1, <3>2 DEF RequestLife, Finalized
    <3>4. Stored(addresses)'[cur] # None => cur \in Adopted /\ Stored(addresses)'[cur].deleting
      BY <3>1, <3>2, <3>3, DeletedAddress
    <3>5. RequestLife'
      BY <2>1, <3>4 DEF RequestLife
    <3> QED
      BY <1>4, <3>1, <3>5
  <2>4. CASE Stored(addresses)[cur] = None /\ UNCHANGED addresses
    <3>1. Stored(addresses)' = Stored(addresses)
      BY <2>4 DEF Stored
    <3>2. RequestLife'
      BY <2>1, <2>4, <3>1 DEF RequestLife
    <3> QED
      BY <1>2, <1>4, <2>1, <2>2, <2>4, <3>2, LeaseFrame
  <2> QED
    BY <1>18, <2>3, <2>4 DEF DeleteAddress
<1>19. CASE CreateUnanswered \/ WaitTimeout
  BY <1>1, <1>19 DEF CreateUnanswered, WaitTimeout
<1>20. CASE Fail
  BY <1>2, <1>4, <1>5, <1>6, <1>20, LeaseFrame DEF Fail, Return, Serving
<1>21. CASE WriteUnanswered
  <2>1. UNCHANGED <<claims, born>> /\ pc' = "idle" /\ NoneServedAnew
    BY <1>6, <1>21 DEF WriteUnanswered, Return, Serving
  <2> QED
    BY <1>2, <1>3, <1>4, <1>5, <1>17, <1>21, <2>1, PatchLease, UnprotectLease
       DEF WriteUnanswered
<1>22. CASE Restart
  BY <1>2, <1>4, <1>5, <1>22, RestartLease DEF Restart, Return
<1>23. ASSUME NEW c \in Claims, CreateClaim(c) \/ DeleteClaim(c) PROVE LeaseInv'
  <2>1. LeaseView'
    BY <1>2, <1>23, CreateClaimLease, DeleteClaimLease
  <2>2. UNCHANGED <<addresses, worker>>
    BY <1>23 DEF CreateClaim, DeleteClaim
  <2>3. RequestLife'
    BY <1>2, <2>2 DEF RequestLife, worker, Stored
  <2> QED
    BY <1>4, <2>1, <2>3
<1>24. ASSUME NEW c \in Claims, DeleteAddressOf(c) PROVE LeaseInv'
  <2>1. Delete(c) /\ UNCHANGED <<claims, born>> /\ NoneServedAnew
    BY <1>6, <1>24 DEF DeleteAddressOf, worker
  <2> QED
    BY <1>2, <1>4, <1>17, <1>24, <2>1, DeleteRequest
<1>25. CASE WatchAddresses
  BY <1>2, <1>4, <1>25, WatchAddressesLease
<1>26. CASE WatchClaims
  BY <1>2, <1>4, <1>26, WatchClaimsLease
<1>27. CASE UNCHANGED vars
  <2>1. RequestLife'
    BY <1>2, <1>27 DEF RequestLife, vars, Stored
  <2> QED
    BY <1>2, <1>4, <1>6, <1>27, <2>1, LeaseFrame DEF vars
<1> QED
  BY <1>7, <1>8, <1>9, <1>10, <1>11, <1>12, <1>13, <1>14, <1>15, <1>16, <1>18, <1>19,
     <1>20, <1>21, <1>22, <1>23, <1>24, <1>25, <1>26, <1>27
     DEF Next, Worker, Fault, Environment

(* The unmanaged addresses, and no claims.                                 *)
LEMMA LeaseInvInit == Init => LeaseInv
<1> SUFFICES ASSUME Init PROVE LeaseInv
  OBVIOUS
<1>1. TypeOK
  BY TypeOKInit
<1>2. /\ DOMAIN claims = {1} /\ \A c \in Claims : claims[1][c] = None
      /\ Stored(claims) = claims[1] /\ pc = "idle"
      /\ \A c \in Claims : born[c] = 0
  BY DEF Init, Stored
<1>3. PICK imported \in [Adopted -> IPs] :
        addresses = << [c \in Claims |->
            IF c \in Adopted THEN Unmanaged(imported[c]) ELSE None] >>
  BY DEF Init
<1>4. /\ DOMAIN addresses = {1} /\ Stored(addresses) = addresses[1]
      /\ \A c \in Claims :
           addresses[1][c] = IF c \in Adopted THEN Unmanaged(imported[c]) ELSE None
  BY <1>3 DEF Stored
<1>5. \A c \in Claims : addresses[1][c] # None =>
        /\ c \in Adopted /\ addresses[1][c].owner = 0
        /\ ~addresses[1][c].fin /\ ~addresses[1][c].deleting
  <2>1. \A ip : /\ Unmanaged(ip).owner = 0
               /\ Unmanaged(ip).fin = FALSE /\ Unmanaged(ip).deleting = FALSE
    BY DEF Unmanaged
  <2> QED
    BY <1>4, <2>1
<1>6. \A c \in Claims : \A uid : ~MayServe(c, uid)
  BY <1>2 DEF MayServe, Live, Serving
<1>7. \A c \in Claims : AddressLife(c, 1)
  BY <1>2, <1>4, <1>5, <1>6 DEF AddressLife
<1>8. \A c \in Claims : StoredLife(c)
  BY <1>2, <1>4, <1>5 DEF StoredLife, HasClaim, Bound
<1>9. RequestLife
  BY <1>2 DEF RequestLife
<1> QED
  BY <1>4, <1>7, <1>8, <1>9 DEF LeaseInv

(* The four inductive invariants together.                                 *)
LEMMA Inductive == Spec => [](TypeOK /\ UniqueInv /\ LifeInv /\ LeaseInv)
<1>1. Init => TypeOK /\ UniqueInv /\ LifeInv /\ LeaseInv
  BY TypeOKInit, UniqueInvInit, LifeInvInit, LeaseInvInit
<1>2. TypeOK /\ UniqueInv /\ LifeInv /\ LeaseInv /\ [Next]_vars
        => (TypeOK /\ UniqueInv /\ LifeInv /\ LeaseInv)'
  BY TypeOKStep, UniqueInvStep, LifeInvStep, LeaseInvStep
<1> QED
  BY <1>1, <1>2, PTL DEF Spec

(* A claim that was told of its address and is not being deleted has it,   *)
(* protected, whatever requests failed or were repeated, were made from    *)
(* old copies or for an earlier claim of the same name.                    *)
THEOREM ReferencesHold == Spec => []BoundClaimHasAddress
<1>1. LeaseInv => BoundClaimHasAddress
  BY DEF LeaseInv, BoundClaimHasAddress, StoredLife, Protected
<1> QED
  BY <1>1, Inductive, PTL

(* The address of a claim goes before ReleaseAddressFinalizer does, ...    *)
THEOREM AddressesGoFirst == Spec => []ReleasedBeforeClaim
<1>1. LeaseInv => ReleasedBeforeClaim
  BY DEF LeaseInv, ReleasedBeforeClaim, StoredLife
<1> QED
  BY <1>1, Inductive, PTL

(* ... or is marked, where the claim took over an unmanaged address.       *)
THEOREM AddressesGoOrAreMarked == Spec => []ReleasedOrMarked
<1>1. LeaseInv => ReleasedOrMarked
  BY DEF LeaseInv, ReleasedOrMarked, StoredLife
<1> QED
  BY <1>1, Inductive, PTL

(* No step takes the address from such a claim or changes it.              *)
LEMMA AddressKeptStep ==
    ASSUME TypeOK, UniqueInv, LifeInv, LeaseInv, [Next]_vars, blind = 0,
           NEW c \in Claims, Bound(c)
    PROVE  Stored(addresses)'[c] # None /\ Stored(addresses)'[c].ip = Stored(addresses)[c].ip
<1> DEFINE stored == Stored(addresses)[c]
           Kept == Stored(addresses)'[c] # None /\ Stored(addresses)'[c].ip = stored.ip
<1>1. /\ stored # None /\ stored \in AddressObject /\ stored.fin
      /\ pc # "idle" => cur \in Claims
  BY ReadTypes DEF LeaseInv, LeaseView, StoredLife, Protected, TypeOK
<1>2. ASSUME Stored(addresses)' = Stored(addresses) PROVE Kept
  BY <1>1, <1>2
<1>3. ASSUME UNCHANGED addresses PROVE Kept
  BY <1>2, <1>3 DEF Stored
<1>4. ASSUME NEW d \in Claims, NEW obj \in AddressObject \cup {None},
             addresses' = Write(addresses, d, obj),
             d = c => obj # None /\ obj.ip = stored.ip
      PROVE  Kept
  BY <1>1, <1>4, StoredAfterWrite
<1>5. ASSUME pc = "write", Create PROVE Kept
  BY <1>1, <1>4, <1>5 DEF Create, TypeOK
<1>6. ASSUME pc = "write", Patch PROVE Kept
  <2>1. /\ cur \in Claims /\ got \in AddressObject /\ want \in AddressObject
        /\ Stored(addresses)[cur] \in AddressObject \cup {None}
    BY <1>6, ReadTypes DEF TypeOK, Patch
  <2>2. cur = c => got.ip = want.ip
    <3>1. got # None /\ want.ip # got.ip => Missing(addresses)
      BY <1>6 DEF UniqueInv
    <3> QED
      BY <1>1, <1>6, <3>1, AddressIndices DEF Patch, Missing
  <2>3. CASE got = want
    BY <1>3, <1>6, <2>3 DEF Patch
  <2>4. CASE got # want
    <3> DEFINE obj == PatchAddress(got, want, Stored(addresses)[cur])
    <3>1. Stored(addresses)[cur] \in AddressObject /\ addresses' = Write(addresses, cur, obj)
      BY <1>6, <2>1, <2>4 DEF Patch
    <3>2. obj \in AddressObject /\ (got.ip = want.ip => obj.ip = Stored(addresses)[cur].ip)
      BY <2>1, <3>1, PatchTypes, FadingObjects
    <3> HIDE DEF obj
    <3> QED
      BY <1>4, <2>1, <2>2, <3>1, <3>2, NoneAssumption
  <2> QED
    BY <2>3, <2>4
<1>7. ASSUME pc = "unprotect", Unprotect PROVE Kept
  <2> DEFINE new == [got EXCEPT !.fin = FALSE]
             obj == Settle(PatchAddress(got, new, Stored(addresses)[cur]))
  <2>1. cur \in Claims /\ cur # c
    BY <1>7, ReleasedClaim DEF Releasing
  <2>2. /\ got \in AddressObject /\ new \in AddressObject /\ new.ip = got.ip
        /\ Stored(addresses)[cur] \in AddressObject
        /\ addresses' = Write(addresses, cur, obj)
    BY <1>7, <2>1, ReadTypes DEF TypeOK, Unprotect, AddressObject
  <2> HIDE DEF new
  <2>3. obj \in AddressObject \cup {None}
    BY <2>2, FadingObjects
  <2> HIDE DEF obj
  <2> QED
    BY <1>4, <2>1, <2>2, <2>3
<1>8. ASSUME NEW d \in Claims, Delete(d) PROVE Kept
  <2> DEFINE obj == Deleted(Stored(addresses)[d])
  <2>1. Stored(addresses)[d] \in AddressObject /\ addresses' = Write(addresses, d, obj)
    BY <1>8, ReadTypes DEF Delete
  <2>2. obj \in AddressObject \cup {None} /\ (d = c => obj # None /\ obj.ip = stored.ip)
    BY <1>1, <2>1, DeletedAddress
  <2> HIDE DEF obj
  <2> QED
    BY <1>4, <2>1, <2>2
<1>9. ASSUME WatchAddresses PROVE Kept
  <2>1. PICK n \in Nat : n = Len(addresses) /\ n > 1
    BY <1>9, AddressIndices DEF WatchAddresses
  <2>2. Len(addresses') = n - 1 /\ addresses'[n - 1] = addresses[n]
    BY <1>9, <2>1 DEF TypeOK, WatchAddresses
  <2> QED
    BY <1>2, <2>1, <2>2 DEF Stored
<1>10. ASSUME Restart PROVE Kept
  BY <1>2, <1>10 DEF Restart, Stored
<1> SUFFICES Kept
  OBVIOUS
<1> HIDE DEF Kept, stored
<1>11. CASE Worker
  BY <1>1, <1>3, <1>5, <1>6, <1>7, <1>8, <1>11
     DEF Worker, Reconcile, AddFinalizer, SetAddressRef, RemoveFinalizer, PatchAndReturn,
         GetAddress, EnsureAddress, CreateOrPatch, AddressSeen, GetForRelease,
         RemoveProtection, DeleteAddress
<1>12. CASE Fault
  BY <1>1, <1>3, <1>5, <1>6, <1>7, <1>8, <1>10, <1>12
     DEF Fault, CreateUnanswered, WaitTimeout, Fail, WriteUnanswered
<1>13. CASE Environment
  BY <1>3, <1>8, <1>9, <1>13
     DEF Environment, CreateClaim, DeleteClaim, DeleteAddressOf, WatchClaims
<1>14. CASE UNCHANGED vars
  BY <1>3, <1>14 DEF vars
<1> QED
  BY <1>11, <1>12, <1>13, <1>14 DEF Next

(* The address of a claim that was told of it never changes.               *)
THEOREM AddressesStay == Spec => AddressKept
<1>1. TypeOK /\ UniqueInv /\ LifeInv /\ LeaseInv /\ [Next]_vars
        => [\A c \in Claims :
              blind = 0 /\ Bound(c) /\ Bound(c)' =>
                Stored(addresses)'[c] # None
                  /\ Stored(addresses)'[c].ip = Stored(addresses)[c].ip]_vars
  BY AddressKeptStep
<1> QED
  BY <1>1, Inductive, PTL DEF Spec, AddressKept

(* What the steps rely on.                                                 *)
Inv == TypeOK /\ UniqueInv /\ LifeInv /\ LeaseInv

-----------------------------------------------------------------------------
(* How a change of what is stored looks to the promise.                    *)

(* Nothing it is about changes.                                            *)
LEMMA NothingMoves ==
    ASSUME \A d \in Claims :
             /\ StatusOf(Stored(claims)'[d]) = StatusOf(Stored(claims)[d])
             /\ Stored(addresses)'[d] = None <=> Stored(addresses)[d] = None
             /\ Stored(addresses)[d] # None => Stored(addresses)'[d].ip = Stored(addresses)[d].ip
    PROVE  UNCHANGED Promise!vars
BY DEF Promise!vars

(* One claim changes its status.                                           *)
LEMMA StatusMoves ==
    ASSUME NEW c \in Claims, NEW s, StatusOf(Stored(claims)'[c]) = s,
           Stored(addresses)' = Stored(addresses),
           \A d \in Claims \ {c} : Stored(claims)'[d] = Stored(claims)[d]
    PROVE  Promise!To(c, s)
BY DEF Promise!To

(* One claim gets an address, or loses it.                                 *)
LEMMA LeaseMoves ==
    ASSUME NEW c \in Claims, NEW obj, Stored(addresses)'[c] = obj,
           Stored(claims)' = Stored(claims),
           \A d \in Claims \ {c} : Stored(addresses)'[d] = Stored(addresses)[d]
    PROVE  Promise!Lease(c, IF obj = None THEN None ELSE obj.ip)
BY DEF Promise!Lease

(* Writes to the addresses.  Unmanaged addresses are left out, and no      *)
(* request moves on before it has seen the address it created.             *)

(* An address that is there has a claim; where no claim may be served, the *)
(* claim is being deleted.                                                 *)
LEMMA ReleasedStatus ==
    ASSUME Inv, MaxBlind = 0, Adopted = {}, NEW c \in Claims, Stored(addresses)[c] # None,
           \A uid \in 1 .. MaxUID : ~MayServe(c, uid)
    PROVE  StatusOf(Stored(claims)[c]) = "deleting"
<1>1. TypeOK /\ LeaseView
  BY DEF Inv, LeaseInv, LeaseView, TypeOK
<1>2. Stored(addresses)[c].owner # 0
  BY <1>1, StoredAddress, AddressIndices DEF AddressLife
<1>3. Stored(claims)[c] # None /\ Stored(claims)[c].fin
  BY <1>1, <1>2 DEF LeaseView, StoredLife, HasClaim
<1>4. Stored(claims)[c].uid \in 1 .. MaxUID
  BY <1>1, <1>3, ReadTypes DEF ClaimObject
<1>5. Stored(claims)[c].deleting
  BY <1>1, <1>3, <1>4, ClaimIndices DEF MayServe, Live
<1> QED
  BY <1>3, <1>5 DEF StatusOf

(* A write that keeps an address does not show; one that removes it is a   *)
(* Release.                                                                *)
LEMMA WriteSteps ==
    ASSUME Inv, MaxBlind = 0, Adopted = {}, UNCHANGED claims,
           NEW c \in Claims, NEW obj \in AddressObject \cup {None}, Stored(addresses)[c] # None,
           addresses' = Write(addresses, c, obj),
           obj # None => obj.ip = Stored(addresses)[c].ip,
           obj = None => \A uid \in 1 .. MaxUID : ~MayServe(c, uid)
    PROVE  [Promise!Next]_(Promise!vars)
<1>1. TypeOK /\ Stored(claims)' = Stored(claims)
  BY DEF Inv, Stored
<1>2. /\ Stored(addresses)'[c] = obj
      /\ \A d \in Claims \ {c} : Stored(addresses)'[d] = Stored(addresses)[d]
  BY <1>1, StoredAfterWrite
<1>3. CASE obj # None
  BY <1>1, <1>2, <1>3, NothingMoves
<1>4. CASE obj = None
  <2>1. StatusOf(Stored(claims)[c]) = "deleting"
    BY <1>4, ReleasedStatus
  <2>2. Stored(addresses)[c].ip # None
    BY <1>1, ReadTypes, AddressFields, NoneAssumption
  <2>3. Promise!Lease(c, None)
    BY <1>1, <1>2, <1>4, LeaseMoves
  <2>4. Promise!Release(c)
    BY <2>1, <2>2, <2>3 DEF Promise!Release
  <2> QED
    BY <2>4 DEF Promise!Next
<1> QED
  BY <1>3, <1>4

(* Delete, by the worker or by anybody.                                    *)
LEMMA DeleteSteps ==
    ASSUME Inv, MaxBlind = 0, Adopted = {}, UNCHANGED claims, NEW c \in Claims, Delete(c)
    PROVE  [Promise!Next]_(Promise!vars)
<1> DEFINE stored == Stored(addresses)[c]
           obj == Deleted(stored)
<1>1. TypeOK /\ LeaseView
  BY DEF Inv, LeaseInv, LeaseView, TypeOK
<1>2. /\ stored # None /\ stored \in AddressObject /\ stored.fin \in BOOLEAN
      /\ addresses' = Write(addresses, c, obj)
  BY <1>1, ReadTypes, AddressFields DEF Delete
<1>3. /\ obj \in AddressObject \cup {None}
      /\ stored.fin => obj # None /\ obj.ip = stored.ip
      /\ ~stored.fin => obj = None
  BY <1>2, DeletedAddress
<1> HIDE DEF obj
<1>4. obj = None => \A uid \in 1 .. MaxUID : ~MayServe(c, uid)
  <2>1. stored.owner # 0
    BY <1>1, <1>2, StoredAddress, AddressIndices DEF AddressLife
  <2> QED
    BY <1>1, <1>2, <1>3, <2>1 DEF LeaseView, StoredLife
<1>5. obj # None => obj.ip = stored.ip
  BY <1>2, <1>3
<1> QED
  BY <1>2, <1>3, <1>4, <1>5, WriteSteps

(* The patch of a release.                                                 *)
LEMMA UnprotectSteps ==
    ASSUME Inv, MaxBlind = 0, Adopted = {}, UNCHANGED claims, pc = "unprotect", Unprotect
    PROVE  [Promise!Next]_(Promise!vars)
<1> DEFINE new == [got EXCEPT !.fin = FALSE]
           stored == Stored(addresses)[cur]
           obj == Settle(PatchAddress(got, new, stored))
<1>1. TypeOK /\ LifeInv /\ pc \in Releasing
  BY DEF Inv, Releasing
<1>2. cur \in Claims /\ \A uid \in 1 .. MaxUID : ~MayServe(cur, uid)
  BY <1>1, ReleasedClaim
<1>3. /\ got \in AddressObject /\ new \in AddressObject /\ new.ip = got.ip
      /\ stored \in AddressObject /\ stored # None
      /\ addresses' = Write(addresses, cur, obj)
  BY <1>1, <1>2, ReadTypes DEF TypeOK, Unprotect, AddressObject
<1> HIDE DEF new
<1>4. obj \in AddressObject \cup {None} /\ (obj # None => obj.ip = stored.ip)
  BY <1>3, FadingObjects
<1> HIDE DEF obj
<1> QED
  BY <1>2, <1>3, <1>4, WriteSteps

(* The patch of CreateOrPatch never shows: it keeps the address.           *)
LEMMA PatchSteps ==
    ASSUME Inv, MaxBlind = 0, Adopted = {}, UNCHANGED claims, pc = "write", Patch
    PROVE  [Promise!Next]_(Promise!vars)
<1>1. /\ TypeOK /\ UniqueInv /\ blind = 0 /\ cur \in Claims
      /\ got \in AddressObject /\ got # None /\ want \in AddressObject
  BY DEF Inv, TypeOK, Patch
<1>2. CASE got = want
  <2>1. UNCHANGED <<addresses, claims>>
    BY <1>2 DEF Patch
  <2> QED
    BY <2>1, NothingMoves DEF Stored
<1>3. CASE got # want
  <2> DEFINE stored == Stored(addresses)[cur]
             obj == PatchAddress(got, want, stored)
  <2>1. stored # None /\ stored \in AddressObject /\ addresses' = Write(addresses, cur, obj)
    BY <1>1, <1>3, ReadTypes DEF Patch
  <2>2. got.ip = want.ip
    BY <1>1, <2>1, AddressIndices DEF UniqueInv, Missing
  <2>3. obj \in AddressObject /\ obj.ip = stored.ip /\ obj # None
    BY <1>1, <2>1, <2>2, FadingObjects, NoneAssumption
  <2> HIDE DEF obj
  <2> QED
    BY <1>1, <2>1, <2>3, WriteSteps
<1> QED
  BY <1>2, <1>3

(* The create of CreateOrPatch is an Allocate, of an address nobody has.   *)
LEMMA CreateSteps ==
    ASSUME Inv, MaxBlind = 0, Adopted = {}, UNCHANGED claims, pc = "write", Create
    PROVE  [Promise!Next]_(Promise!vars)
<1>1. /\ TypeOK /\ UniqueInv /\ LifeInv /\ blind = 0 /\ cur \in Claims /\ pc \in Serving
      /\ want \in AddressObject /\ want # None /\ want.ip \in IPs /\ want.ip # None
      /\ Stored(claims)' = Stored(claims)
  BY AddressFields, NoneAssumption DEF Inv, TypeOK, Serving, Stored
<1>2. got = None /\ Stored(addresses)[cur] = None /\ addresses' = Write(addresses, cur, want)
  BY DEF Create
<1>3. StatusOf(Stored(claims)[cur]) # "absent"
  BY <1>1, ServedClaim DEF StatusOf
<1>4. /\ Stored(addresses)'[cur] = want
      /\ \A d \in Claims \ {cur} : Stored(addresses)'[d] = Stored(addresses)[d]
  BY <1>1, <1>2, StoredAfterWrite
<1>5. PICK c \in Claims, ip \in IPs : c = cur /\ ip = want.ip
  BY <1>1
<1>6. Promise!Lease(c, ip)
  <2>1. ip = IF want = None THEN None ELSE want.ip
    BY <1>1, <1>5
  <2> QED
    BY <1>1, <1>4, <1>5, <2>1, LeaseMoves
<1>7. \A d \in Claims \ {c} :
        PoolOf[d] = PoolOf[c] /\ Stored(addresses)[d] # None =>
          Stored(addresses)[d].ip # ip
  BY <1>1, <1>2, <1>5, AddressIndices DEF UniqueInv, NobodyElses
<1>8. Promise!Allocate(c, ip)
  BY <1>1, <1>2, <1>3, <1>5, <1>6, <1>7 DEF Promise!Allocate
<1> QED
  BY <1>8 DEF Promise!Next

-----------------------------------------------------------------------------
(* Writes to the claims.                                                   *)

(* The deferred patches.                                                   *)
LEMMA AddFinalizerSteps ==
    ASSUME Inv, AddFinalizer
    PROVE  [Promise!Next]_(Promise!vars)
<1>1. TypeOK /\ LifeInv /\ cur \in Claims /\ Stored(addresses)' = Stored(addresses)
  BY DEF Inv, TypeOK, AddFinalizer, PatchAndReturn, Stored
<1>2. CASE Stored(claims)[cur] = None
  <2>1. Stored(claims)' = Stored(claims)
    BY <1>2 DEF AddFinalizer, PatchAndReturn, Stored
  <2> QED
    BY <1>1, <2>1, NothingMoves
<1>3. CASE Stored(claims)[cur] # None
  <2>1. PICK obj \in ClaimObject :
          /\ claims' = Write(claims, cur, obj) /\ obj # None
          /\ obj.deleting = Stored(claims)[cur].deleting /\ obj.ref = Stored(claims)[cur].ref
    BY <1>1, <1>3, AddFinalizerWrite
  <2>2. /\ Stored(claims)'[cur] = obj
        /\ \A d \in Claims \ {cur} : Stored(claims)'[d] = Stored(claims)[d]
    BY <1>1, <2>1, StoredAfterClaimWrite
  <2>3. StatusOf(obj) = StatusOf(Stored(claims)[cur])
    BY <1>3, <2>1 DEF StatusOf
  <2> QED
    BY <1>1, <2>2, <2>3, NothingMoves
<1> QED
  BY <1>2, <1>3

(* Setting the reference is a Bind, unless the claim was deleted meanwhile *)
(* or has the reference.                                                   *)
LEMMA SetAddressRefSteps ==
    ASSUME Inv, MaxBlind = 0, SetAddressRef
    PROVE  [Promise!Next]_(Promise!vars)
<1> DEFINE stored == Stored(claims)[cur]
<1>1. /\ TypeOK /\ LifeInv /\ cur \in Claims /\ Stored(addresses)' = Stored(addresses)
      /\ pc = "setRef" /\ RequestLife
  BY DEF Inv, TypeOK, LeaseInv, SetAddressRef, PatchAndReturn, Stored
<1>2. stored # None /\ stored \in ClaimObject
  BY <1>1, SetAddressRefWrite
<1>3. PICK obj \in ClaimObject :
        /\ claims' = Write(claims, cur, obj) /\ obj # None
        /\ obj.deleting = stored.deleting
        /\ obj.ref = TRUE \/ obj.ref = stored.ref
  BY <1>1, SetAddressRefWrite
<1>4. /\ Stored(claims)'[cur] = obj
      /\ \A d \in Claims \ {cur} : Stored(claims)'[d] = Stored(claims)[d]
  BY <1>1, <1>3, StoredAfterClaimWrite
<1>5. CASE StatusOf(obj) = StatusOf(stored)
  BY <1>1, <1>4, <1>5, NothingMoves
<1>6. CASE StatusOf(obj) # StatusOf(stored)
  <2>1. StatusOf(stored) = "pending" /\ StatusOf(obj) = "bound"
    BY <1>2, <1>3, <1>6 DEF StatusOf
  <2>2. Stored(addresses)[cur] # None /\ Stored(addresses)[cur].ip # None
    BY <1>1, ReadTypes, AddressFields, NoneAssumption DEF RequestLife, Protected
  <2>3. Promise!To(cur, "bound")
    BY <1>1, <1>4, <2>1, StatusMoves
  <2>4. Promise!Bind(cur)
    BY <1>1, <2>1, <2>2, <2>3 DEF Promise!Bind
  <2> QED
    BY <1>1, <2>4 DEF Promise!Next
<1> QED
  BY <1>5, <1>6

(* Removing the finalizer is a Forget.                                     *)
LEMMA RemoveFinalizerSteps ==
    ASSUME Inv, MaxBlind = 0, Adopted = {}, RemoveFinalizer
    PROVE  [Promise!Next]_(Promise!vars)
<1>1. /\ TypeOK /\ LifeInv /\ cur \in Claims /\ Stored(addresses)' = Stored(addresses)
      /\ pc = "removeFinalizer" /\ RequestLife
  BY DEF Inv, TypeOK, LeaseInv, RemoveFinalizer, PatchAndReturn, Stored
<1>2. CASE claims' = claims
  BY <1>1, <1>2, NothingMoves DEF Stored
<1>3. CASE /\ Stored(claims)[cur] # None /\ Stored(claims)[cur].deleting
           /\ claims' = Write(claims, cur, None)
  <2>1. /\ Stored(claims)'[cur] = None
        /\ \A d \in Claims \ {cur} : Stored(claims)'[d] = Stored(claims)[d]
    BY <1>1, <1>3, StoredAfterClaimWrite
  <2>2. StatusOf(Stored(claims)[cur]) = "deleting" /\ StatusOf(None) = "absent"
    BY <1>3 DEF StatusOf
  <2>3. Stored(addresses)[cur] = None
    BY <1>1 DEF RequestLife
  <2>4. Promise!To(cur, "absent")
    BY <1>1, <2>1, <2>2, StatusMoves
  <2>5. Promise!Forget(cur)
    BY <1>1, <2>2, <2>3, <2>4 DEF Promise!Forget
  <2> QED
    BY <1>1, <2>5 DEF Promise!Next
<1> QED
  BY <1>1, <1>2, <1>3, RemoveFinalizerLife

(* A new claim is a Submit.                                                *)
LEMMA CreateClaimSteps ==
    ASSUME Inv, NEW c \in Claims, CreateClaim(c)
    PROVE  [Promise!Next]_(Promise!vars)
<1> DEFINE obj == [uid |-> born[c] + 1, fin |-> FALSE, deleting |-> FALSE, ref |-> FALSE]
<1>1. /\ TypeOK /\ claims' = Write(claims, c, obj) /\ Stored(claims)[c] = None
      /\ Stored(addresses)' = Stored(addresses)
  BY DEF Inv, CreateClaim, Stored
<1>2. born[c] + 1 \in 1 .. MaxUID /\ obj \in ClaimObject
  BY <1>1, BoundsAssumption DEF CreateClaim, TypeOK, ClaimObject
<1>3. obj # None /\ ~obj.deleting /\ ~obj.ref
  BY <1>2, NoneAssumption
<1> HIDE DEF obj
<1>4. /\ Stored(claims)'[c] = obj
      /\ \A d \in Claims \ {c} : Stored(claims)'[d] = Stored(claims)[d]
  BY <1>1, <1>2, StoredAfterClaimWrite
<1>5. StatusOf(obj) = "pending" /\ StatusOf(Stored(claims)[c]) = "absent"
  BY <1>1, <1>3 DEF StatusOf
<1>6. Promise!To(c, "pending")
  BY <1>1, <1>4, <1>5, StatusMoves
<1>7. Promise!Submit(c)
  BY <1>5, <1>6 DEF Promise!Submit
<1> QED
  BY <1>7 DEF Promise!Next

(* The deletion of a claim is a Withdraw; a claim without the finalizer    *)
(* has no address.                                                         *)
LEMMA DeleteClaimSteps ==
    ASSUME Inv, MaxBlind = 0, Adopted = {}, NEW c \in Claims, DeleteClaim(c)
    PROVE  [Promise!Next]_(Promise!vars)
<1> DEFINE stored == Stored(claims)[c]
           obj == Deleted(stored)
<1>1. /\ TypeOK /\ LifeInv /\ LeaseView /\ claims' = Write(claims, c, obj) /\ stored # None
      /\ Stored(addresses)' = Stored(addresses)
  BY DEF Inv, DeleteClaim, Stored, LeaseInv, LeaseView, TypeOK
<1>2. stored \in ClaimObject /\ stored.fin \in BOOLEAN /\ stored.deleting \in BOOLEAN
  BY <1>1, ReadTypes DEF ClaimObject
<1>3. /\ obj \in ClaimObject \cup {None}
      /\ stored.fin => /\ obj # None /\ obj.deleting
      /\ ~stored.fin => obj = None
  BY <1>2, DeletedClaim
<1>4. stored.deleting => stored.fin
  BY <1>1, ClaimIndices DEF LifeInv, ClaimLife
<1> HIDE DEF obj
<1>5. /\ Stored(claims)'[c] = obj
      /\ \A d \in Claims \ {c} : Stored(claims)'[d] = Stored(claims)[d]
  BY <1>1, <1>3, StoredAfterClaimWrite
<1>6. CASE stored.deleting
  <2>1. StatusOf(obj) = "deleting" /\ StatusOf(stored) = "deleting"
    BY <1>1, <1>3, <1>4, <1>6 DEF StatusOf
  <2> QED
    BY <1>1, <1>5, <2>1, NothingMoves
<1>7. CASE ~stored.deleting /\ stored.fin
  <2>1. StatusOf(obj) = "deleting" /\ StatusOf(stored) \in {"pending", "bound"}
    BY <1>1, <1>3, <1>7 DEF StatusOf
  <2>2. Promise!To(c, "deleting")
    BY <1>1, <1>5, <2>1, StatusMoves
  <2>3. Promise!Withdraw(c)
    BY <2>1, <2>2 DEF Promise!Withdraw
  <2> QED
    BY <2>3 DEF Promise!Next
<1>8. CASE ~stored.deleting /\ ~stored.fin
  <2>1. StatusOf(obj) = "absent" /\ StatusOf(stored) \in {"pending", "bound"}
    BY <1>1, <1>3, <1>8 DEF StatusOf
  <2>2. Promise!To(c, "absent")
    BY <1>1, <1>5, <2>1, StatusMoves
  <2>3. Stored(addresses)[c] = None
    <3>1. Stored(addresses)[c] # None => Stored(addresses)[c].owner # 0
      BY <1>1, StoredAddress, AddressIndices DEF AddressLife
    <3> QED
      BY <1>1, <1>8, <3>1 DEF LeaseView, StoredLife, HasClaim
  <2>4. Promise!Withdraw(c)
    BY <2>1, <2>2, <2>3 DEF Promise!Withdraw
  <2> QED
    BY <2>4 DEF Promise!Next
<1> QED
  BY <1>2, <1>6, <1>7, <1>8

-----------------------------------------------------------------------------
(* The refinement.                                                         *)

(* No claims, no addresses.                                                *)
LEMMA PromiseInit == ASSUME Adopted = {} PROVE Init => Promise!Init
<1> SUFFICES ASSUME Init PROVE Promise!Init
  OBVIOUS
<1>1. \E imported : addresses = << [c \in Claims |->
                        IF c \in Adopted THEN Unmanaged(imported[c]) ELSE None] >>
  BY DEF Init
<1>2. addresses = << [c \in Claims |-> None] >> /\ claims = << [c \in Claims |-> None] >>
  BY <1>1 DEF Init
<1>3. \A c \in Claims : Stored(addresses)[c] = None /\ Stored(claims)[c] = None
  BY <1>2 DEF Stored
<1> QED
  BY <1>3 DEF Promise!Init, StatusOf

(* Every step is a step of the promise, or does not show.                  *)
LEMMA PromiseStep ==
    ASSUME MaxBlind = 0, Adopted = {}
    PROVE  Inv /\ [Next]_vars => [Promise!Next]_(Promise!vars)
<1> SUFFICES ASSUME Inv, [Next]_vars PROVE [Promise!Next]_(Promise!vars)
  OBVIOUS
<1> DEFINE Shown == [Promise!Next]_(Promise!vars)
<1>1. TypeOK /\ blind = 0 /\ (pc # "idle" => cur \in Claims)
  BY DEF Inv, TypeOK
<1>2. ASSUME Stored(addresses)' = Stored(addresses), Stored(claims)' = Stored(claims) PROVE Shown
  BY <1>2, NothingMoves
<1>3. ASSUME UNCHANGED <<addresses, claims>> PROVE Shown
  BY <1>2, <1>3 DEF Stored
<1>4. ASSUME WatchAddresses PROVE Shown
  <2>1. PICK n \in Nat : n = Len(addresses) /\ n > 1
    BY <1>1, <1>4, AddressIndices DEF WatchAddresses
  <2>2. Len(addresses') = n - 1 /\ addresses'[n - 1] = addresses[n] /\ claims' = claims
    BY <1>1, <1>4, <2>1 DEF TypeOK, WatchAddresses
  <2> QED
    BY <1>2, <2>1, <2>2 DEF Stored
<1>5. ASSUME WatchClaims PROVE Shown
  <2>1. PICK n \in Nat : n = Len(claims) /\ n > 1
    BY <1>1, <1>5, ClaimIndices DEF WatchClaims
  <2>2. Len(claims') = n - 1 /\ claims'[n - 1] = claims[n] /\ addresses' = addresses
    BY <1>1, <1>5, <2>1 DEF TypeOK, WatchClaims
  <2> QED
    BY <1>2, <2>1, <2>2 DEF Stored
<1>6. ASSUME Restart PROVE Shown
  BY <1>2, <1>6 DEF Restart, Stored
<1>7. /\ AddFinalizer \/ SetAddressRef \/ RemoveFinalizer => Shown
      /\ \A c \in Claims : CreateClaim(c) \/ DeleteClaim(c) => Shown
  BY AddFinalizerSteps, SetAddressRefSteps, RemoveFinalizerSteps, CreateClaimSteps, DeleteClaimSteps
<1>8. /\ UNCHANGED claims /\ pc = "write" /\ (Create \/ Patch) => Shown
      /\ UNCHANGED claims /\ pc = "unprotect" /\ Unprotect => Shown
      /\ \A c \in Claims : UNCHANGED claims /\ Delete(c) => Shown
  BY CreateSteps, PatchSteps, UnprotectSteps, DeleteSteps
<1> SUFFICES Shown
  OBVIOUS
<1> HIDE DEF Shown
<1>9. CASE Worker
  BY <1>1, <1>3, <1>7, <1>8, <1>9
     DEF Worker, Reconcile, GetAddress, EnsureAddress, CreateOrPatch, AddressSeen,
         GetForRelease, RemoveProtection, DeleteAddress
<1>10. CASE Fault
  BY <1>1, <1>3, <1>6, <1>8, <1>10
     DEF Fault, CreateUnanswered, WaitTimeout, Fail, WriteUnanswered
<1>11. CASE Environment
  BY <1>4, <1>5, <1>7, <1>8, <1>11 DEF Environment, DeleteAddressOf
<1>12. CASE UNCHANGED vars
  BY <1>3, <1>12 DEF vars
<1> QED
  BY <1>9, <1>10, <1>11, <1>12 DEF Next

(* The claim controller keeps the promise of Allocation, whatever the      *)
(* number of claims, pools and addresses and the lag of the caches, as     *)
(* long as the wait after CreateOrPatch ends with the address seen         *)
(* (MaxBlind = 0); addresses that were there before any claim are not part *)
(* of the promise (Adopted = {}).                                          *)
THEOREM Implements ==
    ASSUME MaxBlind = 0, Adopted = {}
    PROVE  Spec => KeepsPromise
<1>1. Init => Promise!Init
  BY PromiseInit
<1>2. Inv /\ [Next]_vars => [Promise!Next]_(Promise!vars)
  BY PromiseStep
<1>3. Spec => []Inv
  BY Inductive DEF Inv
<1> QED
  BY <1>1, <1>2, <1>3, PTL DEF Spec, KeepsPromise, Promise!Spec

=============================================================================
