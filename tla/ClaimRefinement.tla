--------------------------- MODULE ClaimRefinement ---------------------------
(***************************************************************************)
(* ClaimReconciler implements Allocation: the objects that the API server  *)
(* stores, and no others, are what the promises are about.                 *)
(***************************************************************************)
EXTENDS ClaimReconciler

StatusOf(obj) ==
    IF obj = None THEN "absent"
    ELSE IF obj.deleting THEN "deleting"
    ELSE IF obj.ref THEN "bound" ELSE "pending"

Promise == INSTANCE Allocation WITH
    status <- [c \in Claims |-> StatusOf(Stored(claims)[c])],
    lease  <- [c \in Claims |-> IF Stored(addresses)[c] = None
                                THEN None
                                ELSE Stored(addresses)[c].ip]

(* Every step of the claim controller, of its users, of the informers and  *)
(* of the failures is a step of the promise or changes nothing that the    *)
(* promise is about: no address is given twice, taken from a live claim,   *)
(* changed, or left behind, in the course of reads from lagging caches,    *)
(* merge patches, repeated requests and restarts.  The wait after          *)
(* CreateOrPatch is not to time out (MaxBlind = 0).                        *)
KeepsPromise == Promise!Spec
=============================================================================
