----------------------------- MODULE Allocation -----------------------------
(***************************************************************************)
(* What the provider promises to those who create claims, with no word of  *)
(* caches, finalizers, requests or failures: a claim gets an address that  *)
(* no other claim of its pool has, keeps it until its deletion is asked    *)
(* for, and goes only after its address went.                              *)
(***************************************************************************)
CONSTANTS
    Claims,         \* names of the IPAddressClaims
    PoolOf,         \* the pool each claim refers to
    IPs,            \* the addresses
    None            \* no address

VARIABLES
    status,         \* where each claim is in its life
    lease           \* the address each claim has

vars == <<status, lease>>

Statuses == {"absent", "pending", "bound", "deleting"}

TypeOK ==
    /\ status \in [Claims -> Statuses]
    /\ lease \in [Claims -> IPs \cup {None}]

Init ==
    /\ status = [c \in Claims |-> "absent"]
    /\ lease = [c \in Claims |-> None]

To(c, s) == status' = [status EXCEPT ![c] = s] /\ UNCHANGED lease
Lease(c, ip) == lease' = [lease EXCEPT ![c] = ip] /\ UNCHANGED status

(* A user creates the claim.                                               *)
Submit(c) == status[c] = "absent" /\ To(c, "pending")

(* The claim gets an address, possibly one that was only just given back,  *)
(* and possibly when its deletion is already under way.                    *)
Allocate(c, ip) ==
    /\ status[c] # "absent"
    /\ lease[c] = None
    /\ \A d \in Claims : PoolOf[d] = PoolOf[c] => lease[d] # ip
    /\ Lease(c, ip)

(* The claim is told of its address.                                       *)
Bind(c) == status[c] = "pending" /\ lease[c] # None /\ To(c, "bound")

(* Its user gives it up; a claim that has nothing may go at once.          *)
Withdraw(c) ==
    /\ status[c] \in {"pending", "bound"}
    /\ To(c, "deleting") \/ (lease[c] = None /\ To(c, "absent"))

(* The address goes, then the claim.                                       *)
Release(c) == status[c] = "deleting" /\ lease[c] # None /\ Lease(c, None)
Forget(c) == status[c] = "deleting" /\ lease[c] = None /\ To(c, "absent")

Next ==
    \E c \in Claims :
        \/ Submit(c) \/ Bind(c) \/ Withdraw(c) \/ Release(c) \/ Forget(c)
        \/ \E ip \in IPs : Allocate(c, ip)

Spec == Init /\ [][Next]_vars
=============================================================================
