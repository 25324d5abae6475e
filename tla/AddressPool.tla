----------------------------- MODULE AddressPool -----------------------------
(* Allocation from an IP pool as EnsureAddress, the release of an address  *)
(* and the webhook see it when nothing runs concurrently: what the address *)
(* arithmetic of PoolUtil promises.                                        *)
EXTENDS PoolUtil

CONSTANT Specs      \* the specs users write, valid or not

ASSUME SpecsAssumption == Specs \subseteq PoolSpec

VARIABLES
    spec,           \* the pool's spec
    held            \* the addresses in use

vars == <<spec, held>>

(* Status free of genericReconcile: the total, as far as an int goes, less *)
(* what is in use.                                                         *)
Free == PoolCount(spec) - Cardinality(held)

(* ValidateCreate.                                                         *)
Init == spec \in {s \in Specs : Validate(s)} /\ held = {}

(* EnsureAddress: the addresses in use and the gateway are taken.          *)
NextAddress == FindFreeAddress(PoolSpecToIPSet(spec), held \cup spec.gateway)

EnsureAddress ==
    /\ \E ip \in NextAddress : held' = held \cup {ip}
    /\ UNCHANGED spec

ReleaseAddress(ip) ==
    /\ ip \in held
    /\ held' = held \ {ip}
    /\ UNCHANGED spec

(* Mutant: an update is validated like a new pool.                         *)
ValidateUpdateAsCreate(new) == Validate(new)

ValidateUpdate(new) ==
    /\ Validate(new)
    /\ held \subseteq PoolSpecToIPSet(new)

(* The family of the pool stays: its addresses do not exist in the other.  *)
UpdateSpec(new) ==
    /\ new.v4 = spec.v4
    /\ ValidateUpdate(new)
    /\ spec' = new
    /\ UNCHANGED held

Next ==
    \/ EnsureAddress
    \/ \E ip \in Addrs : ReleaseAddress(ip)
    \/ \E new \in Specs : UpdateSpec(new)

Spec == Init /\ [][Next]_vars

-----------------------------------------------------------------------------
(* The reference: which addresses a spec allows, entry by entry and        *)
(* address by address, as the API documents it.                            *)
Covers(e, ip) ==
    CASE e.kind = "range" -> e.from <= ip /\ ip <= e.to
      [] e.kind = "cidr"  -> ip \div (2 ^ (Width - e.to)) = e.from \div (2 ^ (Width - e.to))
      [] e.kind = "addr"  -> ip = e.from

Reserved(ip) ==
    LET size == 2 ^ (Width - spec.prefix)
    IN  ip % size = 0 \/ (spec.v4 /\ ip % size = size - 1)

Allocatable ==
    {ip \in Addrs :
        /\ \E e \in spec.addresses : Covers(e, ip)
        /\ ~\E e \in spec.excluded : Covers(e, ip)
        /\ ip \notin spec.gateway
        /\ spec.allocateReserved \/ ~Reserved(ip)}

(* EnsureAddress finds the lowest allocatable address nobody has, and      *)
(* fails only if there is none: the walk of FindFreeAddress.               *)
FirstFit ==
    LET free == Allocatable \ held
    IN  NextAddress = IF free = {} THEN {} ELSE {Min(free)}

(* Neither the gateway, nor an excluded or reserved address is ever in     *)
(* use, through every admitted change of the spec.                         *)
HeldAllocatable == held \subseteq Allocatable

(* The counts of the status: total up to MaxInt, and what is free.         *)
CountsAgree ==
    LET count == Cardinality(Allocatable)
    IN  /\ PoolCount(spec) = IF count <= MaxInt THEN count ELSE MaxInt
        /\ OutOfRange(spec, held) = 0
        /\ count <= MaxInt => Free = Cardinality(Allocatable \ held)

(* Status free is the number of unallocated addresses, and MaxInt where an *)
(* int cannot hold it.                                                     *)
FreeUpToMaxInt ==
    LET left == Cardinality(Allocatable \ held)
    IN  Free = IF left <= MaxInt THEN left ELSE MaxInt

=============================================================================
