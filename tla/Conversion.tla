----------------------------- MODULE Conversion -----------------------------
(***************************************************************************)
(* The conversion webhook of api/v1alpha1: an IP pool is stored as         *)
(* v1alpha2 and served as v1alpha1 too.  A pool written as v1alpha1        *)
(* carries what was written in an annotation, from which later reads as    *)
(* v1alpha1 restore the fields v1alpha2 does not have.                     *)
(*                                                                         *)
(* Clients of both versions write one pool in turn.  The requests that     *)
(* matter are those of a client that knows nothing of the other version.   *)
(***************************************************************************)
EXTENDS IPSets

CONSTANTS
    V1Specs,        \* specs that clients write as v1alpha1
    V2Specs,        \* specs that clients write as v1alpha2
    Gateways,       \* gateways that clients patch as v1alpha1
    Counts,         \* values of status.ipAddresses
    Malformed,      \* a subnet that does not parse
    None            \* no value

AddressRange == [from : Int, to : Int]

(* InClusterIPPoolSpec of v1alpha1 and of v1alpha2; newer stands for the   *)
(* fields that only v1alpha2 has.                                          *)
V1Spec == [addresses : Seq(AddressRange),
           subnet    : [addr : Addrs, bits : 0 .. Width] \cup {Malformed, None},
           first     : Int \cup {None},
           last      : Int \cup {None},
           prefix    : Nat,
           gateway   : Addrs \cup {None}]
V2Spec == [addresses : Seq(AddressRange), prefix : Nat, gateway : Addrs \cup {None}, newer : BOOLEAN]

ASSUME ConversionAssumption ==
    /\ V1Specs \subseteq V1Spec /\ V2Specs \subseteq V2Spec
    /\ Gateways \subseteq Addrs \cup {None}
    /\ None \notin V1Spec

VARIABLES
    kind,           \* "InClusterIPPool" or "GlobalInClusterIPPool"
    pool,           \* the pool as stored: spec, status and the data annotation
    applied         \* the v1alpha1 spec last written, unless v1alpha2 has taken over

vars == <<kind, pool, applied>>

-----------------------------------------------------------------------------
(* From v1alpha1 to v1alpha2.                                              *)

(* netip.Addr.Next and Prev; -1 is the invalid address.                    *)
NextAddr(a) == IF a + 1 \in Addrs THEN a + 1 ELSE -1
PrevAddr(a) == a - 1

Or(value, default) == IF value = None THEN default ELSE value

(* What the conversion leaves in its argument: with a subnet, the first    *)
(* and the last address but the network's and the broadcast address, and   *)
(* the prefix.                                                             *)
Defaulted(in) ==
    IF in.subnet = None
    THEN in
    ELSE LET from == Masked(in.subnet).addr
             to   == from + 2 ^ (Width - in.subnet.bits) - 1
         IN  [in EXCEPT !.first  = Or(@, NextAddr(from)),
                        !.last   = Or(@, PrevAddr(to)),
                        !.prefix = IF @ = 0 THEN in.subnet.bits ELSE @]

(* The fields of v1alpha2 that v1alpha1 lacks (excludedAddresses,          *)
(* allocateReservedIPAddresses, addressReuseGracePeriodSeconds) stay unset.*)
ConvertSpecToV2(in) ==
    LET d == Defaulted(in) IN
    [addresses |-> d.addresses \o
         (IF d.first # None /\ d.last # None THEN <<[from |-> d.first, to |-> d.last]>> ELSE <<>>),
     prefix    |-> d.prefix,
     gateway   |-> d.gateway,
     newer     |-> FALSE]

(* Mutant: the annotation holds the spec as it came in.                    *)
ConvertToUndefaulted(spec, status) ==
    [spec |-> ConvertSpecToV2(spec), status |-> status, data |-> spec]

(* ConvertTo: the annotation is written after the conversion has filled in *)
(* the defaults.                                                           *)
ConvertTo(spec, status) ==
    [spec |-> ConvertSpecToV2(spec), status |-> status, data |-> Defaulted(spec)]

-----------------------------------------------------------------------------
(* From v1alpha2 to v1alpha1.                                              *)

ConvertSpecToV1(in) ==
    [addresses |-> in.addresses, subnet |-> None, first |-> None, last |-> None,
     prefix |-> in.prefix, gateway |-> in.gateway]

(* The fields that both versions have a say in.                            *)
Shared(spec) == <<spec.addresses, spec.prefix, spec.gateway>>

(* Mutant: the prefix and the gateway are not compared.                    *)
RestoresAddressesOnly(src) ==
    \/ kind = "GlobalInClusterIPPool"
    \/ ConvertSpecToV2(src.data).addresses = src.spec.addresses

(* Whether ConvertFrom trusts the annotation: for namespaced pools if it   *)
(* still converts to what is stored, for global pools always.              *)
Restores(src) ==
    \/ kind = "GlobalInClusterIPPool"
    \/ Shared(ConvertSpecToV2(src.data)) = Shared(src.spec)

(* What it restores; the comparison has filled in the defaults once more.  *)
Restored(src) ==
    IF kind = "GlobalInClusterIPPool" THEN src.data ELSE Defaulted(src.data)

(* ConvertFrom.  The status is never restored.                             *)
ConvertFrom(src) ==
    [spec   |-> IF src.data # None /\ Restores(src)
                THEN Restored(src)
                ELSE ConvertSpecToV1(src.spec),
     status |-> src.status]

-----------------------------------------------------------------------------
Init ==
    /\ kind \in {"InClusterIPPool", "GlobalInClusterIPPool"}
    /\ pool = None
    /\ applied = None

(* A v1alpha1 client writes a spec; one that does not convert is refused.  *)
(* The status is a subresource and stays.                                  *)
WriteV1(spec) ==
    /\ spec.subnet # Malformed
    /\ pool' = ConvertTo(spec, IF pool = None THEN None ELSE pool.status)
    /\ applied' = spec
    /\ UNCHANGED kind

(* It changes the gateway, or only metadata, of what it reads.             *)
PatchV1(gateway) ==
    /\ pool # None
    /\ WriteV1([ConvertFrom(pool).spec EXCEPT !.gateway = gateway])

TouchV1 ==
    /\ pool # None
    /\ WriteV1(ConvertFrom(pool).spec)

(* A v1alpha2 client writes a spec and keeps the annotation, or drops it.  *)
WriteV2(spec) ==
    /\ pool' = [spec   |-> spec,
                status |-> IF pool = None THEN None ELSE pool.status,
                data   |-> IF pool = None THEN None ELSE pool.data]
    /\ applied' = None
    /\ UNCHANGED kind

DropData ==
    /\ pool # None
    /\ pool.data # None
    /\ pool' = [pool EXCEPT !.data = None]
    /\ applied' = None
    /\ UNCHANGED kind

(* The pool controller.                                                    *)
UpdateStatus(count) ==
    /\ pool # None
    /\ pool' = [pool EXCEPT !.status = count]
    /\ UNCHANGED <<kind, applied>>

Next ==
    \/ \E spec \in V1Specs : WriteV1(spec)
    \/ \E gateway \in Gateways : PatchV1(gateway)
    \/ TouchV1
    \/ \E spec \in V2Specs : WriteV2(spec)
    \/ DropData
    \/ \E count \in Counts : UpdateStatus(count)

Spec == Init /\ [][Next]_vars

-----------------------------------------------------------------------------
(* Properties.                                                             *)

(* A v1alpha1 client reads back what it wrote, with the defaults filled    *)
(* in, whatever was stored before and however often it is written again.   *)
ReadsBack ==
    applied # None => ConvertFrom(pool).spec = Defaulted(applied)

(* It sees the pool that addresses are allocated from: what it reads       *)
(* stands for the addresses, prefix and gateway that are stored, also      *)
(* after v1alpha2 clients have changed them.                               *)
Fresh ==
    pool # None =>
        /\ Shared(ConvertSpecToV2(ConvertFrom(pool).spec)) = Shared(pool.spec)
        /\ ConvertFrom(pool).status = pool.status

(* That of namespaced pools.                                               *)
FreshUnlessGlobal == kind = "InClusterIPPool" => Fresh

=============================================================================
