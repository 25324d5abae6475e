------------------------------ MODULE PoolUtil ------------------------------
(* The address arithmetic of internal/poolutil/pool.go and the checks of   *)
(* internal/webhooks on a pool's spec.  A spec has the addresses and the   *)
(* excluded addresses as sets of entries, the prefix length, the gateway   *)
(* as a set of at most one address, whether reserved addresses may be      *)
(* allocated, and whether the pool is IPv4.  All entries are of one family.*)
EXTENDS IPSets

(* An entry is a hyphenated range, a CIDR or a single address.             *)
Entry ==
    [kind : {"range", "addr"}, from : Addrs, to : Addrs]
        \cup [kind : {"cidr"}, from : Addrs, to : Nat]

PoolSpec ==
    [addresses : SUBSET Entry, excluded : SUBSET Entry, prefix : Nat,
     gateway : {{}} \cup {{ip} : ip \in Addrs}, allocateReserved : BOOLEAN, v4 : BOOLEAN]

(* A range that ends before it starts and a CIDR that is too long do not   *)
(* parse.                                                                  *)
Parses(e) ==
    /\ e.kind = "range" => e.from <= e.to
    /\ e.kind = "cidr" => e.to \in 0 .. Width

AddressToIPSet(e) ==
    CASE e.kind = "range" -> e.from .. e.to
      [] e.kind = "cidr"  -> RangeOfPrefix(PrefixFrom(e.from, e.to))
      [] e.kind = "addr"  -> {e.from}

AddressesToIPSet(entries) == UNION {AddressToIPSet(e) : e \in entries}

(* The subnet is inferred from the lowest address.                         *)
SubnetOf(spec) ==
    RangeOfPrefix(PrefixFrom(Min(AddressesToIPSet(spec.addresses)), spec.prefix))

(* Mutant: the last address of the subnet is also kept from IPv6 pools.    *)
PoolSpecToIPSetBroadcast(spec) ==
    LET subnet   == SubnetOf(spec)
        reserved == IF spec.allocateReserved THEN {} ELSE {Min(subnet), Max(subnet)}
    IN  ((AddressesToIPSet(spec.addresses) \ AddressesToIPSet(spec.excluded))
            \ reserved) \ spec.gateway

PoolSpecToIPSet(spec) ==
    LET subnet   == SubnetOf(spec)
        reserved == IF spec.allocateReserved
                    THEN {}
                    ELSE {Min(subnet)} \cup (IF spec.v4 THEN {Max(subnet)} ELSE {})
    IN  ((AddressesToIPSet(spec.addresses) \ AddressesToIPSet(spec.excluded))
            \ reserved) \ spec.gateway

(* FindFreeAddress walks through each range of the pool, address by        *)
(* address, and returns from the first one that has a free address; the    *)
(* result is a set of at most one address.                                 *)
FindFreeInRange(range, inUse) ==
    LET walk[ip \in range.from .. range.to] ==
            IF ip \notin inUse THEN {ip}
            ELSE IF ip = range.to THEN {}
            ELSE walk[ip + 1]
    IN  walk[range.from]

FindFreeAddress(poolIPSet, inUse) ==
    LET ranges == Ranges(poolIPSet)
    IN  FirstFound([i \in DOMAIN ranges |-> FindFreeInRange(ranges[i], inUse)])

(* Mutant: To - From, without the one that the difference misses.          *)
IPSetCountExclusive(S) ==
    LET total == FoldLeft(LAMBDA sum, r : sum + (r.to - r.from), 0, Ranges(S))
    IN  IF total <= MaxInt THEN total ELSE MaxInt

(* IPSetCount adds up the ranges and stops at MaxInt.                      *)
IPSetCount(S) ==
    LET total == FoldLeft(LAMBDA sum, r : sum + (r.to - r.from) + 1, 0, Ranges(S))
    IN  IF total <= MaxInt THEN total ELSE MaxInt

(* The status of genericReconcile.  The gateway is subtracted if it is in  *)
(* the set.                                                                *)
PoolCount(spec) ==
    LET set == PoolSpecToIPSet(spec)
    IN  IPSetCount(set) - (IF spec.gateway \cap set # {} THEN 1 ELSE 0)

OutOfRange(spec, inUse) == IPSetCount(inUse \ PoolSpecToIPSet(spec))

(* The webhook's validate: there are addresses, every entry parses, and    *)
(* those of the addresses lie in the subnet of the lowest one.             *)
Validate(spec) ==
    /\ spec.addresses # {}
    /\ \A e \in spec.addresses \cup spec.excluded : Parses(e)
    /\ spec.prefix \in 0 .. Width
    /\ \A e \in spec.addresses : AddressToIPSet(e) \subseteq SubnetOf(spec)

=============================================================================
