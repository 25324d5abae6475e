----------------------------- MODULE PrefixUtil -----------------------------
(* The sub-prefix arithmetic of internal/poolutil/prefix.go and the checks *)
(* of the prefix pool webhook.  A spec has the pool's prefixes, the length *)
(* of an allocated prefix (0 stands for a field that is not set) and the   *)
(* excluded entries, each of which denotes an interval of addresses.       *)
EXTENDS IPSets

CONSTANT DefaultLength      \* defaultAllocationPrefixLength, 64 in the code

ASSUME DefaultLengthAssumption == DefaultLength \in 1 .. Width

PrefixPoolSpec ==
    [prefixes : SUBSET [addr : Addrs, bits : 0 .. Width], length : 0 .. Width,
     excluded : SUBSET SUBSET Addrs]

EffectiveAllocationPrefixLength(len) == IF len = 0 THEN DefaultLength ELSE len

(* PrefixesToIPSet.  An entry that is not network aligned is an error: the *)
(* search then finds nothing, and nothing counts or is allocatable, which  *)
(* is how the empty set is treated.                                        *)
PrefixesToIPSet(prefixes) ==
    IF \A p \in prefixes : p = Masked(p) THEN UNION {RangeOfPrefix(p) : p \in prefixes} ELSE {}

BlockedIPSet(spec, inUse) == (UNION spec.excluded) \cup inUse

SortedPrefixes(prefixes) ==
    Sorted(prefixes, LAMBDA p, q : p.addr < q.addr \/ (p.addr = q.addr /\ p.bits < q.bits))

(* Mutant: the right half starts at the last address of the left one.      *)
SplitPrefixShort(p) ==
    LET left == Masked(PrefixFrom(p.addr, p.bits + 1))
    IN  <<left, Masked(PrefixFrom(Max(RangeOfPrefix(left)), p.bits + 1))>>

(* A prefix of the last address bit cannot be split.                       *)
SplitPrefix(p) ==
    LET left == Masked(PrefixFrom(p.addr, p.bits + 1))
    IN  <<left, Masked(PrefixFrom(Max(RangeOfPrefix(left)) + 1, p.bits + 1))>>

TwoPowerCapped(exponent) == IF 2 ^ exponent > MaxInt THEN MaxInt ELSE 2 ^ exponent

(* Mutant: the sum is not capped.                                          *)
AddIntUncapped(current, add) == current + add

AddIntCapped(current, add) == IF add > MaxInt - current THEN MaxInt ELSE current + add

(* The search within an aggregate: the first free child, left to right; a  *)
(* set of at most one prefix.                                              *)
FindFreePrefixInAggregate(aggregate, target, blocked) ==
    LET find[p \in AllPrefixes] ==
            IF ~(p.bits <= target /\ target <= Width) \/ ContainsPrefix(blocked, p) THEN {}
            ELSE IF ~OverlapsPrefix(blocked, p) THEN {Masked(PrefixFrom(p.addr, target))}
            ELSE IF p.bits = target THEN {}
            ELSE LET halves == SplitPrefix(p)
                 IN  IF find[halves[1]] # {} THEN find[halves[1]] ELSE find[halves[2]]
    IN  find[aggregate]

CountAllocatablePrefixesInAggregate(aggregate, target, blocked) ==
    LET count[p \in AllPrefixes] ==
            IF ~(p.bits <= target /\ target <= Width) \/ ContainsPrefix(blocked, p) THEN 0
            ELSE IF ~OverlapsPrefix(blocked, p) THEN TwoPowerCapped(target - p.bits)
            ELSE IF p.bits = target THEN 0
            ELSE LET halves == SplitPrefix(p)
                 IN  AddIntCapped(count[halves[1]], count[halves[2]])
    IN  count[aggregate]

(* The first aggregate of the pool that has a free prefix.                 *)
FindFreePrefix(spec, inUse) ==
    LET target     == EffectiveAllocationPrefixLength(spec.length)
        aggregates == SortedPrefixes(PrefixesOf(PrefixesToIPSet(spec.prefixes)))
    IN  FirstFound([i \in DOMAIN aggregates |->
            FindFreePrefixInAggregate(aggregates[i], target, BlockedIPSet(spec, inUse))])

PrefixCandidateCount(spec) ==
    LET target == EffectiveAllocationPrefixLength(spec.length)
    IN  FoldLeft(LAMBDA total, aggregate :
                     AddIntCapped(total, CountAllocatablePrefixesInAggregate(
                                             aggregate, target, BlockedIPSet(spec, {}))),
                 0, SortedPrefixes(PrefixesOf(PrefixesToIPSet(spec.prefixes))))

(* Mutant: the excluded entries are forgotten.                             *)
PrefixIsInPool(p, spec) ==
    /\ p.bits = EffectiveAllocationPrefixLength(spec.length)
    /\ ContainsPrefix(PrefixesToIPSet(spec.prefixes), p)

PrefixIsAllocatable(p, spec) ==
    /\ p.bits = EffectiveAllocationPrefixLength(spec.length)
    /\ ContainsPrefix(PrefixesToIPSet(spec.prefixes), p)
    /\ ~OverlapsPrefix(BlockedIPSet(spec, {}), p)

(* The webhook's validate.                                                 *)
Validate(spec) ==
    /\ spec.prefixes # {}
    /\ EffectiveAllocationPrefixLength(spec.length) \in 1 .. Width
    /\ \A p \in spec.prefixes :
         p = Masked(p) /\ p.bits <= EffectiveAllocationPrefixLength(spec.length)

=============================================================================
