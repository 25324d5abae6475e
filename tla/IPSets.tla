------------------------------- MODULE IPSets -------------------------------
(* The netip and netipx packages, as internal/poolutil uses them: an       *)
(* address is a number of Width bits, an IPSet a set of addresses.         *)
EXTENDS Integers, Sequences, FiniteSets, FiniteSetsExt, SequencesExt

CONSTANTS
    Width,      \* bits of an address: 32 or 128 in the code
    MaxInt      \* math.MaxInt

ASSUME WidthAssumption == Width \in Nat \ {0} /\ MaxInt \in Nat \ {0}

Addrs == 0 .. 2 ^ Width - 1

(* netip.Prefix; Masked clears the host bits.                              *)
PrefixFrom(addr, bits) == [addr |-> addr, bits |-> bits]
Masked(p) == PrefixFrom(p.addr - (p.addr % (2 ^ (Width - p.bits))), p.bits)
AllPrefixes == {Masked(PrefixFrom(a, b)) : a \in Addrs, b \in 0 .. Width}

(* The addresses of a prefix, and its first and last one.                  *)
RangeOfPrefix(p) ==
    LET first == Masked(p).addr IN first .. first + 2 ^ (Width - p.bits) - 1

(* The elements of a finite set, each before the ones that come after it:  *)
(* SetToSortSeq, with a definition that a proof can expand.                *)
Sorted(S, Before(_, _)) ==
    CHOOSE seq \in [1 .. Cardinality(S) -> S] :
        \A i, j \in 1 .. Cardinality(S) : i < j => Before(seq[i], seq[j])

(* IPSet.Ranges: the maximal intervals of the set, in order.               *)
MaximalRanges(S) ==
    {r \in [from : S, to : S] :
        /\ r.from .. r.to \subseteq S
        /\ r.from <= r.to /\ r.from - 1 \notin S /\ r.to + 1 \notin S}

Ranges(S) == Sorted(MaximalRanges(S), LAMBDA r, s : r.from < s.from)

(* IPSet.Prefixes: the fewest prefixes that make up the set.               *)
Parent(p) == Masked(PrefixFrom(p.addr, p.bits - 1))
PrefixesOf(S) ==
    {p \in AllPrefixes :
        /\ RangeOfPrefix(p) \subseteq S
        /\ p.bits = 0 \/ ~(RangeOfPrefix(Parent(p)) \subseteq S)}

(* A loop that returns the first of some results that is not empty.        *)
FirstFound(results) ==
    FoldLeft(LAMBDA found, result : IF found # {} THEN found ELSE result, {}, results)

ContainsPrefix(S, p) == RangeOfPrefix(p) \subseteq S
OverlapsPrefix(S, p) == RangeOfPrefix(p) \cap S # {}

=============================================================================
