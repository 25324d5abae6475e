-------------------------- MODULE PrefixPoolProofs --------------------------
(***************************************************************************)
(* Proofs about PrefixPool, for addresses of any width, any specs that     *)
(* users write and any MaxInt: the recursive search finds the lowest free  *)
(* prefix of the allocation length, the recursive count counts them, and   *)
(* what claims hold stays apart, stays allocatable under the webhook, and  *)
(* makes the free count of the status exact.                               *)
(*                                                                         *)
(* As in AddressPoolProofs, the intended result of a recursive function is *)
(* shown to satisfy its equation, and whatever satisfies the equation to   *)
(* be the intended result, here by induction on the bits that are left     *)
(* below a prefix.                                                         *)
(***************************************************************************)
EXTENDS PrefixPool, IPSetsProofs

-----------------------------------------------------------------------------
(* Halves.                                                                 *)

(* SplitPrefix makes two prefixes of one bit more, the addresses of the    *)
(* left one before those of the right one.                                 *)
LEMMA SplitFacts ==
    ASSUME NEW p \in AllPrefixes, p.bits < Width
    PROVE  LET l == SplitPrefix(p)[1]
               r == SplitPrefix(p)[2]
           IN  /\ l \in AllPrefixes /\ l.bits = p.bits + 1
               /\ r \in AllPrefixes /\ r.bits = p.bits + 1
               /\ RangeOfPrefix(p) = RangeOfPrefix(l) \cup RangeOfPrefix(r)
               /\ \A x \in RangeOfPrefix(l), y \in RangeOfPrefix(r) : x < y
<1>1. PICK b, c, n : b = p.bits /\ c = b + 1 /\ n = Size(c)
  OBVIOUS
<1>2. b \in 0 .. Width /\ c \in b .. Width /\ c \in 0 .. Width /\ c - b = 1
  BY <1>1, PrefixFacts, WidthAssumption
<1>3. n \in Nat \ {0} /\ Size(b) = 2 * n
  <2>1. 2 ^ 0 = 1
    BY <1>2
  <2>2. 2 ^ (0 + 1) = 2 * 2 ^ 0 /\ 0 + 1 = 1
    BY PowerStep
  <2>3. Size(b) = 2 ^ (c - b) * Size(c)
    BY <1>2, SizeType
  <2>4. 2 ^ (c - b) = 2
    BY <1>2, <2>1, <2>2
  <2>5. n \in Nat \ {0}
    BY <1>1, <1>2, SizeType
  <2> QED
    BY <1>1, <2>3, <2>4, <2>5
<1>4. PICK k \in Nat : p.addr = k * (2 * n)
  BY <1>1, <1>3, PrefixFacts
<1>5. PICK j : j = 2 * k
  OBVIOUS
<1>6. j \in Nat /\ p.addr = j * n /\ p.addr \in Addrs /\ p.addr \in Nat
  BY <1>3, <1>4, <1>5, PrefixFacts, AddrsType
<1>7. RangeOfPrefix(p) = j * n .. j * n + 2 * n - 1 /\ RangeOfPrefix(p) \subseteq Addrs
  BY <1>1, <1>3, <1>6, PrefixFacts
<1>8. (j + 1) * n = j * n + n /\ (j + 1) * n \in Addrs /\ j + 1 \in Nat
  <2>1. (j + 1) * n = j * n + n
    BY <1>3, <1>6
  <2>2. j * n + n \in j * n .. j * n + 2 * n - 1
    BY <1>3, <1>6
  <2> QED
    BY <1>6, <1>7, <2>1, <2>2
<1>9. PICK l, r : l = PrefixFrom(j * n, c) /\ r = PrefixFrom((j + 1) * n, c)
  OBVIOUS
<1>10. l \in AllPrefixes /\ r \in AllPrefixes
  BY <1>1, <1>2, <1>6, <1>8, <1>9, BlockIsPrefix
<1>11. l.addr = j * n /\ l.bits = c /\ r.addr = j * n + n /\ r.bits = c
  BY <1>8, <1>9 DEF PrefixFrom
<1>12. /\ RangeOfPrefix(l) = j * n .. j * n + n - 1
       /\ RangeOfPrefix(r) = j * n + n .. j * n + n + n - 1
  BY <1>1, <1>10, <1>11, PrefixFacts
<1>13. Max(RangeOfPrefix(l)) = j * n + n - 1
  <2>1. PICK first, last : first = j * n /\ last = j * n + n - 1
    OBVIOUS
  <2>2. first \in Nat /\ last \in Nat /\ first <= last
    BY <1>3, <1>6, <2>1
  <2>3. first .. last \subseteq Nat /\ last \in first .. last /\ \A y \in first .. last : y <= last
    BY <2>2
  <2>4. Max(first .. last) = last
    BY <2>3, MaxIs
  <2> QED
    BY <1>12, <2>1, <2>4
<1>14. SplitPrefix(p)[1] = l
  <2>1. PrefixFrom(p.addr, p.bits + 1) = l /\ Masked(l) = l
    BY <1>1, <1>6, <1>9, <1>10, PrefixFacts
  <2> QED
    BY <2>1 DEF SplitPrefix
<1>15. SplitPrefix(p)[2] = r
  <2>1. PrefixFrom(p.addr, p.bits + 1) = l /\ Masked(l) = l /\ Masked(r) = r
    BY <1>1, <1>6, <1>9, <1>10, PrefixFacts
  <2>2. Max(RangeOfPrefix(l)) + 1 = (j + 1) * n
    BY <1>3, <1>6, <1>8, <1>13
  <2>3. PrefixFrom(Max(RangeOfPrefix(l)) + 1, p.bits + 1) = r
    BY <1>1, <1>9, <2>2
  <2> QED
    BY <2>1, <2>3 DEF SplitPrefix
<1>16. /\ RangeOfPrefix(p) = RangeOfPrefix(l) \cup RangeOfPrefix(r)
       /\ \A x \in RangeOfPrefix(l), y \in RangeOfPrefix(r) : x < y
  <2>1. PICK a : a = j * n
    OBVIOUS
  <2>2. /\ a \in Nat /\ RangeOfPrefix(p) = a .. a + 2 * n - 1
        /\ RangeOfPrefix(l) = a .. a + n - 1 /\ RangeOfPrefix(r) = a + n .. a + n + n - 1
    BY <1>3, <1>6, <1>7, <1>12, <2>1
  <2> QED
    BY <1>3, <2>2
<1> QED
  BY <1>1, <1>10, <1>11, <1>14, <1>15, <1>16

-----------------------------------------------------------------------------
(* The prefixes that can be found.                                         *)

(* The prefixes of a length within some addresses and clear of others.     *)
FreeIn(S, target, blocked) ==
    {q \in AllPrefixes : /\ q.bits = target /\ RangeOfPrefix(q) \subseteq S
                         /\ RangeOfPrefix(q) \cap blocked = {}}

(* The lowest of some prefixes of one length.                              *)
Lowest(Q) == {q \in Q : \A r \in Q : q.addr <= r.addr}

(* Prefixes that there are have a lowest one.                              *)
LEMMA LowestExists ==
    ASSUME NEW Q \in SUBSET AllPrefixes, Q # {}
    PROVE  Lowest(Q) # {}
<1>1. PICK T : T = {q.addr : q \in Q}
  OBVIOUS
<1>2. T \subseteq Nat /\ T # {}
  BY <1>1, PrefixFacts, AddrsType
<1>3. PICK x \in T : \A y \in T : x <= y
  BY <1>2, LeastNatural
<1>4. PICK q \in Q : q.addr = x
  BY <1>1, <1>3
<1> QED
  BY <1>1, <1>3, <1>4 DEF Lowest

(* It is among the ones that come before the others.                       *)
LEMMA LowestOfFirst ==
    ASSUME NEW Q \in SUBSET AllPrefixes, NEW R \in SUBSET AllPrefixes, Q # {},
           \A q \in Q, r \in R : q.addr < r.addr
    PROVE  Lowest(Q \cup R) = Lowest(Q)
<1>1. \A q \in Q \cup R : q.addr \in Nat
  BY PrefixFacts, AddrsType
<1>2. \A q \in Q, r \in R : q.addr <= r.addr /\ ~(r.addr <= q.addr)
  BY <1>1
<1> QED
  BY <1>2 DEF Lowest

(* No prefix fits into a smaller one.                                      *)
LEMMA NoneInSmaller ==
    ASSUME NEW p \in AllPrefixes, NEW target \in 0 .. Width, target < p.bits, NEW blocked
    PROVE  FreeIn(RangeOfPrefix(p), target, blocked) = {}
<1> SUFFICES ASSUME NEW q \in AllPrefixes, q.bits = target,
                    RangeOfPrefix(q) \subseteq RangeOfPrefix(p)
             PROVE  FALSE
  BY DEF FreeIn
<1>1. p.bits \in target .. Width /\ p.bits \in 0 .. Width
  BY PrefixFacts, WidthAssumption
<1>2. PICK n, j : n = Size(p.bits) /\ j = 2 ^ (p.bits - target)
  OBVIOUS
<1>3. n \in Nat \ {0} /\ j \in Nat \ {0} /\ Size(target) = j * n
  BY <1>1, <1>2, SizeType
<1>4. j >= 2
  <2>1. p.bits - target - 1 \in Nat /\ (p.bits - target - 1) + 1 = p.bits - target
    BY <1>1
  <2>2. j = 2 * 2 ^ (p.bits - target - 1) /\ 2 ^ (p.bits - target - 1) \in Nat \ {0}
    BY <1>2, <2>1, PowerStep, PowerType
  <2> QED
    BY <2>2
<1>5. PICK a, b : a = p.addr /\ b = q.addr
  OBVIOUS
<1>6. /\ a \in Nat /\ b \in Nat
      /\ RangeOfPrefix(p) = a .. a + n - 1 /\ RangeOfPrefix(q) = b .. b + j * n - 1
  BY <1>2, <1>3, <1>5, PrefixFacts, AddrsType
<1>7. j * n >= n + n
  <2>1. (j - 2) * n >= 0
    BY <1>3, <1>4
  <2> QED
    BY <1>3, <1>4, <2>1
<1>8. PICK m : m = j * n
  OBVIOUS
<1>9. m \in Nat /\ m >= n + n
  BY <1>3, <1>7, <1>8
<1>10. b \in a .. a + n - 1 /\ b + m - 1 \in a .. a + n - 1
  <2>1. b .. b + m - 1 \subseteq a .. a + n - 1
    BY <1>6, <1>8
  <2>2. b \in b .. b + m - 1 /\ b + m - 1 \in b .. b + m - 1
    BY <1>3, <1>6, <1>9
  <2> QED
    BY <2>1, <2>2
<1>11. a <= b /\ b + m - 1 <= a + n - 1
  BY <1>3, <1>6, <1>9, <1>10
<1> QED
  BY <1>3, <1>6, <1>9, <1>11

(* Without anything blocked, the first sub-prefix is the lowest one.       *)
LEMMA FirstSubPrefix ==
    ASSUME NEW p \in AllPrefixes, NEW target \in 0 .. Width, p.bits <= target,
           NEW blocked, ~OverlapsPrefix(blocked, p)
    PROVE  Lowest(FreeIn(RangeOfPrefix(p), target, blocked)) = {Masked(PrefixFrom(p.addr, target))}
<1>1. PICK m, F : /\ m = Masked(PrefixFrom(p.addr, target))
                  /\ F = FreeIn(RangeOfPrefix(p), target, blocked)
  OBVIOUS
<1>2. m \in AllPrefixes /\ m.bits = target /\ p.addr \in RangeOfPrefix(m)
  BY <1>1, PrefixFacts, MaskedIsPrefix
<1>3. RangeOfPrefix(m) \subseteq RangeOfPrefix(p)
  BY <1>2, Nested, PrefixFacts
<1>4. m \in F
  BY <1>1, <1>2, <1>3 DEF FreeIn, OverlapsPrefix
<1>5. ASSUME NEW q \in AllPrefixes, NEW ip \in RangeOfPrefix(q) PROVE q.addr <= ip
  <2>1. q.addr \in Nat /\ Size(q.bits) \in Nat /\ RangeOfPrefix(q) = q.addr .. q.addr + Size(q.bits) - 1
    BY PrefixFacts, AddrsType, SizeType
  <2> QED
    BY <2>1
<1>6. m.addr = p.addr
  <2>1. m.addr \in RangeOfPrefix(p) /\ m.addr \in Nat /\ p.addr \in Nat
    BY <1>2, <1>3, PrefixFacts, AddrsType
  <2>2. m.addr <= p.addr /\ p.addr <= m.addr
    BY <1>2, <1>5, <2>1
  <2> QED
    BY <2>1, <2>2
<1>7. \A q \in F : q \in AllPrefixes /\ q.bits = target /\ q.addr \in Nat /\ m.addr <= q.addr
  <2> SUFFICES ASSUME NEW q \in F
               PROVE  q \in AllPrefixes /\ q.bits = target /\ q.addr \in Nat /\ m.addr <= q.addr
    OBVIOUS
  <2>1. q \in AllPrefixes /\ q.bits = target /\ RangeOfPrefix(q) \subseteq RangeOfPrefix(p)
    BY <1>1 DEF FreeIn
  <2>2. q.addr \in RangeOfPrefix(p) /\ q.addr \in Nat
    BY <2>1, PrefixFacts, AddrsType
  <2> QED
    BY <1>5, <1>6, <2>1, <2>2
<1>8. ASSUME NEW q \in Lowest(F) PROVE q = m
  <2>1. q \in F /\ q.addr <= m.addr
    BY <1>4 DEF Lowest
  <2>2. q.addr = m.addr /\ q.bits = m.bits
    BY <1>2, <1>4, <1>7, <2>1
  <2> QED
    BY <1>2, <1>7, <2>1, <2>2, PrefixFacts
<1>9. m \in Lowest(F)
  BY <1>4, <1>7 DEF Lowest
<1> QED
  BY <1>1, <1>8, <1>9

(* A prefix of the length itself is the only one within it.                *)
LEMMA OnlyItself ==
    ASSUME NEW p \in AllPrefixes, NEW blocked
    PROVE  FreeIn(RangeOfPrefix(p), p.bits, blocked) = IF OverlapsPrefix(blocked, p) THEN {} ELSE {p}
<1>1. ASSUME NEW q \in AllPrefixes, q.bits = p.bits, RangeOfPrefix(q) \subseteq RangeOfPrefix(p)
      PROVE  q = p
  BY <1>1, SameBlock, PrefixFacts
<1> QED
  BY <1>1 DEF FreeIn, OverlapsPrefix

(* What is free in a prefix is free in one of its halves.                  *)
LEMMA FreeInHalves ==
    ASSUME NEW p \in AllPrefixes, NEW target \in 0 .. Width, p.bits < target, NEW blocked
    PROVE  LET L == FreeIn(RangeOfPrefix(SplitPrefix(p)[1]), target, blocked)
               R == FreeIn(RangeOfPrefix(SplitPrefix(p)[2]), target, blocked)
           IN  /\ FreeIn(RangeOfPrefix(p), target, blocked) = L \cup R
               /\ \A q \in L, s \in R : q.addr < s.addr
               /\ L \cap R = {}
<1>1. PICK l, r : l = SplitPrefix(p)[1] /\ r = SplitPrefix(p)[2]
  OBVIOUS
<1>2. p.bits \in Nat /\ target \in Nat /\ p.bits < Width /\ p.bits + 1 <= target
  BY PrefixFacts, WidthAssumption
<1>3. /\ l \in AllPrefixes /\ l.bits = p.bits + 1
      /\ r \in AllPrefixes /\ r.bits = p.bits + 1
      /\ RangeOfPrefix(p) = RangeOfPrefix(l) \cup RangeOfPrefix(r)
      /\ \A x \in RangeOfPrefix(l), y \in RangeOfPrefix(r) : x < y
  BY <1>1, <1>2, SplitFacts
<1>4. PICK L, R, F : /\ L = FreeIn(RangeOfPrefix(l), target, blocked)
                     /\ R = FreeIn(RangeOfPrefix(r), target, blocked)
                     /\ F = FreeIn(RangeOfPrefix(p), target, blocked)
  OBVIOUS
<1>5. ASSUME NEW q \in F PROVE q \in L \cup R
  <2>1. /\ q \in AllPrefixes /\ q.bits = target /\ RangeOfPrefix(q) \subseteq RangeOfPrefix(p)
        /\ RangeOfPrefix(q) \cap blocked = {}
    BY <1>4 DEF FreeIn
  <2>2. q.addr \in RangeOfPrefix(q)
    BY <2>1, PrefixFacts
  <2>3. CASE q.addr \in RangeOfPrefix(l)
    <3>1. RangeOfPrefix(q) \subseteq RangeOfPrefix(l)
      BY <1>2, <1>3, <2>1, <2>2, <2>3, Nested
    <3> QED
      BY <1>4, <2>1, <3>1 DEF FreeIn
  <2>4. CASE q.addr \in RangeOfPrefix(r)
    <3>1. RangeOfPrefix(q) \subseteq RangeOfPrefix(r)
      BY <1>2, <1>3, <2>1, <2>2, <2>4, Nested
    <3> QED
      BY <1>4, <2>1, <3>1 DEF FreeIn
  <2> QED
    BY <1>3, <2>1, <2>2, <2>3, <2>4
<1>6. L \cup R \subseteq F
  BY <1>3, <1>4 DEF FreeIn
<1>7. ASSUME NEW q \in L, NEW s \in R PROVE q.addr < s.addr /\ q # s
  <2>1. q \in AllPrefixes /\ s \in AllPrefixes
    BY <1>4 DEF FreeIn
  <2>2. q.addr \in RangeOfPrefix(l) /\ s.addr \in RangeOfPrefix(r)
    BY <1>4, <2>1, PrefixFacts DEF FreeIn
  <2>3. q.addr < s.addr /\ q.addr \in Nat
    BY <1>3, <2>1, <2>2, PrefixFacts, AddrsType
  <2>4. q.addr # s.addr
    BY <2>3
  <2> QED
    BY <2>3, <2>4
<1>8. F = L \cup R /\ (\A q \in L, s \in R : q.addr < s.addr) /\ L \cap R = {}
  BY <1>5, <1>6, <1>7
<1> QED
  BY <1>1, <1>4, <1>8

-----------------------------------------------------------------------------
(* The recursive search and the recursive count.                           *)

(* An equation over the prefixes whose value at a prefix depends, at most, *)
(* on the values at its halves has one solution: two that agree wherever   *)
(* they agree on the halves agree everywhere.                              *)
LEMMA OneSolution ==
    ASSUME NEW f, NEW g, NEW target \in 0 .. Width,
           \A p \in AllPrefixes : target <= p.bits => f[p] = g[p],
           \A p \in AllPrefixes :
             /\ p.bits < target
             /\ f[SplitPrefix(p)[1]] = g[SplitPrefix(p)[1]]
             /\ f[SplitPrefix(p)[2]] = g[SplitPrefix(p)[2]]
             => f[p] = g[p]
    PROVE  \A p \in AllPrefixes : f[p] = g[p]
<1>1. PICK K : K = {k \in Nat : \A p \in AllPrefixes : target - p.bits <= k => f[p] = g[p]}
  OBVIOUS
<1>2. target \in Nat /\ \A p \in AllPrefixes : p.bits \in Nat /\ p.bits <= Width
  BY PrefixFacts, WidthAssumption
<1>3. 0 \in K
  <2>1. \A p \in AllPrefixes : target - p.bits <= 0 => target <= p.bits
    BY <1>2
  <2> QED
    BY <1>1, <2>1
<1>4. ASSUME NEW k \in Nat, k \in K PROVE k + 1 \in K
  <2> SUFFICES ASSUME NEW p \in AllPrefixes, target - p.bits <= k + 1 PROVE f[p] = g[p]
    BY <1>1
  <2>1. CASE target <= p.bits
    BY <2>1
  <2>2. CASE ~(target <= p.bits)
    <3>1. p.bits < target /\ p.bits < Width /\ target - (p.bits + 1) <= k
      BY <1>2, <2>2, WidthAssumption
    <3>2. PICK l, r : l = SplitPrefix(p)[1] /\ r = SplitPrefix(p)[2]
      OBVIOUS
    <3>3. /\ l \in AllPrefixes /\ l.bits = p.bits + 1
          /\ r \in AllPrefixes /\ r.bits = p.bits + 1
      BY <3>1, <3>2, SplitFacts
    <3>4. f[l] = g[l] /\ f[r] = g[r]
      BY <1>1, <1>4, <3>1, <3>3
    <3> QED
      BY <3>1, <3>2, <3>4
  <2> QED
    BY <2>1, <2>2
<1>5. Nat \subseteq K
  BY <1>3, <1>4, Induct
<1>6. \A p \in AllPrefixes : target - p.bits <= target
  BY <1>2
<1> QED
  BY <1>1, <1>2, <1>5, <1>6

(* The search finds the lowest free prefix within an aggregate.            *)
LEMMA SearchFindsLowest ==
    ASSUME NEW aggregate \in AllPrefixes, NEW target \in 0 .. Width, NEW blocked
    PROVE  FindFreePrefixInAggregate(aggregate, target, blocked)
             = Lowest(FreeIn(RangeOfPrefix(aggregate), target, blocked))
<1> DEFINE Body(f, p) ==
               IF ~(p.bits <= target /\ target <= Width) \/ ContainsPrefix(blocked, p) THEN {}
               ELSE IF ~OverlapsPrefix(blocked, p) THEN {Masked(PrefixFrom(p.addr, target))}
               ELSE IF p.bits = target THEN {}
               ELSE IF f[SplitPrefix(p)[1]] # {} THEN f[SplitPrefix(p)[1]]
               ELSE f[SplitPrefix(p)[2]]
           find == CHOOSE f : f = [p \in AllPrefixes |-> Body(f, p)]
           Within(p) == FreeIn(RangeOfPrefix(p), target, blocked)
<1>1. FindFreePrefixInAggregate(aggregate, target, blocked) = find[aggregate]
  BY DEF FindFreePrefixInAggregate
<1>2. PICK C : C = [p \in AllPrefixes |-> Lowest(Within(p))]
  OBVIOUS
<1>3. \A p \in AllPrefixes : Within(p) \in SUBSET AllPrefixes
  BY DEF FreeIn
<1>4. Lowest({}) = {}
  BY DEF Lowest
<1>5. target \in Nat /\ target <= Width /\ \A p \in AllPrefixes : p.bits \in Nat /\ p.bits <= Width
  BY PrefixFacts, WidthAssumption
<1>6. ASSUME NEW p \in AllPrefixes PROVE C[p] = Body(C, p)
  <2>1. C[p] = Lowest(Within(p))
    BY <1>2
  <2>2. CASE ~(p.bits <= target)
    <3>1. target < p.bits
      BY <1>5, <2>2
    <3>2. Within(p) = {}
      BY <3>1, NoneInSmaller
    <3> QED
      BY <1>4, <2>1, <2>2, <3>2
  <2>3. CASE p.bits <= target /\ ContainsPrefix(blocked, p)
    <3>1. Within(p) = {}
      BY <2>3, PrefixFacts DEF FreeIn, ContainsPrefix
    <3> QED
      BY <1>4, <2>1, <2>3, <3>1
  <2>4. CASE p.bits <= target /\ ~ContainsPrefix(blocked, p) /\ ~OverlapsPrefix(blocked, p)
    <3>1. Lowest(Within(p)) = {Masked(PrefixFrom(p.addr, target))}
      BY <2>4, FirstSubPrefix
    <3> QED
      BY <1>5, <2>1, <2>4, <3>1
  <2>5. CASE p.bits = target /\ ~ContainsPrefix(blocked, p) /\ OverlapsPrefix(blocked, p)
    <3>1. Within(p) = {}
      BY <2>5, OnlyItself
    <3> QED
      BY <1>4, <1>5, <2>1, <2>5, <3>1
  <2>6. CASE p.bits < target /\ ~ContainsPrefix(blocked, p) /\ OverlapsPrefix(blocked, p)
    <3>1. PICK l, r : l = SplitPrefix(p)[1] /\ r = SplitPrefix(p)[2]
      OBVIOUS
    <3>2. p.bits <= target /\ p.bits # target /\ p.bits < Width
      BY <1>5, <2>6, WidthAssumption
    <3>3. l \in AllPrefixes /\ r \in AllPrefixes
      BY <3>1, <3>2, SplitFacts
    <3>4. /\ Within(p) = Within(l) \cup Within(r)
          /\ \A q \in Within(l), s \in Within(r) : q.addr < s.addr
      BY <2>6, <3>1, FreeInHalves
    <3>5. C[l] = Lowest(Within(l)) /\ C[r] = Lowest(Within(r))
      BY <1>2, <3>3
    <3>6. C[p] = IF C[l] # {} THEN C[l] ELSE C[r]
      <4> HIDE DEF Within
      <4>1. CASE Within(l) = {}
        <5>1. C[l] = {} /\ Within(p) = Within(r)
          BY <1>4, <3>4, <3>5, <4>1
        <5> QED
          BY <2>1, <3>5, <5>1
      <4>2. CASE Within(l) # {}
        <5>1. Lowest(Within(l)) # {}
          BY <1>3, <3>3, <4>2, LowestExists
        <5>2. Lowest(Within(l) \cup Within(r)) = Lowest(Within(l))
          BY <1>3, <3>3, <3>4, <4>2, LowestOfFirst
        <5> QED
          BY <2>1, <3>4, <3>5, <5>1, <5>2
      <4> QED
        BY <4>1, <4>2
    <3> QED
      BY <1>5, <2>6, <3>1, <3>2, <3>6
  <2>7. p.bits < target \/ p.bits = target \/ ~(p.bits <= target)
    BY <1>5
  <2>8. p.bits = target \/ p.bits < target => p.bits <= target
    BY <1>5
  <2> HIDE DEF Body
  <2> QED
    BY <2>2, <2>3, <2>4, <2>5, <2>6, <2>7, <2>8
<1>7. C = [p \in AllPrefixes |-> Body(C, p)]
  BY <1>2, <1>6
<1>8. find = [p \in AllPrefixes |-> Body(find, p)]
  BY <1>7
<1>9. PICK g : g = find
  OBVIOUS
<1>10. \A p \in AllPrefixes : g[p] = Body(g, p)
  BY <1>8, <1>9
<1> HIDE DEF find
<1>11. \A p \in AllPrefixes : target <= p.bits => g[p] = C[p]
  <2> SUFFICES ASSUME NEW p \in AllPrefixes, target <= p.bits PROVE g[p] = C[p]
    OBVIOUS
  <2>1. p.bits = target \/ ~(p.bits <= target)
    BY <1>5
  <2>2. Body(g, p) = Body(C, p)
    BY <2>1
  <2> QED
    BY <1>6, <1>10, <2>2
<1>12. \A p \in AllPrefixes :
         /\ p.bits < target
         /\ g[SplitPrefix(p)[1]] = C[SplitPrefix(p)[1]]
         /\ g[SplitPrefix(p)[2]] = C[SplitPrefix(p)[2]]
         => g[p] = C[p]
  BY <1>6, <1>10
<1>13. \A p \in AllPrefixes : g[p] = C[p]
  BY <1>11, <1>12, OneSolution
<1> QED
  BY <1>1, <1>2, <1>9, <1>13

(* A number as the code counts it.                                         *)
Cap(n) == IF n <= MaxInt THEN n ELSE MaxInt

(* The capped sum of capped numbers is the capped sum.                     *)
LEMMA CappedSum ==
    ASSUME NEW m \in Nat, NEW n \in Nat
    PROVE  AddIntCapped(Cap(m), Cap(n)) = Cap(m + n)
<1>1. MaxInt \in Nat
  BY WidthAssumption
<1> QED
  BY <1>1 DEF AddIntCapped, Cap

(* The free prefixes are finitely many.                                    *)
LEMMA FreeIsFinite ==
    ASSUME NEW S, NEW target, NEW blocked
    PROVE  /\ IsFiniteSet(FreeIn(S, target, blocked))
           /\ Cardinality(FreeIn(S, target, blocked)) \in Nat
<1>1. FreeIn(S, target, blocked) \in SUBSET AllPrefixes
  BY DEF FreeIn
<1>2. IsFiniteSet(FreeIn(S, target, blocked))
  BY <1>1, FinitelyManyPrefixes, FS_Subset
<1> QED
  BY <1>2, FS_CardinalityType

(* The halves of a prefix have its free prefixes between them.             *)
LEMMA FreeInHalvesCount ==
    ASSUME NEW p \in AllPrefixes, NEW target \in 0 .. Width, p.bits < target, NEW blocked
    PROVE  Cardinality(FreeIn(RangeOfPrefix(p), target, blocked))
             = Cardinality(FreeIn(RangeOfPrefix(SplitPrefix(p)[1]), target, blocked))
               + Cardinality(FreeIn(RangeOfPrefix(SplitPrefix(p)[2]), target, blocked))
<1>1. PICK L, R, F : /\ L = FreeIn(RangeOfPrefix(SplitPrefix(p)[1]), target, blocked)
                     /\ R = FreeIn(RangeOfPrefix(SplitPrefix(p)[2]), target, blocked)
                     /\ F = FreeIn(RangeOfPrefix(p), target, blocked)
  OBVIOUS
<1>2. F = L \cup R /\ L \cap R = {}
  BY <1>1, FreeInHalves
<1>3. IsFiniteSet(L) /\ IsFiniteSet(R)
  BY <1>1, FreeIsFinite
<1>4. Cardinality(F) = Cardinality(L) + Cardinality(R)
  BY <1>2, <1>3, ApartAddUp
<1> QED
  BY <1>1, <1>4

(* Without anything blocked, a prefix has a power of two of sub-prefixes.  *)
LEMMA SubPrefixCount ==
    ASSUME NEW p \in AllPrefixes, NEW target \in 0 .. Width, p.bits <= target,
           NEW blocked, ~OverlapsPrefix(blocked, p)
    PROVE  Cardinality(FreeIn(RangeOfPrefix(p), target, blocked)) = 2 ^ (target - p.bits)
<1> DEFINE Within(q) == FreeIn(RangeOfPrefix(q), target, blocked)
<1>1. PICK K : K = {k \in Nat : \A q \in AllPrefixes :
                       /\ target - q.bits = k
                       /\ ~OverlapsPrefix(blocked, q)
                       => Cardinality(Within(q)) = 2 ^ k}
  OBVIOUS
<1>2. target \in Nat /\ target <= Width /\ \A q \in AllPrefixes : q.bits \in Nat /\ q.bits <= Width
  BY PrefixFacts, WidthAssumption
<1>3. 0 \in K
  <2> SUFFICES ASSUME NEW q \in AllPrefixes, target - q.bits = 0, ~OverlapsPrefix(blocked, q)
               PROVE  Cardinality(Within(q)) = 2 ^ 0
    BY <1>1
  <2>1. q.bits = target
    BY <1>2
  <2>2. Within(q) = {q}
    BY <2>1, OnlyItself
  <2>3. 2 ^ 0 = 1
    BY <1>2
  <2> QED
    BY <2>2, <2>3, FS_Singleton
<1>4. ASSUME NEW k \in Nat, k \in K PROVE k + 1 \in K
  <2> SUFFICES ASSUME NEW q \in AllPrefixes, target - q.bits = k + 1, ~OverlapsPrefix(blocked, q)
               PROVE  Cardinality(Within(q)) = 2 ^ (k + 1)
    BY <1>1
  <2>1. q.bits < target /\ q.bits < Width /\ target - (q.bits + 1) = k
    BY <1>2, WidthAssumption
  <2>2. PICK l, r : l = SplitPrefix(q)[1] /\ r = SplitPrefix(q)[2]
    OBVIOUS
  <2>3. /\ l \in AllPrefixes /\ l.bits = q.bits + 1
        /\ r \in AllPrefixes /\ r.bits = q.bits + 1
        /\ RangeOfPrefix(q) = RangeOfPrefix(l) \cup RangeOfPrefix(r)
    BY <2>1, <2>2, SplitFacts
  <2>4. ~OverlapsPrefix(blocked, l) /\ ~OverlapsPrefix(blocked, r)
    BY <2>3 DEF OverlapsPrefix
  <2>5. Cardinality(Within(l)) = 2 ^ k /\ Cardinality(Within(r)) = 2 ^ k
    BY <1>1, <1>4, <2>1, <2>3, <2>4
  <2>6. Cardinality(Within(q)) = Cardinality(Within(l)) + Cardinality(Within(r))
    BY <2>1, <2>2, FreeInHalvesCount
  <2>7. 2 ^ (k + 1) = 2 * 2 ^ k /\ 2 ^ k \in Nat
    BY PowerStep, PowerType
  <2> QED
    BY <2>5, <2>6, <2>7
<1>5. target - p.bits \in K
  <2>1. target - p.bits \in Nat
    BY <1>2
  <2> QED
    BY <1>3, <1>4, <2>1, Induct
<1> QED
  BY <1>1, <1>5

(* The count is the number of free prefixes within an aggregate, up to     *)
(* MaxInt.                                                                 *)
LEMMA CountIsCardinality ==
    ASSUME NEW aggregate \in AllPrefixes, NEW target \in 0 .. Width, NEW blocked
    PROVE  CountAllocatablePrefixesInAggregate(aggregate, target, blocked)
             = Cap(Cardinality(FreeIn(RangeOfPrefix(aggregate), target, blocked)))
<1> DEFINE Body(f, p) ==
               IF ~(p.bits <= target /\ target <= Width) \/ ContainsPrefix(blocked, p) THEN 0
               ELSE IF ~OverlapsPrefix(blocked, p) THEN TwoPowerCapped(target - p.bits)
               ELSE IF p.bits = target THEN 0
               ELSE AddIntCapped(f[SplitPrefix(p)[1]], f[SplitPrefix(p)[2]])
           count == CHOOSE f : f = [p \in AllPrefixes |-> Body(f, p)]
           Within(p) == FreeIn(RangeOfPrefix(p), target, blocked)
<1>1. CountAllocatablePrefixesInAggregate(aggregate, target, blocked) = count[aggregate]
  BY DEF CountAllocatablePrefixesInAggregate
<1>2. PICK C : C = [p \in AllPrefixes |-> Cap(Cardinality(Within(p)))]
  OBVIOUS
<1>3. target \in Nat /\ target <= Width /\ \A p \in AllPrefixes : p.bits \in Nat /\ p.bits <= Width
  BY PrefixFacts, WidthAssumption
<1>4. Cap(Cardinality({})) = 0
  BY FS_EmptySet, WidthAssumption DEF Cap
<1>5. ASSUME NEW p \in AllPrefixes PROVE C[p] = Body(C, p)
  <2>1. C[p] = Cap(Cardinality(Within(p)))
    BY <1>2
  <2>2. CASE ~(p.bits <= target)
    <3>1. target < p.bits
      BY <1>3, <2>2
    <3>2. Within(p) = {}
      BY <3>1, NoneInSmaller
    <3> QED
      BY <1>4, <2>1, <2>2, <3>2
  <2>3. CASE p.bits <= target /\ ContainsPrefix(blocked, p)
    <3>1. Within(p) = {}
      BY <2>3, PrefixFacts DEF FreeIn, ContainsPrefix
    <3> QED
      BY <1>4, <2>1, <2>3, <3>1
  <2>4. CASE p.bits <= target /\ ~ContainsPrefix(blocked, p) /\ ~OverlapsPrefix(blocked, p)
    <3>1. Cardinality(Within(p)) = 2 ^ (target - p.bits)
      BY <2>4, SubPrefixCount
    <3>2. 2 ^ (target - p.bits) \in Nat
      BY <1>3, <2>4, PowerType
    <3>3. PICK x : x = 2 ^ (target - p.bits)
      OBVIOUS
    <3>4. Cap(x) = IF x > MaxInt THEN MaxInt ELSE x
      BY <3>2, <3>3, WidthAssumption DEF Cap
    <3>5. C[p] = TwoPowerCapped(target - p.bits)
      BY <2>1, <3>1, <3>3, <3>4 DEF TwoPowerCapped
    <3> QED
      BY <1>3, <2>4, <3>5
  <2>5. CASE p.bits = target /\ ~ContainsPrefix(blocked, p) /\ OverlapsPrefix(blocked, p)
    <3>1. Within(p) = {}
      BY <2>5, OnlyItself
    <3> QED
      BY <1>3, <1>4, <2>1, <2>5, <3>1
  <2>6. CASE p.bits < target /\ ~ContainsPrefix(blocked, p) /\ OverlapsPrefix(blocked, p)
    <3>1. PICK l, r : l = SplitPrefix(p)[1] /\ r = SplitPrefix(p)[2]
      OBVIOUS
    <3>2. p.bits <= target /\ p.bits # target /\ p.bits < Width
      BY <1>3, <2>6, WidthAssumption
    <3>3. l \in AllPrefixes /\ r \in AllPrefixes
      BY <3>1, <3>2, SplitFacts
    <3>4. Cardinality(Within(p)) = Cardinality(Within(l)) + Cardinality(Within(r))
      BY <2>6, <3>1, FreeInHalvesCount
    <3>5. Cardinality(Within(l)) \in Nat /\ Cardinality(Within(r)) \in Nat
      BY FreeIsFinite
    <3>6. C[l] = Cap(Cardinality(Within(l))) /\ C[r] = Cap(Cardinality(Within(r)))
      BY <1>2, <3>3
    <3>7. C[p] = AddIntCapped(C[l], C[r])
      BY <2>1, <3>4, <3>5, <3>6, CappedSum
    <3> QED
      BY <1>3, <2>6, <3>1, <3>2, <3>7
  <2>7. p.bits < target \/ p.bits = target \/ ~(p.bits <= target)
    BY <1>3
  <2>8. p.bits = target \/ p.bits < target => p.bits <= target
    BY <1>3
  <2> HIDE DEF Body
  <2> QED
    BY <2>2, <2>3, <2>4, <2>5, <2>6, <2>7, <2>8
<1>6. C = [p \in AllPrefixes |-> Body(C, p)]
  BY <1>2, <1>5
<1>7. count = [p \in AllPrefixes |-> Body(count, p)]
  BY <1>6
<1>8. PICK g : g = count
  OBVIOUS
<1>9. \A p \in AllPrefixes : g[p] = Body(g, p)
  BY <1>7, <1>8
<1> HIDE DEF count
<1>10. \A p \in AllPrefixes : target <= p.bits => g[p] = C[p]
  <2> SUFFICES ASSUME NEW p \in AllPrefixes, target <= p.bits PROVE g[p] = C[p]
    OBVIOUS
  <2>1. p.bits = target \/ ~(p.bits <= target)
    BY <1>3
  <2>2. Body(g, p) = Body(C, p)
    BY <2>1
  <2> QED
    BY <1>5, <1>9, <2>2
<1>11. \A p \in AllPrefixes :
         /\ p.bits < target
         /\ g[SplitPrefix(p)[1]] = C[SplitPrefix(p)[1]]
         /\ g[SplitPrefix(p)[2]] = C[SplitPrefix(p)[2]]
         => g[p] = C[p]
  BY <1>5, <1>9
<1>12. \A p \in AllPrefixes : g[p] = C[p]
  BY <1>10, <1>11, OneSolution
<1> QED
  BY <1>1, <1>2, <1>8, <1>12

-----------------------------------------------------------------------------
(* The loops over the aggregates.                                          *)

(* The aggregates of a set in order: one ends before the next begins, they *)
(* have the addresses of the set only, and every free prefix is free in    *)
(* one of them.                                                            *)
LEMMA AggregatesFacts ==
    ASSUME NEW S
    PROVE  LET A == SortedPrefixes(PrefixesOf(S))
               n == Cardinality(PrefixesOf(S))
           IN  /\ n \in Nat
               /\ A \in [1 .. n -> AllPrefixes]
               /\ \A i \in 1 .. n : RangeOfPrefix(A[i]) \subseteq S
               /\ \A i, j \in 1 .. n : i < j =>
                    \A x \in RangeOfPrefix(A[i]), y \in RangeOfPrefix(A[j]) : x < y
               /\ \A q \in AllPrefixes : RangeOfPrefix(q) \subseteq S =>
                    \E i \in 1 .. n : RangeOfPrefix(q) \subseteq RangeOfPrefix(A[i])
<1>1. PICK P, n : P = PrefixesOf(S) /\ n = Cardinality(P)
  OBVIOUS
<1>2. P \in SUBSET AllPrefixes /\ IsFiniteSet(P) /\ n \in Nat
  BY <1>1, FinitelyManyPrefixes, FS_Subset, FS_CardinalityType DEF PrefixesOf
<1>3. \A p \in P : p.addr \in Nat /\ p.bits \in Nat /\ p.addr \in RangeOfPrefix(p)
  <2>1. ASSUME NEW p \in AllPrefixes
        PROVE  p.addr \in Nat /\ p.bits \in Nat /\ p.addr \in RangeOfPrefix(p)
    <3>1. p.addr \in Addrs /\ p.bits \in 0 .. Width /\ p.addr \in RangeOfPrefix(p)
      BY PrefixFacts
    <3>2. p.addr \in Nat
      BY <3>1, AddrsType
    <3>3. p.bits \in Nat
      BY <3>1, WidthAssumption
    <3> QED
      BY <3>1, <3>2, <3>3
  <2> QED
    BY <1>2, <2>1
<1>4. \A p, q \in P : p.addr = q.addr => p = q
  BY <1>1, <1>3, AggregatesApart
<1>5. PICK key : key = [p \in P |-> p.addr]
  OBVIOUS
<1>6. key \in [P -> Nat] /\ \A p, q \in P : key[p] = key[q] => p = q
  BY <1>3, <1>4, <1>5
<1> DEFINE Before(p, q) == p.addr < q.addr \/ (p.addr = q.addr /\ p.bits < q.bits)
<1>7. \E seq \in [1 .. n -> P] : \A i, j \in 1 .. n : i < j => Before(seq[i], seq[j])
  <2>1. PICK seq \in [1 .. n -> P] : \A i, j \in 1 .. n : i < j => key[seq[i]] < key[seq[j]]
    BY <1>1, <1>2, <1>6, SortedExists
  <2> QED
    BY <1>5, <2>1
<1>8. PICK A : A = SortedPrefixes(P)
  OBVIOUS
<1>9. A = CHOOSE seq \in [1 .. n -> P] : \A i, j \in 1 .. n : i < j => Before(seq[i], seq[j])
  BY <1>1, <1>8 DEF SortedPrefixes, Sorted
<1>10. A \in [1 .. n -> P] /\ \A i, j \in 1 .. n : i < j => Before(A[i], A[j])
  BY <1>7, <1>9
<1>11. \A i, j \in 1 .. n : i < j => A[i].addr < A[j].addr
  <2>1. \A p, q \in P : Before(p, q) => p.addr < q.addr
    <3>1. \A p \in P : ~(p.bits < p.bits)
      BY <1>3
    <3> QED
      BY <1>4, <3>1
  <2> HIDE DEF Before
  <2> QED
    BY <1>10, <2>1
<1>12. \A i, j \in 1 .. n : i < j => A[i] # A[j]
  <2>1. \A p \in P : ~(p.addr < p.addr)
    BY <1>3
  <2> QED
    BY <1>10, <1>11, <2>1
<1>13. \A p \in P : \E i \in 1 .. n : A[i] = p
  <2>1. /\ A \in [1 .. Cardinality(P) -> P]
        /\ \A i, j \in 1 .. Cardinality(P) : i < j => A[i] # A[j]
    BY <1>1, <1>10, <1>12
  <2>2. \A p \in P : \E i \in 1 .. Cardinality(P) : A[i] = p
    BY <1>2, <2>1, SortedIsOnto
  <2> QED
    BY <1>1, <2>2
<1>14. ASSUME NEW i \in 1 .. n, NEW j \in 1 .. n, i < j,
              NEW x \in RangeOfPrefix(A[i]), NEW y \in RangeOfPrefix(A[j])
       PROVE  x < y
  <2>1. PICK p, q : p = A[i] /\ q = A[j]
    OBVIOUS
  <2>2. p \in P /\ q \in P /\ p.addr < q.addr /\ p # q
    BY <1>10, <1>11, <1>12, <1>14, <2>1
  <2>3. q.addr \notin RangeOfPrefix(p)
    BY <1>1, <1>3, <2>2, AggregatesApart
  <2>4. p \in AllPrefixes /\ q \in AllPrefixes
    BY <1>2, <2>2
  <2>5. PICK a, b, m, k : a = p.addr /\ b = q.addr /\ m = Size(p.bits) /\ k = Size(q.bits)
    OBVIOUS
  <2>6. /\ a \in Nat /\ b \in Nat /\ m \in Nat \ {0} /\ k \in Nat \ {0}
        /\ RangeOfPrefix(p) = a .. a + m - 1 /\ RangeOfPrefix(q) = b .. b + k - 1
    BY <1>3, <2>2, <2>4, <2>5, PrefixFacts, SizeType
  <2>7. a < b /\ b \notin a .. a + m - 1 /\ x \in a .. a + m - 1 /\ y \in b .. b + k - 1
    BY <2>1, <2>2, <2>3, <2>5, <2>6
  <2> QED
    BY <2>6, <2>7
<1>15. \A i \in 1 .. n : RangeOfPrefix(A[i]) \subseteq S
  BY <1>1, <1>10 DEF PrefixesOf
<1>16. ASSUME NEW q \in AllPrefixes, RangeOfPrefix(q) \subseteq S
       PROVE  \E i \in 1 .. n : RangeOfPrefix(q) \subseteq RangeOfPrefix(A[i])
  <2>1. PICK a \in P : RangeOfPrefix(q) \subseteq RangeOfPrefix(a)
    BY <1>1, <1>16, AggregateOf
  <2> QED
    BY <1>13, <2>1
<1>17. A \in [1 .. n -> AllPrefixes]
  BY <1>2, <1>10
<1> QED
  BY <1>1, <1>2, <1>8, <1>14, <1>15, <1>16, <1>17

(* The length of an allocated prefix is one that a prefix can have.        *)
LEMMA TargetType ==
    ASSUME NEW s \in PrefixPoolSpec
    PROVE  EffectiveAllocationPrefixLength(s.length) \in 0 .. Width
BY DefaultLengthAssumption, WidthAssumption DEF EffectiveAllocationPrefixLength, PrefixPoolSpec

(* FindFreePrefix finds the lowest free prefix of the pool.                *)
LEMMA FindsLowest ==
    ASSUME NEW s \in PrefixPoolSpec, NEW inUse
    PROVE  FindFreePrefix(s, inUse)
             = Lowest(FreeIn(PrefixesToIPSet(s.prefixes),
                             EffectiveAllocationPrefixLength(s.length), BlockedIPSet(s, inUse)))
<1>1. PICK S, target, blocked, A, n :
          /\ S = PrefixesToIPSet(s.prefixes)
          /\ target = EffectiveAllocationPrefixLength(s.length)
          /\ blocked = BlockedIPSet(s, inUse)
          /\ A = SortedPrefixes(PrefixesOf(S)) /\ n = Cardinality(PrefixesOf(S))
  OBVIOUS
<1>2. target \in 0 .. Width
  BY <1>1, TargetType
<1>3. /\ n \in Nat /\ A \in [1 .. n -> AllPrefixes]
      /\ \A i \in 1 .. n : RangeOfPrefix(A[i]) \subseteq S
      /\ \A i, j \in 1 .. n : i < j =>
           \A x \in RangeOfPrefix(A[i]), y \in RangeOfPrefix(A[j]) : x < y
      /\ \A q \in AllPrefixes : RangeOfPrefix(q) \subseteq S =>
           \E i \in 1 .. n : RangeOfPrefix(q) \subseteq RangeOfPrefix(A[i])
  BY <1>1, AggregatesFacts
<1> DEFINE results == [i \in 1 .. n |-> FindFreePrefixInAggregate(A[i], target, blocked)]
           Within(i) == FreeIn(RangeOfPrefix(A[i]), target, blocked)
<1>4. FindFreePrefix(s, inUse) = FirstFound(results)
  <2>1. DOMAIN A = 1 .. n
    BY <1>3
  <2> QED
    BY <1>1, <2>1 DEF FindFreePrefix
<1>5. \A i \in 1 .. n : results[i] = Lowest(Within(i))
  BY <1>2, <1>3, SearchFindsLowest
<1>6. DOMAIN results = 1 .. n
  OBVIOUS
<1>7. PICK F : F = FreeIn(S, target, blocked)
  OBVIOUS
<1>8. ASSUME NEW i \in 1 .. n PROVE Within(i) \subseteq F /\ Within(i) \in SUBSET AllPrefixes
  BY <1>3, <1>7 DEF FreeIn
<1>9. ASSUME NEW q \in F PROVE \E i \in 1 .. n : q \in Within(i)
  BY <1>3, <1>7 DEF FreeIn
<1>10. F \in SUBSET AllPrefixes
  BY <1>7 DEF FreeIn
<1>11. ASSUME NEW i \in 1 .. n, NEW j \in 1 .. n, i < j, NEW q \in Within(i), NEW r \in Within(j)
       PROVE  q.addr < r.addr
  <2>1. q \in AllPrefixes /\ r \in AllPrefixes
    BY DEF FreeIn
  <2>2. q.addr \in RangeOfPrefix(A[i]) /\ r.addr \in RangeOfPrefix(A[j])
    BY <2>1, PrefixFacts DEF FreeIn
  <2> QED
    BY <1>3, <1>11, <2>2
<1> HIDE DEF results, Within
<1>12. CASE \A i \in 1 .. n : results[i] = {}
  <2>1. FirstFound(results) = {}
    BY <1>3, <1>6, <1>12, FirstFoundFacts
  <2>2. \A i \in 1 .. n : Within(i) = {}
    BY <1>5, <1>8, <1>12, LowestExists
  <2>3. F = {}
    BY <1>9, <2>2
  <2>4. Lowest(F) = {}
    BY <2>3 DEF Lowest
  <2> QED
    BY <1>1, <1>4, <1>7, <2>1, <2>4
<1>13. CASE \E i \in 1 .. n : results[i] # {}
  <2>1. PICK H : H = {i \in 1 .. n : results[i] # {}}
    OBVIOUS
  <2>2. H # {} /\ H \subseteq Nat
    BY <1>3, <1>13, <2>1
  <2>3. PICK i \in H : \A j \in H : i <= j
    BY <2>2, LeastNatural
  <2>4. i \in 1 .. n /\ results[i] # {} /\ i \in Nat
    BY <2>1, <2>3
  <2>5. \A j \in 1 .. n : j < i => results[j] = {}
    <3>1. \A j \in 1 .. n : j < i => ~(i <= j)
      BY <1>3, <2>4
    <3> QED
      BY <2>1, <2>3, <3>1
  <2>6. FirstFound(results) = results[i]
    BY <1>3, <1>6, <2>4, <2>5, FirstFoundFacts
  <2>7. Within(i) # {}
    BY <1>5, <2>4 DEF Lowest
  <2>8. PICK R : R = F \ Within(i)
    OBVIOUS
  <2>9. ASSUME NEW q \in Within(i), NEW r \in R PROVE q.addr < r.addr
    <3>1. PICK j \in 1 .. n : r \in Within(j)
      BY <1>9, <2>8
    <3>2. j # i /\ j \in Nat
      BY <2>8, <3>1
    <3>3. CASE j < i
      <4>1. Lowest(Within(j)) = {}
        BY <1>5, <2>5, <3>3
      <4> QED
        BY <1>8, <3>1, <4>1, LowestExists
    <3>4. CASE i < j
      BY <1>11, <2>4, <3>1, <3>4
    <3> QED
      BY <2>4, <3>2, <3>3, <3>4
  <2>10. F = Within(i) \cup R /\ R \in SUBSET AllPrefixes
    BY <1>8, <1>10, <2>4, <2>8
  <2>11. Lowest(F) = Lowest(Within(i))
    <3>1. Within(i) \in SUBSET AllPrefixes
      BY <1>8, <2>4
    <3>2. \A q \in Within(i), r \in R : q.addr < r.addr
      BY <2>9
    <3> QED
      BY <2>7, <2>10, <3>1, <3>2, LowestOfFirst
  <2> QED
    BY <1>1, <1>4, <1>5, <1>7, <2>4, <2>6, <2>11
<1> QED
  BY <1>12, <1>13

(* PrefixCandidateCount is the number of prefixes of the pool that are not *)
(* excluded, up to MaxInt.                                                 *)
LEMMA CountsAll ==
    ASSUME NEW s \in PrefixPoolSpec
    PROVE  PrefixCandidateCount(s)
             = Cap(Cardinality(FreeIn(PrefixesToIPSet(s.prefixes),
                                      EffectiveAllocationPrefixLength(s.length),
                                      BlockedIPSet(s, {}))))
<1>1. PICK S, target, blocked, A, n, D :
          /\ S = PrefixesToIPSet(s.prefixes)
          /\ target = EffectiveAllocationPrefixLength(s.length)
          /\ blocked = BlockedIPSet(s, {})
          /\ A = SortedPrefixes(PrefixesOf(S)) /\ n = Cardinality(PrefixesOf(S))
          /\ D = 1 .. n
  OBVIOUS
<1>2. target \in 0 .. Width
  BY <1>1, TargetType
<1>3. /\ n \in Nat /\ A \in [1 .. n -> AllPrefixes]
      /\ \A i \in 1 .. n : RangeOfPrefix(A[i]) \subseteq S
      /\ \A i, j \in 1 .. n : i < j =>
           \A x \in RangeOfPrefix(A[i]), y \in RangeOfPrefix(A[j]) : x < y
      /\ \A q \in AllPrefixes : RangeOfPrefix(q) \subseteq S =>
           \E i \in 1 .. n : RangeOfPrefix(q) \subseteq RangeOfPrefix(A[i])
  BY <1>1, AggregatesFacts
<1> DEFINE Count(i) == CountAllocatablePrefixesInAggregate(A[i], target, blocked)
           Body(it, t) == IF t = {} THEN 0
                          ELSE AddIntCapped(it[t \ {Max(t)}], Count(Max(t)))
           fold == CHOOSE it : it = [t \in SUBSET D |-> Body(it, t)]
           Within(i) == FreeIn(RangeOfPrefix(A[i]), target, blocked)
           Part(t) == {q \in FreeIn(S, target, blocked) : \E i \in t : q \in Within(i)}
<1>4. PrefixCandidateCount(s) = fold[D]
  <2>1. DOMAIN A = D
    BY <1>1, <1>3
  <2> QED
    BY <1>1, <2>1 DEF PrefixCandidateCount, FoldLeft, MapThenFoldSet
<1>5. \A i \in 1 .. n : Count(i) = Cap(Cardinality(Within(i)))
  BY <1>2, <1>3, CountIsCardinality
<1>6. \A i : IsFiniteSet(Within(i)) /\ Cardinality(Within(i)) \in Nat
  BY FreeIsFinite
<1>7. \A t : IsFiniteSet(Part(t)) /\ Cardinality(Part(t)) \in Nat
  <2> SUFFICES ASSUME NEW t PROVE IsFiniteSet(Part(t)) /\ Cardinality(Part(t)) \in Nat
    OBVIOUS
  <2>1. Part(t) \in SUBSET FreeIn(S, target, blocked)
    OBVIOUS
  <2>2. IsFiniteSet(FreeIn(S, target, blocked))
    BY FreeIsFinite
  <2> HIDE DEF Part
  <2> QED
    BY <2>1, <2>2, FS_Subset, FS_CardinalityType
<1>8. ASSUME NEW i \in 1 .. n PROVE Within(i) \subseteq FreeIn(S, target, blocked)
  BY <1>3 DEF FreeIn
<1>9. ASSUME NEW i \in 1 .. n, NEW j \in 1 .. n, i # j PROVE Within(i) \cap Within(j) = {}
  <2> SUFFICES ASSUME NEW q \in Within(i), q \in Within(j) PROVE FALSE
    OBVIOUS
  <2>1. q \in AllPrefixes /\ RangeOfPrefix(q) \subseteq RangeOfPrefix(A[i])
        /\ RangeOfPrefix(q) \subseteq RangeOfPrefix(A[j])
    BY DEF FreeIn
  <2>2. q.addr \in RangeOfPrefix(A[i]) /\ q.addr \in RangeOfPrefix(A[j]) /\ q.addr \in Nat
    BY <2>1, PrefixFacts, AddrsType
  <2>3. i < j \/ j < i
    BY <1>3, <1>9
  <2>4. q.addr < q.addr
    BY <1>3, <2>2, <2>3
  <2> QED
    BY <2>2, <2>4
<1>10. PICK C : C = [t \in SUBSET D |-> Cap(Cardinality(Part(t)))]
  OBVIOUS
<1>11. ASSUME NEW t \in SUBSET D PROVE C[t] = Body(C, t)
  <2>1. CASE t = {}
    <3>1. Part(t) = {}
      BY <2>1
    <3>2. Cap(0) = 0
      BY WidthAssumption DEF Cap
    <3> QED
      BY <1>10, <2>1, <3>1, <3>2, FS_EmptySet
  <2>2. CASE t # {}
    <3>1. PICK x, u : x = Max(t) /\ u = t \ {x}
      OBVIOUS
    <3>2. x \in t /\ t \subseteq 1 .. n /\ u \in SUBSET D
      <4>1. t \in SUBSET (1 .. n)
        BY <1>1
      <4>2. Max(t) \in t
        BY <1>3, <2>2, <4>1, LastOf
      <4> QED
        BY <3>1, <4>1, <4>2
    <3>3. Part(t) = Part(u) \cup Within(x)
      <4> HIDE DEF Within
      <4>1. ASSUME NEW q \in Part(t) PROVE q \in Part(u) \cup Within(x)
        BY <3>1
      <4>2. ASSUME NEW q \in Part(u) PROVE q \in Part(t)
        BY <3>1
      <4>3. ASSUME NEW q \in Within(x) PROVE q \in Part(t)
        BY <1>8, <3>2
      <4> HIDE DEF Part
      <4> QED
        BY <4>1, <4>2, <4>3
    <3>4. Part(u) \cap Within(x) = {}
      <4> HIDE DEF Within
      <4> SUFFICES ASSUME NEW i \in u, NEW q \in Within(i), q \in Within(x) PROVE FALSE
        OBVIOUS
      <4>1. i \in 1 .. n /\ x \in 1 .. n /\ i # x
        BY <3>1, <3>2
      <4> QED
        BY <1>9, <4>1
    <3>5. Cardinality(Part(t)) = Cardinality(Part(u)) + Cardinality(Within(x))
      <4> HIDE DEF Part, Within
      <4> QED
        BY <1>6, <1>7, <3>3, <3>4, ApartAddUp
    <3>6. C[t] = AddIntCapped(C[u], Count(x))
      <4>1. C[t] = Cap(Cardinality(Part(t))) /\ C[u] = Cap(Cardinality(Part(u)))
        BY <1>10, <3>2
      <4>2. Count(x) = Cap(Cardinality(Within(x)))
        BY <1>5, <3>2
      <4> HIDE DEF Part, Within, Count
      <4> QED
        BY <1>6, <1>7, <3>5, <4>1, <4>2, CappedSum
    <3> QED
      BY <2>2, <3>1, <3>6
  <2> QED
    BY <2>1, <2>2
<1>12. C = [t \in SUBSET D |-> Body(C, t)]
  BY <1>10, <1>11
<1>13. fold = [t \in SUBSET D |-> Body(fold, t)]
  BY <1>12
<1>14. PICK g : g = fold
  OBVIOUS
<1>15. \A t \in SUBSET D : g[t] = Body(g, t)
  BY <1>13, <1>14
<1> HIDE DEF fold, Count
<1>16. PICK K : K = {k \in Nat : k <= n => g[1 .. k] = C[1 .. k]}
  OBVIOUS
<1>17. 0 \in K
  <2>1. 1 .. 0 = {} /\ {} \in SUBSET D
    OBVIOUS
  <2> QED
    BY <1>11, <1>15, <1>16, <2>1
<1>18. ASSUME NEW k \in Nat, k \in K PROVE k + 1 \in K
  <2> SUFFICES ASSUME k + 1 <= n PROVE g[1 .. k + 1] = C[1 .. k + 1]
    BY <1>16
  <2>1. g[1 .. k] = C[1 .. k]
    BY <1>3, <1>16, <1>18
  <2>2. 1 .. k + 1 \in SUBSET D /\ 1 .. k + 1 # {}
    BY <1>1, <1>3
  <2>3. Max(1 .. k + 1) = k + 1 /\ (1 .. k + 1) \ {k + 1} = 1 .. k
    BY <1>3, LastOf
  <2>4. ASSUME NEW h, \A t \in SUBSET D : h[t] = Body(h, t)
        PROVE  h[1 .. k + 1] = AddIntCapped(h[1 .. k], Count(k + 1))
    <3>1. h[1 .. k + 1] = Body(h, 1 .. k + 1)
      BY <2>2, <2>4
    <3> QED
      BY <2>2, <2>3, <3>1
  <2> QED
    BY <1>11, <1>15, <2>1, <2>4
<1>19. n \in K
  BY <1>3, <1>17, <1>18, Induct
<1>20. fold[D] = Cap(Cardinality(Part(1 .. n)))
  BY <1>1, <1>3, <1>10, <1>14, <1>16, <1>19
<1>21. Part(1 .. n) = FreeIn(S, target, blocked)
  BY <1>3 DEF FreeIn
<1> QED
  BY <1>1, <1>4, <1>20, <1>21

-----------------------------------------------------------------------------
(* What a spec allows.                                                     *)

(* Candidates are the prefixes of the pool that are not excluded.          *)
LEMMA CandidatesAre ==
    /\ Candidates = FreeIn(PrefixesToIPSet(spec.prefixes),
                           EffectiveAllocationPrefixLength(spec.length),
                           BlockedIPSet(spec, {}))
    /\ Untouched = FreeIn(PrefixesToIPSet(spec.prefixes),
                          EffectiveAllocationPrefixLength(spec.length),
                          BlockedIPSet(spec, InUse))
    /\ \A p \in AllPrefixes : PrefixIsAllocatable(p, spec) <=> p \in Candidates
<1>1. PICK S, target, F, G :
          /\ S = PrefixesToIPSet(spec.prefixes)
          /\ target = EffectiveAllocationPrefixLength(spec.length)
          /\ F = FreeIn(S, target, BlockedIPSet(spec, {}))
          /\ G = FreeIn(S, target, BlockedIPSet(spec, InUse))
  OBVIOUS
<1>2. \A p \in AllPrefixes : p \in F <=>
        /\ p.bits = target /\ RangeOfPrefix(p) \subseteq S
        /\ \A ip \in RangeOfPrefix(p) : \A x \in spec.excluded : ip \notin x
  BY <1>1 DEF FreeIn, BlockedIPSet
<1>3. ASSUME NEW p \in AllPrefixes PROVE p \in F <=> p \in Candidates
  <2>1. CASE \A q \in spec.prefixes : q = Masked(q)
    <3>1. S = UNION {RangeOfPrefix(q) : q \in spec.prefixes}
      BY <1>1, <2>1 DEF PrefixesToIPSet
    <3>2. RangeOfPrefix(p) \subseteq S <=>
            \A ip \in RangeOfPrefix(p) : \E q \in spec.prefixes : ip \in RangeOfPrefix(q)
      BY <3>1
    <3> QED
      BY <1>1, <1>2, <2>1, <3>2 DEF Candidates
  <2>2. CASE ~(\A q \in spec.prefixes : q = Masked(q))
    <3>1. S = {}
      BY <1>1, <2>2 DEF PrefixesToIPSet
    <3>2. ~(RangeOfPrefix(p) \subseteq S)
      BY <3>1, PrefixFacts
    <3> QED
      BY <1>2, <2>2, <3>2 DEF Candidates
  <2> QED
    BY <2>1, <2>2
<1>4. F = Candidates
  BY <1>1, <1>3 DEF FreeIn, Candidates
<1>5. G = Untouched
  <2>1. ASSUME NEW p \in AllPrefixes
        PROVE  p \in G <=> p \in F /\ \A q \in held : RangeOfPrefix(p) \cap RangeOfPrefix(q) = {}
    <3>1. RangeOfPrefix(p) \cap InUse = {} <=>
            \A q \in held : RangeOfPrefix(p) \cap RangeOfPrefix(q) = {}
      BY DEF InUse
    <3>2. RangeOfPrefix(p) \cap BlockedIPSet(spec, InUse) = {} <=>
            /\ RangeOfPrefix(p) \cap BlockedIPSet(spec, {}) = {}
            /\ RangeOfPrefix(p) \cap InUse = {}
      BY DEF BlockedIPSet
    <3> QED
      BY <1>1, <3>1, <3>2 DEF FreeIn
  <2>2. G \subseteq AllPrefixes /\ F \subseteq AllPrefixes
    BY <1>1 DEF FreeIn
  <2> QED
    BY <1>4, <2>1, <2>2 DEF Untouched
<1>6. ASSUME NEW p \in AllPrefixes PROVE PrefixIsAllocatable(p, spec) <=> p \in F
  BY <1>1 DEF PrefixIsAllocatable, ContainsPrefix, OverlapsPrefix, FreeIn
<1> QED
  BY <1>1, <1>4, <1>5, <1>6

-----------------------------------------------------------------------------
(* The pool.                                                               *)

(* The inductive invariant: what is held consists of prefixes apart from   *)
(* each other, which the spec allows as long as the webhook validates.     *)
PoolInv ==
    /\ spec \in PrefixPoolSpec
    /\ held \in SUBSET AllPrefixes
    /\ Disjoint
    /\ HeldAllocatable

(* The invariant holds: EnsureAddress adds a prefix that touches nothing   *)
(* in use, and ValidateUpdate accepts only specs that allow what is held.  *)
LEMMA PoolInvariant == Spec => []PoolInv
<1>1. Init => PoolInv
  BY SpecsAssumption DEF Init, PoolInv, Disjoint, HeldAllocatable
<1>2. PoolInv /\ [Next]_vars => PoolInv'
  <2> SUFFICES ASSUME PoolInv, [Next]_vars PROVE PoolInv'
    OBVIOUS
  <2>1. spec \in PrefixPoolSpec /\ held \in SUBSET AllPrefixes
    BY DEF PoolInv
  <2>2. CASE EnsureAddress
    <3>1. PICK p \in FindFreePrefix(spec, InUse) : held' = held \cup {p}
      BY <2>2 DEF EnsureAddress
    <3>2. UNCHANGED <<webhook, spec>>
      BY <2>2 DEF EnsureAddress
    <3>3. p \in Untouched
      BY <2>1, FindsLowest, CandidatesAre DEF Lowest
    <3>4. /\ p \in Candidates /\ p \in AllPrefixes
          /\ \A q \in held : RangeOfPrefix(p) \cap RangeOfPrefix(q) = {}
      BY <3>3 DEF Untouched, Candidates
    <3>5. held' \in SUBSET AllPrefixes
      BY <2>1, <3>1, <3>4
    <3>6. Disjoint'
      BY <3>1, <3>4 DEF PoolInv, Disjoint
    <3>7. Candidates' = Candidates
      BY <3>2 DEF Candidates
    <3>8. HeldAllocatable'
      BY <3>1, <3>2, <3>4, <3>7 DEF PoolInv, HeldAllocatable
    <3> QED
      BY <2>1, <3>2, <3>5, <3>6, <3>8 DEF PoolInv
  <2>3. ASSUME NEW p \in held, ReleaseAddress(p) PROVE PoolInv'
    <3>1. held' = held \ {p} /\ UNCHANGED <<webhook, spec>>
      BY <2>3 DEF ReleaseAddress
    <3>2. Candidates' = Candidates
      BY <3>1 DEF Candidates
    <3> QED
      BY <2>1, <3>1, <3>2 DEF PoolInv, Disjoint, HeldAllocatable
  <2>4. ASSUME NEW new \in Specs, UpdateSpec(new) PROVE PoolInv'
    <3>1. spec' = new /\ UNCHANGED <<webhook, held>>
      BY <2>4 DEF UpdateSpec
    <3>2. spec' \in PrefixPoolSpec
      BY <3>1, SpecsAssumption
    <3>3. (\A p \in AllPrefixes : PrefixIsAllocatable(p, spec) <=> p \in Candidates)'
      BY CandidatesAre, PTL
    <3>4. HeldAllocatable'
      <4> SUFFICES ASSUME webhook', NEW p \in held' PROVE p \in Candidates'
        BY DEF HeldAllocatable
      <4>1. PrefixIsAllocatable(p, spec')
        BY <2>4, <3>1 DEF UpdateSpec, ValidateUpdate
      <4> QED
        BY <2>1, <3>1, <3>3, <4>1
    <3> QED
      BY <2>1, <3>1, <3>2, <3>4 DEF PoolInv, Disjoint
  <2>5. CASE UNCHANGED vars
    BY <2>5 DEF vars, PoolInv, Disjoint, HeldAllocatable, Candidates
  <2> QED
    BY <2>2, <2>3, <2>4, <2>5 DEF Next
<1> QED
  BY <1>1, <1>2, PTL DEF Spec

(* Prefixes that EnsureAddress allocates never overlap, whatever the users *)
(* make of the pool's spec in between.                                     *)
THEOREM HeldApart == Spec => []Disjoint
<1>1. PoolInv => Disjoint
  BY DEF PoolInv
<1> QED
  BY <1>1, PoolInvariant, PTL

(* With ValidateUpdate in place, every allocated prefix stays allocatable. *)
THEOREM HeldStaysAllocatable == Spec => []HeldAllocatable
<1>1. PoolInv => HeldAllocatable
  BY DEF PoolInv
<1> QED
  BY <1>1, PoolInvariant, PTL

(* FindFreePrefix, with its recursion over halves and its loop over        *)
(* aggregates, finds the lowest candidate that touches nothing in use.     *)
THEOREM LowestFreePrefix == Spec => []FirstFit
<1>1. PoolInv => FirstFit
  BY FindsLowest, CandidatesAre DEF PoolInv, FirstFit, Lowest
<1> QED
  BY <1>1, PoolInvariant, PTL

(* PrefixCandidateCount is the number of candidates, up to MaxInt, and the *)
(* webhook's PrefixIsAllocatable tells exactly the candidates.             *)
THEOREM CandidateCount == Spec => []CountsAgree
<1>1. PoolInv => CountsAgree
  BY CountsAll, CandidatesAre DEF PoolInv, CountsAgree, Cap
<1> QED
  BY <1>1, PoolInvariant, PTL

(* The free count of genericPrefixReconcile is the number of prefixes that *)
(* claims can still get, as long as the webhook validates.                 *)
THEOREM FreeCount == Spec => []FreeIsUntouched
<1>1. PoolInv => FreeIsUntouched
  <2> SUFFICES ASSUME PoolInv, webhook, Cardinality(Candidates) <= MaxInt
               PROVE  Free = Cardinality(Untouched)
    BY DEF FreeIsUntouched
  <2>1. /\ spec \in PrefixPoolSpec /\ held \in SUBSET AllPrefixes /\ held \subseteq Candidates
    BY DEF PoolInv, HeldAllocatable
  <2>2. PrefixCandidateCount(spec) = Cardinality(Candidates)
    BY <2>1, CountsAll, CandidatesAre DEF Cap
  <2>3. OutOfRange = 0
    <3>1. {p \in held : ~PrefixIsAllocatable(p, spec)} = {}
      BY <2>1, CandidatesAre
    <3> QED
      BY <3>1, FS_EmptySet DEF OutOfRange
  <2>4. Untouched = Candidates \ held
    <3>1. \A p \in Candidates : /\ p \in AllPrefixes /\ p.addr \in RangeOfPrefix(p)
                                /\ p.bits = EffectiveAllocationPrefixLength(spec.length)
      BY PrefixFacts DEF Candidates
    <3>2. ASSUME NEW p \in Candidates, NEW q \in held, p # q
          PROVE  RangeOfPrefix(p) \cap RangeOfPrefix(q) = {}
      BY <2>1, <3>1, <3>2, SameBlock
    <3> QED
      BY <3>1, <3>2 DEF Untouched
  <2>5. IsFiniteSet(Candidates) /\ Cardinality(Candidates) \in Nat
    BY <2>1, CandidatesAre, FreeIsFinite
  <2>6. Candidates \cap held = held
    BY <2>1
  <2>7. Cardinality(Untouched) = Cardinality(Candidates) - Cardinality(held)
    <3>1. PICK C, H : C = Candidates /\ H = held
      OBVIOUS
    <3>2. Cardinality(C \ H) = Cardinality(C) - Cardinality(C \cap H)
      BY <2>5, <3>1, FS_Difference
    <3> QED
      BY <2>4, <2>6, <3>1, <3>2
  <2>8. Cardinality(held) \in Nat /\ Cardinality(held) <= Cardinality(Candidates)
    BY <2>1, <2>5, FS_Subset, FS_CardinalityType
  <2> QED
    BY <2>2, <2>3, <2>5, <2>7, <2>8 DEF Free
<1> QED
  BY <1>1, PoolInvariant, PTL

=============================================================================
