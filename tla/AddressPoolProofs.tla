-------------------------- MODULE AddressPoolProofs --------------------------
(***************************************************************************)
(* Proofs about AddressPool, for addresses of any width, any specs that    *)
(* users write and any MaxInt: the loops over the ranges of a set find the *)
(* lowest free address and count them all, and a valid spec allows what    *)
(* the reference allows, address by address.                               *)
(*                                                                         *)
(* A recursive function is shown to be what it is meant to compute in two  *)
(* steps.  The intended result satisfies the equation of the function, so  *)
(* there is a function that does; and whatever satisfies the equation is   *)
(* the intended result, by induction along the loop.                       *)
(***************************************************************************)
EXTENDS AddressPool, IPSetsProofs

-----------------------------------------------------------------------------
(* The search.                                                             *)

(* The lowest of some addresses, if there is one.                          *)
Lowest(S) == IF S = {} THEN {} ELSE {Min(S)}

(* The walk through a range finds its lowest address not in use.           *)
LEMMA WalkFindsLowest ==
    ASSUME NEW r, r.from \in Nat, r.to \in Nat, r.from <= r.to, NEW U
    PROVE  FindFreeInRange(r, U) = Lowest((r.from .. r.to) \ U)
<1>1. PICK a, b : a = r.from /\ b = r.to
  OBVIOUS
<1>2. a \in Nat /\ b \in Nat /\ a <= b
  BY <1>1
<1> DEFINE Body(w, ip) == IF ip \notin U THEN {ip} ELSE IF ip = b THEN {} ELSE w[ip + 1]
           walk == CHOOSE w : w = [ip \in a .. b |-> Body(w, ip)]
<1>3. FindFreeInRange(r, U) = walk[a]
  BY <1>1 DEF FindFreeInRange
<1>4. PICK C : C = [ip \in a .. b |-> Lowest((ip .. b) \ U)]
  OBVIOUS
<1>5. ASSUME NEW ip \in a .. b PROVE C[ip] = Body(C, ip)
  <2>1. C[ip] = Lowest((ip .. b) \ U) /\ ip \in Nat
    BY <1>2, <1>4
  <2>2. CASE ip \notin U
    <3>1. /\ (ip .. b) \ U \subseteq Nat /\ ip \in (ip .. b) \ U
          /\ \A y \in (ip .. b) \ U : ip <= y
      BY <1>2, <2>1, <2>2
    <3>2. Min((ip .. b) \ U) = ip
      BY <3>1, MinIs
    <3> QED
      BY <2>1, <2>2, <3>1, <3>2 DEF Lowest
  <2>3. CASE ip \in U /\ ip = b
    <3>1. (ip .. b) \ U = {}
      BY <1>2, <2>3
    <3> QED
      BY <2>1, <2>3, <3>1 DEF Lowest
  <2>4. CASE ip \in U /\ ip # b
    <3>1. ip + 1 \in a .. b
      BY <1>2, <2>4
    <3>2. (ip .. b) \ U = (ip + 1 .. b) \ U
      BY <1>2, <2>1, <2>4
    <3>3. C[ip + 1] = Lowest((ip + 1 .. b) \ U)
      BY <1>4, <3>1
    <3> QED
      BY <2>1, <2>4, <3>2, <3>3
  <2> QED
    BY <2>2, <2>3, <2>4
<1>6. C = [ip \in a .. b |-> Body(C, ip)]
  BY <1>4, <1>5
<1>7. walk = [ip \in a .. b |-> Body(walk, ip)]
  BY <1>6
<1>8. PICK g : g = walk
  OBVIOUS
<1>9. \A ip \in a .. b : g[ip] = Body(g, ip)
  BY <1>7, <1>8
<1> HIDE DEF walk
<1>10. PICK K : K = {k \in Nat : k <= b - a => g[b - k] = C[b - k]}
  OBVIOUS
<1>11. 0 \in K
  <2>1. b - 0 = b /\ b \in a .. b
    BY <1>2
  <2> QED
    BY <1>5, <1>9, <1>10, <2>1
<1>12. ASSUME NEW k \in Nat, k \in K PROVE k + 1 \in K
  <2> SUFFICES ASSUME k + 1 <= b - a PROVE g[b - (k + 1)] = C[b - (k + 1)]
    BY <1>10
  <2>1. g[b - k] = C[b - k]
    BY <1>2, <1>10, <1>12
  <2>2. b - (k + 1) \in a .. b /\ (b - (k + 1)) + 1 = b - k /\ b - (k + 1) # b
    BY <1>2
  <2>3. g[b - (k + 1)] = Body(g, b - (k + 1)) /\ C[b - (k + 1)] = Body(C, b - (k + 1))
    BY <1>5, <1>9, <2>2
  <2> QED
    BY <2>1, <2>2, <2>3
<1>13. b - a \in Nat /\ b - a <= b - a /\ b - (b - a) = a /\ a \in a .. b
  BY <1>2
<1>14. b - a \in K
  BY <1>11, <1>12, <1>13, Induct
<1>15. g[a] = C[a]
  BY <1>10, <1>13, <1>14
<1> QED
  BY <1>1, <1>3, <1>4, <1>8, <1>13, <1>15

(* FindFreeAddress finds the lowest address of the pool not in use.        *)
LEMMA SearchFindsLowest ==
    ASSUME NEW S, S \subseteq Addrs, NEW U
    PROVE  FindFreeAddress(S, U) = Lowest(S \ U)
<1>1. PICK R, n : R = Ranges(S) /\ n = Cardinality(MaximalRanges(S))
  OBVIOUS
<1>2. /\ n \in Nat /\ R \in [1 .. n -> MaximalRanges(S)]
      /\ \A i, j \in 1 .. n : i < j => R[i].to < R[j].from
      /\ \A ip \in S : \E i \in 1 .. n : ip \in R[i].from .. R[i].to
  BY <1>1, RangesFacts
<1>3. \A i \in 1 .. n : /\ R[i].from \in Nat /\ R[i].to \in Nat /\ R[i].from <= R[i].to
                        /\ R[i].from .. R[i].to \subseteq S
  BY <1>2, RangeFacts
<1>4. PICK res : res = [i \in 1 .. n |-> FindFreeInRange(R[i], U)]
  OBVIOUS
<1>5. FindFreeAddress(S, U) = FirstFound(res) /\ DOMAIN res = 1 .. n
  BY <1>1, <1>2, <1>4 DEF FindFreeAddress
<1>6. \A i \in 1 .. n : res[i] = Lowest((R[i].from .. R[i].to) \ U)
  BY <1>3, <1>4, WalkFindsLowest
<1>7. CASE S \ U = {}
  <2>1. \A i \in 1 .. n : (R[i].from .. R[i].to) \ U = {}
    BY <1>3, <1>7
  <2>2. \A i \in 1 .. n : res[i] = {}
    BY <1>6, <2>1 DEF Lowest
  <2> QED
    BY <1>2, <1>5, <1>7, <2>2, FirstFoundFacts DEF Lowest
<1>8. CASE S \ U # {}
  <2>1. S \ U \subseteq Nat
    BY AddrsType
  <2>2. PICK m : m = Min(S \ U)
    OBVIOUS
  <2>3. m \in S \ U /\ m \in Nat /\ \A y \in S \ U : m <= y
    BY <1>8, <2>1, <2>2, MinIsLeast
  <2>4. PICK i \in 1 .. n : m \in R[i].from .. R[i].to
    BY <1>2, <2>3
  <2>5. res[i] = {m}
    <3>1. PICK free : free = (R[i].from .. R[i].to) \ U
      OBVIOUS
    <3>2. m \in free /\ free \subseteq S \ U /\ free \subseteq Nat
      BY <1>3, <2>1, <2>3, <2>4, <3>1
    <3>3. Min(free) = m
      BY <2>3, <3>2, MinIs
    <3> QED
      BY <1>6, <3>1, <3>2, <3>3 DEF Lowest
  <2>6. ASSUME NEW j \in 1 .. n, j < i PROVE res[j] = {}
    <3>1. R[j].to < R[i].from /\ R[i].from <= m /\ R[j].to \in Nat /\ R[i].from \in Nat
      BY <1>2, <1>3, <2>3, <2>4, <2>6
    <3>2. ASSUME NEW y \in (R[j].from .. R[j].to) \ U PROVE FALSE
      <4>1. y \in S \ U /\ y <= R[j].to /\ y \in Nat
        BY <1>3, <2>1
      <4>2. m <= y
        BY <2>3, <4>1
      <4> QED
        BY <2>3, <3>1, <4>1, <4>2
    <3>3. (R[j].from .. R[j].to) \ U = {}
      BY <3>2
    <3> QED
      BY <1>6, <3>3 DEF Lowest
  <2>7. FirstFound(res) = res[i]
    BY <1>2, <1>5, <2>5, <2>6, FirstFoundFacts
  <2> QED
    BY <1>5, <1>8, <2>2, <2>5, <2>7 DEF Lowest
<1> QED
  BY <1>7, <1>8

-----------------------------------------------------------------------------
(* The count.                                                              *)

(* IPSetCount is the number of addresses, up to MaxInt.                    *)
LEMMA CountIsCardinality ==
    ASSUME NEW S, S \subseteq Addrs
    PROVE  IPSetCount(S) = IF Cardinality(S) <= MaxInt THEN Cardinality(S) ELSE MaxInt
<1>1. PICK R, n, D : /\ R = Ranges(S) /\ n = Cardinality(MaximalRanges(S))
                     /\ D = 1 .. n
  OBVIOUS
<1>2. /\ n \in Nat /\ R \in [1 .. n -> MaximalRanges(S)]
      /\ \A i, j \in 1 .. n : i < j => R[i].to < R[j].from
      /\ \A ip \in S : \E i \in 1 .. n : ip \in R[i].from .. R[i].to
  BY <1>1, RangesFacts
<1>3. \A i \in 1 .. n : /\ R[i].from \in Nat /\ R[i].to \in Nat /\ R[i].from <= R[i].to
                        /\ R[i].from .. R[i].to \subseteq S
  BY <1>2, RangeFacts
<1> DEFINE Body(it, t) ==
               IF t = {} THEN 0
               ELSE it[t \ {Max(t)}] + (R[Max(t)].to - R[Max(t)].from) + 1
           fold == CHOOSE it : it = [t \in SUBSET D |-> Body(it, t)]
           Part(t) == {ip \in S : \E i \in t : ip \in R[i].from .. R[i].to}
<1>4. IPSetCount(S) = IF fold[D] <= MaxInt THEN fold[D] ELSE MaxInt
  <2>1. DOMAIN R = D
    BY <1>1, <1>2
  <2> QED
    BY <1>1, <2>1 DEF IPSetCount, FoldLeft, MapThenFoldSet
<1>5. PICK C : C = [t \in SUBSET D |-> Cardinality(Part(t))]
  OBVIOUS
<1>6. \A t \in SUBSET D : IsFiniteSet(Part(t))
  <2>1. IsFiniteSet(S)
    BY FinitelyManyPrefixes, FS_Subset
  <2>2. ASSUME NEW t \in SUBSET D PROVE IsFiniteSet(Part(t))
    <3>1. Part(t) \in SUBSET S
      OBVIOUS
    <3> QED
      BY <2>1, <3>1, FS_Subset
  <2> QED
    BY <2>2
<1>7. ASSUME NEW t \in SUBSET D PROVE C[t] = Body(C, t)
  <2>1. CASE t = {}
    <3>1. Part(t) = {}
      BY <2>1
    <3> QED
      BY <1>5, <2>1, <3>1, FS_EmptySet
  <2>2. CASE t # {}
    <3>1. PICK x, u, a, b : x = Max(t) /\ u = t \ {x} /\ a = R[x].from /\ b = R[x].to
      OBVIOUS
    <3>2. x \in t /\ t \subseteq 1 .. n /\ u \in SUBSET D
      <4>1. t \in SUBSET (1 .. n)
        BY <1>1
      <4>2. Max(t) \in t
        BY <1>2, <2>2, <4>1, LastOf
      <4> QED
        BY <3>1, <4>1, <4>2
    <3>3. a \in Nat /\ b \in Nat /\ a <= b /\ a .. b \subseteq S
      BY <1>3, <3>1, <3>2
    <3>4. Part(t) = Part(u) \cup (a .. b)
      <4>1. ASSUME NEW ip \in Part(t) PROVE ip \in Part(u) \cup (a .. b)
        <5>1. PICK i \in t : ip \in R[i].from .. R[i].to
          OBVIOUS
        <5>2. CASE i = x
          BY <3>1, <5>1, <5>2
        <5>3. CASE i # x
          BY <3>1, <5>1, <5>3
        <5> QED
          BY <5>2, <5>3
      <4>2. ASSUME NEW ip \in Part(u) PROVE ip \in Part(t)
        BY <3>1
      <4>3. ASSUME NEW ip \in a .. b PROVE ip \in Part(t)
        <5>1. ip \in S /\ x \in t /\ ip \in R[x].from .. R[x].to
          BY <3>1, <3>2, <3>3
        <5> QED
          BY <5>1
      <4> HIDE DEF Part
      <4> QED
        BY <4>1, <4>2, <4>3
    <3>5. Part(u) \cap (a .. b) = {}
      <4> SUFFICES ASSUME NEW i \in u, NEW ip \in R[i].from .. R[i].to, ip \in a .. b
                   PROVE  FALSE
        OBVIOUS
      <4>1. i \in 1 .. n /\ x \in 1 .. n /\ i # x
        BY <3>1, <3>2
      <4>2. i < x \/ x < i
        BY <1>2, <4>1
      <4>3. R[i].to < a \/ b < R[i].from
        BY <1>2, <3>1, <4>1, <4>2
      <4>4. R[i].from \in Nat /\ R[i].to \in Nat /\ ip \in Nat
        BY <1>3, <3>3, <4>1
      <4> QED
        BY <3>3, <4>3, <4>4
    <3>6. IsFiniteSet(a .. b) /\ Cardinality(a .. b) = b - a + 1
      BY <3>3, FS_Interval
    <3>7. IsFiniteSet(Part(u)) /\ Cardinality(Part(u)) \in Nat
      BY <1>6, <3>2, FS_CardinalityType
    <3>8. Cardinality(Part(t)) = Cardinality(Part(u)) + Cardinality(a .. b)
      <4> HIDE DEF Part
      <4> QED
        BY <3>4, <3>5, <3>6, <3>7, ApartAddUp
    <3>9. Cardinality(Part(t)) = Cardinality(Part(u)) + (b - a) + 1
      BY <3>3, <3>6, <3>7, <3>8
    <3>10. C[t] = Cardinality(Part(t)) /\ C[u] = Cardinality(Part(u))
      BY <1>5, <3>2
    <3>11. C[t] = C[u] + (b - a) + 1
      BY <3>9, <3>10
    <3> QED
      BY <2>2, <3>1, <3>11
  <2> QED
    BY <2>1, <2>2
<1>8. C = [t \in SUBSET D |-> Body(C, t)]
  BY <1>5, <1>7
<1>9. fold = [t \in SUBSET D |-> Body(fold, t)]
  BY <1>8
<1>10. PICK g : g = fold
  OBVIOUS
<1>11. \A t \in SUBSET D : g[t] = Body(g, t)
  BY <1>9, <1>10
<1> HIDE DEF fold
<1>12. PICK K : K = {k \in Nat : k <= n => g[1 .. k] = C[1 .. k]}
  OBVIOUS
<1>13. 0 \in K
  <2>1. 1 .. 0 = {} /\ {} \in SUBSET D
    OBVIOUS
  <2> QED
    BY <1>7, <1>11, <1>12, <2>1
<1>14. ASSUME NEW k \in Nat, k \in K PROVE k + 1 \in K
  <2> SUFFICES ASSUME k + 1 <= n PROVE g[1 .. k + 1] = C[1 .. k + 1]
    BY <1>12
  <2>1. g[1 .. k] = C[1 .. k]
    BY <1>2, <1>12, <1>14
  <2>2. 1 .. k + 1 \in SUBSET D /\ 1 .. k + 1 # {}
    BY <1>1, <1>2
  <2>3. Max(1 .. k + 1) = k + 1 /\ (1 .. k + 1) \ {k + 1} = 1 .. k
    BY <1>2, LastOf
  <2>4. ASSUME NEW h, \A t \in SUBSET D : h[t] = Body(h, t)
        PROVE  h[1 .. k + 1] = h[1 .. k] + (R[k + 1].to - R[k + 1].from) + 1
    <3>1. h[1 .. k + 1] = Body(h, 1 .. k + 1)
      BY <2>2, <2>4
    <3> QED
      BY <2>2, <2>3, <3>1
  <2> QED
    BY <1>7, <1>11, <2>1, <2>4
<1>15. n \in K
  BY <1>2, <1>13, <1>14, Induct
<1>16. fold[D] = Cardinality(Part(1 .. n))
  BY <1>1, <1>2, <1>5, <1>10, <1>12, <1>15
<1>17. Part(1 .. n) = S
  BY <1>2
<1> QED
  BY <1>4, <1>16, <1>17

-----------------------------------------------------------------------------
(* What a spec allows.                                                     *)

(* An entry that parses has some addresses, those that it covers.          *)
LEMMA EntryCovers ==
    ASSUME NEW e \in Entry, Parses(e)
    PROVE  /\ AddressToIPSet(e) = {ip \in Addrs : Covers(e, ip)}
           /\ AddressToIPSet(e) # {}
<1>1. CASE e.kind = "range"
  <2>1. e.from \in Addrs /\ e.to \in Addrs /\ e.from <= e.to /\ e.from \in Nat
    BY <1>1, AddrsType DEF Entry, Parses
  <2>2. AddressToIPSet(e) = e.from .. e.to
    BY <1>1 DEF AddressToIPSet
  <2>3. \A ip \in Addrs : Covers(e, ip) <=> e.from <= ip /\ ip <= e.to
    BY <1>1 DEF Covers
  <2>4. e.from .. e.to \subseteq Addrs /\ e.from \in e.from .. e.to
    BY <2>1, AddrsType DEF Addrs
  <2>5. \A ip \in Addrs : ip \in e.from .. e.to <=> e.from <= ip /\ ip <= e.to
    BY <2>1, AddrsType
  <2> QED
    BY <2>2, <2>3, <2>4, <2>5
<1>2. CASE e.kind = "cidr"
  <2>1. e.from \in Addrs /\ e.to \in 0 .. Width
    BY <1>2 DEF Entry, Parses
  <2>2. AddressToIPSet(e) = RangeOfPrefix(PrefixFrom(e.from, e.to))
    BY <1>2 DEF AddressToIPSet
  <2>3. \A ip \in Addrs : Covers(e, ip) <=> ip \div Size(e.to) = e.from \div Size(e.to)
    BY <1>2 DEF Covers, Size
  <2>4. AddressToIPSet(e) \subseteq Addrs /\ e.from \in AddressToIPSet(e)
    BY <2>1, <2>2, MaskedFacts
  <2>5. \A ip \in Addrs : ip \in AddressToIPSet(e) <=> Covers(e, ip)
    BY <2>1, <2>2, <2>3, BlockMembers
  <2> QED
    BY <2>4, <2>5
<1>3. CASE e.kind = "addr"
  <2>1. e.from \in Addrs
    BY <1>3 DEF Entry
  <2>2. AddressToIPSet(e) = {e.from} /\ \A ip \in Addrs : Covers(e, ip) <=> ip = e.from
    BY <1>3 DEF AddressToIPSet, Covers
  <2> QED
    BY <2>1, <2>2
<1> QED
  BY <1>1, <1>2, <1>3 DEF Entry

(* So do several.                                                          *)
LEMMA EntriesCover ==
    ASSUME NEW entries \in SUBSET Entry, \A e \in entries : Parses(e)
    PROVE  AddressesToIPSet(entries) = {ip \in Addrs : \E e \in entries : Covers(e, ip)}
<1>1. \A e \in entries : AddressToIPSet(e) = {ip \in Addrs : Covers(e, ip)}
  BY EntryCovers
<1>2. \A ip : ip \in AddressesToIPSet(entries) <=> \E e \in entries : ip \in AddressToIPSet(e)
  BY DEF AddressesToIPSet
<1> QED
  BY <1>1, <1>2

(* The subnet of a valid spec begins and ends with a reserved address, and *)
(* has no other.                                                           *)
LEMMA SubnetReserved ==
    ASSUME NEW s \in PoolSpec, Validate(s)
    PROVE  /\ AddressesToIPSet(s.addresses) \subseteq SubnetOf(s)
           /\ LET size == Size(s.prefix) IN
              \A ip \in SubnetOf(s) : /\ ip % size = 0 <=> ip = Min(SubnetOf(s))
                                      /\ ip % size = size - 1 <=> ip = Max(SubnetOf(s))
<1>1. PICK A, low, b : /\ A = AddressesToIPSet(s.addresses) /\ low = Min(A)
                       /\ b = s.prefix
  OBVIOUS
<1>2. /\ s.addresses # {} /\ b \in 0 .. Width
      /\ \A e \in s.addresses : Parses(e) /\ AddressToIPSet(e) \subseteq SubnetOf(s)
  BY <1>1 DEF Validate
<1>3. s.addresses \in SUBSET Entry
  BY DEF PoolSpec
<1>4. A \subseteq Addrs /\ A # {}
  <2>1. A \subseteq Addrs
    BY <1>1, <1>2, <1>3, EntriesCover
  <2>2. PICK e \in s.addresses : TRUE
    BY <1>2
  <2>3. AddressToIPSet(e) # {}
    BY <1>2, <1>3, EntryCovers
  <2> QED
    BY <1>1, <2>1, <2>3 DEF AddressesToIPSet
<1>5. low \in Addrs
  BY <1>1, <1>4, AddrsType, MinIsLeast
<1>6. PICK n, k : n = Size(b) /\ k = low \div n
  OBVIOUS
<1>7. /\ n \in Nat \ {0} /\ k \in Nat
      /\ SubnetOf(s) = k * n .. k * n + n - 1
  BY <1>1, <1>2, <1>5, <1>6, SizeType, MaskedFacts DEF SubnetOf
<1>8. PICK first, last : first = k * n /\ last = k * n + n - 1
  OBVIOUS
<1>9. first \in Nat /\ last \in Nat /\ first <= last /\ last = first + n - 1
  BY <1>7, <1>8
<1>10. Min(SubnetOf(s)) = first /\ Max(SubnetOf(s)) = last
  <2>1. first .. last \subseteq Nat /\ first \in first .. last /\ last \in first .. last
    BY <1>9
  <2>2. \A y \in first .. last : first <= y /\ y <= last
    BY <1>9
  <2> QED
    BY <1>7, <1>8, <2>1, <2>2, MinIs, MaxIs
<1>11. ASSUME NEW ip \in SubnetOf(s)
       PROVE  (ip % n = 0 <=> ip = first) /\ (ip % n = n - 1 <=> ip = last)
  <2>1. PICK r : r = ip - first
    OBVIOUS
  <2>2. r \in 0 .. n - 1 /\ ip = k * n + r /\ ip = first + r
    BY <1>7, <1>8, <1>9, <2>1
  <2>3. ip % n = r
    BY <1>7, <2>2, DivisionUnique
  <2> QED
    BY <1>7, <1>9, <2>2, <2>3
<1>12. A \subseteq SubnetOf(s)
  BY <1>1, <1>2 DEF AddressesToIPSet
<1> QED
  BY <1>1, <1>6, <1>10, <1>11, <1>12

(* The addresses of a valid spec are the ones that the reference allows.   *)
LEMMA PoolSetIsAllocatable ==
    ASSUME spec \in PoolSpec, Validate(spec)
    PROVE  PoolSpecToIPSet(spec) = Allocatable
<1>1. PICK A, X, net, size : /\ A = AddressesToIPSet(spec.addresses)
                             /\ X = AddressesToIPSet(spec.excluded)
                             /\ net = SubnetOf(spec) /\ size = Size(spec.prefix)
  OBVIOUS
<1>2. /\ A = {ip \in Addrs : \E e \in spec.addresses : Covers(e, ip)}
      /\ X = {ip \in Addrs : \E e \in spec.excluded : Covers(e, ip)}
  BY <1>1, EntriesCover DEF PoolSpec, Validate
<1>3. \A ip \in A : /\ ip % size = 0 <=> ip = Min(net)
                    /\ ip % size = size - 1 <=> ip = Max(net)
  BY <1>1, SubnetReserved
<1>4. \A ip \in A : Reserved(ip) <=> ip = Min(net) \/ (spec.v4 /\ ip = Max(net))
  BY <1>1, <1>3 DEF Reserved, Size
<1>5. PICK reserved : reserved = IF spec.allocateReserved THEN {}
                                 ELSE {Min(net)} \cup (IF spec.v4 THEN {Max(net)} ELSE {})
  OBVIOUS
<1>6. PoolSpecToIPSet(spec) = ((A \ X) \ reserved) \ spec.gateway
  BY <1>1, <1>5 DEF PoolSpecToIPSet
<1>7. \A ip \in A : ip \notin reserved <=> (spec.allocateReserved \/ ~Reserved(ip))
  BY <1>4, <1>5
<1>8. \A ip : ip \in PoolSpecToIPSet(spec) <=> ip \in Allocatable
  BY <1>2, <1>6, <1>7 DEF Allocatable
<1> QED
  BY <1>8

-----------------------------------------------------------------------------
(* The pool.                                                               *)

(* The stored spec is valid, and what is in use belongs to it: the updates *)
(* that the webhook admits keep what it was asked to keep.                 *)
PoolInv ==
    /\ spec \in PoolSpec /\ Validate(spec)
    /\ held \subseteq PoolSpecToIPSet(spec)

(* PoolInv is inductive.                                                   *)
LEMMA PoolInvariant == Spec => []PoolInv
<1>1. Init => PoolInv
  BY SpecsAssumption DEF Init, PoolInv
<1>2. PoolInv /\ [Next]_vars => PoolInv'
  <2> SUFFICES ASSUME PoolInv, [Next]_vars PROVE PoolInv'
    OBVIOUS
  <2>1. CASE EnsureAddress
    <3>1. PICK S : S = PoolSpecToIPSet(spec)
      OBVIOUS
    <3>2. PICK ip \in NextAddress : held' = held \cup {ip}
      BY <2>1 DEF EnsureAddress
    <3>3. S \subseteq Addrs
      BY <3>1, PoolSetIsAllocatable DEF PoolInv, Allocatable
    <3>4. NextAddress = Lowest(S \ (held \cup spec.gateway))
      BY <3>1, <3>3, SearchFindsLowest DEF NextAddress
    <3>5. ip \in S
      <4>1. S \ (held \cup spec.gateway) # {} /\ ip = Min(S \ (held \cup spec.gateway))
        BY <3>2, <3>4 DEF Lowest
      <4>2. S \ (held \cup spec.gateway) \subseteq Nat
        BY <3>3, AddrsType
      <4> QED
        BY <4>1, <4>2, MinIsLeast
    <3>6. spec' = spec
      BY <2>1 DEF EnsureAddress
    <3> QED
      BY <3>1, <3>2, <3>5, <3>6 DEF PoolInv
  <2>2. ASSUME NEW ip \in Addrs, ReleaseAddress(ip) PROVE PoolInv'
    BY <2>2 DEF ReleaseAddress, PoolInv
  <2>3. ASSUME NEW new \in Specs, UpdateSpec(new) PROVE PoolInv'
    BY <2>3, SpecsAssumption DEF UpdateSpec, ValidateUpdate, PoolInv
  <2>4. CASE UNCHANGED vars
    BY <2>4 DEF vars, PoolInv
  <2> QED
    BY <2>1, <2>2, <2>3, <2>4 DEF Next
<1> QED
  BY <1>1, <1>2, PTL DEF Spec

(* Neither the gateway nor an excluded or reserved address is ever in use, *)
(* through every change of the spec that ValidateUpdate admits.            *)
THEOREM NothingForbiddenHeld == Spec => []HeldAllocatable
<1>1. PoolInv => HeldAllocatable
  BY PoolSetIsAllocatable DEF PoolInv, HeldAllocatable
<1> QED
  BY <1>1, PoolInvariant, PTL

(* FindFreeAddress finds the lowest allocatable address that is free, and  *)
(* fails only if there is none.                                            *)
THEOREM LowestFreeAddress == Spec => []FirstFit
<1>1. PoolInv => FirstFit
  <2> SUFFICES ASSUME PoolInv PROVE FirstFit
    OBVIOUS
  <2>1. PoolSpecToIPSet(spec) = Allocatable /\ Allocatable \subseteq Addrs
    BY PoolSetIsAllocatable DEF PoolInv, Allocatable
  <2>2. NextAddress = Lowest(Allocatable \ (held \cup spec.gateway))
    BY <2>1, SearchFindsLowest DEF NextAddress
  <2>3. Allocatable \ (held \cup spec.gateway) = Allocatable \ held
    BY DEF Allocatable
  <2> QED
    BY <2>2, <2>3 DEF FirstFit, Lowest
<1> QED
  BY <1>1, PoolInvariant, PTL

(* The total of the status counts the allocatable addresses up to MaxInt,  *)
(* no allocated address is out of range, and the rest is free.             *)
THEOREM StatusCounts == Spec => []CountsAgree
<1>1. PoolInv => CountsAgree
  <2> SUFFICES ASSUME PoolInv PROVE CountsAgree
    OBVIOUS
  <2>1. PoolSpecToIPSet(spec) = Allocatable /\ Allocatable \subseteq Addrs
    BY PoolSetIsAllocatable DEF PoolInv, Allocatable
  <2>2. IsFiniteSet(Allocatable) /\ held \in SUBSET Allocatable
    BY <2>1, FinitelyManyPrefixes, FS_Subset DEF PoolInv
  <2>3. PICK count : count = Cardinality(Allocatable)
    OBVIOUS
  <2>4. count \in Nat /\ MaxInt \in Nat
    BY <2>2, <2>3, FS_CardinalityType, WidthAssumption
  <2>5. spec.gateway \cap Allocatable = {}
    BY DEF Allocatable
  <2>6. PoolCount(spec) = IF count <= MaxInt THEN count ELSE MaxInt
    <3>1. IPSetCount(Allocatable) = IF count <= MaxInt THEN count ELSE MaxInt
      BY <2>1, <2>3, CountIsCardinality
    <3>2. PoolCount(spec) = IPSetCount(Allocatable) - 0
      BY <2>1, <2>5 DEF PoolCount
    <3> QED
      BY <2>4, <3>1, <3>2
  <2>7. OutOfRange(spec, held) = 0
    <3>1. held \ PoolSpecToIPSet(spec) = {}
      BY DEF PoolInv
    <3>2. IPSetCount({}) = IF Cardinality({}) <= MaxInt THEN Cardinality({}) ELSE MaxInt
      BY CountIsCardinality
    <3> QED
      BY <2>4, <3>1, <3>2, FS_EmptySet DEF OutOfRange
  <2>8. Cardinality(Allocatable \ held) = count - Cardinality(held)
    <3>1. Allocatable \cap held = held
      BY <2>2
    <3> QED
      BY <2>2, <2>3, <3>1, FS_Difference
  <2> QED
    BY <2>3, <2>6, <2>7, <2>8 DEF CountsAgree, Free
<1> QED
  BY <1>1, PoolInvariant, PTL

=============================================================================
