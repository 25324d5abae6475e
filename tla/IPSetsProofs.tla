---------------------------- MODULE IPSetsProofs ----------------------------
(***************************************************************************)
(* Facts about IPSets, for addresses of any width: powers of two, the tree *)
(* of prefixes, the ranges and the prefixes that make up a set, sorting,   *)
(* and the loop that returns the first result found.                       *)
(*                                                                         *)
(* Induction takes the form of a least counterexample: a set of natural    *)
(* numbers that is not empty has a least element.                          *)
(***************************************************************************)
EXTENDS IPSets, FiniteSetTheorems, TLAPS

-----------------------------------------------------------------------------
(* Least and greatest numbers.                                             *)

(* A set of natural numbers that is not empty has a least element.         *)
LEMMA LeastNatural ==
    ASSUME NEW T, T \subseteq Nat, T # {}
    PROVE  \E x \in T : \A y \in T : x <= y
<1> DEFINE R == OpToRel(<, Nat)
<1>1. IsWellFoundedOn(R, Nat)
  BY NatLessThanWellFounded
<1>2. \A x, y \in Nat : x < y => <<x, y>> \in R
  BY DEF OpToRel
<1> HIDE DEF R
<1>3. PICK x \in T : \A y \in T : ~(<<y, x>> \in R)
  BY <1>1, WFMin
<1>4. ASSUME NEW y \in T PROVE x <= y
  <2>1. x \in Nat /\ y \in Nat /\ ~(y < x)
    BY <1>2, <1>3
  <2> QED
    BY <2>1
<1> QED
  BY <1>4

(* Induction, over the members of a set of natural numbers.                *)
LEMMA Induct ==
    ASSUME NEW T, 0 \in T, \A n \in Nat : n \in T => n + 1 \in T
    PROVE  Nat \subseteq T
<1> SUFFICES ASSUME Nat \ T # {} PROVE FALSE
  OBVIOUS
<1>1. PICK x \in Nat \ T : \A y \in Nat \ T : x <= y
  BY LeastNatural
<1>2. x # 0
  BY <1>1
<1>3. x - 1 \in Nat /\ ~(x <= x - 1)
  BY <1>2
<1>4. x - 1 \in T
  BY <1>1, <1>3
<1>5. (x - 1) + 1 \in T
  BY <1>3, <1>4
<1> QED
  BY <1>5

(* Min is the least element.                                               *)
LEMMA MinIsLeast ==
    ASSUME NEW T, T \subseteq Nat, T # {}
    PROVE  Min(T) \in T /\ \A y \in T : Min(T) <= y
BY LeastNatural DEF Min

(* Min is determined by what it is.                                        *)
LEMMA MinIs ==
    ASSUME NEW T, T \subseteq Nat, NEW x \in T, \A y \in T : x <= y
    PROVE  Min(T) = x
<1>1. Min(T) \in T /\ \A y \in T : Min(T) <= y
  BY MinIsLeast
<1>2. Min(T) <= x /\ x <= Min(T) /\ x \in Nat /\ Min(T) \in Nat
  BY <1>1
<1> QED
  BY <1>2

(* Max is the greatest element of a set with an upper bound.               *)
LEMMA MaxIsGreatest ==
    ASSUME NEW T, T \subseteq Nat, T # {}, NEW n \in Nat, \A y \in T : y <= n
    PROVE  Max(T) \in T /\ \A y \in T : Max(T) >= y
<1>1. PICK D : D = {d \in Nat : n - d \in T}
  OBVIOUS
<1>2. \A y \in T : n - y \in D
  BY <1>1
<1>3. D # {} /\ D \subseteq Nat
  BY <1>1, <1>2
<1>4. PICK d \in D : \A e \in D : d <= e
  BY <1>3, LeastNatural
<1>5. n - d \in T /\ d \in Nat
  BY <1>1, <1>4
<1>6. ASSUME NEW y \in T PROVE n - d >= y
  <2>1. d <= n - y /\ y \in Nat
    BY <1>2, <1>4
  <2> QED
    BY <1>5, <2>1
<1> QED
  BY <1>5, <1>6 DEF Max

(* Max is determined by what it is.                                        *)
LEMMA MaxIs ==
    ASSUME NEW T, T \subseteq Nat, NEW x \in T, \A y \in T : y <= x
    PROVE  Max(T) = x
<1>1. Max(T) \in T /\ \A y \in T : Max(T) >= y
  BY MaxIsGreatest
<1>2. Max(T) <= x /\ x <= Max(T) /\ x \in Nat /\ Max(T) \in Nat
  BY <1>1
<1> QED
  BY <1>2

-----------------------------------------------------------------------------
(* Powers of two.                                                          *)

(* A power of two is positive: the numbers of n bits are as many as the    *)
(* subsets of n elements.                                                  *)
LEMMA PowerType == \A n \in Nat : 2 ^ n \in Nat \ {0}
<1> SUFFICES ASSUME NEW n \in Nat PROVE 2 ^ n \in Nat \ {0}
  OBVIOUS
<1>1. IsFiniteSet(1 .. n) /\ Cardinality(1 .. n) = n
  BY FS_Interval
<1>2. IsFiniteSet(SUBSET (1 .. n)) /\ Cardinality(SUBSET (1 .. n)) = 2 ^ n
  BY <1>1, FS_SUBSET
<1>3. SUBSET (1 .. n) # {}
  OBVIOUS
<1> QED
  BY <1>2, <1>3, FS_CardinalityType, FS_EmptySet

(* One bit more doubles it: a subset has the new element or lacks it.      *)
LEMMA PowerStep == \A n \in Nat : 2 ^ (n + 1) = 2 * 2 ^ n
<1> SUFFICES ASSUME NEW n \in Nat PROVE 2 ^ (n + 1) = 2 * 2 ^ n
  OBVIOUS
<1>1. PICK old : old = SUBSET (1 .. n)
  OBVIOUS
<1>2. PICK new : new = {T \in SUBSET (1 .. n + 1) : n + 1 \in T}
  OBVIOUS
<1>3. IsFiniteSet(old) /\ Cardinality(old) = 2 ^ n
  <2>1. IsFiniteSet(1 .. n) /\ Cardinality(1 .. n) = n
    BY FS_Interval
  <2> QED
    BY <1>1, <2>1, FS_SUBSET
<1>4. IsFiniteSet(SUBSET (1 .. n + 1)) /\ Cardinality(SUBSET (1 .. n + 1)) = 2 ^ (n + 1)
  <2>1. IsFiniteSet(1 .. n + 1) /\ Cardinality(1 .. n + 1) = n + 1
    BY FS_Interval
  <2> QED
    BY <2>1, FS_SUBSET
<1>5. SUBSET (1 .. n + 1) = old \cup new /\ old \cap new = {}
  BY <1>1, <1>2
<1>6. PICK f : f = [T \in old |-> T \cup {n + 1}]
  OBVIOUS
<1>7. f \in Bijection(old, new)
  <2>1. \A T \in old : f[T] \in new
    BY <1>1, <1>2, <1>6
  <2>2. ASSUME NEW T \in old, NEW U \in old, f[T] = f[U] PROVE T = U
    <3>1. n + 1 \notin T /\ n + 1 \notin U
      BY <1>1
    <3>2. T \cup {n + 1} = U \cup {n + 1}
      BY <1>6, <2>2
    <3> QED
      BY <3>1, <3>2
  <2>3. ASSUME NEW U \in new PROVE \E T \in old : f[T] = U
    <3>1. U \ {n + 1} \in old
      BY <1>1, <1>2
    <3>2. f[U \ {n + 1}] = U
      BY <1>2, <1>6, <3>1
    <3> QED
      BY <3>1, <3>2
  <2>4. f \in [old -> new]
    BY <1>6, <2>1
  <2> QED
    BY <2>2, <2>3, <2>4 DEF Bijection, Injection, Surjection, IsInjective
<1>8. IsFiniteSet(new) /\ Cardinality(new) = Cardinality(old)
  BY <1>3, <1>7, FS_Bijection DEF ExistsBijection
<1>9. Cardinality(old \cup new) = Cardinality(old) + Cardinality(new) - Cardinality({})
  BY <1>3, <1>5, <1>8, FS_Union
<1>10. Cardinality({}) = 0 /\ 2 ^ n \in Nat
  BY FS_EmptySet, PowerType
<1>11. 2 ^ (n + 1) = 2 ^ n + 2 ^ n - 0
  BY <1>3, <1>4, <1>5, <1>8, <1>9, <1>10
<1> QED
  BY <1>10, <1>11

(* The powers multiply.                                                    *)
LEMMA PowerSum == \A m, n \in Nat : 2 ^ (m + n) = 2 ^ m * 2 ^ n
<1> SUFFICES ASSUME NEW m \in Nat PROVE \A n \in Nat : 2 ^ (m + n) = 2 ^ m * 2 ^ n
  OBVIOUS
<1>1. PICK T : T = {n \in Nat : 2 ^ (m + n) = 2 ^ m * 2 ^ n}
  OBVIOUS
<1>2. 0 \in T
  <2>1. 2 ^ m \in Nat /\ 2 ^ 0 = 1 /\ m + 0 = m
    BY PowerType
  <2> QED
    BY <1>1, <2>1
<1>3. ASSUME NEW n \in Nat, n \in T PROVE n + 1 \in T
  <2>1. 2 ^ (m + n) = 2 ^ m * 2 ^ n
    BY <1>1, <1>3
  <2>2. m + (n + 1) = (m + n) + 1 /\ m + n \in Nat
    OBVIOUS
  <2>3. 2 ^ ((m + n) + 1) = 2 * 2 ^ (m + n) /\ 2 ^ (n + 1) = 2 * 2 ^ n
    BY <2>2, PowerStep
  <2>4. 2 ^ m \in Nat /\ 2 ^ n \in Nat
    BY PowerType
  <2>5. 2 * (2 ^ m * 2 ^ n) = 2 ^ m * (2 * 2 ^ n)
    BY <2>4
  <2> QED
    BY <1>1, <2>1, <2>2, <2>3, <2>5
<1> QED
  BY <1>1, <1>2, <1>3, Induct

-----------------------------------------------------------------------------
(* Prefixes.                                                               *)

(* How many addresses a prefix of so many bits has.                        *)
Size(bits) == 2 ^ (Width - bits)

(* Addresses are natural numbers.                                          *)
LEMMA AddrsType == Addrs \subseteq Nat /\ 2 ^ Width \in Nat \ {0} /\ Width \in Nat
BY WidthAssumption, PowerType DEF Addrs

(* Division with remainder.                                                *)
LEMMA Division ==
    ASSUME NEW a \in Nat, NEW n \in Nat \ {0}
    PROVE  /\ a \div n \in Nat /\ a % n \in 0 .. n - 1
           /\ a = (a \div n) * n + (a % n)
OBVIOUS

(* The multiple of n with the remainder is unique.                         *)
LEMMA DivisionUnique ==
    ASSUME NEW k \in Nat, NEW n \in Nat \ {0}, NEW r \in 0 .. n - 1
    PROVE  (k * n + r) \div n = k /\ (k * n + r) % n = r
OBVIOUS

(* Sizes are positive, and a size divides the size of fewer bits.          *)
LEMMA SizeType ==
    ASSUME NEW b \in 0 .. Width
    PROVE  /\ Size(b) \in Nat \ {0}
           /\ \A c \in b .. Width : Size(b) = 2 ^ (c - b) * Size(c) /\ 2 ^ (c - b) \in Nat \ {0}
<1>1. Width \in Nat /\ Width - b \in Nat
  BY WidthAssumption
<1>2. Size(b) \in Nat \ {0}
  BY <1>1, PowerType DEF Size
<1>3. ASSUME NEW c \in b .. Width
      PROVE  Size(b) = 2 ^ (c - b) * Size(c) /\ 2 ^ (c - b) \in Nat \ {0}
  <2>1. c - b \in Nat /\ Width - c \in Nat /\ (c - b) + (Width - c) = Width - b
    BY <1>1
  <2>2. 2 ^ ((c - b) + (Width - c)) = 2 ^ (c - b) * 2 ^ (Width - c)
    BY <2>1, PowerSum
  <2> QED
    BY <2>1, <2>2, PowerType DEF Size
<1> QED
  BY <1>2, <1>3

(* The blocks of a size divide up the addresses.                           *)
LEMMA BlockFits ==
    ASSUME NEW b \in 0 .. Width, NEW k \in Nat, k * Size(b) \in Addrs
    PROVE  k * Size(b) .. k * Size(b) + Size(b) - 1 \subseteq Addrs
<1>1. PICK n : n = Size(b)
  OBVIOUS
<1>2. PICK m : m = 2 ^ b
  OBVIOUS
<1>3. n \in Nat \ {0} /\ m \in Nat \ {0} /\ 2 ^ Width = m * n
  <2>1. Width \in Nat /\ 0 \in 0 .. Width /\ b \in 0 .. Width /\ b \in Nat
    BY WidthAssumption
  <2>2. Size(0) = 2 ^ (b - 0) * Size(b)
    BY <2>1, SizeType
  <2>3. b - 0 = b /\ Width - 0 = Width
    BY <2>1
  <2> QED
    BY <1>1, <1>2, <2>1, <2>2, <2>3, SizeType, PowerType DEF Size
<1>4. k * n < m * n
  BY <1>1, <1>3 DEF Addrs
<1>5. k < m
  BY <1>3, <1>4
<1>6. k * n + n <= m * n
  BY <1>3, <1>5
<1> QED
  BY <1>1, <1>3, <1>6 DEF Addrs

(* What Masked and RangeOfPrefix make of any address and length.           *)
LEMMA MaskedFacts ==
    ASSUME NEW a \in Addrs, NEW b \in 0 .. Width
    PROVE  LET p == PrefixFrom(a, b)
               k == a \div Size(b)
           IN  /\ k \in Nat /\ k * Size(b) \in Addrs
               /\ Masked(p) = PrefixFrom(k * Size(b), b)
               /\ RangeOfPrefix(p) = k * Size(b) .. k * Size(b) + Size(b) - 1
               /\ RangeOfPrefix(p) \subseteq Addrs
               /\ a \in RangeOfPrefix(p)
<1>1. PICK n, k, r : n = Size(b) /\ k = a \div n /\ r = a % n
  OBVIOUS
<1>2. n \in Nat \ {0} /\ a \in Nat
  BY <1>1, SizeType, AddrsType
<1>3. k \in Nat /\ r \in 0 .. n - 1 /\ a = k * n + r
  BY <1>1, <1>2, Division
<1>4. k * n \in Nat /\ k * n <= a
  BY <1>2, <1>3
<1>5. k * n \in Addrs
  BY <1>2, <1>4, AddrsType DEF Addrs
<1>6. Masked(PrefixFrom(a, b)) = PrefixFrom(a - r, b)
  BY <1>1 DEF Masked, PrefixFrom, Size
<1>7. a - r = k * n
  BY <1>2, <1>3, <1>4
<1>8. RangeOfPrefix(PrefixFrom(a, b)) = k * n .. k * n + n - 1
  BY <1>1, <1>6, <1>7 DEF RangeOfPrefix, PrefixFrom, Size
<1>9. a \in k * n .. k * n + n - 1
  BY <1>2, <1>3, <1>4
<1>10. k * n .. k * n + n - 1 \subseteq Addrs
  BY <1>1, <1>3, <1>5, BlockFits
<1> QED
  BY <1>1, <1>3, <1>5, <1>6, <1>7, <1>8, <1>9, <1>10

(* The addresses of a prefix are those with the same leading bits.         *)
LEMMA BlockMembers ==
    ASSUME NEW a \in Addrs, NEW b \in 0 .. Width, NEW ip \in Addrs
    PROVE  ip \in RangeOfPrefix(PrefixFrom(a, b)) <=> ip \div Size(b) = a \div Size(b)
<1>1. PICK n, k : n = Size(b) /\ k = a \div n
  OBVIOUS
<1>2. n \in Nat \ {0} /\ k \in Nat /\ ip \in Nat
  BY <1>1, SizeType, MaskedFacts, AddrsType
<1>3. RangeOfPrefix(PrefixFrom(a, b)) = k * n .. k * n + n - 1
  BY <1>1, MaskedFacts
<1>4. ASSUME ip \in k * n .. k * n + n - 1 PROVE ip \div n = k
  <2>1. PICK r : r = ip - k * n
    OBVIOUS
  <2>2. r \in 0 .. n - 1 /\ ip = k * n + r
    BY <1>2, <1>4, <2>1
  <2> QED
    BY <1>2, <2>2, DivisionUnique
<1>5. ASSUME ip \div n = k PROVE ip \in k * n .. k * n + n - 1
  <2>1. ip = k * n + (ip % n) /\ ip % n \in 0 .. n - 1
    BY <1>2, <1>5, Division
  <2>2. PICK r : r = ip % n
    OBVIOUS
  <2>3. k * n \in Nat
    BY <1>2
  <2> QED
    BY <1>2, <2>1, <2>2, <2>3
<1> QED
  BY <1>1, <1>3, <1>4, <1>5

(* A prefix is a block.                                                    *)
LEMMA PrefixFacts ==
    ASSUME NEW p \in AllPrefixes
    PROVE  /\ p = PrefixFrom(p.addr, p.bits)
           /\ p.addr \in Addrs /\ p.bits \in 0 .. Width
           /\ Masked(p) = p
           /\ \E k \in Nat : p.addr = k * Size(p.bits)
           /\ RangeOfPrefix(p) = p.addr .. p.addr + Size(p.bits) - 1
           /\ RangeOfPrefix(p) \subseteq Addrs
           /\ p.addr \in RangeOfPrefix(p)
<1>1. PICK a \in Addrs, b \in 0 .. Width : p = Masked(PrefixFrom(a, b))
  BY DEF AllPrefixes
<1>2. PICK k : k = a \div Size(b)
  OBVIOUS
<1>3. k \in Nat /\ k * Size(b) \in Addrs /\ p = PrefixFrom(k * Size(b), b)
  BY <1>1, <1>2, MaskedFacts
<1>4. p.addr = k * Size(b) /\ p.bits = b /\ p = PrefixFrom(p.addr, p.bits)
  BY <1>3 DEF PrefixFrom
<1>5. p.addr \div Size(b) = k
  <2>1. Size(b) \in Nat \ {0} /\ 0 \in 0 .. Size(b) - 1
    BY SizeType
  <2>2. (k * Size(b) + 0) \div Size(b) = k
    BY <1>3, <2>1, DivisionUnique
  <2>3. k * Size(b) + 0 = k * Size(b)
    BY <1>3, <2>1
  <2> QED
    BY <1>4, <2>2, <2>3
<1> QED
  BY <1>3, <1>4, <1>5, MaskedFacts

(* A block is a prefix.                                                    *)
LEMMA BlockIsPrefix ==
    ASSUME NEW b \in 0 .. Width, NEW k \in Nat, k * Size(b) \in Addrs
    PROVE  PrefixFrom(k * Size(b), b) \in AllPrefixes
<1>1. Size(b) \in Nat \ {0} /\ 0 \in 0 .. Size(b) - 1
  BY SizeType
<1>2. (k * Size(b) + 0) \div Size(b) = k
  BY <1>1, DivisionUnique
<1>3. k * Size(b) + 0 = k * Size(b)
  BY <1>1
<1>4. Masked(PrefixFrom(k * Size(b), b)) = PrefixFrom(k * Size(b), b)
  BY <1>2, <1>3, MaskedFacts
<1> QED
  BY <1>4 DEF AllPrefixes

(* A prefix with the same addresses, of any address and length.            *)
LEMMA MaskedIsPrefix ==
    ASSUME NEW a \in Addrs, NEW b \in 0 .. Width
    PROVE  LET p == PrefixFrom(a, b) IN
           /\ Masked(p) \in AllPrefixes /\ Masked(p).bits = b
           /\ RangeOfPrefix(Masked(p)) = RangeOfPrefix(p)
           /\ a \in RangeOfPrefix(Masked(p))
<1>1. PICK m : m = Masked(PrefixFrom(a, b))
  OBVIOUS
<1>2. m \in AllPrefixes
  BY <1>1 DEF AllPrefixes
<1>3. m.bits = b
  BY <1>1 DEF Masked, PrefixFrom
<1>4. RangeOfPrefix(m) = m.addr .. m.addr + Size(b) - 1
  BY <1>2, <1>3, PrefixFacts
<1>5. RangeOfPrefix(PrefixFrom(a, b)) = m.addr .. m.addr + Size(b) - 1
  BY <1>1 DEF RangeOfPrefix, PrefixFrom, Size
<1> QED
  BY <1>1, <1>2, <1>3, <1>4, <1>5, MaskedFacts

(* Two prefixes are nested or have nothing in common.                      *)
LEMMA Nested ==
    ASSUME NEW p \in AllPrefixes, NEW q \in AllPrefixes, p.bits <= q.bits,
           NEW ip \in RangeOfPrefix(p), ip \in RangeOfPrefix(q)
    PROVE  RangeOfPrefix(q) \subseteq RangeOfPrefix(p)
<1>1. PICK i \in Nat : p.addr = i * Size(p.bits)
  BY PrefixFacts
<1>2. PICK k \in Nat : q.addr = k * Size(q.bits)
  BY PrefixFacts
<1>3. PICK n, j : n = Size(q.bits) /\ j = 2 ^ (q.bits - p.bits)
  OBVIOUS
<1>4. p.bits \in 0 .. Width /\ q.bits \in p.bits .. Width /\ q.bits \in 0 .. Width
  BY PrefixFacts, WidthAssumption
<1>5. n \in Nat \ {0} /\ j \in Nat \ {0} /\ Size(p.bits) = j * n
  BY <1>3, <1>4, SizeType
<1>6. /\ RangeOfPrefix(p) = i * (j * n) .. i * (j * n) + j * n - 1
      /\ RangeOfPrefix(q) = k * n .. k * n + n - 1
  BY <1>1, <1>2, <1>3, <1>5, PrefixFacts
<1>7. PICK u : u = i * j
  OBVIOUS
<1>8. u \in Nat /\ i * (j * n) = u * n
  BY <1>5, <1>7
<1>9. /\ ip \in Int /\ u * n <= ip /\ ip <= u * n + j * n - 1
      /\ k * n <= ip /\ ip <= k * n + n - 1
  BY <1>5, <1>6, <1>8
<1>10. u <= k
  <2>1. u * n <= k * n + n - 1
    BY <1>5, <1>8, <1>9
  <2> QED
    BY <1>5, <1>8, <2>1
<1>11. k + 1 <= u + j
  <2>1. k * n <= (u + j) * n - 1
    BY <1>5, <1>8, <1>9
  <2>2. k < u + j
    BY <1>5, <1>8, <2>1
  <2> QED
    BY <1>5, <1>8, <2>2
<1>12. u * n <= k * n
  BY <1>5, <1>8, <1>10
<1>13. k * n + n <= u * n + j * n
  <2>1. (k + 1) * n <= (u + j) * n
    BY <1>5, <1>8, <1>11
  <2> QED
    BY <1>5, <1>8, <2>1
<1> QED
  BY <1>5, <1>6, <1>8, <1>12, <1>13

(* Prefixes of the same length that have an address in common are equal.   *)
LEMMA SameBlock ==
    ASSUME NEW p \in AllPrefixes, NEW q \in AllPrefixes, p.bits = q.bits,
           NEW ip \in RangeOfPrefix(p), ip \in RangeOfPrefix(q)
    PROVE  p = q
<1>1. p.bits \in Int /\ p.bits <= q.bits /\ q.bits <= p.bits
  BY PrefixFacts, WidthAssumption
<1>2. p.addr \in RangeOfPrefix(q) /\ q.addr \in RangeOfPrefix(p)
  BY <1>1, Nested, PrefixFacts
<1>3. p.addr \in Nat /\ q.addr \in Nat
  BY PrefixFacts, AddrsType
<1>4. p.addr >= q.addr /\ q.addr >= p.addr
  <2>1. PICK n : n = Size(p.bits)
    OBVIOUS
  <2>2. /\ p.addr \in q.addr .. q.addr + n - 1
        /\ q.addr \in p.addr .. p.addr + n - 1
    BY <1>2, <2>1, PrefixFacts
  <2> QED
    BY <1>3, <2>2
<1>5. p.addr = q.addr
  BY <1>3, <1>4
<1> QED
  BY <1>5, PrefixFacts

-----------------------------------------------------------------------------
(* The prefixes that make up a set.                                        *)

(* There are finitely many prefixes.                                       *)
LEMMA FinitelyManyPrefixes == IsFiniteSet(AllPrefixes) /\ IsFiniteSet(Addrs)
<1>1. IsFiniteSet(Addrs) /\ IsFiniteSet(0 .. Width)
  BY AddrsType, FS_Interval DEF Addrs
<1>2. IsFiniteSet(Addrs \X (0 .. Width))
  BY <1>1, FS_Product
<1>3. PICK f : f = [p \in AllPrefixes |-> <<p.addr, p.bits>>]
  OBVIOUS
<1>4. f \in [AllPrefixes -> Addrs \X (0 .. Width)]
  BY <1>3, PrefixFacts
<1>5. ASSUME NEW p \in AllPrefixes, NEW q \in AllPrefixes, f[p] = f[q] PROVE p = q
  <2>1. p.addr = q.addr /\ p.bits = q.bits
    BY <1>3, <1>5
  <2> QED
    BY <2>1, PrefixFacts
<1>6. f \in Injection(AllPrefixes, Addrs \X (0 .. Width))
  BY <1>4, <1>5 DEF Injection, IsInjective
<1> QED
  BY <1>1, <1>2, <1>6, FS_Injection

(* Sets that are apart add up.                                             *)
LEMMA ApartAddUp ==
    ASSUME NEW S, NEW T, IsFiniteSet(S), IsFiniteSet(T), S \cap T = {}
    PROVE  IsFiniteSet(S \cup T) /\ Cardinality(S \cup T) = Cardinality(S) + Cardinality(T)
<1>1. /\ IsFiniteSet(S \cup T)
      /\ Cardinality(S \cup T) = Cardinality(S) + Cardinality(T) - Cardinality(S \cap T)
  BY FS_Union
<1>2. Cardinality(S \cap T) = 0 /\ Cardinality(S) \in Nat /\ Cardinality(T) \in Nat
  BY FS_EmptySet, FS_CardinalityType
<1> QED
  BY <1>1, <1>2

(* The parent of a prefix has its addresses.                               *)
LEMMA ParentFacts ==
    ASSUME NEW p \in AllPrefixes, p.bits # 0
    PROVE  /\ Parent(p) \in AllPrefixes /\ Parent(p).bits = p.bits - 1
           /\ RangeOfPrefix(p) \subseteq RangeOfPrefix(Parent(p))
<1>1. p.bits - 1 \in 0 .. Width /\ p.addr \in Addrs /\ p.bits - 1 <= p.bits
  BY PrefixFacts, WidthAssumption
<1>2. /\ Parent(p) \in AllPrefixes /\ Parent(p).bits = p.bits - 1
      /\ p.addr \in RangeOfPrefix(Parent(p))
  BY <1>1, MaskedIsPrefix DEF Parent
<1> QED
  BY <1>1, <1>2, Nested, PrefixFacts

(* The prefixes of a set are apart from each other.                        *)
LEMMA AggregatesApart ==
    ASSUME NEW S, NEW p \in PrefixesOf(S), NEW q \in PrefixesOf(S),
           NEW ip \in RangeOfPrefix(p), ip \in RangeOfPrefix(q)
    PROVE  p = q
<1>1. p \in AllPrefixes /\ q \in AllPrefixes
  BY DEF PrefixesOf
<1>2. p.bits \in Int /\ q.bits \in Int
  BY <1>1, PrefixFacts, WidthAssumption
<1>3. ASSUME NEW a \in PrefixesOf(S), NEW b \in PrefixesOf(S),
             ip \in RangeOfPrefix(a), ip \in RangeOfPrefix(b), a.bits < b.bits
      PROVE  FALSE
  <2>1. /\ a \in AllPrefixes /\ b \in AllPrefixes
        /\ RangeOfPrefix(a) \subseteq S
        /\ b.bits = 0 \/ ~(RangeOfPrefix(Parent(b)) \subseteq S)
    BY DEF PrefixesOf
  <2>2. a.bits \in Nat /\ b.bits \in Nat
    BY <2>1, PrefixFacts, WidthAssumption
  <2>3. b.bits # 0 /\ a.bits <= b.bits - 1
    BY <1>3, <2>2
  <2>4. Parent(b) \in AllPrefixes /\ Parent(b).bits = b.bits - 1 /\ ip \in RangeOfPrefix(Parent(b))
    BY <1>3, <2>1, <2>3, ParentFacts
  <2>5. RangeOfPrefix(Parent(b)) \subseteq RangeOfPrefix(a)
    BY <1>3, <2>1, <2>3, <2>4, Nested
  <2> QED
    BY <2>1, <2>3, <2>5
<1>4. p.bits = q.bits
  BY <1>2, <1>3
<1> QED
  BY <1>1, <1>4, SameBlock

(* Every prefix within the set belongs to one of them.                     *)
LEMMA AggregateOf ==
    ASSUME NEW S, NEW q \in AllPrefixes, RangeOfPrefix(q) \subseteq S
    PROVE  \E a \in PrefixesOf(S) : a.bits <= q.bits /\ RangeOfPrefix(q) \subseteq RangeOfPrefix(a)
<1>1. q.addr \in Addrs /\ q.bits \in 0 .. Width /\ q.addr \in RangeOfPrefix(q)
  BY PrefixFacts
<1>2. PICK A : A = [b \in 0 .. Width |-> Masked(PrefixFrom(q.addr, b))]
  OBVIOUS
<1>3. \A b \in 0 .. Width : /\ A[b] \in AllPrefixes /\ A[b].bits = b
                            /\ q.addr \in RangeOfPrefix(A[b])
  BY <1>1, <1>2, MaskedIsPrefix
<1>4. PICK T : T = {b \in 0 .. Width : RangeOfPrefix(A[b]) \subseteq S}
  OBVIOUS
<1>5. A[q.bits] = q
  BY <1>1, <1>3, SameBlock
<1>6. q.bits \in T /\ T \subseteq Nat
  BY <1>1, <1>4, <1>5
<1>7. PICK b \in T : \A c \in T : b <= c
  BY <1>6, LeastNatural
<1>8. b \in 0 .. Width /\ b \in Nat /\ b <= q.bits /\ RangeOfPrefix(A[b]) \subseteq S
  BY <1>4, <1>6, <1>7
<1>9. A[b].bits = 0 \/ ~(RangeOfPrefix(Parent(A[b])) \subseteq S)
  <2> SUFFICES ASSUME b # 0 PROVE ~(RangeOfPrefix(Parent(A[b])) \subseteq S)
    BY <1>3, <1>8
  <2>1. b - 1 \in 0 .. Width /\ ~(b <= b - 1)
    BY <1>8, WidthAssumption
  <2>2. b - 1 \notin T
    BY <1>7, <2>1
  <2>3. ~(RangeOfPrefix(A[b - 1]) \subseteq S)
    BY <1>4, <2>1, <2>2
  <2>4. /\ Parent(A[b]) \in AllPrefixes /\ Parent(A[b]).bits = b - 1
        /\ q.addr \in RangeOfPrefix(Parent(A[b]))
    BY <1>3, <1>8, ParentFacts
  <2>5. Parent(A[b]) = A[b - 1]
    BY <1>3, <2>1, <2>4, SameBlock
  <2> QED
    BY <2>3, <2>5
<1>10. A[b] \in PrefixesOf(S)
  BY <1>3, <1>8, <1>9 DEF PrefixesOf
<1>11. RangeOfPrefix(q) \subseteq RangeOfPrefix(A[b])
  BY <1>1, <1>3, <1>8, Nested
<1> QED
  BY <1>3, <1>8, <1>10, <1>11

-----------------------------------------------------------------------------
(* Sorting.                                                                *)

(* A finite set whose elements have different keys can be sorted by them.  *)
LEMMA SortedExists ==
    ASSUME NEW S, IsFiniteSet(S), NEW key \in [S -> Nat],
           \A x, y \in S : key[x] = key[y] => x = y
    PROVE  \E seq \in [1 .. Cardinality(S) -> S] :
             \A i, j \in 1 .. Cardinality(S) : i < j => key[seq[i]] < key[seq[j]]
<1>1. PICK n : n = Cardinality(S)
  OBVIOUS
<1>2. n \in Nat
  BY <1>1, FS_CardinalityType
<1>3. PICK below : below = [x \in S |-> {y \in S : key[y] <= key[x]}]
  OBVIOUS
<1>4. PICK rank : rank = [x \in S |-> Cardinality(below[x])]
  OBVIOUS
<1>5. \A x \in S : IsFiniteSet(below[x]) /\ below[x] \subseteq S /\ x \in below[x]
  BY <1>3, FS_Subset
<1>6. ASSUME NEW x \in S PROVE rank[x] \in 1 .. n
  <2>1. IsFiniteSet(below[x]) /\ below[x] # {} /\ below[x] \in SUBSET S
    BY <1>5
  <2>2. Cardinality(below[x]) \in Nat /\ Cardinality(below[x]) # 0
    BY <2>1, FS_CardinalityType, FS_EmptySet
  <2>3. Cardinality(below[x]) <= n
    BY <1>1, <2>1, FS_Subset
  <2> QED
    BY <1>2, <1>4, <2>2, <2>3
<1>7. ASSUME NEW x \in S, NEW y \in S, key[x] < key[y] PROVE rank[x] < rank[y]
  <2>1. key[x] \in Nat /\ key[y] \in Nat
    OBVIOUS
  <2>2. \A z \in S : key[z] \in Nat /\ (key[z] <= key[x] => key[z] <= key[y])
    BY <1>7, <2>1
  <2>3. below[x] \subseteq below[y]
    BY <1>3, <2>2
  <2>4. y \notin below[x] /\ y \in below[y]
    BY <1>3, <1>5, <1>7, <2>1
  <2>5. IsFiniteSet(below[y]) /\ below[x] \in SUBSET below[y] /\ below[x] # below[y]
    BY <1>5, <2>3, <2>4
  <2>6. Cardinality(below[x]) <= Cardinality(below[y]) /\ Cardinality(below[y]) # Cardinality(below[x])
    BY <2>5, FS_Subset
  <2> QED
    BY <1>4, <1>6, <2>6
<1>8. rank \in Injection(S, 1 .. n)
  <2>1. rank \in [S -> 1 .. n]
    BY <1>4, <1>6
  <2>2. ASSUME NEW x \in S, NEW y \in S, rank[x] = rank[y] PROVE x = y
    <3>1. key[x] \in Nat /\ key[y] \in Nat /\ rank[x] \in Nat
      BY <1>6
    <3>2. ~(key[x] < key[y]) /\ ~(key[y] < key[x])
      BY <1>7, <2>2, <3>1
    <3>3. key[x] = key[y]
      BY <3>1, <3>2
    <3> QED
      BY <3>3
  <2> QED
    BY <2>1, <2>2 DEF Injection, IsInjective
<1>9. rank \in Surjection(S, 1 .. n)
  <2>1. IsFiniteSet(1 .. n) /\ Cardinality(1 .. n) = Cardinality(S)
    BY <1>1, <1>2, FS_Interval
  <2> QED
    BY <1>8, <2>1, FS_Injection
<1>10. \A i \in 1 .. n : \E x \in S : rank[x] = i
  BY <1>9 DEF Surjection
<1>11. PICK seq : seq = [i \in 1 .. n |-> CHOOSE x \in S : rank[x] = i]
  OBVIOUS
<1>12. \A i \in 1 .. n : seq[i] \in S /\ rank[seq[i]] = i
  BY <1>10, <1>11
<1>13. ASSUME NEW i \in 1 .. n, NEW j \in 1 .. n, i < j PROVE key[seq[i]] < key[seq[j]]
  <2>1. key[seq[i]] \in Nat /\ key[seq[j]] \in Nat /\ i \in Nat /\ j \in Nat
    BY <1>2, <1>12
  <2>2. ~(key[seq[j]] < key[seq[i]])
    BY <1>7, <1>12, <1>13, <2>1
  <2>3. key[seq[i]] # key[seq[j]]
    BY <1>12, <1>13, <2>1
  <2> QED
    BY <2>1, <2>2, <2>3
<1>14. seq \in [1 .. n -> S]
  BY <1>11, <1>12
<1> QED
  BY <1>1, <1>13, <1>14

(* A sequence in the order of the keys has every element.                  *)
LEMMA SortedIsOnto ==
    ASSUME NEW S, IsFiniteSet(S), NEW seq \in [1 .. Cardinality(S) -> S],
           \A i, j \in 1 .. Cardinality(S) : i < j => seq[i] # seq[j]
    PROVE  \A x \in S : \E i \in 1 .. Cardinality(S) : seq[i] = x
<1>1. PICK n : n = Cardinality(S)
  OBVIOUS
<1>2. n \in Nat
  BY <1>1, FS_CardinalityType
<1>3. \A i, j \in 1 .. n : seq[i] = seq[j] => i = j
  BY <1>1, <1>2
<1>4. seq \in Injection(1 .. n, S)
  BY <1>1, <1>3 DEF Injection, IsInjective
<1>5. IsFiniteSet(1 .. n) /\ Cardinality(1 .. n) = Cardinality(S)
  BY <1>1, <1>2, FS_Interval
<1>6. seq \in Surjection(1 .. n, S)
  BY <1>4, <1>5, FS_Injection
<1> QED
  BY <1>1, <1>6 DEF Surjection

-----------------------------------------------------------------------------
(* The ranges that make up a set.                                          *)

(* A range has its ends in the set, and what is in between.                *)
LEMMA RangeFacts ==
    ASSUME NEW S, S \subseteq Addrs, NEW r \in MaximalRanges(S)
    PROVE  /\ r.from \in Nat /\ r.to \in Nat /\ r.from <= r.to
           /\ r = [from |-> r.from, to |-> r.to]
           /\ r.from .. r.to \subseteq S /\ r.from - 1 \notin S /\ r.to + 1 \notin S
BY AddrsType DEF MaximalRanges

(* Of two ranges one ends before the other begins.                         *)
LEMMA RangesApart ==
    ASSUME NEW S, S \subseteq Addrs,
           NEW r \in MaximalRanges(S), NEW s \in MaximalRanges(S)
    PROVE  /\ r.from < s.from => r.to < s.from
           /\ r.from = s.from => r = s
<1>1. /\ r.from \in Nat /\ r.to \in Nat /\ r.from <= r.to
      /\ s.from \in Nat /\ s.to \in Nat /\ s.from <= s.to
  BY RangeFacts
<1>2. ASSUME r.from < s.from, ~(r.to < s.from) PROVE FALSE
  <2>1. s.from - 1 \in r.from .. r.to
    BY <1>1, <1>2
  <2> QED
    BY <2>1, RangeFacts
<1>3. ASSUME NEW u \in MaximalRanges(S), NEW v \in MaximalRanges(S),
             u.from = v.from, u.to < v.to
      PROVE  FALSE
  <2>1. u.to + 1 \in v.from .. v.to
    <3>1. u.from \in Nat /\ u.to \in Nat /\ u.from <= u.to /\ v.to \in Nat
      BY RangeFacts
    <3> QED
      BY <1>3, <3>1
  <2> QED
    BY <2>1, RangeFacts
<1>4. ASSUME r.from = s.from PROVE r = s
  <2>1. ~(r.to < s.to) /\ ~(s.to < r.to)
    BY <1>3, <1>4
  <2>2. r.to = s.to
    BY <1>1, <2>1
  <2>3. r = [from |-> r.from, to |-> r.to] /\ s = [from |-> s.from, to |-> s.to]
    BY RangeFacts
  <2> QED
    BY <1>4, <2>2, <2>3
<1> QED
  BY <1>1, <1>2, <1>4

(* Every address of the set is in a range.                                 *)
LEMMA RangeOf ==
    ASSUME NEW S, S \subseteq Addrs, NEW ip \in S
    PROVE  \E r \in MaximalRanges(S) : ip \in r.from .. r.to
<1>1. ip \in Nat /\ S \subseteq Nat /\ \A y \in S : y <= 2 ^ Width - 1
  BY AddrsType DEF Addrs
<1>2. PICK A : A = {a \in S : a <= ip /\ a .. ip \subseteq S}
  OBVIOUS
<1>3. PICK B : B = {b \in S : ip <= b /\ ip .. b \subseteq S}
  OBVIOUS
<1>4. ip .. ip = {ip}
  BY <1>1
<1>5. ip \in A /\ A \subseteq Nat /\ ip \in B /\ B \subseteq Nat
  <2>1. ip <= ip /\ ip .. ip \subseteq S
    BY <1>1, <1>4
  <2> QED
    BY <1>1, <1>2, <1>3, <2>1
<1>6. PICK a \in A : \A c \in A : a <= c
  BY <1>5, LeastNatural
<1>7. \E b \in B : \A c \in B : b >= c
  <2>1. 2 ^ Width - 1 \in Nat /\ \A y \in B : y <= 2 ^ Width - 1
    BY <1>1, <1>3, AddrsType
  <2> QED
    BY <1>5, <2>1, MaxIsGreatest
<1>8. PICK b \in B : \A c \in B : b >= c
  BY <1>7
<1>9. a \in S /\ a \in Nat /\ a <= ip /\ a .. ip \subseteq S
  BY <1>1, <1>2, <1>6
<1>10. b \in S /\ b \in Nat /\ ip <= b /\ ip .. b \subseteq S
  BY <1>1, <1>3, <1>8
<1>11. a - 1 \notin S
  <2> SUFFICES ASSUME a - 1 \in S PROVE FALSE
    OBVIOUS
  <2>1. a - 1 .. ip \subseteq S
    <3>1. \A x \in a - 1 .. ip : x = a - 1 \/ x \in a .. ip
      BY <1>1, <1>9
    <3> QED
      BY <1>9, <3>1
  <2>2. a - 1 \in A
    BY <1>1, <1>2, <1>9, <2>1
  <2> QED
    BY <1>6, <1>9, <2>2
<1>12. b + 1 \notin S
  <2> SUFFICES ASSUME b + 1 \in S PROVE FALSE
    OBVIOUS
  <2>1. ip .. b + 1 \subseteq S
    <3>1. \A x \in ip .. b + 1 : x = b + 1 \/ x \in ip .. b
      BY <1>1, <1>10
    <3> QED
      BY <1>10, <3>1
  <2>2. b + 1 \in B
    BY <1>1, <1>3, <1>10, <2>1
  <2> QED
    BY <1>8, <1>10, <2>2
<1>13. a .. b \subseteq S
  <2>1. \A x \in a .. b : x \in a .. ip \/ x \in ip .. b
    BY <1>1, <1>9, <1>10
  <2> QED
    BY <1>9, <1>10, <2>1
<1>14. PICK r : r = [from |-> a, to |-> b]
  OBVIOUS
<1>15. r \in MaximalRanges(S)
  BY <1>1, <1>9, <1>10, <1>11, <1>12, <1>13, <1>14 DEF MaximalRanges
<1>16. ip \in r.from .. r.to
  BY <1>1, <1>9, <1>10, <1>14
<1> QED
  BY <1>15, <1>16

(* Ranges lists them in order, and all of them.                            *)
LEMMA RangesFacts ==
    ASSUME NEW S, S \subseteq Addrs
    PROVE  LET n == Cardinality(MaximalRanges(S)) IN
           /\ n \in Nat
           /\ Ranges(S) \in [1 .. n -> MaximalRanges(S)]
           /\ \A i, j \in 1 .. n : i < j => Ranges(S)[i].to < Ranges(S)[j].from
           /\ \A ip \in S : \E i \in 1 .. n : ip \in Ranges(S)[i].from .. Ranges(S)[i].to
<1>1. PICK M, n : M = MaximalRanges(S) /\ n = Cardinality(M)
  OBVIOUS
<1>2. PICK key : key = [r \in M |-> r.from]
  OBVIOUS
<1>3. key \in [M -> Nat] /\ key \in [M -> Addrs]
  <2>1. \A r \in M : r.from \in Nat /\ r.from \in Addrs
    BY <1>1, RangeFacts DEF MaximalRanges
  <2> QED
    BY <1>2, <2>1
<1>4. \A r, s \in M : key[r] = key[s] => r = s
  BY <1>1, <1>2, RangesApart
<1>5. IsFiniteSet(M)
  <2>1. key \in Injection(M, Addrs)
    BY <1>3, <1>4 DEF Injection, IsInjective
  <2> QED
    BY <2>1, FinitelyManyPrefixes, FS_Injection
<1>6. n \in Nat
  BY <1>1, <1>5, FS_CardinalityType
<1>7. \E seq \in [1 .. n -> M] : \A i, j \in 1 .. n : i < j => seq[i].from < seq[j].from
  <2>1. PICK seq \in [1 .. n -> M] : \A i, j \in 1 .. n : i < j => key[seq[i]] < key[seq[j]]
    BY <1>1, <1>3, <1>4, <1>5, SortedExists
  <2> QED
    BY <1>2, <2>1
<1>8. PICK R : R = Ranges(S)
  OBVIOUS
<1>9. R = CHOOSE seq \in [1 .. n -> M] : \A i, j \in 1 .. n : i < j => seq[i].from < seq[j].from
  BY <1>1, <1>8 DEF Ranges, Sorted
<1>10. R \in [1 .. n -> M] /\ \A i, j \in 1 .. n : i < j => R[i].from < R[j].from
  BY <1>7, <1>9
<1>11. \A i, j \in 1 .. n : i < j => R[i].to < R[j].from
  BY <1>1, <1>10, RangesApart
<1>12. \A i, j \in 1 .. n : i < j => R[i] # R[j]
  <2>1. \A r \in M : r.from \in Nat
    BY <1>1, RangeFacts
  <2>2. \A r \in M : ~(r.from < r.from)
    BY <2>1
  <2> QED
    BY <1>10, <2>2
<1>13. \A r \in M : \E i \in 1 .. n : R[i] = r
  <2>1. /\ R \in [1 .. Cardinality(M) -> M]
        /\ \A i, j \in 1 .. Cardinality(M) : i < j => R[i] # R[j]
    BY <1>1, <1>10, <1>12
  <2>2. \A r \in M : \E i \in 1 .. Cardinality(M) : R[i] = r
    BY <1>5, <2>1, SortedIsOnto
  <2> QED
    BY <1>1, <2>2
<1>14. ASSUME NEW ip \in S PROVE \E i \in 1 .. n : ip \in R[i].from .. R[i].to
  <2>1. PICK r \in M : ip \in r.from .. r.to
    BY <1>1, RangeOf
  <2> QED
    BY <1>13, <2>1
<1> QED
  BY <1>1, <1>6, <1>8, <1>10, <1>11, <1>14

-----------------------------------------------------------------------------
(* Loops.                                                                  *)

(* The greatest of the numbers up to k is k, and without it they are the   *)
(* numbers up to k - 1: the steps of a fold over a sequence.               *)
LEMMA LastOf ==
    ASSUME NEW n \in Nat
    PROVE  /\ \A t \in SUBSET (1 .. n) : t # {} => /\ Max(t) \in t
                                                   /\ \A y \in t : y <= Max(t)
           /\ \A k \in Nat : Max(1 .. k + 1) = k + 1 /\ (1 .. k + 1) \ {k + 1} = 1 .. k
<1>1. ASSUME NEW t \in SUBSET (1 .. n), t # {}
      PROVE  Max(t) \in t /\ \A y \in t : y <= Max(t)
  <2>1. t \subseteq Nat /\ \A y \in t : y <= n
    OBVIOUS
  <2>2. Max(t) \in t /\ \A y \in t : Max(t) >= y
    BY <1>1, <2>1, MaxIsGreatest
  <2> QED
    BY <2>1, <2>2
<1>2. ASSUME NEW k \in Nat
      PROVE  Max(1 .. k + 1) = k + 1 /\ (1 .. k + 1) \ {k + 1} = 1 .. k
  <2>1. 1 .. k + 1 \subseteq Nat /\ k + 1 \in 1 .. k + 1 /\ \A y \in 1 .. k + 1 : y <= k + 1
    OBVIOUS
  <2>2. Max(1 .. k + 1) = k + 1
    BY <2>1, MaxIs
  <2> QED
    BY <2>2
<1> QED
  BY <1>1, <1>2

(* FirstFound is the first result that is not empty, if there is one.      *)
LEMMA FirstFoundFacts ==
    ASSUME NEW n \in Nat, NEW results, DOMAIN results = 1 .. n
    PROVE  /\ (\A i \in 1 .. n : results[i] = {}) => FirstFound(results) = {}
           /\ \A i \in 1 .. n :
                /\ results[i] # {}
                /\ \A j \in 1 .. n : j < i => results[j] = {}
                => FirstFound(results) = results[i]
<1>1. PICK D : D = 1 .. n
  OBVIOUS
<1> DEFINE Body(it, t) == IF t = {} THEN {}
                          ELSE IF it[t \ {Max(t)}] # {} THEN it[t \ {Max(t)}]
                          ELSE results[Max(t)]
           fold == CHOOSE it : it = [t \in SUBSET D |-> Body(it, t)]
           Hits(t) == {i \in t : results[i] # {}}
           Found(t) == IF Hits(t) = {} THEN {} ELSE results[Min(Hits(t))]
<1>2. FirstFound(results) = fold[D]
  BY <1>1 DEF FirstFound, FoldLeft, MapThenFoldSet
<1>3. PICK C : C = [t \in SUBSET D |-> Found(t)]
  OBVIOUS
<1>4. ASSUME NEW t \in SUBSET D PROVE C[t] = Body(C, t)
  <2>1. CASE t = {}
    BY <1>3, <2>1
  <2>2. CASE t # {}
    <3>1. PICK x, u : x = Max(t) /\ u = t \ {x}
      OBVIOUS
    <3>2. x \in t /\ (\A y \in t : y <= x) /\ t \subseteq Nat /\ u \in SUBSET D
      <4>1. t \in SUBSET (1 .. n)
        BY <1>1
      <4>2. Max(t) \in t /\ \A y \in t : y <= Max(t)
        BY <2>2, <4>1, LastOf
      <4>3. t \subseteq Nat
        BY <4>1
      <4>4. u \in SUBSET D
        BY <3>1
      <4> QED
        BY <3>1, <4>2, <4>3, <4>4
    <3>3. C[t] = Found(t) /\ C[u] = Found(u)
      BY <1>3, <3>2
    <3>4. ASSUME C[t] = IF C[u] # {} THEN C[u] ELSE results[x] PROVE C[t] = Body(C, t)
      BY <2>2, <3>1, <3>4
    <3>5. CASE Hits(u) = {}
      <4>1. C[u] = {}
        BY <3>3, <3>5
      <4>2. CASE results[x] = {}
        <5>1. Hits(t) = {}
          BY <3>1, <3>5, <4>2
        <5>2. C[t] = {}
          BY <3>3, <5>1
        <5> QED
          BY <3>4, <4>1, <4>2, <5>2
      <4>3. CASE results[x] # {}
        <5>1. Hits(t) = {x}
          BY <3>1, <3>2, <3>5, <4>3
        <5>2. {x} \subseteq Nat /\ \A y \in {x} : x <= y
          BY <3>2
        <5>3. Min({x}) = x
          BY <5>2, MinIs
        <5>4. C[t] = results[x]
          BY <3>3, <5>1, <5>3
        <5> QED
          BY <3>4, <4>1, <5>4
      <4> QED
        BY <4>2, <4>3
    <3>6. CASE Hits(u) # {}
      <4>1. PICK m : m = Min(Hits(u))
        OBVIOUS
      <4>2. Hits(u) \subseteq Nat /\ Hits(t) \subseteq Nat /\ Hits(t) \subseteq Hits(u) \cup {x}
        BY <3>1, <3>2
      <4>3. m \in Hits(u) /\ \A y \in Hits(u) : m <= y
        BY <3>6, <4>1, <4>2, MinIsLeast
      <4>4. m \in Hits(t) /\ \A y \in Hits(t) : m <= y
        BY <3>1, <3>2, <4>2, <4>3
      <4>5. Min(Hits(t)) = m
        BY <4>2, <4>4, MinIs
      <4>6. C[t] = results[m] /\ C[u] = results[m] /\ results[m] # {}
        BY <3>3, <3>6, <4>1, <4>3, <4>4, <4>5
      <4> QED
        BY <3>4, <4>6
    <3> QED
      BY <3>5, <3>6
  <2> QED
    BY <2>1, <2>2
<1>5. C = [t \in SUBSET D |-> Body(C, t)]
  BY <1>3, <1>4
<1>6. fold = [t \in SUBSET D |-> Body(fold, t)]
  BY <1>5
<1>7. PICK g : g = fold
  OBVIOUS
<1>8. \A t \in SUBSET D : g[t] = Body(g, t)
  BY <1>6, <1>7
<1> HIDE DEF fold
<1>9. PICK K : K = {k \in Nat : k <= n => g[1 .. k] = C[1 .. k]}
  OBVIOUS
<1>10. 0 \in K
  <2>1. 1 .. 0 = {} /\ {} \in SUBSET D
    OBVIOUS
  <2> QED
    BY <1>4, <1>8, <1>9, <2>1
<1>11. ASSUME NEW k \in Nat, k \in K PROVE k + 1 \in K
  <2> SUFFICES ASSUME k + 1 <= n PROVE g[1 .. k + 1] = C[1 .. k + 1]
    BY <1>9
  <2>1. g[1 .. k] = C[1 .. k]
    BY <1>9, <1>11
  <2>2. 1 .. k + 1 \in SUBSET D /\ 1 .. k + 1 # {}
    BY <1>1
  <2>3. Max(1 .. k + 1) = k + 1 /\ (1 .. k + 1) \ {k + 1} = 1 .. k
    BY LastOf
  <2>4. ASSUME NEW h, \A t \in SUBSET D : h[t] = Body(h, t)
        PROVE  h[1 .. k + 1] = IF h[1 .. k] # {} THEN h[1 .. k] ELSE results[k + 1]
    <3>1. h[1 .. k + 1] = Body(h, 1 .. k + 1)
      BY <2>2, <2>4
    <3> QED
      BY <2>2, <2>3, <3>1
  <2> QED
    BY <1>4, <1>8, <2>1, <2>4
<1>12. n \in K
  BY <1>10, <1>11, Induct
<1>13. FirstFound(results) = Found(1 .. n)
  BY <1>1, <1>2, <1>3, <1>7, <1>9, <1>12
<1>14. ASSUME \A i \in 1 .. n : results[i] = {} PROVE FirstFound(results) = {}
  BY <1>13, <1>14
<1>15. ASSUME NEW i \in 1 .. n, results[i] # {}, \A j \in 1 .. n : j < i => results[j] = {}
       PROVE  FirstFound(results) = results[i]
  <2>1. i \in Hits(1 .. n) /\ Hits(1 .. n) \subseteq Nat
    BY <1>15
  <2>2. \A y \in Hits(1 .. n) : i <= y
    BY <1>15
  <2>3. Min(Hits(1 .. n)) = i
    BY <2>1, <2>2, MinIs
  <2> QED
    BY <1>13, <2>1, <2>3
<1> QED
  BY <1>14, <1>15

=============================================================================
