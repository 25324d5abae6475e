-------------------------- MODULE ConversionProofs --------------------------
(***************************************************************************)
(* Proofs about Conversion, for addresses of any width and any specs that  *)
(* clients write: a v1alpha1 client reads back what it wrote, and reads    *)
(* the namespaced pool that is stored.                                     *)
(*                                                                         *)
(* Both rest on one fact: the defaults that the conversion fills in are    *)
(* filled in once, so that a spec and its defaulted form convert alike.    *)
(***************************************************************************)
EXTENDS Conversion, FiniteSetTheorems, TLAPS

-----------------------------------------------------------------------------
(* Addresses.                                                              *)

(* A subnet has a positive number of addresses: those of n bits are as     *)
(* many as the subsets of n elements.                                      *)
LEMMA PowerType == \A n \in Nat : 2 ^ n \in Nat \ {0}
<1> SUFFICES ASSUME NEW n \in Nat PROVE 2 ^ n \in Nat \ {0}
  OBVIOUS
<1>1. IsFiniteSet(1 .. n) /\ Cardinality(1 .. n) = n
  BY FS_Interval
<1>2. IsFiniteSet(SUBSET (1 .. n)) /\ Cardinality(SUBSET (1 .. n)) = 2 ^ n
  BY <1>1, FS_SUBSET
<1>3. SUBSET (1 .. n) # {}
  OBVIOUS
<1> QED
  BY <1>2, <1>3, FS_CardinalityType, FS_EmptySet

(* The first and the last address of a subnet, and their neighbours.       *)
LEMMA SubnetType ==
    ASSUME NEW p \in [addr : Addrs, bits : 0 .. Width]
    PROVE  LET from == Masked(p).addr
               to   == from + 2 ^ (Width - p.bits) - 1
           IN  NextAddr(from) \in Int /\ PrevAddr(to) \in Int
<1>1. Width \in Nat
  BY WidthAssumption
<1>2. Width - p.bits \in Nat /\ p.addr \in Int
  BY <1>1 DEF Addrs
<1>3. PICK size : size = 2 ^ (Width - p.bits)
  OBVIOUS
<1>4. size \in Nat \ {0}
  BY <1>2, <1>3, PowerType
<1>5. p.addr % size \in Int
  BY <1>2, <1>4
<1>6. Masked(p).addr = p.addr - (p.addr % size)
  BY <1>3 DEF Masked, PrefixFrom
<1>7. Masked(p).addr \in Int
  BY <1>2, <1>5, <1>6
<1>8. NextAddr(Masked(p).addr) \in Int
  BY <1>7 DEF NextAddr
<1>9. PrevAddr(Masked(p).addr + size - 1) \in Int
  BY <1>4, <1>7 DEF PrevAddr
<1> QED
  BY <1>3, <1>8, <1>9

-----------------------------------------------------------------------------
(* The conversion of a spec.                                               *)

(* The specs that convert.                                                 *)
Convertible == {s \in V1Spec : s.subnet # Malformed}

(* The defaulted spec is a spec, and has nothing left to default.          *)
LEMMA DefaultedOnce ==
    ASSUME NEW s \in Convertible
    PROVE  /\ Defaulted(s) \in Convertible
           /\ Defaulted(Defaulted(s)) = Defaulted(s)
           /\ Defaulted(s).gateway = s.gateway /\ Defaulted(s).addresses = s.addresses
<1>1. s \in V1Spec /\ s.subnet # Malformed
  BY DEF Convertible
<1>2. CASE s.subnet = None
  BY <1>2 DEF Defaulted
<1>3. CASE s.subnet # None
  <2>1. s.subnet \in [addr : Addrs, bits : 0 .. Width]
    BY <1>1, <1>3 DEF V1Spec
  <2>2. PICK a, b : /\ a = NextAddr(Masked(s.subnet).addr)
                    /\ b = PrevAddr(Masked(s.subnet).addr + 2 ^ (Width - s.subnet.bits) - 1)
    OBVIOUS
  <2>3. a \in Int /\ b \in Int
    BY <2>1, <2>2, SubnetType
  <2>4. PICK f, l, q : /\ f = Or(s.first, a) /\ l = Or(s.last, b)
                       /\ q = IF s.prefix = 0 THEN s.subnet.bits ELSE s.prefix
    OBVIOUS
  <2>5. f \in Int \cup {None} /\ l \in Int \cup {None} /\ q \in Nat
    <3>1. s.first \in Int \cup {None} /\ s.last \in Int \cup {None} /\ s.prefix \in Nat
      BY <1>1 DEF V1Spec
    <3>2. s.subnet.bits \in Nat
      BY <2>1, WidthAssumption
    <3> QED
      BY <2>3, <2>4, <3>1, <3>2 DEF Or
  <2>6. PICK d : d = [s EXCEPT !.first = f, !.last = l, !.prefix = q]
    OBVIOUS
  <2>7. Defaulted(s) = d
    BY <1>3, <2>2, <2>4, <2>6 DEF Defaulted
  <2>8. /\ d \in V1Spec /\ d.subnet = s.subnet
        /\ d.first = f /\ d.last = l /\ d.prefix = q
        /\ d.gateway = s.gateway /\ d.addresses = s.addresses
    BY <1>1, <2>5, <2>6 DEF V1Spec
  <2>9. /\ Or(f, a) = f /\ Or(l, b) = l
        /\ (IF q = 0 THEN s.subnet.bits ELSE q) = q
    BY <2>4 DEF Or
  <2>10. Defaulted(d) = [d EXCEPT !.first = f, !.last = l, !.prefix = q]
    BY <1>3, <2>2, <2>8, <2>9 DEF Defaulted
  <2>11. [d EXCEPT !.first = f, !.last = l, !.prefix = q] = d
    BY <2>6, <2>8 DEF V1Spec
  <2> QED
    BY <1>1, <2>7, <2>8, <2>10, <2>11 DEF Convertible
<1> QED
  BY <1>2, <1>3

(* A spec and its defaulted form convert alike.                            *)
LEMMA ConvertsAlike ==
    ASSUME NEW s \in Convertible
    PROVE  /\ ConvertSpecToV2(Defaulted(s)) = ConvertSpecToV2(s)
           /\ ConvertSpecToV2(s) \in V2Spec
<1>1. /\ Defaulted(s) \in Convertible
      /\ Defaulted(Defaulted(s)) = Defaulted(s)
  BY DefaultedOnce
<1>2. ConvertSpecToV2(Defaulted(s)) = ConvertSpecToV2(s)
  BY <1>1 DEF ConvertSpecToV2
<1>3. PICK d : d = Defaulted(s)
  OBVIOUS
<1>4. d \in V1Spec
  BY <1>1, <1>3 DEF Convertible
<1>5. PICK tail : tail = IF d.first # None /\ d.last # None
                         THEN <<[from |-> d.first, to |-> d.last]>> ELSE <<>>
  OBVIOUS
<1>6. tail \in Seq(AddressRange)
  <2>1. d.first \in Int \cup {None} /\ d.last \in Int \cup {None}
    BY <1>4 DEF V1Spec
  <2>2. CASE d.first # None /\ d.last # None
    <3>1. PICK r : r = [from |-> d.first, to |-> d.last]
      OBVIOUS
    <3>2. r \in AddressRange
      BY <2>1, <2>2, <3>1 DEF AddressRange
    <3>3. tail = <<r>>
      BY <1>5, <2>2, <3>1
    <3> QED
      BY <3>2, <3>3
  <2>3. CASE ~(d.first # None /\ d.last # None)
    BY <1>5, <2>3
  <2> QED
    BY <2>2, <2>3
<1>7. d.addresses \o tail \in Seq(AddressRange)
  BY <1>4, <1>6 DEF V1Spec
<1>8. ConvertSpecToV2(s) = [addresses |-> d.addresses \o tail, prefix |-> d.prefix,
                            gateway |-> d.gateway, newer |-> FALSE]
  BY <1>3, <1>5 DEF ConvertSpecToV2
<1>9. ConvertSpecToV2(s) \in V2Spec
  BY <1>4, <1>7, <1>8 DEF V1Spec, V2Spec
<1> QED
  BY <1>2, <1>9

(* A v1alpha2 spec read as v1alpha1 has nothing to default, and converts   *)
(* back to what both versions have of it.                                  *)
LEMMA ReadAsV1 ==
    ASSUME NEW s \in V2Spec
    PROVE  /\ ConvertSpecToV1(s) \in V1Spec /\ ConvertSpecToV1(s).subnet = None
           /\ Shared(ConvertSpecToV2(ConvertSpecToV1(s))) = Shared(s)
<1>1. PICK v : v = ConvertSpecToV1(s)
  OBVIOUS
<1>2. /\ v \in V1Spec /\ v.subnet = None /\ v.first = None
      /\ v.addresses = s.addresses /\ v.prefix = s.prefix /\ v.gateway = s.gateway
  BY <1>1 DEF ConvertSpecToV1, V1Spec, V2Spec
<1>3. Defaulted(v) = v
  BY <1>2 DEF Defaulted
<1>4. s.addresses \o <<>> = s.addresses
  BY DEF V2Spec
<1>5. ConvertSpecToV2(v) = [addresses |-> s.addresses, prefix |-> s.prefix,
                            gateway |-> s.gateway, newer |-> FALSE]
  BY <1>2, <1>3, <1>4 DEF ConvertSpecToV2
<1> QED
  BY <1>1, <1>2, <1>5 DEF Shared

-----------------------------------------------------------------------------
(* The stored pool.                                                        *)

StoredPool == [spec : V2Spec, status : Counts \cup {None}, data : Convertible \cup {None}]

(* The saved spec converts; as long as v1alpha1 has had the last word, it  *)
(* is the applied one with its defaults, and the stored spec came from it. *)
SavedInv ==
    /\ pool # None => pool \in StoredPool
    /\ applied # None => /\ applied \in Convertible
                         /\ pool.spec = ConvertSpecToV2(applied)
                         /\ pool.data = Defaulted(applied)

(* What a v1alpha1 client reads is a v1alpha1 spec.                        *)
LEMMA ReadType ==
    ASSUME NEW src \in StoredPool
    PROVE  /\ ConvertFrom(src).spec \in V1Spec
           /\ ConvertFrom(src).status = src.status
           /\ src.data # None /\ Restores(src) => ConvertFrom(src).spec = Restored(src)
           /\ ~(src.data # None /\ Restores(src)) =>
                ConvertFrom(src).spec = ConvertSpecToV1(src.spec)
<1>1. src.spec \in V2Spec /\ src.data \in Convertible \cup {None}
  BY DEF StoredPool
<1>2. src.data # None => Restored(src) \in Convertible
  BY <1>1, DefaultedOnce DEF Restored
<1>3. ConvertSpecToV1(src.spec) \in V1Spec
  BY <1>1, ReadAsV1
<1>4. /\ ConvertFrom(src).status = src.status
      /\ ConvertFrom(src).spec = IF src.data # None /\ Restores(src)
                                 THEN Restored(src) ELSE ConvertSpecToV1(src.spec)
  BY DEF ConvertFrom
<1>5. ConvertFrom(src).spec \in V1Spec
  BY <1>2, <1>3, <1>4 DEF Convertible
<1> QED
  BY <1>4, <1>5

(* A write as v1alpha1.                                                    *)
LEMMA WriteSaves ==
    ASSUME SavedInv, NEW s \in V1Spec, WriteV1(s)
    PROVE  SavedInv'
<1>1. s \in Convertible
  BY DEF WriteV1, Convertible
<1>2. PICK status : status = IF pool = None THEN None ELSE pool.status
  OBVIOUS
<1>3. status \in Counts \cup {None}
  BY <1>2 DEF SavedInv, StoredPool
<1>4. /\ pool' = [spec |-> ConvertSpecToV2(s), status |-> status, data |-> Defaulted(s)]
      /\ applied' = s
  BY <1>2 DEF WriteV1, ConvertTo
<1>5. Defaulted(s) \in Convertible /\ ConvertSpecToV2(s) \in V2Spec
  BY <1>1, DefaultedOnce, ConvertsAlike
<1>6. pool' \in StoredPool
  BY <1>3, <1>4, <1>5 DEF StoredPool
<1>7. pool'.spec = ConvertSpecToV2(s) /\ pool'.data = Defaulted(s)
  BY <1>4
<1>8. pool'.spec = ConvertSpecToV2(applied') /\ pool'.data = Defaulted(applied')
  BY <1>4, <1>7
<1> QED
  BY <1>1, <1>4, <1>6, <1>8 DEF SavedInv, ConvertSpecToV2, Defaulted

(* SavedInv is kept by every write, of either version.                     *)
LEMMA SavedStep == SavedInv /\ [Next]_vars => SavedInv'
<1> SUFFICES ASSUME SavedInv, [Next]_vars PROVE SavedInv'
  OBVIOUS
<1>1. pool # None => ConvertFrom(pool).spec \in V1Spec
  BY ReadType DEF SavedInv
<1>2. ASSUME NEW s \in V1Specs, WriteV1(s) PROVE SavedInv'
  BY <1>2, WriteSaves, ConversionAssumption
<1>3. ASSUME NEW gateway \in Gateways, PatchV1(gateway) PROVE SavedInv'
  <2>1. PICK v : v = ConvertFrom(pool).spec
    OBVIOUS
  <2>2. PICK s : s = [v EXCEPT !.gateway = gateway]
    OBVIOUS
  <2>3. v \in V1Spec /\ WriteV1(s)
    BY <1>1, <1>3, <2>1, <2>2 DEF PatchV1
  <2>4. gateway \in Addrs \cup {None}
    BY ConversionAssumption
  <2>5. s \in V1Spec
    BY <2>2, <2>3, <2>4 DEF V1Spec
  <2> QED
    BY <2>3, <2>5, WriteSaves
<1>4. CASE TouchV1
  BY <1>1, <1>4, WriteSaves DEF TouchV1
<1>5. ASSUME NEW s \in V2Specs, WriteV2(s) PROVE SavedInv'
  <2>1. PICK status, data : /\ status = (IF pool = None THEN None ELSE pool.status)
                            /\ data = (IF pool = None THEN None ELSE pool.data)
    OBVIOUS
  <2>2. status \in Counts \cup {None} /\ data \in Convertible \cup {None}
    BY <2>1 DEF SavedInv, StoredPool
  <2>3. pool' = [spec |-> s, status |-> status, data |-> data] /\ applied' = None
    BY <1>5, <2>1 DEF WriteV2
  <2>4. pool' \in StoredPool
    BY <2>2, <2>3, ConversionAssumption DEF StoredPool
  <2> QED
    BY <2>3, <2>4 DEF SavedInv
<1>6. CASE DropData
  <2>1. pool \in StoredPool /\ pool' = [pool EXCEPT !.data = None] /\ applied' = None
    BY <1>6 DEF DropData, SavedInv
  <2>2. pool' \in StoredPool
    BY <2>1 DEF StoredPool
  <2> QED
    BY <2>1, <2>2 DEF SavedInv
<1>7. ASSUME NEW count \in Counts, UpdateStatus(count) PROVE SavedInv'
  <2>1. pool \in StoredPool /\ pool' = [pool EXCEPT !.status = count] /\ applied' = applied
    BY <1>7 DEF UpdateStatus, SavedInv
  <2>2. pool' \in StoredPool /\ pool'.spec = pool.spec /\ pool'.data = pool.data
    BY <2>1 DEF StoredPool
  <2> QED
    BY <2>1, <2>2 DEF SavedInv, ConvertSpecToV2, Defaulted
<1>8. CASE UNCHANGED vars
  BY <1>8 DEF vars, SavedInv, ConvertSpecToV2, Defaulted
<1> QED
  BY <1>2, <1>3, <1>4, <1>5, <1>6, <1>7, <1>8 DEF Next

(* SavedInv always holds.                                                  *)
LEMMA Saved == Spec => []SavedInv
<1>1. Init => SavedInv
  BY DEF Init, SavedInv
<1> QED
  BY <1>1, SavedStep, PTL DEF Spec

(* A v1alpha1 client reads back what it wrote, with the defaults filled    *)
(* in: neither the comparison of ConvertFrom nor a second conversion gets  *)
(* in the way, for both kinds of pools.                                    *)
THEOREM WhatWasWritten == Spec => []ReadsBack
<1>1. SavedInv => ReadsBack
  <2> SUFFICES ASSUME SavedInv, applied # None
               PROVE  ConvertFrom(pool).spec = Defaulted(applied)
    BY DEF ReadsBack
  <2>1. /\ applied \in Convertible
        /\ pool.spec = ConvertSpecToV2(applied) /\ pool.data = Defaulted(applied)
    BY DEF SavedInv
  <2>2. Defaulted(applied) \in Convertible /\ Defaulted(Defaulted(applied)) = Defaulted(applied)
    BY <2>1, DefaultedOnce
  <2>3. pool.data # None
    BY <2>1, <2>2, ConversionAssumption DEF Convertible
  <2>4. ConvertSpecToV2(Defaulted(applied)) = ConvertSpecToV2(applied)
    BY <2>1, ConvertsAlike
  <2>5. Restores(pool)
    BY <2>1, <2>4 DEF Restores
  <2>6. Restored(pool) = Defaulted(applied)
    BY <2>1, <2>2 DEF Restored
  <2> QED
    BY <2>3, <2>5, <2>6 DEF ConvertFrom
<1> QED
  BY <1>1, Saved, PTL

(* What a v1alpha1 client reads of a namespaced pool stands for the stored *)
(* addresses, prefix and gateway, whichever version wrote them.            *)
THEOREM WhatIsStored == Spec => []FreshUnlessGlobal
<1>1. SavedInv => FreshUnlessGlobal
  <2> SUFFICES ASSUME SavedInv, kind = "InClusterIPPool", pool # None
               PROVE  /\ Shared(ConvertSpecToV2(ConvertFrom(pool).spec)) = Shared(pool.spec)
                      /\ ConvertFrom(pool).status = pool.status
    BY DEF FreshUnlessGlobal, Fresh
  <2>1. pool \in StoredPool
    BY DEF SavedInv
  <2>2. pool.spec \in V2Spec /\ pool.data \in Convertible \cup {None}
    BY <2>1 DEF StoredPool
  <2>3. CASE pool.data # None /\ Restores(pool)
    <3>1. ConvertFrom(pool).spec = Defaulted(pool.data)
      BY <2>1, <2>3, ReadType DEF Restored
    <3>2. ConvertSpecToV2(Defaulted(pool.data)) = ConvertSpecToV2(pool.data)
      BY <2>2, <2>3, ConvertsAlike
    <3>3. Shared(ConvertSpecToV2(pool.data)) = Shared(pool.spec)
      BY <2>3 DEF Restores
    <3> QED
      BY <2>1, <3>1, <3>2, <3>3, ReadType
  <2>4. CASE ~(pool.data # None /\ Restores(pool))
    BY <2>1, <2>2, <2>4, ReadType, ReadAsV1
  <2> QED
    BY <2>3, <2>4
<1> QED
  BY <1>1, Saved, PTL

=============================================================================
