--------------------------- MODULE FailoverProofs ---------------------------
(* What leader election leaves of the guarantees, for any number of        *)
(* managers, claims and addresses and every lag of their caches.           *)
EXTENDS Failover, SequenceTheorems, WellFoundedInduction, TLAPS

(* A set of natural numbers that is not empty has a least element.         *)
LEMMA LeastNatural ==
    ASSUME NEW T, T \subseteq Nat, T # {}
    PROVE  \E x \in T : \A y \in T : x <= y
<1> DEFINE R == OpToRel(<, Nat)
<1>1. IsWellFoundedOn(R, Nat)
  BY NatLessThanWellFounded
<1>2. \A x, y \in Nat : x < y => <<x, y>> \in R
  BY DEF OpToRel
<1> HIDE DEF R
<1>3. PICK x \in T : \A y \in T : ~(<<y, x>> \in R)
  BY <1>1, WFMin
<1>4. ASSUME NEW y \in T PROVE x <= y
  <2>1. x \in Nat /\ y \in Nat /\ ~(y < x)
    BY <1>2, <1>3
  <2> QED
    BY <2>1
<1> QED
  BY <1>4

(* Min is the least element.                                               *)
LEMMA MinIsLeast ==
    ASSUME NEW T, T \subseteq Nat, T # {}
    PROVE  Min(T) \in T /\ \A y \in T : Min(T) <= y
BY LeastNatural DEF Min

-----------------------------------------------------------------------------
(* Type correctness.                                                       *)

(* The states of the history.                                              *)
State == [Claims -> IPs \cup {None}]

(* What the history looks like after the states no cache shows are gone.   *)
Forgotten(o, s) ==
    /\ o \in 1 .. Len(history)
    /\ history' \in Seq(State)
    /\ Len(history') = Len(history) - o + 1
    /\ DOMAIN history' = 1 .. Len(history) - o + 1
    /\ \A i \in 1 .. Len(history) - o + 1 : history'[i] = history[i + o - 1]
    /\ \A m \in Managers : o <= s[m]
    /\ seen' = [m \in Managers |-> s[m] - o + 1]
    /\ term' = IF term < o THEN 1 ELSE term - o + 1

(* Forget leaves the history from the oldest cached state on.              *)
LEMMA ForgetLeaves ==
    ASSUME history \in Seq(State), NEW s \in [Managers -> 1 .. Len(history)],
           Forget(history, s, term)
    PROVE  \E o \in Nat : Forgotten(o, s)
<1> DEFINE shown == {s[m] : m \in Managers}
           o == Min(shown)
<1>1. Len(history) \in Nat
  OBVIOUS
<1>2. shown \subseteq 1 .. Len(history) /\ shown \subseteq Nat /\ shown # {}
  BY FailoverAssumption
<1>3. o \in shown /\ \A y \in shown : o <= y
  BY <1>2, MinIsLeast
<1>4. /\ history' = SubSeq(history, o, Len(history))
      /\ seen' = [m \in Managers |-> s[m] - o + 1]
      /\ term' = IF term < o THEN 1 ELSE term - o + 1
  BY DEF Forget
<1>5. o \in 1 .. Len(history) /\ \A m \in Managers : o <= s[m]
  BY <1>2, <1>3
<1> HIDE DEF o
<1>6. /\ history' \in Seq(State)
      /\ Len(history') = Len(history) - o + 1
      /\ \A i \in 1 .. Len(history) - o + 1 : history'[i] = history[o + i - 1]
  BY <1>1, <1>4, <1>5, SubSeqProperties
<1> QED
  BY <1>1, <1>4, <1>5, <1>6 DEF Forgotten

(* What a write of the address of c leaves.                                *)
Written(c, ip) ==
    /\ history' \in Seq(State)
    /\ Len(history') = Len(history) + 1
    /\ DOMAIN history' = 1 .. Len(history) + 1
    /\ \A i \in 1 .. Len(history) : history'[i] = history[i]
    /\ history'[Len(history) + 1][c] = ip
    /\ \A d \in Claims \ {c} : history'[Len(history) + 1][d] = Stored[d]
    /\ UNCHANGED <<seen, term>>

(* So does Write.                                                           *)
LEMMA WriteLeaves ==
    ASSUME TypeOK, NEW c \in Claims, NEW ip \in IPs \cup {None}, Write(c, ip)
    PROVE  Written(c, ip) /\ Len(history') <= MaxLag + 1
<1> DEFINE next == [Stored EXCEPT ![c] = ip]
<1>1. history \in Seq(State) /\ Len(history) \in Nat /\ Len(history) >= 1
  BY DEF TypeOK, State
<1>2. Stored \in State
  BY <1>1 DEF Stored
<1>3. /\ next \in State /\ next[c] = ip
      /\ \A d \in Claims \ {c} : next[d] = Stored[d]
  BY <1>2 DEF State
<1>4. /\ history' = Append(history, next) /\ UNCHANGED <<seen, term>>
      /\ Len(history) <= MaxLag
  BY DEF Write
<1> HIDE DEF next
<1>5. /\ history' \in Seq(State)
      /\ Len(history') = Len(history) + 1
      /\ \A i \in 1 .. Len(history) : history'[i] = history[i]
      /\ history'[Len(history) + 1] = next
  BY <1>1, <1>3, <1>4
<1> QED
  BY <1>1, <1>3, <1>4, <1>5, FailoverAssumption DEF Written

(* A write and a forgetting keep the types of the history.                 *)
LEMMA WriteType ==
    ASSUME TypeOK, NEW c \in Claims, NEW ip \in IPs \cup {None}, Write(c, ip)
    PROVE  /\ history' \in Seq(State) /\ Len(history') \in 1 .. MaxLag + 1
           /\ seen' \in [Managers -> 1 .. Len(history')] /\ term' \in 1 .. Len(history')
<1>1. Len(history) \in Nat /\ Len(history) >= 1 /\ MaxLag \in Nat
  BY FailoverAssumption DEF TypeOK
<1>2. /\ history' \in Seq(State) /\ Len(history') = Len(history) + 1
      /\ Len(history') <= MaxLag + 1 /\ UNCHANGED <<seen, term>>
  BY WriteLeaves DEF Written
<1>3. seen \in [Managers -> 1 .. Len(history)] /\ term \in 1 .. Len(history)
  BY DEF TypeOK
<1>4. \A x \in 1 .. Len(history) : x \in 1 .. Len(history')
  BY <1>1, <1>2
<1> QED
  BY <1>1, <1>2, <1>3, <1>4

(* ... also when states are forgotten.                                     *)
LEMMA ForgetType ==
    ASSUME TypeOK, NEW s \in [Managers -> 1 .. Len(history)], Forget(history, s, term)
    PROVE  /\ history' \in Seq(State) /\ Len(history') \in 1 .. MaxLag + 1
           /\ seen' \in [Managers -> 1 .. Len(history')] /\ term' \in 1 .. Len(history')
<1>1. /\ history \in Seq(State) /\ Len(history) \in Nat /\ Len(history) <= MaxLag + 1
      /\ term \in 1 .. Len(history) /\ MaxLag \in Nat
  BY FailoverAssumption DEF TypeOK, State
<1>2. PICK o \in Nat : Forgotten(o, s)
  BY <1>1, ForgetLeaves
<1>3. /\ o \in 1 .. Len(history) /\ history' \in Seq(State)
      /\ Len(history') = Len(history) - o + 1
      /\ \A m \in Managers : o <= s[m] /\ s[m] \in 1 .. Len(history)
      /\ seen' = [m \in Managers |-> s[m] - o + 1]
      /\ term' = IF term < o THEN 1 ELSE term - o + 1
  BY <1>2 DEF Forgotten
<1>4. \A m \in Managers : s[m] - o + 1 \in 1 .. Len(history')
  BY <1>1, <1>3
<1> QED
  BY <1>1, <1>3, <1>4

(* Every step keeps the types.                                             *)
LEMMA TypeOKStep == TypeOK /\ [Next]_vars => TypeOK'
<1> SUFFICES ASSUME TypeOK, [Next]_vars PROVE TypeOK'
  OBVIOUS
<1>1. /\ history \in Seq(State) /\ Len(history) \in 1 .. MaxLag + 1 /\ Len(history) \in Nat
      /\ seen \in [Managers -> 1 .. Len(history)] /\ term \in 1 .. Len(history)
      /\ leader \in Managers
  BY DEF TypeOK, State
<1>2. ASSUME NEW c \in Claims, EnsureAddress(c) PROVE TypeOK'
  <2>1. Free \subseteq Nat /\ Free # {} /\ Free \subseteq IPs
    BY <1>2, FailoverAssumption DEF EnsureAddress, Free
  <2>2. Min(Free) \in IPs
    BY <2>1, MinIsLeast
  <2>3. strayed' \in BOOLEAN
    BY <1>2 DEF EnsureAddress, TypeOK
  <2> QED
    BY <1>2, <2>2, <2>3 DEF EnsureAddress, TypeOK
<1>3. ASSUME NEW c \in Claims, ReleaseAddress(c) PROVE TypeOK'
  BY <1>3, WriteType DEF ReleaseAddress, TypeOK, State
<1>4. CASE CreateOrPatch
  <2>1. cur \in Claims /\ want \in IPs \cup {None}
    BY <1>4 DEF CreateOrPatch, TypeOK
  <2>2. CASE Stored[cur] = None
    <3>1. /\ Write(cur, want) /\ pc' = "wait" /\ UNCHANGED <<cur, want, leader, strayed>>
          /\ pc = "write"
      BY <1>4, <2>2 DEF CreateOrPatch
    <3> QED
      BY <2>1, <3>1, WriteType DEF TypeOK, State
  <2>3. CASE Stored[cur] # None
    BY <1>4, <2>3 DEF CreateOrPatch, Idle, TypeOK
  <2> QED
    BY <2>2, <2>3
<1>5. CASE AddressSeen
  BY <1>5 DEF AddressSeen, Idle, TypeOK
<1>6. ASSUME NEW m \in Managers, HandOver(m) PROVE TypeOK'
  BY <1>1, <1>6 DEF HandOver, Idle, TypeOK
<1>7. ASSUME NEW m \in Managers, Replace(m) PROVE TypeOK'
  <2>1. [seen EXCEPT ![m] = Len(history)] \in [Managers -> 1 .. Len(history)]
    BY <1>1
  <2>2. /\ history' \in Seq(State) /\ Len(history') \in 1 .. MaxLag + 1
        /\ seen' \in [Managers -> 1 .. Len(history')] /\ term' \in 1 .. Len(history')
    BY <1>7, <2>1, ForgetType DEF Replace
  <2> QED
    BY <1>7, <2>2 DEF Replace, Idle, TypeOK, State
<1>8. ASSUME NEW m \in Managers, Watch(m) PROVE TypeOK'
  <2>1. [seen EXCEPT ![m] = @ + 1] \in [Managers -> 1 .. Len(history)]
    BY <1>1, <1>8 DEF Watch
  <2>2. /\ history' \in Seq(State) /\ Len(history') \in 1 .. MaxLag + 1
        /\ seen' \in [Managers -> 1 .. Len(history')] /\ term' \in 1 .. Len(history')
    BY <1>8, <2>1, ForgetType DEF Watch
  <2> QED
    BY <1>8, <2>2 DEF Watch, TypeOK, State
<1>9. CASE UNCHANGED vars
  BY <1>9 DEF vars, TypeOK
<1> QED
  BY <1>2, <1>3, <1>4, <1>5, <1>6, <1>7, <1>8, <1>9 DEF Next

(* Initially nobody has an address.                                        *)
LEMMA TypeOKInit == Init => TypeOK
<1> SUFFICES ASSUME Init PROVE TypeOK
  OBVIOUS
<1> DEFINE none == [c \in Claims |-> None]
<1>1. none \in State /\ history = <<none>>
  BY DEF State, Init
<1> HIDE DEF none
<1>2. history \in Seq(State) /\ Len(history) = 1
  BY <1>1
<1>3. 1 \in 1 .. MaxLag + 1 /\ 1 \in 1 .. 1
  BY FailoverAssumption
<1> QED
  BY <1>2, <1>3 DEF Init, TypeOK, State

(* Type correctness, for any number of managers.                           *)
THEOREM FailoverTypes == Spec => []TypeOK
<1> QED
  BY TypeOKInit, TypeOKStep, PTL DEF Spec

-----------------------------------------------------------------------------
(* Uniqueness.                                                             *)

(* The part of FailoverInv that is about the history.                      *)
HistoryInv == UniqueAddresses /\ Awaited /\ GoneForGood /\ SameIP

(* The indices of the history.                                             *)
LEMMA HistoryIndices ==
    ASSUME TypeOK
    PROVE  /\ Len(history) \in Nat /\ Len(history) >= 1
           /\ DOMAIN history = 1 .. Len(history)
           /\ leader \in Managers /\ seen[leader] \in 1 .. Len(history)
           /\ seen[leader] \in Nat /\ term \in Nat /\ term <= Len(history)
           /\ Ahead(Len(history))
BY DEF TypeOK, Ahead

(* A release keeps the order of the history, as a creation does of an      *)
(* address that nobody has.                                                *)
LEMMA WriteKeeps ==
    ASSUME TypeOK, HistoryInv, NEW c \in Claims, NEW ip \in IPs \cup {None}, Written(c, ip),
           UNCHANGED leader, pc # "wait",
           \/ ip = None
           \/ /\ pc' = "wait" /\ cur' = c
              /\ \A i \in DOMAIN history :
                   Ahead(i) => history[i][c] = None /\ \A d \in Claims : history[i][d] # ip
    PROVE  HistoryInv'
<1>1. PICK n \in Nat :
        /\ n = Len(history) /\ n >= 1 /\ DOMAIN history = 1 .. n
        /\ Stored = history[n] /\ Ahead(n)
  BY HistoryIndices DEF Stored
<1>2. /\ Len(history') = n + 1
      /\ DOMAIN history' = 1 .. n + 1
      /\ \A i \in 1 .. n : history'[i] = history[i]
      /\ history'[n + 1][c] = ip
      /\ \A d \in Claims \ {c} : history'[n + 1][d] = history[n][d]
      /\ UNCHANGED <<seen, term, leader>>
  BY <1>1 DEF Written
<1>3. Stored' = history'[n + 1]
  BY <1>2 DEF Stored
<1>4. \A i : Ahead(i)' <=> Ahead(i)
  BY <1>2 DEF Ahead
<1>5. \A i \in 1 .. n + 1 : i \in 1 .. n \/ i = n + 1
  BY <1>1
<1>6. \A i, j \in 1 .. n + 1 : i < j => i \in 1 .. n /\ (i = n \/ i < n)
  BY <1>1
<1>7. UniqueAddresses'
  BY <1>1, <1>2, <1>3 DEF HistoryInv, UniqueAddresses
<1>8. ASSUME NEW d \in Claims, NEW i \in 1 .. n + 1, NEW j \in 1 .. n + 1, Ahead(i), i < j,
             history'[i][d] = None, history'[j][d] # None
      PROVE  pc' = "wait" /\ cur' = d
  <2>1. i \in 1 .. n /\ history[i][d] = None
    BY <1>2, <1>6, <1>8
  <2>2. CASE j \in 1 .. n
    BY <1>1, <1>2, <1>8, <2>1, <2>2 DEF HistoryInv, Awaited
  <2>3. CASE j = n + 1 /\ d # c
    <3>1. history[n][d] # None
      BY <1>2, <1>8, <2>3
    <3> QED
      BY <1>1, <1>6, <1>8, <2>1, <3>1 DEF HistoryInv, Awaited
  <2>4. CASE j = n + 1 /\ d = c
    BY <1>2, <1>8, <2>4
  <2> QED
    BY <1>5, <2>2, <2>3, <2>4
<1>9. ASSUME NEW d \in Claims, NEW i \in 1 .. n + 1, NEW j \in 1 .. n + 1, NEW k \in 1 .. n + 1,
             Ahead(i), i < j, j < k, history'[i][d] # None, history'[j][d] = None
      PROVE  history'[k][d] = None
  <2>1. /\ i \in 1 .. n /\ j \in 1 .. n
        /\ history[i][d] # None /\ history[j][d] = None
    BY <1>2, <1>6, <1>9
  <2>2. CASE k \in 1 .. n
    BY <1>1, <1>2, <1>9, <2>1, <2>2 DEF HistoryInv, GoneForGood
  <2>3. CASE k = n + 1 /\ d # c
    <3>1. history'[k][d] = history[n][d]
      BY <1>2, <2>3
    <3>2. j = n \/ (j < n /\ history[n][d] = None)
      BY <1>1, <1>6, <1>9, <2>1 DEF HistoryInv, GoneForGood
    <3> QED
      BY <2>1, <3>1, <3>2
  <2>4. CASE k = n + 1 /\ d = c
    BY <1>1, <1>2, <1>9, <2>1, <2>4
  <2> QED
    BY <1>5, <2>2, <2>3, <2>4
<1>10. ASSUME NEW d \in Claims, NEW i \in 1 .. n + 1, NEW j \in 1 .. n + 1, Ahead(i), i < j,
              history'[i][d] # None, history'[j][d] # None
       PROVE  history'[i][d] = history'[j][d]
  <2>1. i \in 1 .. n /\ history[i][d] # None /\ history'[i] = history[i]
    BY <1>2, <1>6, <1>10
  <2>2. CASE j \in 1 .. n
    BY <1>1, <1>2, <1>10, <2>1, <2>2 DEF HistoryInv, SameIP
  <2>3. CASE j = n + 1 /\ d # c
    <3>1. history'[j][d] = history[n][d]
      BY <1>2, <2>3
    <3> QED
      BY <1>1, <1>6, <1>10, <2>1, <3>1 DEF HistoryInv, SameIP
  <2>4. CASE j = n + 1 /\ d = c
    BY <1>1, <1>2, <1>10, <2>1, <2>4
  <2> QED
    BY <1>5, <2>2, <2>3, <2>4
<1> QED
  BY <1>2, <1>4, <1>7, <1>8, <1>9, <1>10 DEF HistoryInv, Awaited, GoneForGood, SameIP

(* What every cache has left behind is not missed.                         *)
LEMMA ForgetKeeps ==
    ASSUME TypeOK, HistoryInv, NEW s \in [Managers -> 1 .. Len(history)],
           Forget(history, s, term), seen[leader] <= s[leader],
           UNCHANGED <<leader, pc, cur, want>>
    PROVE  /\ HistoryInv'
           /\ term <= seen[leader] => term' <= seen'[leader]
           /\ Unclaimed => Unclaimed'
<1>1. PICK n \in Nat :
        /\ n = Len(history) /\ n >= 1 /\ DOMAIN history = 1 .. n
        /\ Stored = history[n] /\ leader \in Managers
        /\ seen[leader] \in Nat /\ term \in Nat /\ term >= 1
        /\ s[leader] \in Nat
  BY HistoryIndices DEF Stored, TypeOK
<1>2. PICK o \in Nat : Forgotten(o, s)
  BY ForgetLeaves DEF TypeOK, State
<1>3. /\ o \in 1 .. n
      /\ Len(history') = n - o + 1
      /\ DOMAIN history' = 1 .. n - o + 1
      /\ \A i \in 1 .. n - o + 1 : history'[i] = history[i + o - 1]
      /\ o <= s[leader] /\ seen'[leader] = s[leader] - o + 1
      /\ term' = IF term < o THEN 1 ELSE term - o + 1
  BY <1>1, <1>2 DEF Forgotten
<1>4. Stored' = Stored
  <2>1. n - o + 1 \in 1 .. n - o + 1 /\ (n - o + 1) + o - 1 = n
    BY <1>1, <1>3
  <2> QED
    BY <1>1, <1>3, <2>1 DEF Stored
<1>5. ASSUME NEW i \in DOMAIN history'
      PROVE  /\ i \in Nat /\ i + o - 1 \in DOMAIN history
             /\ history'[i] = history[i + o - 1]
             /\ Ahead(i)' => Ahead(i + o - 1)
  <2>1. i \in Nat /\ i >= 1 /\ i + o - 1 \in 1 .. n
    BY <1>1, <1>3
  <2>2. Ahead(i)' => Ahead(i + o - 1)
    BY <1>1, <1>3, <2>1 DEF Ahead
  <2> QED
    BY <1>1, <1>3, <2>1, <2>2
<1>6. \A i, j \in DOMAIN history' : i < j => i + o - 1 < j + o - 1
  BY <1>5
<1>7. UniqueAddresses'
  BY <1>4 DEF HistoryInv, UniqueAddresses
<1>8. Awaited' /\ GoneForGood' /\ SameIP'
  BY <1>5, <1>6 DEF HistoryInv, Awaited, GoneForGood, SameIP
<1>9. Unclaimed => Unclaimed'
  BY <1>5 DEF Unclaimed
<1>10. term <= seen[leader] => term' <= seen'[leader]
  BY <1>1, <1>3
<1> QED
  BY <1>7, <1>8, <1>9, <1>10 DEF HistoryInv

(* A cache that shows what is stored leaves nothing ahead.                 *)
LEMMA NothingAhead ==
    ASSUME TypeOK, UniqueAddresses, Stored' = Stored,
           \A i \in DOMAIN history' : Ahead(i)' => \A j \in DOMAIN history' : ~(i < j)
    PROVE  HistoryInv'
BY DEF HistoryInv, UniqueAddresses, Awaited, GoneForGood, SameIP

(* What EnsureAddress relies on: an address that the cache has not, and    *)
(* that is no one's in it, is no one's.                                    *)
LEMMA EnsuredUnclaimed ==
    ASSUME TypeOK, HistoryInv, NEW c \in Claims, EnsureAddress(c), term <= seen[leader]
    PROVE  Unclaimed'
<1>1. /\ Free \subseteq Nat /\ Free # {} /\ want' = Min(Free) /\ cur' = c
      /\ pc = "idle" /\ history[seen[leader]][c] = None
      /\ UNCHANGED <<history, seen, leader, term>>
  BY FailoverAssumption DEF EnsureAddress, Free, Cached
<1>2. want' \in Free
  BY <1>1, MinIsLeast
<1>3. \A d \in Claims : history[seen[leader]][d] # want'
  BY <1>2 DEF Free, Cached
<1>4. want' # None
  BY <1>1, <1>3
<1>5. /\ seen[leader] \in DOMAIN history /\ Ahead(seen[leader])
      /\ \A i \in DOMAIN history : Ahead(i) => i = seen[leader] \/ seen[leader] < i
  BY HistoryIndices DEF Ahead
<1>6. ASSUME NEW i \in DOMAIN history, Ahead(i), NEW d \in Claims
      PROVE  \/ history[i][d] = None
             \/ history[i][d] = history[seen[leader]][d] /\ history[i][d] # None
  <2>1. i = seen[leader] \/ seen[leader] < i
    BY <1>5, <1>6
  <2> QED
    BY <1>1, <1>5, <2>1 DEF HistoryInv, Awaited, SameIP
<1>7. ASSUME NEW i \in DOMAIN history, Ahead(i)
      PROVE  history[i][c] = None /\ \A d \in Claims : history[i][d] # want'
  BY <1>1, <1>3, <1>4, <1>6, <1>7
<1> QED
  BY <1>1, <1>7 DEF Unclaimed, Ahead

(* Every step keeps the strengthened invariant.                            *)
LEMMA FailoverInvStep == TypeOK /\ FailoverInv /\ [Next]_vars => FailoverInv'
<1> SUFFICES ASSUME TypeOK, FailoverInv, [Next]_vars, ~strayed' PROVE FailoverInv'
  BY DEF FailoverInv
<1>1. ~strayed
  BY DEF Next, vars, EnsureAddress, ReleaseAddress, CreateOrPatch, AddressSeen, HandOver,
         Replace, Watch
<1>2. /\ HistoryInv
      /\ pc # "idle" => term <= seen[leader]
      /\ pc = "write" => Unclaimed
  BY <1>1 DEF FailoverInv, HistoryInv
<1>3. ASSUME HistoryInv', pc' = "idle" PROVE FailoverInv'
  BY <1>3 DEF FailoverInv, HistoryInv
<1>4. ASSUME NEW c \in Claims, EnsureAddress(c) PROVE FailoverInv'
  <2>0. ~(seen[leader] < term)
    BY ONLY <1>4, ~strayed', Zenon DEF EnsureAddress
  <2>1. term <= seen[leader]
    BY ONLY <2>0, TypeOK, HistoryIndices
  <2>2. pc = "idle" /\ pc' = "write" /\ UNCHANGED <<history, seen, leader, term>>
    BY <1>4 DEF EnsureAddress
  <2>3. HistoryInv'
    BY <1>2, <2>2 DEF HistoryInv, UniqueAddresses, Awaited, GoneForGood, SameIP, Ahead, Stored
  <2>4. Unclaimed'
    BY <1>2, <1>4, <2>1, EnsuredUnclaimed
  <2> QED
    BY <2>1, <2>2, <2>3, <2>4 DEF FailoverInv, HistoryInv
<1>5. ASSUME NEW c \in Claims, ReleaseAddress(c) PROVE FailoverInv'
  <2>1. pc = "idle" /\ pc' = "idle" /\ UNCHANGED leader /\ Written(c, None)
    BY <1>5, WriteLeaves DEF ReleaseAddress
  <2> QED
    BY <1>2, <1>3, <2>1, WriteKeeps
<1>6. CASE CreateOrPatch
  <2>1. cur \in Claims /\ want \in IPs \cup {None} /\ pc = "write" /\ UNCHANGED leader
    BY <1>6 DEF CreateOrPatch, TypeOK
  <2>2. CASE Stored[cur] = None
    <3>1. PICK c \in Claims, ip \in IPs \cup {None} : c = cur /\ ip = want
      BY <2>1
    <3>2. /\ Written(c, ip) /\ pc' = "wait" /\ cur' = c
      BY <1>6, <2>1, <2>2, <3>1, WriteLeaves DEF CreateOrPatch
    <3>3. \A i \in DOMAIN history :
            Ahead(i) => history[i][c] = None /\ \A d \in Claims : history[i][d] # ip
      BY <1>2, <2>1, <3>1 DEF Unclaimed
    <3>4. HistoryInv'
      BY <1>2, <2>1, <3>2, <3>3, WriteKeeps
    <3>5. term' <= seen'[leader']
      BY <1>2, <2>1, <3>2 DEF Written
    <3> QED
      BY <3>2, <3>4, <3>5 DEF FailoverInv, HistoryInv
  <2>3. CASE Stored[cur] # None
    <3>1. pc' = "idle" /\ UNCHANGED <<history, seen, term, leader>>
      BY <1>6, <2>3 DEF CreateOrPatch, Idle
    <3>2. HistoryInv'
      BY <1>2, <2>1, <3>1 DEF HistoryInv, UniqueAddresses, Awaited, GoneForGood, SameIP, Ahead, Stored
    <3> QED
      BY <1>3, <3>1, <3>2
  <2> QED
    BY <2>2, <2>3
<1>7. CASE AddressSeen
  <2>1. /\ pc = "wait" /\ pc' = "idle" /\ UNCHANGED <<history, seen, term, leader>>
        /\ cur \in Claims /\ history[seen[leader]][cur] # None /\ term <= seen[leader]
    BY <1>2, <1>7 DEF AddressSeen, Idle, Cached, TypeOK
  <2>2. UniqueAddresses' /\ GoneForGood' /\ SameIP'
    BY <1>2, <2>1 DEF HistoryInv, UniqueAddresses, GoneForGood, SameIP, Ahead, Stored
  <2>3. ASSUME NEW c \in Claims, NEW i \in DOMAIN history, NEW j \in DOMAIN history,
               Ahead(i), i < j, history[i][c] = None, history[j][c] # None
        PROVE  FALSE
    <3>1. c = cur
      BY <1>2, <2>3 DEF HistoryInv, Awaited
    <3>2. /\ seen[leader] \in DOMAIN history /\ Ahead(seen[leader])
          /\ i = seen[leader] \/ seen[leader] < i
      BY <2>1, <2>3, HistoryIndices DEF Ahead
    <3> QED
      BY <1>2, <2>1, <2>3, <3>1, <3>2 DEF HistoryInv, GoneForGood
  <2>4. Awaited'
    BY <2>1, <2>3 DEF Awaited, Ahead
  <2> QED
    BY <1>3, <2>1, <2>2, <2>4 DEF HistoryInv
<1>8. ASSUME NEW m \in Managers, HandOver(m) PROVE FailoverInv'
  <2>1. pc' = "idle" /\ history' = history /\ term' = Len(history)
    BY <1>8 DEF HandOver, Idle
  <2>2. \A i \in DOMAIN history' : Ahead(i)' => \A j \in DOMAIN history' : ~(i < j)
    BY <2>1, HistoryIndices DEF Ahead
  <2>3. HistoryInv'
    BY <1>2, <2>1, <2>2, NothingAhead DEF HistoryInv, Stored
  <2> QED
    BY <1>3, <2>1, <2>3
<1>9. ASSUME NEW m \in Managers, Watch(m) PROVE FailoverInv'
  <2> DEFINE s == [seen EXCEPT ![m] = @ + 1]
  <2>1. /\ s \in [Managers -> 1 .. Len(history)] /\ seen[leader] <= s[leader]
        /\ Forget(history, s, term) /\ UNCHANGED <<leader, pc, cur, want>>
    BY <1>9, HistoryIndices DEF Watch, TypeOK
  <2> HIDE DEF s
  <2>2. /\ HistoryInv'
        /\ term <= seen[leader] => term' <= seen'[leader]
        /\ Unclaimed => Unclaimed'
    BY <1>2, <2>1, ForgetKeeps
  <2> QED
    BY <1>2, <2>1, <2>2 DEF FailoverInv, HistoryInv
<1>10. ASSUME NEW m \in Managers, Replace(m) PROVE FailoverInv'
  <2> DEFINE s == [seen EXCEPT ![m] = Len(history)]
  <2>1. /\ s \in [Managers -> 1 .. Len(history)] /\ seen[leader] <= s[leader]
        /\ m = leader => s[leader] = Len(history)
        /\ Forget(history, s, term) /\ UNCHANGED leader
    BY <1>10, HistoryIndices DEF Replace, TypeOK
  <2> HIDE DEF s
  <2>2. CASE m # leader
    <3>1. UNCHANGED <<pc, cur, want>>
      BY <1>10, <2>2 DEF Replace
    <3>2. /\ HistoryInv'
          /\ term <= seen[leader] => term' <= seen'[leader]
          /\ Unclaimed => Unclaimed'
      BY <1>2, <2>1, <3>1, ForgetKeeps
    <3> QED
      BY <1>2, <2>1, <3>1, <3>2 DEF FailoverInv, HistoryInv
  <2>3. CASE m = leader
    <3>1. pc' = "idle"
      BY <1>10, <2>3 DEF Replace, Idle
    <3>2. PICK o \in Nat : Forgotten(o, s)
      BY <2>1, ForgetLeaves DEF TypeOK, State
    <3>3. PICK n \in Nat : n = Len(history) /\ n >= 1 /\ leader \in Managers
      BY HistoryIndices
    <3>4. /\ o \in 1 .. n /\ Len(history') = n - o + 1 /\ DOMAIN history' = 1 .. n - o + 1
          /\ history'[n - o + 1] = history[n]
          /\ seen'[leader] = n - o + 1
      <4>1. n - o + 1 \in 1 .. n - o + 1 /\ (n - o + 1) + o - 1 = n
        BY <3>2, <3>3 DEF Forgotten
      <4> QED
        BY <2>1, <2>3, <3>2, <3>3, <4>1 DEF Forgotten
    <3>5. Stored' = Stored
      BY <3>3, <3>4 DEF Stored
    <3>6. \A i \in DOMAIN history' : Ahead(i)' => \A j \in DOMAIN history' : ~(i < j)
      BY <2>1, <3>3, <3>4 DEF Ahead
    <3>7. HistoryInv'
      BY <1>2, <3>5, <3>6, NothingAhead DEF HistoryInv
    <3> QED
      BY <1>3, <3>1, <3>7
  <2> QED
    BY <2>2, <2>3
<1>11. CASE UNCHANGED vars
  BY <1>2, <1>11 DEF vars, FailoverInv, HistoryInv, UniqueAddresses, Awaited, GoneForGood, SameIP,
                     Unclaimed, Ahead, Stored
<1> QED
  BY <1>4, <1>5, <1>6, <1>7, <1>8, <1>9, <1>10, <1>11 DEF Next

(* Nobody has an address.                                                  *)
LEMMA FailoverInvInit == Init => FailoverInv
<1> SUFFICES ASSUME Init PROVE FailoverInv
  OBVIOUS
<1>1. /\ DOMAIN history = {1} /\ \A c \in Claims : history[1][c] = None
      /\ Stored = history[1] /\ pc = "idle"
  BY DEF Init, Stored
<1> QED
  BY <1>1 DEF FailoverInv, UniqueAddresses, Awaited, GoneForGood, SameIP

(* Two claims get one address only if a leader picks one before its cache  *)
(* shows what was stored when it took over: neither hand-overs nor         *)
(* restarts nor the lag of caches do it otherwise.                         *)
THEOREM OnlyStrayingDuplicates == Spec => []UniqueUnlessStrayed
<1>1. Init => TypeOK /\ FailoverInv
  BY TypeOKInit, FailoverInvInit
<1>2. TypeOK /\ FailoverInv /\ [Next]_vars => (TypeOK /\ FailoverInv)'
  BY TypeOKStep, FailoverInvStep
<1>3. FailoverInv => UniqueUnlessStrayed
  BY DEF FailoverInv, UniqueUnlessStrayed
<1> QED
  BY <1>1, <1>2, <1>3, PTL DEF Spec

=============================================================================
