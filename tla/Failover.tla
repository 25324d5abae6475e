------------------------------ MODULE Failover ------------------------------
(***************************************************************************)
(* Several managers, of which leader election lets one reconcile claims.   *)
(* The informers of a manager run before it is elected, so a new leader    *)
(* starts with a cache that may be behind the writes of its predecessor,   *)
(* unlike a manager that starts anew and lists every object.  The wait     *)
(* after CreateOrPatch is for the cache of the one who waits.              *)
(*                                                                         *)
(* The claim controller is reduced to allocating and releasing; what a     *)
(* single manager does is the subject of ClaimReconciler.  A predecessor   *)
(* stops as it loses its lease, with no call of its own still under way.   *)
(***************************************************************************)
EXTENDS Integers, Sequences, FiniteSetsExt

CONSTANTS
    Managers,       \* the processes
    Claims,         \* names of the IPAddressClaims, all of one pool
    IPs,            \* the addresses of the pool
    None,           \* no address, no claim
    MaxLag          \* bound: writes a cache may be behind

ASSUME FailoverAssumption ==
    /\ Managers # {}
    /\ IPs \subseteq Nat
    /\ MaxLag \in Nat \ {0}

VARIABLES
    history,        \* the addresses of the claims, from the oldest cached state on
    seen,           \* the state of the history that each manager's cache shows
    leader,         \* the manager that holds the lease
    term,           \* the last state written before the leader was elected
    pc,             \* what the leader's worker does next
    cur,            \* the claim being reconciled
    want,           \* the address it was given
    strayed         \* whether a leader picked an address before it had seen term

vars == <<history, seen, leader, term, pc, cur, want, strayed>>

Stored == history[Len(history)]
Cached == history[seen[leader]]

(* States that no cache shows any more are forgotten.                      *)
Forget(h, s, t) ==
    LET oldest == Min({s[m] : m \in Managers})
    IN  /\ history' = SubSeq(h, oldest, Len(h))
        /\ seen' = [m \in Managers |-> s[m] - oldest + 1]
        /\ term' = IF t < oldest THEN 1 ELSE t - oldest + 1

Write(c, ip) ==
    /\ Len(history) <= MaxLag
    /\ history' = Append(history, [Stored EXCEPT ![c] = ip])
    /\ UNCHANGED <<seen, term>>

TypeOK ==
    /\ history \in Seq([Claims -> IPs \cup {None}])
    /\ Len(history) \in 1 .. MaxLag + 1
    /\ seen \in [Managers -> 1 .. Len(history)]
    /\ leader \in Managers
    /\ term \in 1 .. Len(history)
    /\ pc \in {"idle", "write", "wait"}
    /\ pc # "idle" => cur \in Claims /\ want \in IPs
    /\ strayed \in BOOLEAN

Init ==
    /\ history = << [c \in Claims |-> None] >>
    /\ seen = [m \in Managers |-> 1]
    /\ leader \in Managers
    /\ term = 1
    /\ pc = "idle" /\ cur = None /\ want = None
    /\ strayed = FALSE

Idle == pc' = "idle" /\ cur' = None /\ want' = None

Free == IPs \ {Cached[d] : d \in Claims}

(* Mutant: a full pool is not an error.                                    *)
EnsureAddressOfFull(c) ==
    /\ pc = "idle"
    /\ Cached[c] = None
    /\ pc' = "write" /\ cur' = c
    /\ want' = IF Free = {} THEN None ELSE Min(Free)
    /\ strayed' = (strayed \/ seen[leader] < term)
    /\ UNCHANGED <<history, seen, leader, term>>

(* A request for a claim without an address, up to the write.              *)
EnsureAddress(c) ==
    /\ pc = "idle"
    /\ Cached[c] = None
    /\ Free # {}
    /\ pc' = "write" /\ cur' = c /\ want' = Min(Free)
    /\ strayed' = (strayed \/ seen[leader] < term)
    /\ UNCHANGED <<history, seen, leader, term>>

(* The create, which fails if the address exists.                          *)
CreateOrPatch ==
    /\ pc = "write"
    /\ IF Stored[cur] = None
       THEN Write(cur, want) /\ pc' = "wait" /\ UNCHANGED <<cur, want>>
       ELSE Idle /\ UNCHANGED <<history, seen, term>>
    /\ UNCHANGED <<leader, strayed>>

(* Mutant: nobody waits.                                                   *)
AddressAssumedSeen ==
    /\ pc = "wait"
    /\ Idle
    /\ UNCHANGED <<history, seen, leader, term, strayed>>

(* The wait for the address to be cached.                                  *)
AddressSeen ==
    /\ pc = "wait"
    /\ Cached[cur] # None
    /\ Idle
    /\ UNCHANGED <<history, seen, leader, term, strayed>>

(* A request for a deleted claim.                                          *)
ReleaseAddress(c) ==
    /\ pc = "idle"
    /\ Cached[c] # None
    /\ Stored[c] # None
    /\ Write(c, None)
    /\ UNCHANGED <<leader, pc, cur, want, strayed>>

(* The lease goes to another manager, whose worker starts idle.            *)
HandOver(m) ==
    /\ m # leader
    /\ leader' = m
    /\ term' = Len(history)
    /\ Idle
    /\ UNCHANGED <<history, seen, strayed>>

(* A manager stops, and another takes its place: it lists every object.    *)
Replace(m) ==
    /\ Forget(history, [seen EXCEPT ![m] = Len(history)], term)
    /\ IF m = leader THEN Idle ELSE UNCHANGED <<pc, cur, want>>
    /\ UNCHANGED <<leader, strayed>>

Watch(m) ==
    /\ seen[m] < Len(history)
    /\ Forget(history, [seen EXCEPT ![m] = @ + 1], term)
    /\ UNCHANGED <<leader, pc, cur, want, strayed>>

Next ==
    \/ \E c \in Claims : EnsureAddress(c) \/ ReleaseAddress(c)
    \/ CreateOrPatch \/ AddressSeen
    \/ \E m \in Managers : HandOver(m) \/ Replace(m) \/ Watch(m)

Spec == Init /\ [][Next]_vars

-----------------------------------------------------------------------------
(* Properties.                                                             *)

(* No two claims hold the same address.                                    *)
UniqueAddresses ==
    \A c, d \in Claims : c # d /\ Stored[c] = Stored[d] => Stored[c] = None

(* It takes a leader that picks an address before its cache has what was   *)
(* stored when it took over: once caught up, its own waits are as good as  *)
(* those of its predecessor.                                               *)
UniqueUnlessStrayed == ~strayed => UniqueAddresses

-----------------------------------------------------------------------------
(* Why a leader that has caught up does not stray: the inductive           *)
(* strengthening, of what its cache shows or is still to show and was      *)
(* stored when it took over or later.                                      *)
Ahead(i) == seen[leader] <= i /\ term <= i

(* An address that came in those states is the one the leader waits for.   *)
Awaited ==
    \A c \in Claims : \A i, j \in DOMAIN history :
        Ahead(i) /\ i < j /\ history[i][c] = None /\ history[j][c] # None =>
            pc = "wait" /\ cur = c

(* One that went does not come back.                                       *)
GoneForGood ==
    \A c \in Claims : \A i, j, k \in DOMAIN history :
        Ahead(i) /\ i < j /\ j < k /\ history[i][c] # None /\ history[j][c] = None =>
            history[k][c] = None

SameIP ==
    \A c \in Claims : \A i, j \in DOMAIN history :
        Ahead(i) /\ i < j /\ history[i][c] # None /\ history[j][c] # None =>
            history[i][c] = history[j][c]

(* The claim has no address, and nobody has the one it is given.           *)
Unclaimed ==
    \A i \in DOMAIN history :
        Ahead(i) => history[i][cur] = None /\ \A d \in Claims : history[i][d] # want

(* The inductive invariant of UniqueUnlessStrayed.                         *)
FailoverInv ==
    ~strayed =>
        /\ UniqueAddresses
        /\ Awaited
        /\ GoneForGood
        /\ SameIP
        /\ pc # "idle" => term <= seen[leader]
        /\ pc = "write" => Unclaimed

=============================================================================
