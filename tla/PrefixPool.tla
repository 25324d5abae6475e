----------------------------- MODULE PrefixPool -----------------------------
(* Allocation from a prefix pool as the handler, the webhook and the       *)
(* status see it when nothing runs concurrently: what the arithmetic of    *)
(* PrefixUtil promises.  The webhook may be off (webhook-port is 0): any   *)
(* spec is then stored, and a change can leave allocated prefixes behind.  *)
EXTENDS PrefixUtil

CONSTANT
    Specs           \* the specs users write, valid or not

ASSUME SpecsAssumption == Specs \subseteq PrefixPoolSpec

VARIABLES
    webhook,        \* whether the manager runs with its webhook
    spec,           \* the pool's spec
    held            \* the allocated prefixes

vars == <<webhook, spec, held>>

Init ==
    /\ webhook \in BOOLEAN
    /\ spec \in {s \in Specs : webhook => Validate(s)}
    /\ held = {}

(* Mutant: an allocated prefix blocks its first address only.              *)
InUseAddresses == {p.addr : p \in held}

(* AddressesToAllocationPrefixSet.                                         *)
InUse == UNION {RangeOfPrefix(p) : p \in held}

EnsureAddress ==
    /\ \E p \in FindFreePrefix(spec, InUse) : held' = held \cup {p}
    /\ UNCHANGED <<webhook, spec>>

ReleaseAddress(p) ==
    /\ p \in held
    /\ held' = held \ {p}
    /\ UNCHANGED <<webhook, spec>>

(* Mutant: an update is validated like a new pool.                         *)
ValidateUpdateAsCreate(new) == Validate(new)

(* ValidateUpdate: the length stays, and so does what is allocated.        *)
ValidateUpdate(new) ==
    /\ Validate(new)
    /\ EffectiveAllocationPrefixLength(new.length) = EffectiveAllocationPrefixLength(spec.length)
    /\ \A p \in held : PrefixIsAllocatable(p, new)

UpdateSpec(new) ==
    /\ webhook => ValidateUpdate(new)
    /\ spec' = new
    /\ UNCHANGED <<webhook, held>>

Next ==
    \/ EnsureAddress
    \/ \E p \in held : ReleaseAddress(p)
    \/ \E new \in Specs : UpdateSpec(new)

Spec == Init /\ [][Next]_vars

(* genericPrefixReconcile.                                                 *)
OutOfRange == Cardinality({p \in held : ~PrefixIsAllocatable(p, spec)})

Free ==
    LET left == PrefixCandidateCount(spec) - Cardinality(held) + OutOfRange
    IN  IF left < 0 THEN 0 ELSE left

-----------------------------------------------------------------------------
(* The reference: the prefixes of the allocation length whose addresses    *)
(* all belong to the pool and of which none is excluded.  A pool with an   *)
(* entry that is not aligned has none.                                     *)
Candidates ==
    {p \in AllPrefixes :
        /\ \A q \in spec.prefixes : q = Masked(q)
        /\ p.bits = EffectiveAllocationPrefixLength(spec.length)
        /\ \A ip \in RangeOfPrefix(p) :
             /\ \E q \in spec.prefixes : ip \in RangeOfPrefix(q)
             /\ \A x \in spec.excluded : ip \notin x}

Untouched == {p \in Candidates : \A q \in held : RangeOfPrefix(p) \cap RangeOfPrefix(q) = {}}

(* The recursive search finds the lowest candidate that touches nothing in *)
(* use, whatever the lengths of what is in use, and fails only if there is *)
(* none.                                                                   *)
FirstFit ==
    FindFreePrefix(spec, InUse) = {p \in Untouched : \A q \in Untouched : p.addr <= q.addr}

(* Prefixes that EnsureAddress allocates never overlap, also across        *)
(* changes of the allocation length.                                       *)
Disjoint ==
    \A p, q \in held : p # q => RangeOfPrefix(p) \cap RangeOfPrefix(q) = {}

(* The recursive count agrees with the search and with what the webhook    *)
(* calls allocatable, up to MaxInt.                                        *)
CountsAgree ==
    LET count == Cardinality(Candidates)
    IN  /\ PrefixCandidateCount(spec) = IF count <= MaxInt THEN count ELSE MaxInt
        /\ \A p \in AllPrefixes : PrefixIsAllocatable(p, spec) <=> p \in Candidates

(* With ValidateUpdate in place, every allocated prefix stays allocatable. *)
HeldAllocatable == webhook => held \subseteq Candidates

(* Status free of genericPrefixReconcile is then the number of prefixes    *)
(* that claims can still get.                                              *)
FreeIsUntouched ==
    webhook /\ Cardinality(Candidates) <= MaxInt => Free = Cardinality(Untouched)

=============================================================================
