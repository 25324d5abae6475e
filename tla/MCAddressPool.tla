--------------------------- MODULE MCAddressPool ---------------------------
(* Specs over addresses of three bits: overlapping and adjacent entries of *)
(* every kind, in and out of one subnet.                                   *)
EXTENDS AddressPool

MCEntry(kind, from, to) == [kind |-> kind, from |-> from, to |-> to]

MCEntries == {MCEntry("range", 1, 3), MCEntry("cidr", 5, 1), MCEntry("cidr", 2, 2),
              MCEntry("addr", 0, 0), MCEntry("addr", 7, 7), MCEntry("range", 6, 5)}
MCExcluded == {{}, {MCEntry("range", 2, 5)}, {MCEntry("cidr", 6, 2), MCEntry("addr", 1, 1)}}

MCSpecs ==
    [addresses : {{}} \cup {{e, f} : e, f \in MCEntries}, excluded : MCExcluded,
     prefix : {0, 1, 3}, gateway : {{}, {1}}, allocateReserved : BOOLEAN, v4 : BOOLEAN]

=============================================================================
