---------------------------- MODULE MCPrefixPool ----------------------------
(* Specs over addresses of three bits: adjacent, nested and unaligned      *)
(* prefixes, excluded intervals at and across the borders of sub-prefixes. *)
EXTENDS PrefixPool

MCPrefixes == {PrefixFrom(0, 0), PrefixFrom(4, 1), PrefixFrom(0, 2), PrefixFrom(2, 2),
               PrefixFrom(1, 2), PrefixFrom(5, 3)}
MCExcluded == {{}, {3 .. 4}, {0 .. 1, 5 .. 5}}

MCSpecs ==
    [prefixes : {{}} \cup {{p, q} : p, q \in MCPrefixes}, length : {0, 1, 3},
     excluded : MCExcluded]

=============================================================================
