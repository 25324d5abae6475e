---------------------------- MODULE MCConversion ----------------------------
(* Subnets of three-bit addresses, down to those too small for a range,    *)
(* with every combination of the fields that are defaulted.                *)
EXTENDS Conversion

Listed == [from |-> 2, to |-> 3]
Subnets == {PrefixFrom(4, 1), PrefixFrom(1, 0), PrefixFrom(7, 3), Malformed, None}

MCV1Specs ==
    [addresses : {<<>>, <<Listed>>}, subnet : Subnets,
     first : {None, 2}, last : {None, 6}, prefix : {0, 1}, gateway : {None, 1}]

MCV2Specs ==
    [addresses : {<<Listed>>, <<[from |-> 5, to |-> 6]>>}, prefix : {0, 1},
     gateway : {None, 5}, newer : BOOLEAN]

(* One pool, and the same after its addresses were moved.                  *)
OneV1Spec ==
    {[addresses |-> <<Listed>>, subnet |-> None, first |-> None, last |-> None,
      prefix |-> 1, gateway |-> 1]}
OneV2Spec ==
    {[addresses |-> <<[from |-> 5, to |-> 6]>>, prefix |-> 1, gateway |-> 1, newer |-> FALSE]}

=============================================================================
