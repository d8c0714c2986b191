--------------------------- MODULE MCAccumulator ---------------------------
(* One user (no operation but reset relates two), two domains, two people.   *)
EXTENDS Accumulator, TLC

MCUsers   == {"ann"}
MCPrefix  == {<<"ann", "ann">>}
MCDomains == {"hr", "pay"}

PeopleSymmetry == Permutations(Entities)
=============================================================================
