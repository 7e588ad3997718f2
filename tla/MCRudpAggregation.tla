-------------------------- MODULE MCRudpAggregation --------------------------
(* TLC instances of RudpAggregation. *)
EXTENDS RudpAggregation, TLC

FactorySymmetry == Permutations(Factories)

===============================================================================
