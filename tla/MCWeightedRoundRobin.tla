------------------------ MODULE MCWeightedRoundRobin ------------------------
(***************************************************************************)
(* TLC instance of WeightedRoundRobin: all lists of at most three backends *)
(* with two addresses (an address may be listed twice) and weights 0 to 2, *)
(* up to a cycle of four, under a counter of three bits.                   *)
(***************************************************************************)
EXTENDS WeightedRoundRobin

MCBackends == [address : Elements, weight : 0..2]

MCBackendLists ==
  {bs \in UNION {[1..n -> MCBackends] : n \in 0..3} : Len(Cycle(bs)) <= 4}

=============================================================================
