------------------------------ MODULE MCRanking ------------------------------
(* Two members: 1 answers fast or slow, 2 always fast.  One is active and the *)
(* other the spare.                                                             *)
EXTENDS Ranking

Answers(d) == [sampled |-> TRUE, alive |-> TRUE, clean |-> TRUE, delay |-> d]
Silent == [sampled |-> TRUE, alive |-> FALSE, clean |-> FALSE, delay |-> 0]

MCHealths ==
  {<<Answers(100), Answers(100)>>,
   <<Silent, Answers(100)>>,
   <<Silent, Silent>>}

MCChainDelay == <<<<100, 100>>>>

MCResolutions ==
  {[members |-> {1, 2}, strategy |-> "stable", pinned |-> <<>>],
   [members |-> {1, 2}, strategy |-> "agile", pinned |-> <<>>]}
=============================================================================
