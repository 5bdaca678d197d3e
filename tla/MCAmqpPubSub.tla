---------------------------- MODULE MCAmqpPubSub ----------------------------
(* Small instances of AmqpPubSub: every request and message is on one topic. *)
EXTENDS AmqpRefinement, TLC

MCTopic == [x \in Requests \cup Foreign |-> "t"]
Symmetry == Permutations(Subscribers) \cup Permutations(Publishers)
=============================================================================
