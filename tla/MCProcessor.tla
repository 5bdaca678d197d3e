---------------------------- MODULE MCProcessor -----------------------------
(* A small instance of Processor: two long messages with one topic and        *)
(* timestamp, and a short one that shares the first one's shard.              *)
EXTENDS Processor

CONSTANTS m1, m2, m3, r1

MCTrace == [o \in Stores \cup Retrieves |-> "t"]
MCId == [m \in Stores |-> IF m = m2 THEN <<1, 0, 0>> ELSE <<0, 1, 0>>]
MCTopic == [m \in Stores |-> "topic"]
MCTimestamp == [m \in Stores |-> IF m = m3 THEN 1 ELSE 0]
MCSize == [m \in Stores |-> IF m = m3 THEN 1 ELSE 2]
=============================================================================
