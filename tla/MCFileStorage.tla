--------------------------- MODULE MCFileStorage ----------------------------
(* Small instances of FileStorage, with two hexadecimal digits, or three of   *)
(* which two are decimal.                                                     *)
EXTENDS FileRefinement

CONSTANTS m1, m2, m3, r1, r2, g1, g2

MCTrace == [o \in Stores \cup Retrieves |-> "t"]

\* Two messages in different shards, and one that shares the first one's.
HexId == [m \in Stores |-> IF m = m1 THEN <<0, 1, 0>> ELSE IF m = m2 THEN <<1, 0, 0>> ELSE <<0, 1, 1>>]

\* An ID that is not hexadecimal: header.id is any string the client sends.
PlainId == [m \in Stores |-> <<2, 0>>]

\* For a depth of 1: two IDs in one decimal shard, and one as short as the depth.
MixedId == [m \in Stores |-> IF m = m1 THEN <<0, 1>> ELSE IF m = m2 THEN <<0, 0>> ELSE <<1>>]
=============================================================================
