--------------------------- MODULE AmqpRefinement ---------------------------
(***************************************************************************)
(* AmqpPubSub implements DeliveryContract.  A message is taken as soon as  *)
(* its accept is on the wire, given when a client has read it in a 200, in *)
(* doubt when its receiver's link was lost with an accept unconfirmed, and *)
(* declined when the broker has settled its transfer without storing it.   *)
(***************************************************************************)
EXTENDS AmqpPubSub

Accepting == {held[s] : s \in {t \in Subscribers : "accept" \in wire[t]}}
TakenMessages == settled \cup Accepting
DoubtfulMessages == {got[s] : s \in cut \cap Subscribers}
Given(s) == IF received[s] = 200 THEN got[s] ELSE None

Contract == INSTANCE DeliveryContract WITH
  Senders <- Publishers, Readers <- Subscribers, Others <- Foreign,
  available <- InBroker \ TakenMessages,
  taken <- TakenMessages,
  declined <- {p \in Publishers : outcome[p] = "released"},
  doubt <- DoubtfulMessages,
  given <- [s \in Subscribers |-> Given(s)],
  told <- [p \in Publishers |-> received[p]]

\* Every behaviour of the handlers and the broker is one the clients were
\* promised: PublishMessage and ConsumeMessage keep the contract.
ImplementsContract == Contract!ContractSpec
=============================================================================
