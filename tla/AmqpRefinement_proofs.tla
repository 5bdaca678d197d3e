------------------------ MODULE AmqpRefinement_proofs -----------------------
(***************************************************************************)
(* Proof that AmqpPubSub implements DeliveryContract under the mapping of  *)
(* AmqpRefinement: every step of the handlers, the broker and the process  *)
(* is a step of the contract or leaves its variables alone.                *)
(***************************************************************************)
EXTENDS AmqpRefinement, AmqpPubSub_proofs

\* No request is cut off before it has written its accept.
CutInv ==
  \A s \in Subscribers : pc[s] \in {"idle", "open", "receive", "accept"} => s \notin cut

RInv == IInv /\ CutInv

\* A request is not cut off before it has written its accept: every step keeps that.
LEMMA CutStep == ASSUME RInv, [Next]_vars PROVE CutInv'
<1> USE BrokerAssumption DEF RInv, IInv, CutInv, SubscribeInv, TypeOK, Requests
<1>1. CASE Local
  BY <1>1 DEF Local, Client, Start, OpenFails, Closed, Respond, Leave, Notice, Timeout,
    BadBody, SendFails, Confirmed, Unconfirmed, Receive, ReceiveFails, AcceptFails,
    Accepted, AcceptUnsure, Goto, Answer, handlerVars
<1>2. ASSUME NEW r \in Requests, Close(r) PROVE CutInv'
  BY <1>2 DEF Close, Goto
<1>3. ASSUME NEW p \in Publishers, OpenSender(p) \/ Send(p) PROVE CutInv'
  BY <1>3 DEF OpenSender, Send, Goto
<1>4. ASSUME NEW s \in Subscribers, OpenReceiver(s) \/ Accept(s) PROVE CutInv'
  BY <1>4 DEF OpenReceiver, Accept, Goto
<1>5. CASE BrokerStep \/ UNCHANGED vars
  BY <1>5 DEF BrokerStep, handlerVars, vars
<1>6. CASE LoseConnection
  BY <1>6 DEF LoseConnection, Unsettled, handlerVars
<1>7. CASE Restart
  BY <1>7 DEF Restart, Running
<1>8. ASSUME NEW r \in Requests, LoseLink(r) PROVE CutInv'
  BY <1>8 DEF LoseLink, Unsettled, handlerVars
<1>. QED BY <1>1, <1>2, <1>3, <1>4, <1>5, <1>6, <1>7, <1>8, NextCases

\* The handlers' invariant and CutInv hold in every reachable state: what the refinement
\* of the contract rests on.
THEOREM RInvariance == Spec => []RInv
<1>1. Init => CutInv
  BY DEF Init, CutInv
<1>2. RInv /\ [Next]_vars => CutInv'
  BY CutStep
<1>. QED BY Invariance, <1>1, <1>2, PTL DEF Spec, RInv
-----------------------------------------------------------------------------
(* The contract's variables, under the mapping *)

Available == InBroker \ TakenMessages
Gifts == [s \in Subscribers |-> Given(s)]
Told == [p \in Publishers |-> received[p]]
Declined == {p \in Publishers : outcome[p] = "released"}

\* Steps that leave the broker's state, what was got and read, and cut alone do
\* nothing to the contract.
LEMMA Stutter ==
  ASSUME UNCHANGED <<wire, queue, held, settled, outcome, got, received, cut>>
  PROVE UNCHANGED Contract!contractVars
BY DEF Contract!contractVars, TakenMessages, Accepting, DoubtfulMessages, Given,
     InBroker, HeldMessages

\* The broker's handling of a transfer is Put or Decline, or nothing if it rejects the message.
LEMMA StoreRefines ==
  ASSUME RInv, NEW p \in Publishers, Store(p), UNCHANGED <<handlerVars, conn, cut, faults>>
  PROVE Contract!Put(p) \/ Contract!Decline(p) \/ UNCHANGED Contract!contractVars
<1> USE DEF Store, Process, handlerVars
<1>1. p \notin InBroker /\ outcome[p] = "none"
  BY DEF RInv, IInv, PublishInv
<1>2. Accepting' = Accepting
  BY BrokerAssumption DEF Accepting, RInv, IInv, TypeOK, BrokerTypeOK, Requests
<1>3. TakenMessages' = TakenMessages /\ DoubtfulMessages' = DoubtfulMessages
  BY <1>2 DEF TakenMessages, DoubtfulMessages
<1>4. UNCHANGED <<Gifts, Told>>
  BY DEF Gifts, Told, Given
<1>5. TakenMessages \subseteq InBroker
  BY BrokerAssumption DEF TakenMessages, Accepting, InBroker, HeldMessages, RInv, IInv, SubscribeInv
<1>6. p \notin Available \cup TakenMessages \cup Declined
  BY <1>1, <1>5 DEF Available, Declined
<1>7. \A q \in Publishers : q # p => outcome'[q] = outcome[q]
  BY DEF RInv, IInv, TypeOK, BrokerTypeOK
<1>8. CASE queue' = queue \cup {p} /\ outcome' = [outcome EXCEPT ![p] = "accepted"]
  <2>1. InBroker' = InBroker \cup {p}
    BY <1>8 DEF InBroker, HeldMessages
  <2>2. Available' = Available \cup {p}
    BY <1>3, <1>6, <2>1 DEF Available
  <2>3. Declined' = Declined
    BY <1>1, <1>7, <1>8 DEF Declined, RInv, IInv, TypeOK, BrokerTypeOK
  <2>. QED BY <1>3, <1>4, <1>6, <2>2, <2>3 DEF Contract!Put, Contract!New, Available, Gifts, Told, Declined
<1>9. CASE UNCHANGED queue /\ outcome' = [outcome EXCEPT ![p] = "released"]
  <2>1. Available' = Available
    BY <1>3, <1>9 DEF Available, InBroker, HeldMessages
  <2>2. Declined' = Declined \cup {p}
    BY <1>7, <1>9 DEF Declined, RInv, IInv, TypeOK, BrokerTypeOK
  <2>. QED BY <1>3, <1>4, <1>6, <2>1, <2>2 DEF Contract!Decline, Contract!New, Available, Gifts, Told, Declined
<1>10. CASE UNCHANGED queue /\ outcome' = [outcome EXCEPT ![p] = "rejected"]
  <2>1. Available' = Available
    BY <1>3, <1>10 DEF Available, InBroker, HeldMessages
  <2>2. Declined' = Declined
    BY <1>1, <1>7, <1>10 DEF Declined, RInv, IInv, TypeOK, BrokerTypeOK
  <2>. QED BY <1>3, <1>4, <2>1, <2>2 DEF Contract!contractVars, Available, Gifts, Told, Declined
<1>. QED BY <1>8, <1>9, <1>10

\* Writing an accept is Take.
LEMMA AcceptRefines ==
  ASSUME RInv, NEW s \in Subscribers, Accept(s)
  PROVE Contract!Take(got[s])
<1> USE DEF Accept, SendFrame
<1>1. held[s] = got[s] /\ got[s] # None /\ wire[s] = {}
  BY BrokerAssumption DEF RInv, IInv, SubscribeInv
<1>2. got[s] \in InBroker
  BY <1>1 DEF InBroker, HeldMessages
<1>3. got[s] \notin TakenMessages
  BY <1>1 DEF TakenMessages, Accepting, RInv, IInv, PlaceInv
<1>4. TakenMessages' = TakenMessages \cup {got[s]}
  BY <1>1 DEF TakenMessages, Accepting, RInv, IInv, TypeOK, BrokerTypeOK, Requests
<1>5. UNCHANGED <<InBroker, DoubtfulMessages, Gifts, Told, Declined>>
  BY DEF InBroker, HeldMessages, DoubtfulMessages, Gifts, Told, Given, Declined
<1>6. Available' = Available \ {got[s]} /\ got[s] \in Available
  BY <1>2, <1>3, <1>4, <1>5 DEF Available
<1>. QED BY <1>4, <1>5, <1>6 DEF Contract!Take, Available, Gifts, Told, Declined

\* The broker's other steps are none of the contract's business.
LEMMA BrokerRefines ==
  ASSUME RInv, UNCHANGED <<handlerVars, conn, cut, faults>>,
         \/ \E s \in Subscribers : Settle(s)
         \/ \E s \in Subscribers, m \in Messages : Deliver(s, m)
         \/ \E r \in Requests : Detach(r)
  PROVE UNCHANGED Contract!contractVars
<1> USE BrokerAssumption DEF RInv, IInv, LinkInv, SubscribeInv, TypeOK, BrokerTypeOK, Requests, Messages
<1>1. UNCHANGED <<DoubtfulMessages, Gifts, Told, Declined>>
  BY DEF DoubtfulMessages, Gifts, Told, Given, Declined, handlerVars, Settle, Deliver, Detach, Unlink
<1>2. ASSUME NEW s \in Subscribers, Settle(s) PROVE UNCHANGED <<TakenMessages, InBroker>>
  BY <1>2 DEF Settle, Process, TakenMessages, Accepting, InBroker, HeldMessages
<1>3. ASSUME NEW s \in Subscribers, NEW m \in Messages, Deliver(s, m)
      PROVE UNCHANGED <<TakenMessages, InBroker>>
  BY <1>3 DEF Deliver, TakenMessages, Accepting, InBroker, HeldMessages
<1>4. ASSUME NEW r \in Requests, Detach(r) PROVE UNCHANGED <<TakenMessages, InBroker>>
  BY <1>4 DEF Detach, Unlink, Process, TakenMessages, Accepting, InBroker, HeldMessages
<1>. QED BY <1>1, <1>2, <1>3, <1>4 DEF Contract!contractVars, Gifts, Told, Declined

\* What is newly in doubt is what the requests cut off had got; what comes back is
\* what had an accept in flight.
LEMMA LoseRefines ==
  ASSUME RInv, LoseConnection
  PROVE \E D \in SUBSET Messages : \E back \in SUBSET (D \cap TakenMessages) :
          Contract!Doubt(D, back)
<1> DEFINE Hit == {s \in Subscribers : pc[s] = "settle" \/ "accept" \in wire[s]}
           D == {got[s] : s \in Hit}
<1> USE DEF LoseConnection, Unsettled, Disconnect, handlerVars
<1>1. D \subseteq Messages /\ Accepting \subseteq D \cap TakenMessages
  BY DEF RInv, IInv, SubscribeInv, Sent, Accepting, TakenMessages
<1>2. cut' \cap Subscribers = (cut \cap Subscribers) \cup Hit
  BY BrokerAssumption DEF Requests, RInv, IInv, TypeOK, SubscribeStates
<1>3. DoubtfulMessages' = DoubtfulMessages \cup D
  BY <1>2 DEF DoubtfulMessages
<1>4. Accepting' = {}
  BY DEF Accepting, Requests
<1>5. settled \cap Accepting = {}
  BY DEF RInv, IInv, PlaceInv, Accepting
<1>6. TakenMessages' = TakenMessages \ Accepting
  BY <1>4, <1>5 DEF TakenMessages
<1>7. InBroker' = InBroker
  BY DEF InBroker, HeldMessages
<1>8. Accepting \subseteq InBroker
  BY BrokerAssumption DEF Accepting, InBroker, HeldMessages, RInv, IInv, SubscribeInv
<1>9. Available' = Available \cup Accepting
  BY <1>5, <1>6, <1>7, <1>8 DEF Available, TakenMessages
<1>10. UNCHANGED <<Gifts, Told, Declined>>
  BY DEF Gifts, Told, Given, Declined
<1>11. Contract!Doubt(D, Accepting)
  BY <1>3, <1>6, <1>9, <1>10 DEF Contract!Doubt, Available, Gifts, Told, Declined
<1>. QED BY <1>1, <1>11

\* A link dropped under an unconfirmed accept puts one message in doubt, and back if the
\* accept had not been processed; any other is nothing to the contract.
LEMMA DropRefines ==
  ASSUME RInv, NEW r \in Requests, LoseLink(r)
  PROVE \/ \E D \in SUBSET Messages : \E back \in SUBSET (D \cap TakenMessages) :
              Contract!Doubt(D, back)
        \/ UNCHANGED Contract!contractVars
<1> DEFINE Back == IF r \in Subscribers /\ "accept" \in wire[r] THEN {got[r]} ELSE {}
           D == IF r \in Subscribers /\ Unsettled(r) THEN {got[r]} ELSE {}
<1> USE BrokerAssumption DEF LoseLink, Drop, Unlink, handlerVars
<1>1. UNCHANGED <<Gifts, Told, Declined>>
  BY DEF Gifts, Told, Given, Declined
<1>2. D \subseteq Messages /\ Back \subseteq D \cap TakenMessages
  BY DEF RInv, IInv, TypeOK, SubscribeInv, Sent, SubscribeStates, Unsettled, Accepting, TakenMessages, Requests
<1>3. DoubtfulMessages' = DoubtfulMessages \cup D
  BY DEF DoubtfulMessages, Requests
<1>4. \A s \in Subscribers : s # r => wire'[s] = wire[s] /\ held'[s] = held[s]
  BY DEF RInv, IInv, TypeOK, BrokerTypeOK, Requests
<1>5. wire'[r] = {} /\ (r \in Subscribers => held'[r] = None)
  BY DEF RInv, IInv, TypeOK, BrokerTypeOK, Requests
<1>6. Accepting' = Accepting \ Back
  BY <1>4, <1>5 DEF Accepting, RInv, IInv, PlaceInv, SubscribeInv
<1>7. Back \cap settled = {}
  BY DEF RInv, IInv, PlaceInv, SubscribeInv, Requests
<1>8. TakenMessages' = TakenMessages \ Back
  BY <1>6, <1>7 DEF TakenMessages
<1>9. InBroker' = InBroker
  BY <1>4, <1>5 DEF InBroker, HeldMessages, RInv, IInv, TypeOK, BrokerTypeOK
<1>10. Back \subseteq InBroker
  BY DEF InBroker, HeldMessages, RInv, IInv, SubscribeInv, Requests
<1>11. Available' = Available \cup Back
  BY <1>2, <1>8, <1>9, <1>10 DEF Available
<1>12. Contract!Doubt(D, Back)
  BY <1>1, <1>3, <1>8, <1>11 DEF Contract!Doubt, Available, Gifts, Told, Declined
<1>. QED BY <1>2, <1>12

\* A client's reading of the answer: a subscriber with a 200 is given its message,
\* a publisher is told its status, any other answer gives nothing.
LEMMA RespondRefines ==
  ASSUME RInv, NEW r \in Requests, Respond(r)
  PROVE \/ \E s \in Subscribers, m \in Messages : Contract!Give(s, m)
        \/ \E p \in Publishers, status \in {202, 400, 500} : Contract!Tell(p, status)
        \/ UNCHANGED Contract!contractVars
<1> USE DEF Respond, Goto, brokerVars
<1>1. received[r] = None
  BY DEF RInv, IInv, ReceivedInv
<1>2. UNCHANGED <<TakenMessages, DoubtfulMessages, InBroker, Available, Declined>>
  BY DEF TakenMessages, Accepting, DoubtfulMessages, InBroker, HeldMessages, Available, Declined
<1>3. CASE UNCHANGED received
  BY <1>3, Stutter
<1>4. CASE received' = [received EXCEPT ![r] = reply[r]] /\ r \in Publishers
  <2>1. UNCHANGED Gifts
    BY <1>4, BrokerAssumption DEF Gifts, Given, RInv, IInv, TypeOK
  <2>2. Told' = [Told EXCEPT ![r] = reply[r]] /\ Told[r] = None
    <3>1. received'[r] = reply[r] /\ \A p \in Publishers \ {r} : received'[p] = received[p]
      BY <1>4 DEF RInv, IInv, TypeOK, Requests
    <3>. QED BY <1>1, <1>4, <3>1, Zenon DEF Told
  <2>3. CASE reply[r] = None
    BY <1>2, <2>1, <2>2, <2>3 DEF Contract!contractVars, Available, Gifts, Told, Declined
  <2>4. CASE reply[r] \in {202, 400, 500}
    <3>1. reply[r] = 202 => r \in Available \cup TakenMessages \cup Declined
      BY <1>4 DEF RInv, IInv, PublishInv, Available, Declined
    <3>2. PICK status \in {202, 400, 500} : reply[r] = status
      BY <2>4
    <3>3. Contract!Tell(r, status)
      BY <1>2, <2>1, <2>2, <3>1, <3>2 DEF Contract!Tell, Contract!New, Available, Gifts, Told, Declined
    <3>. QED BY <1>4, <3>3
  <2>. QED BY <1>4, <2>3, <2>4 DEF RInv, IInv, PublishInv
<1>5. CASE received' = [received EXCEPT ![r] = reply[r]] /\ r \in Subscribers
  <2>1. UNCHANGED Told
    BY <1>5, BrokerAssumption DEF Told, RInv, IInv, TypeOK
  <2>2. CASE reply[r] = 200
    <3>1. Sent(r) /\ got[r] \in Messages
      BY <1>5, <2>2 DEF Sent, RInv, IInv, SubscribeInv
    <3>2. got[r] \in TakenMessages \cup DoubtfulMessages
      BY <1>5, <3>1 DEF RInv, IInv, SubscribeInv, TakenMessages, Accepting, DoubtfulMessages
    <3>3. \A t \in Subscribers : Gifts[t] = got[r] => got[r] \in DoubtfulMessages
      <4>1. SUFFICES ASSUME NEW t \in Subscribers, Given(t) = got[r]
                     PROVE got[r] \in DoubtfulMessages
        BY DEF Gifts
      <4>2. received[t] = 200 /\ got[t] = got[r]
        BY <3>1, <4>1, BrokerAssumption DEF Given
      <4>3. t # r /\ Sent(t)
        BY <1>1, <4>2, AmqpAssumption DEF RInv, IInv, ReceivedInv, Sent, Requests
      <4>4. r \in cut \/ t \in cut
        BY <1>5, <3>1, <4>2, <4>3 DEF RInv, IInv, OnceInv
      <4>. QED BY <1>5, <4>2, <4>4 DEF DoubtfulMessages
    <3>4. Gifts' = [Gifts EXCEPT ![r] = got[r]] /\ Gifts[r] = None
      <4>1. received'[r] = 200 /\ \A t \in Subscribers \ {r} : received'[t] = received[t]
        BY <1>5, <2>2 DEF RInv, IInv, TypeOK, Requests
      <4>2. Given(r) = None /\ Given(r)' = got[r]
        BY <1>1, <4>1, AmqpAssumption DEF Given
      <4>3. \A t \in Subscribers \ {r} : Given(t)' = Given(t)
        BY <4>1 DEF Given
      <4>. QED BY <1>5, <4>2, <4>3 DEF Gifts
    <3>5. Contract!Give(r, got[r])
      BY <1>2, <1>5, <2>1, <3>2, <3>3, <3>4 DEF Contract!Give, Available, Gifts, Told, Declined
    <3>. QED BY <1>5, <3>1, <3>5
  <2>3. CASE reply[r] # 200
    <3>1. UNCHANGED Gifts
      BY <1>1, <1>5, <2>3, AmqpAssumption DEF Gifts, Given, RInv, IInv, TypeOK, Requests
    <3>. QED BY <1>2, <2>1, <3>1 DEF Contract!contractVars, Available, Gifts, Told, Declined
  <2>. QED BY <2>2, <2>3
<1>. QED BY <1>3, <1>4, <1>5 DEF Requests

\* What a request gets from Receive is not in doubt yet, and nobody has read it.
LEMMA ReceiveRefines ==
  ASSUME RInv, NEW s \in Subscribers, Receive(s)
  PROVE UNCHANGED Contract!contractVars
<1> USE DEF Receive, Goto, Answer, brokerVars
<1>1. s \notin cut /\ received[s] = None
  BY DEF RInv, IInv, CutInv, ReceivedInv, Requests
<1>2. UNCHANGED <<TakenMessages, InBroker, Told, Declined>>
  BY DEF TakenMessages, Accepting, InBroker, HeldMessages, Told, Declined
<1>3. \A t \in Subscribers : t # s => got'[t] = got[t]
  BY DEF RInv, IInv, TypeOK
<1>4. UNCHANGED DoubtfulMessages
  BY <1>1, <1>3 DEF DoubtfulMessages
<1>5. UNCHANGED Gifts
  BY <1>1, <1>3, AmqpAssumption DEF Gifts, Given
<1>. QED BY <1>2, <1>4, <1>5 DEF Contract!contractVars, Available, Gifts, Told, Declined

\* Every step of the code is a step of the contract, or none of its business.
LEMMA StepRefines ==
  ASSUME RInv, [Next]_vars
  PROVE [Contract!ContractNext]_(Contract!contractVars)
<1>1. ASSUME NEW r \in Requests, Common(r) \/ Client(r)
      PROVE [Contract!ContractNext]_(Contract!contractVars)
  <2>1. CASE Respond(r)
    BY <2>1, RespondRefines DEF Contract!ContractNext, Contract!Items, Messages
  <2>2. CASE Close(r)
    <3>1. /\ Accepting' = Accepting
          /\ UNCHANGED <<queue, held, settled, outcome, got, received, cut>>
      BY <1>1, <2>2 DEF Close, SendFrame, Goto, Accepting, RInv, IInv, TypeOK, BrokerTypeOK, Requests
    <3>. QED BY <3>1 DEF Contract!contractVars, TakenMessages, DoubtfulMessages, Given,
           InBroker, HeldMessages
  <2>3. CASE Start(r) \/ OpenFails(r) \/ Closed(r) \/ Client(r)
    BY <2>3, Stutter DEF Start, OpenFails, Closed, Client, Leave, Notice, Timeout,
      Goto, Answer, brokerVars, handlerVars
  <2>. QED BY <1>1, <2>1, <2>2, <2>3 DEF Common
<1>2. ASSUME NEW p \in Publishers, Publish(p)
      PROVE [Contract!ContractNext]_(Contract!contractVars)
  <2>1. CASE Send(p)
    <3>1. /\ Accepting' = Accepting
          /\ UNCHANGED <<queue, held, settled, outcome, got, received, cut>>
      BY <1>2, <2>1, BrokerAssumption
         DEF Send, SendFrame, Goto, Accepting, RInv, IInv, TypeOK, BrokerTypeOK, Requests
    <3>. QED BY <3>1 DEF Contract!contractVars, TakenMessages, DoubtfulMessages, Given,
           InBroker, HeldMessages
  <2>2. CASE BadBody(p) \/ OpenSender(p) \/ SendFails(p) \/ Confirmed(p) \/ Unconfirmed(p)
    BY <2>2, Stutter DEF BadBody, OpenSender, SendFails, Confirmed, Unconfirmed,
      Goto, Answer, brokerVars
  <2>. QED BY <1>2, <2>1, <2>2 DEF Publish
<1>3. ASSUME NEW s \in Subscribers, Subscribe(s)
      PROVE [Contract!ContractNext]_(Contract!contractVars)
  <2>1. CASE Receive(s)
    BY <1>3, <2>1, ReceiveRefines
  <2>2. CASE Accept(s)
    <3>1. got[s] \in Messages
      BY <1>3, <2>2 DEF Accept, RInv, IInv, SubscribeInv
    <3>. QED BY <1>3, <2>2, <3>1, AcceptRefines DEF Contract!ContractNext, Contract!Items, Messages
  <2>3. CASE OpenReceiver(s) \/ ReceiveFails(s) \/ AcceptFails(s) \/ Accepted(s) \/ AcceptUnsure(s)
    BY <2>3, Stutter DEF OpenReceiver, ReceiveFails, AcceptFails, Accepted, AcceptUnsure,
      Goto, Answer, brokerVars
  <2>. QED BY <1>3, <2>1, <2>2, <2>3 DEF Subscribe
<1>4. CASE BrokerStep
  BY <1>4, StoreRefines, BrokerRefines DEF BrokerStep, Contract!ContractNext
<1>5. CASE LoseConnection
  BY <1>5, LoseRefines DEF Contract!ContractNext, Contract!Items, Messages
<1>6. CASE Restart
  BY <1>6, Stutter DEF Restart
<1>7. CASE UNCHANGED vars
  BY <1>7, Stutter DEF vars, brokerVars, handlerVars
<1>8. ASSUME NEW r \in Requests, LoseLink(r)
      PROVE [Contract!ContractNext]_(Contract!contractVars)
  BY <1>8, DropRefines DEF Contract!ContractNext, Contract!Items, Messages
<1>. QED BY <1>1, <1>2, <1>3, <1>4, <1>5, <1>6, <1>7, <1>8 DEF Next

\* The service starts where the contract does.
LEMMA InitRefines == ASSUME Init PROVE Contract!ContractInit
BY BrokerAssumption, AmqpAssumption DEF Init, BrokerInit, Contract!ContractInit, InBroker,
  HeldMessages, TakenMessages, Accepting, DoubtfulMessages, Given, Requests

\* PublishMessage and ConsumeMessage, with the handlers around them, implement
\* DeliveryContract for every set of requests and messages.
THEOREM Refinement == Spec => ImplementsContract
<1>1. RInv /\ [Next]_vars => [Contract!ContractNext]_(Contract!contractVars)
  BY StepRefines
<1>2. Init => Contract!ContractInit
  BY InitRefines
<1>. QED BY RInvariance, <1>1, <1>2, PTL DEF Spec, ImplementsContract, Contract!ContractSpec
=============================================================================
