------------------------- MODULE AmqpPubSub_proofs --------------------------
(***************************************************************************)
(* Proofs that AmqpPubSub keeps its safety invariants for every set of     *)
(* requests and messages.                                                  *)
(***************************************************************************)
EXTENDS AmqpPubSub, TLAPS

\* The states of a handler between the open and the close of its link.
Linked == {"send", "await", "receive", "accept", "settle", "close"}

\* A dead session has no link; only an attached link has frames in flight or
\* holds a delivery; a handler sends its detach last.
LinkInv ==
  /\ \A r \in Requests : pc[r] \in Linked => "detach" \notin wire[r]
  /\ session = "down" => links = {}
  /\ \A r \in Requests : wire[r] # {} => r \in links
  /\ \A s \in Subscribers : held[s] # None => s \in links

\* A message is in one place: the queue, one link, or settled.
PlaceInv ==
  /\ queue \cap settled = {}
  /\ \A s \in Subscribers : held[s] \notin queue \cup settled
  /\ \A s, t \in Subscribers : held[s] = held[t] /\ held[s] # None => s = t

\* A publish request has at most one transfer, and knows its outcome when it
\* claims to.
PublishInv ==
  \A p \in Publishers :
    /\ pc[p] \in {"idle", "open", "send"} => outcome[p] = "none" /\ wire[p] = {}
    /\ pc[p] \in {"idle", "open", "send", "await"} => reply[p] = None
    /\ "transfer" \in wire[p] => outcome[p] = "none"
    /\ "accept" \notin wire[p]
    /\ p \in InBroker <=> outcome[p] = "accepted"
    /\ reply[p] \in {None, 202, 400, 500}
    /\ reply[p] = 202 => outcome[p] \in {"accepted", "released"}
    /\ reply[p] \in {400, 500} =>
         \/ CtxDone(p) \/ p \in cut \/ outcome[p] = "rejected"
         \/ outcome[p] = "none" /\ "transfer" \notin wire[p]
    /\ pc[p] = "await" /\ p \notin links => p \in cut

\* The accept of s has been written and it has not been told otherwise.
Sent(s) == pc[s] = "settle" \/ reply[s] = 200

\* What justifies settling the message s got.
Backs(s) == Sent(s) \/ CtxDone(s) \/ s \in cut

\* A subscribe request accepts only the delivery its link holds, after
\* decoding it.
SubscribeInv ==
  \A s \in Subscribers :
    /\ pc[s] \in {"idle", "open", "receive", "accept"} => wire[s] = {}
    /\ pc[s] \in {"idle", "open", "receive", "accept", "settle"} => reply[s] = None
    /\ pc[s] \in {"idle", "open", "receive"} => got[s] = None
    /\ pc[s] = "accept" => got[s] \in Messages \ Malformed
    /\ pc[s] = "accept" /\ s \in links => held[s] = got[s]
    /\ pc[s] = "settle" /\ s \notin links => s \in cut
    /\ "transfer" \notin wire[s]
    /\ "accept" \in wire[s] => held[s] = got[s] /\ got[s] \in Messages \ Malformed /\ Backs(s)
    /\ reply[s] \in {None, 200, 500}
    /\ Sent(s) => got[s] \in Messages \ Malformed
    /\ Sent(s) => got[s] \in settled \/ "accept" \in wire[s] \/ s \in cut

\* Two requests that sent an accept for one message: one of them was cut off.
OnceInv ==
  \A s, t \in Subscribers :
    s # t /\ Sent(s) /\ Sent(t) /\ got[s] = got[t] => s \in cut \/ t \in cut

SettledInv ==
  \A m \in settled : \E s \in Subscribers : got[s] = m /\ m \notin Malformed /\ Backs(s)

\* What a client has read is what its handler decided, and it was there to read.
ReceivedInv ==
  \A r \in Requests :
    /\ received[r] # None =>
         received[r] = reply[r] /\ pc[r] = "done" /\ conn[r] \in {"open", "timedout"}
    /\ pc[r] = "done" /\ conn[r] = "open" => received[r] = reply[r]

IInv ==
  /\ TypeOK /\ LinkInv /\ PlaceInv /\ PublishInv
  /\ SubscribeInv /\ OnceInv /\ SettledInv /\ ReceivedInv
-----------------------------------------------------------------------------
\* The steps that leave the broker's state and the links alone.
Local ==
  \/ \E r \in Requests : \/ Start(r) \/ OpenFails(r) \/ Closed(r) \/ Respond(r)
                         \/ Client(r)
  \/ \E p \in Publishers : BadBody(p) \/ SendFails(p) \/ Confirmed(p) \/ Unconfirmed(p)
  \/ \E s \in Subscribers : \/ Receive(s) \/ ReceiveFails(s) \/ AcceptFails(s)
                            \/ Accepted(s) \/ AcceptUnsure(s)

\* A step of a handler alone, or of its client, sends nothing and leaves the broker as it is.
LEMMA LocalKeepsBroker == ASSUME Local PROVE UNCHANGED brokerVars
BY DEF Local, Client, Start, OpenFails, Closed, Respond, Leave, Notice, Timeout,
  BadBody, SendFails, Confirmed, Unconfirmed, Receive, ReceiveFails, AcceptFails,
  Accepted, AcceptUnsure, Goto, Answer

\* Every step is local, writes a frame, or is the broker's, a lost connection or a restart.
LEMMA NextCases ==
  ASSUME [Next]_vars
  PROVE \/ Local
        \/ \E r \in Requests : Close(r)
        \/ \E p \in Publishers : OpenSender(p) \/ Send(p)
        \/ \E s \in Subscribers : OpenReceiver(s) \/ Accept(s)
        \/ \E r \in Requests : LoseLink(r)
        \/ BrokerStep \/ LoseConnection \/ Restart
        \/ UNCHANGED vars
BY DEF Next, Common, Publish, Subscribe, Local

\* Links, frames and deliveries stay with the handlers that opened the link.
LEMMA LinkStep == ASSUME IInv, [Next]_vars PROVE LinkInv'
<1> USE DEF IInv, LinkInv, Linked, TypeOK, BrokerTypeOK, Requests
<1>1. CASE Local
  BY <1>1 DEF Local, Client, Start, OpenFails, Closed, Respond, Leave, Notice, Timeout,
    BadBody, SendFails, Confirmed, Unconfirmed, Receive, ReceiveFails, AcceptFails,
    Accepted, AcceptUnsure, Goto, Answer, brokerVars, handlerVars
<1>2. ASSUME NEW r \in Requests, Close(r) PROVE LinkInv'
  BY <1>2 DEF Close, SendFrame, Goto
<1>3. ASSUME NEW p \in Publishers, OpenSender(p) PROVE LinkInv'
  BY <1>3 DEF OpenSender, Goto, PublishInv
<1>4. ASSUME NEW p \in Publishers, Send(p) PROVE LinkInv'
  BY <1>4 DEF Send, SendFrame, Goto
<1>5. ASSUME NEW s \in Subscribers, OpenReceiver(s) PROVE LinkInv'
  BY <1>5 DEF OpenReceiver, Goto, SubscribeInv
<1>6. ASSUME NEW s \in Subscribers, Accept(s) PROVE LinkInv'
  BY <1>6 DEF Accept, SendFrame, Goto
<1>7. CASE BrokerStep
  <2>1. ASSUME NEW p \in Publishers, Store(p), UNCHANGED handlerVars PROVE LinkInv'
    BY <2>1 DEF Store, Process, handlerVars
  <2>2. ASSUME NEW s \in Subscribers, Settle(s), UNCHANGED handlerVars PROVE LinkInv'
    BY <2>2 DEF Settle, Process, handlerVars
  <2>3. ASSUME NEW s \in Subscribers, NEW m \in Messages, Deliver(s, m), UNCHANGED handlerVars
        PROVE LinkInv'
    BY <2>3 DEF Deliver, handlerVars
  <2>4. ASSUME NEW r \in Requests, Detach(r), UNCHANGED handlerVars PROVE LinkInv'
    BY <2>4 DEF Detach, Unlink, Process, handlerVars
  <2>. QED BY <1>7, <2>1, <2>2, <2>3, <2>4 DEF BrokerStep
<1>8. CASE LoseConnection
  BY <1>8 DEF LoseConnection, Unsettled, Disconnect, handlerVars
<1>9. CASE Restart
  BY <1>9 DEF Restart, Running
<1>10. CASE UNCHANGED vars
  BY <1>10 DEF vars, brokerVars, handlerVars
<1>11. ASSUME NEW r \in Requests, LoseLink(r) PROVE LinkInv'
  BY <1>11, BrokerAssumption DEF LoseLink, Unsettled, Drop, Unlink, handlerVars
<1>. QED BY <1>1, <1>2, <1>3, <1>4, <1>5, <1>6, <1>7, <1>8, <1>9, <1>10, <1>11, NextCases

\* Every step keeps the types.
LEMMA TypeStep == ASSUME IInv, [Next]_vars PROVE TypeOK'
<1> USE DEF IInv, TypeOK, BrokerTypeOK, Requests, Messages, PublishStates, SubscribeStates, SubscribeInv, HeldMessages
<1>1. CASE Local
  BY <1>1 DEF Local, Client, Start, OpenFails, Closed, Respond, Leave, Notice, Timeout,
    BadBody, SendFails, Confirmed, Unconfirmed, Receive, ReceiveFails, AcceptFails,
    Accepted, AcceptUnsure, Goto, Answer, brokerVars, handlerVars
<1>2. ASSUME NEW r \in Requests, Close(r) PROVE TypeOK'
  BY <1>2 DEF Close, SendFrame, Goto
<1>3. ASSUME NEW p \in Publishers, OpenSender(p) PROVE TypeOK'
  BY <1>3, BrokerAssumption DEF OpenSender, Goto
<1>4. ASSUME NEW p \in Publishers, Send(p) PROVE TypeOK'
  BY <1>4 DEF Send, SendFrame, Goto
<1>5. ASSUME NEW s \in Subscribers, OpenReceiver(s) PROVE TypeOK'
  BY <1>5, BrokerAssumption DEF OpenReceiver, Goto
<1>6. ASSUME NEW s \in Subscribers, Accept(s) PROVE TypeOK'
  BY <1>6 DEF Accept, SendFrame, Goto
<1>7. CASE BrokerStep
  <2>1. ASSUME NEW p \in Publishers, Store(p), UNCHANGED <<handlerVars, conn, cut, faults>>
        PROVE TypeOK'
    BY <2>1 DEF Store, Process, handlerVars
  <2>2. ASSUME NEW s \in Subscribers, Settle(s), UNCHANGED <<handlerVars, conn, cut, faults>>
        PROVE TypeOK'
    BY <2>2 DEF Settle, Process, handlerVars
  <2>3. ASSUME NEW s \in Subscribers, NEW m \in Messages, Deliver(s, m),
               UNCHANGED <<handlerVars, conn, cut, faults>>
        PROVE TypeOK'
    BY <2>3 DEF Deliver, handlerVars
  <2>4. ASSUME NEW r \in Requests, Detach(r), UNCHANGED <<handlerVars, conn, cut, faults>>
        PROVE TypeOK'
    BY <2>4 DEF Detach, Unlink, Process, handlerVars
  <2>. QED BY <1>7, <2>1, <2>2, <2>3, <2>4 DEF BrokerStep
<1>8. CASE LoseConnection
  BY <1>8 DEF LoseConnection, Unsettled, Disconnect, handlerVars
<1>9. CASE Restart
  BY <1>9, BrokerAssumption, AmqpAssumption DEF Restart, Running
<1>10. CASE UNCHANGED vars
  BY <1>10 DEF vars, brokerVars, handlerVars
<1>11. ASSUME NEW r \in Requests, LoseLink(r) PROVE TypeOK'
  BY <1>11, BrokerAssumption, AmqpAssumption DEF LoseLink, Unsettled, Drop, Unlink, handlerVars
<1>. QED BY <1>1, <1>2, <1>3, <1>4, <1>5, <1>6, <1>7, <1>8, <1>9, <1>10, <1>11, NextCases

\* Only the broker's steps and the loss of the connection move a message.
LEMMA PlaceStep == ASSUME IInv, [Next]_vars PROVE PlaceInv'
<1> USE DEF IInv, PlaceInv
<1>1. CASE UNCHANGED <<queue, held, settled>>
  BY <1>1
<1>2. CASE BrokerStep
  <2> USE DEF TypeOK, BrokerTypeOK, Requests, Messages
  <2>1. ASSUME NEW p \in Publishers, Store(p) PROVE PlaceInv'
    BY <2>1, BrokerAssumption DEF Store, Process, PublishInv, InBroker, HeldMessages
  <2>2. ASSUME NEW s \in Subscribers, Settle(s) PROVE PlaceInv'
    BY <2>2, BrokerAssumption DEF Settle, Process, SubscribeInv
  <2>3. ASSUME NEW s \in Subscribers, NEW m \in Messages, Deliver(s, m) PROVE PlaceInv'
    BY <2>3, BrokerAssumption DEF Deliver
  <2>4. ASSUME NEW r \in Requests, Detach(r) PROVE PlaceInv'
    BY <2>4, BrokerAssumption DEF Detach, Unlink, Process
  <2>. QED BY <1>2, <2>1, <2>2, <2>3, <2>4 DEF BrokerStep
<1>3. CASE LoseConnection
  BY <1>3, BrokerAssumption DEF LoseConnection, Unsettled, Disconnect, HeldMessages, TypeOK, BrokerTypeOK, Messages
<1>4. CASE Local \/ Restart \/ UNCHANGED vars
  BY <1>1, <1>4, LocalKeepsBroker DEF Restart, vars, brokerVars
<1>5. ASSUME NEW r \in Requests, Close(r) PROVE PlaceInv'
  BY <1>1, <1>5 DEF Close
<1>6. ASSUME NEW p \in Publishers, OpenSender(p) \/ Send(p) PROVE PlaceInv'
  BY <1>1, <1>6 DEF OpenSender, Send
<1>7. ASSUME NEW s \in Subscribers, OpenReceiver(s) \/ Accept(s) PROVE PlaceInv'
  BY <1>1, <1>7 DEF OpenReceiver, Accept
<1>8. ASSUME NEW r \in Requests, LoseLink(r) PROVE PlaceInv'
  BY <1>8, BrokerAssumption DEF LoseLink, Drop, Unlink, TypeOK, BrokerTypeOK, Requests, Messages
<1>. QED BY <1>2, <1>3, <1>4, <1>5, <1>6, <1>7, <1>8, NextCases

\* What a publisher knows of its message agrees with the broker.
LEMMA PublishStep == ASSUME IInv, [Next]_vars PROVE PublishInv'
<1> USE DEF IInv, TypeOK, BrokerTypeOK, Requests, Messages, PublishInv, PlaceInv, LinkInv, SubscribeInv, InBroker, HeldMessages, CtxDone, Broken
<1>1. CASE Local
  BY <1>1, BrokerAssumption DEF Local, Client, Start, OpenFails, Closed, Respond, Leave, Notice, Timeout,
    BadBody, SendFails, Confirmed, Unconfirmed, Receive, ReceiveFails, AcceptFails,
    Accepted, AcceptUnsure, Goto, Answer, brokerVars, handlerVars
<1>2. ASSUME NEW r \in Requests, Close(r) PROVE PublishInv'
  BY <1>2 DEF Close, SendFrame, Goto
<1>3. ASSUME NEW p \in Publishers, OpenSender(p) PROVE PublishInv'
  BY <1>3 DEF OpenSender, Goto
<1>4. ASSUME NEW p \in Publishers, Send(p) PROVE PublishInv'
  BY <1>4, BrokerAssumption, AmqpAssumption DEF Send, SendFrame, Goto
<1>5. ASSUME NEW s \in Subscribers, OpenReceiver(s) PROVE PublishInv'
  BY <1>5 DEF OpenReceiver, Goto
<1>6. ASSUME NEW s \in Subscribers, Accept(s) PROVE PublishInv'
  BY <1>6, BrokerAssumption DEF Accept, SendFrame, Goto
<1>7. CASE BrokerStep
  <2>1. ASSUME NEW p \in Publishers, Store(p), UNCHANGED <<handlerVars, conn, cut, faults>>
        PROVE PublishInv'
    BY <2>1 DEF Store, Process, handlerVars
  <2>2. ASSUME NEW s \in Subscribers, Settle(s), UNCHANGED <<handlerVars, conn, cut, faults>>
        PROVE PublishInv'
    BY <2>2, BrokerAssumption DEF Settle, Process, handlerVars
  <2>3. ASSUME NEW s \in Subscribers, NEW m \in Messages, Deliver(s, m),
               UNCHANGED <<handlerVars, conn, cut, faults>>
        PROVE PublishInv'
    BY <2>3 DEF Deliver, handlerVars
  <2>4. ASSUME NEW r \in Requests, Detach(r), UNCHANGED <<handlerVars, conn, cut, faults>>
        PROVE PublishInv'
    BY <2>4 DEF Linked, Detach, Unlink, Process, handlerVars
  <2>. QED BY <1>7, <2>1, <2>2, <2>3, <2>4 DEF BrokerStep
<1>8. CASE LoseConnection
  BY <1>8 DEF LoseConnection, Unsettled, Disconnect, handlerVars
<1>9. CASE Restart
  BY <1>9 DEF Restart, Running
<1>10. CASE UNCHANGED vars
  BY <1>10 DEF vars, brokerVars, handlerVars
<1>11. ASSUME NEW r \in Requests, LoseLink(r) PROVE PublishInv'
  BY <1>11, BrokerAssumption DEF LoseLink, Unsettled, Drop, Unlink, handlerVars
<1>. QED BY <1>1, <1>2, <1>3, <1>4, <1>5, <1>6, <1>7, <1>8, <1>9, <1>10, <1>11, NextCases

\* An accept in flight stays for the delivery that its link holds.
LEMMA SubscribeStep == ASSUME IInv, [Next]_vars PROVE SubscribeInv'
<1> USE DEF IInv, TypeOK, BrokerTypeOK, Requests, Messages, SubscribeInv, PlaceInv, LinkInv, Sent, Backs, CtxDone, Broken
<1>1. CASE Local
  BY <1>1, BrokerAssumption DEF Local, Client, Start, OpenFails, Closed, Respond, Leave, Notice, Timeout,
    BadBody, SendFails, Confirmed, Unconfirmed, Receive, ReceiveFails, AcceptFails,
    Accepted, AcceptUnsure, Goto, Answer, brokerVars, handlerVars
<1>2. ASSUME NEW r \in Requests, Close(r) PROVE SubscribeInv'
  BY <1>2 DEF Close, SendFrame, Goto
<1>3. ASSUME NEW p \in Publishers, OpenSender(p) PROVE SubscribeInv'
  BY <1>3 DEF OpenSender, Goto
<1>4. ASSUME NEW p \in Publishers, Send(p) PROVE SubscribeInv'
  BY <1>4, BrokerAssumption DEF Send, SendFrame, Goto
<1>5. ASSUME NEW s \in Subscribers, OpenReceiver(s) PROVE SubscribeInv'
  BY <1>5 DEF OpenReceiver, Goto
<1>6. ASSUME NEW s \in Subscribers, Accept(s) PROVE SubscribeInv'
  BY <1>6 DEF Accept, SendFrame, Goto
<1>7. CASE BrokerStep
  <2>1. ASSUME NEW p \in Publishers, Store(p), UNCHANGED <<handlerVars, conn, cut, faults>>
        PROVE SubscribeInv'
    BY <2>1 DEF Store, Process, handlerVars
  <2>2. ASSUME NEW s \in Subscribers, Settle(s), UNCHANGED <<handlerVars, conn, cut, faults>>
        PROVE SubscribeInv'
    BY <2>2 DEF Settle, Process, handlerVars
  <2>3. ASSUME NEW s \in Subscribers, NEW m \in Messages, Deliver(s, m),
               UNCHANGED <<handlerVars, conn, cut, faults>>
        PROVE SubscribeInv'
    BY <2>3, BrokerAssumption DEF Deliver, handlerVars
  <2>4. ASSUME NEW r \in Requests, Detach(r), UNCHANGED <<handlerVars, conn, cut, faults>>
        PROVE SubscribeInv'
    BY <2>4 DEF Linked, Detach, Unlink, Process, handlerVars
  <2>. QED BY <1>7, <2>1, <2>2, <2>3, <2>4 DEF BrokerStep
<1>8. CASE LoseConnection
  BY <1>8 DEF LoseConnection, Unsettled, Disconnect, handlerVars
<1>9. CASE Restart
  BY <1>9 DEF Restart, Running
<1>10. CASE UNCHANGED vars
  BY <1>10 DEF vars, brokerVars, handlerVars
<1>11. ASSUME NEW r \in Requests, LoseLink(r) PROVE SubscribeInv'
  BY <1>11, BrokerAssumption DEF LoseLink, Unsettled, Drop, Unlink, handlerVars
<1>. QED BY <1>1, <1>2, <1>3, <1>4, <1>5, <1>6, <1>7, <1>8, <1>9, <1>10, <1>11, NextCases

\* A second accept for one message needs a first that was cut off.
LEMMA OnceStep == ASSUME IInv, [Next]_vars PROVE OnceInv'
<1> USE DEF IInv, TypeOK, BrokerTypeOK, Requests, Messages, OnceInv, SubscribeInv, PlaceInv, Sent, CtxDone, Broken
<1>1. CASE Local
  BY <1>1 DEF Local, Client, Start, OpenFails, Closed, Respond, Leave, Notice, Timeout,
    BadBody, SendFails, Confirmed, Unconfirmed, Receive, ReceiveFails, AcceptFails,
    Accepted, AcceptUnsure, Goto, Answer, brokerVars, handlerVars
<1>2. ASSUME NEW r \in Requests, Close(r) PROVE OnceInv'
  BY <1>2 DEF Close, SendFrame, Goto
<1>3. ASSUME NEW p \in Publishers, OpenSender(p) PROVE OnceInv'
  BY <1>3 DEF OpenSender, Goto
<1>4. ASSUME NEW p \in Publishers, Send(p) PROVE OnceInv'
  BY <1>4 DEF Send, SendFrame, Goto
<1>5. ASSUME NEW s \in Subscribers, OpenReceiver(s) PROVE OnceInv'
  BY <1>5 DEF OpenReceiver, Goto
<1>6. ASSUME NEW s \in Subscribers, Accept(s) PROVE OnceInv'
  BY <1>6, BrokerAssumption DEF Accept, SendFrame, Goto
<1>7. CASE BrokerStep
  <2>1. ASSUME NEW p \in Publishers, Store(p), UNCHANGED <<handlerVars, conn, cut, faults>>
        PROVE OnceInv'
    BY <2>1 DEF Store, Process, handlerVars
  <2>2. ASSUME NEW s \in Subscribers, Settle(s), UNCHANGED <<handlerVars, conn, cut, faults>>
        PROVE OnceInv'
    BY <2>2 DEF Settle, Process, handlerVars
  <2>3. ASSUME NEW s \in Subscribers, NEW m \in Messages, Deliver(s, m),
               UNCHANGED <<handlerVars, conn, cut, faults>>
        PROVE OnceInv'
    BY <2>3 DEF Deliver, handlerVars
  <2>4. ASSUME NEW r \in Requests, Detach(r), UNCHANGED <<handlerVars, conn, cut, faults>>
        PROVE OnceInv'
    BY <2>4 DEF Detach, Unlink, Process, handlerVars
  <2>. QED BY <1>7, <2>1, <2>2, <2>3, <2>4 DEF BrokerStep
<1>8. CASE LoseConnection
  BY <1>8 DEF LoseConnection, Unsettled, Disconnect, handlerVars
<1>9. CASE Restart
  BY <1>9 DEF Restart, Running
<1>10. CASE UNCHANGED vars
  BY <1>10 DEF vars, brokerVars, handlerVars
<1>11. ASSUME NEW r \in Requests, LoseLink(r) PROVE OnceInv'
  BY <1>11, BrokerAssumption DEF LoseLink, Unsettled, Drop, Unlink, handlerVars
<1>. QED BY <1>1, <1>2, <1>3, <1>4, <1>5, <1>6, <1>7, <1>8, <1>9, <1>10, <1>11, NextCases

\* What is settled keeps a request that decoded it.
LEMMA SettledStep == ASSUME IInv, [Next]_vars PROVE SettledInv'
<1> USE DEF IInv, TypeOK, BrokerTypeOK, Requests, Messages, SettledInv, SubscribeInv, PlaceInv, LinkInv, Sent, Backs, CtxDone, Broken
<1>1. CASE Local
  BY <1>1, BrokerAssumption, AmqpAssumption DEF Local, Client, Start, OpenFails, Closed, Respond, Leave, Notice, Timeout,
    BadBody, SendFails, Confirmed, Unconfirmed, Receive, ReceiveFails, AcceptFails,
    Accepted, AcceptUnsure, Goto, Answer, brokerVars, handlerVars
<1>2. ASSUME NEW r \in Requests, Close(r) PROVE SettledInv'
  BY <1>2 DEF Close, SendFrame, Goto
<1>3. ASSUME NEW p \in Publishers, OpenSender(p) PROVE SettledInv'
  BY <1>3 DEF OpenSender, Goto
<1>4. ASSUME NEW p \in Publishers, Send(p) PROVE SettledInv'
  BY <1>4 DEF Send, SendFrame, Goto
<1>5. ASSUME NEW s \in Subscribers, OpenReceiver(s) PROVE SettledInv'
  BY <1>5 DEF OpenReceiver, Goto
<1>6. ASSUME NEW s \in Subscribers, Accept(s) PROVE SettledInv'
  BY <1>6 DEF Accept, SendFrame, Goto
<1>7. CASE BrokerStep
  <2>1. ASSUME NEW p \in Publishers, Store(p), UNCHANGED <<handlerVars, conn, cut, faults>>
        PROVE SettledInv'
    BY <2>1 DEF Store, Process, handlerVars
  <2>2. ASSUME NEW s \in Subscribers, Settle(s), UNCHANGED <<handlerVars, conn, cut, faults>>
        PROVE SettledInv'
    BY <2>2 DEF Settle, Process, handlerVars
  <2>3. ASSUME NEW s \in Subscribers, NEW m \in Messages, Deliver(s, m),
               UNCHANGED <<handlerVars, conn, cut, faults>>
        PROVE SettledInv'
    BY <2>3 DEF Deliver, handlerVars
  <2>4. ASSUME NEW r \in Requests, Detach(r), UNCHANGED <<handlerVars, conn, cut, faults>>
        PROVE SettledInv'
    BY <2>4 DEF Detach, Unlink, Process, handlerVars
  <2>. QED BY <1>7, <2>1, <2>2, <2>3, <2>4 DEF BrokerStep
<1>8. CASE LoseConnection
  BY <1>8 DEF LoseConnection, Unsettled, Disconnect, handlerVars
<1>9. CASE Restart
  BY <1>9 DEF Restart, Running
<1>10. CASE UNCHANGED vars
  BY <1>10 DEF vars, brokerVars, handlerVars
<1>11. ASSUME NEW r \in Requests, LoseLink(r) PROVE SettledInv'
  BY <1>11, BrokerAssumption DEF LoseLink, Unsettled, Drop, Unlink, handlerVars
<1>. QED BY <1>1, <1>2, <1>3, <1>4, <1>5, <1>6, <1>7, <1>8, <1>9, <1>10, <1>11, NextCases

\* What a client reads is what its handler had decided.
LEMMA ReceivedStep == ASSUME IInv, [Next]_vars PROVE ReceivedInv'
<1> USE DEF IInv, TypeOK, BrokerTypeOK, Requests, Messages, ReceivedInv, Linked, Running
<1>1. CASE Local
  BY <1>1 DEF Local, Client, Start, OpenFails, Closed, Respond, Leave, Notice, Timeout,
    BadBody, SendFails, Confirmed, Unconfirmed, Receive, ReceiveFails, AcceptFails,
    Accepted, AcceptUnsure, Goto, Answer, brokerVars, handlerVars
<1>2. ASSUME NEW r \in Requests, Close(r) PROVE ReceivedInv'
  BY <1>2 DEF Close, SendFrame, Goto
<1>3. ASSUME NEW p \in Publishers, OpenSender(p) PROVE ReceivedInv'
  BY <1>3 DEF OpenSender, Goto
<1>4. ASSUME NEW p \in Publishers, Send(p) PROVE ReceivedInv'
  BY <1>4 DEF Send, SendFrame, Goto
<1>5. ASSUME NEW s \in Subscribers, OpenReceiver(s) PROVE ReceivedInv'
  BY <1>5 DEF OpenReceiver, Goto
<1>6. ASSUME NEW s \in Subscribers, Accept(s) PROVE ReceivedInv'
  BY <1>6 DEF Accept, SendFrame, Goto
<1>7. CASE BrokerStep
  <2>1. ASSUME NEW p \in Publishers, Store(p), UNCHANGED <<handlerVars, conn, cut, faults>>
        PROVE ReceivedInv'
    BY <2>1 DEF Store, Process, handlerVars
  <2>2. ASSUME NEW s \in Subscribers, Settle(s), UNCHANGED <<handlerVars, conn, cut, faults>>
        PROVE ReceivedInv'
    BY <2>2 DEF Settle, Process, handlerVars
  <2>3. ASSUME NEW s \in Subscribers, NEW m \in Messages, Deliver(s, m),
               UNCHANGED <<handlerVars, conn, cut, faults>>
        PROVE ReceivedInv'
    BY <2>3 DEF Deliver, handlerVars
  <2>4. ASSUME NEW r \in Requests, Detach(r), UNCHANGED <<handlerVars, conn, cut, faults>>
        PROVE ReceivedInv'
    BY <2>4 DEF Detach, Unlink, Process, handlerVars
  <2>. QED BY <1>7, <2>1, <2>2, <2>3, <2>4 DEF BrokerStep
<1>8. CASE LoseConnection
  BY <1>8 DEF LoseConnection, Unsettled, Disconnect, handlerVars
<1>9. CASE Restart
  BY <1>9 DEF Restart, Running, CtxDone
<1>10. CASE UNCHANGED vars
  BY <1>10 DEF vars, brokerVars, handlerVars
<1>11. ASSUME NEW r \in Requests, LoseLink(r) PROVE ReceivedInv'
  BY <1>11, BrokerAssumption DEF LoseLink, Unsettled, Drop, Unlink, handlerVars
<1>. QED BY <1>1, <1>2, <1>3, <1>4, <1>5, <1>6, <1>7, <1>8, <1>9, <1>10, <1>11, NextCases
-----------------------------------------------------------------------------
\* The service starts in the invariant.
LEMMA InitIInv == Init => IInv
<1> SUFFICES ASSUME Init PROVE IInv
  OBVIOUS
<1> USE BrokerAssumption, AmqpAssumption DEF Init, BrokerInit, Requests, Messages
<1>1. TypeOK
  BY DEF TypeOK, BrokerTypeOK, PublishStates, SubscribeStates
<1>2. LinkInv /\ PlaceInv
  BY DEF LinkInv, Linked, PlaceInv
<1>3. PublishInv
  <2>1. InBroker = Foreign
    BY DEF InBroker, HeldMessages
  <2>2. ASSUME NEW p \in Publishers
        PROVE pc[p] = "idle" /\ outcome[p] = "none" /\ wire[p] = {} /\ reply[p] = None /\ p \notin Foreign
    OBVIOUS
  <2>3. None # 202 /\ None # 400 /\ None # 500
    OBVIOUS
  <2>. QED BY <2>1, <2>2, <2>3, Zenon DEF PublishInv, CtxDone
<1>4. SubscribeInv /\ OnceInv /\ SettledInv /\ ReceivedInv
  BY DEF SubscribeInv, OnceInv, SettledInv, ReceivedInv, Sent
<1>. QED BY <1>1, <1>2, <1>3, <1>4 DEF IInv

\* The inductive invariant holds in every reachable state.
THEOREM Invariance == Spec => []IInv
<1>1. IInv /\ [Next]_vars => IInv'
  <2> SUFFICES ASSUME IInv, [Next]_vars PROVE IInv'
    OBVIOUS
  <2>. QED
    BY TypeStep, LinkStep, PlaceStep, PublishStep, SubscribeStep, OnceStep,
       SettledStep, ReceivedStep DEF IInv
<1>. QED BY InitIInv, <1>1, PTL DEF Spec

\* Every variable keeps its type: a settled delivery was a message, and no
\* handler decides on a status outside 200, 202, 400 and 500.
THEOREM TypeCorrect == Spec => []TypeOK
<1>1. IInv => TypeOK
  BY DEF IInv
<1>. QED BY Invariance, <1>1, PTL

\* ConsumeMessage hands out a message once, unless an accept was cut off by the
\* loss of a link, whatever the number of requests and faults.
THEOREM DeliversOnce == Spec => []DeliveredOnce
<1>1. IInv => DeliveredOnce
  BY AmqpAssumption DEF IInv, DeliveredOnce, OnceInv, ReceivedInv, Sent, Requests
<1>. QED BY Invariance, <1>1, PTL

\* A message answered with a 200 is removed, or its accept is on its way.
THEOREM ConsumesDelivered == Spec => []DeliveredIsConsumed
<1>1. IInv => DeliveredIsConsumed
  BY AmqpAssumption DEF IInv, DeliveredIsConsumed, SubscribeInv, ReceivedInv, Sent, Requests
<1>. QED BY Invariance, <1>1, PTL

\* The broker removes a message only for a request that decoded it.
THEOREM SettlesForSomeone == Spec => []SettledForSomeone
<1>1. IInv => SettledForSomeone
  <2> SUFFICES ASSUME IInv, NEW m \in settled
               PROVE \E s \in Subscribers :
                       /\ got[s] = m /\ m \notin Malformed
                       /\ pc[s] = "settle" \/ reply[s] = 200 \/ CtxDone(s) \/ s \in cut
                       /\ pc[s] = "done" => received[s] = 200 \/ conn[s] # "open" \/ s \in cut
    BY DEF SettledForSomeone
  <2>1. PICK s \in Subscribers : got[s] = m /\ m \notin Malformed /\ Backs(s)
    BY DEF IInv, SettledInv
  <2>2. pc[s] = "done" /\ conn[s] = "open" => received[s] = reply[s]
    BY DEF IInv, ReceivedInv, Requests
  <2>. QED BY <2>1, <2>2 DEF Backs, Sent, CtxDone
<1>. QED BY Invariance, <1>1, PTL

\* A 202 is only told of a message the broker has, or has settled without keeping it:
\* never of one it has rejected, not answered, or not been sent.
THEOREM AnswersAccepted == Spec => []AcceptedIsAnswered
<1>1. IInv => AcceptedIsAnswered
  BY AmqpAssumption DEF IInv, AcceptedIsAnswered, PublishInv, ReceivedInv, Requests
<1>. QED BY Invariance, <1>1, PTL

\* A 400 or 500 told within the deadline on a whole link means the message
\* is not in the broker.
THEOREM RefusesAbsent == Spec => []RefusedIsAbsent
<1>1. IInv => RefusedIsAbsent
  BY AmqpAssumption DEF IInv, RefusedIsAbsent, PublishInv, ReceivedInv, CtxDone, Requests
<1>. QED BY Invariance, <1>1, PTL
-----------------------------------------------------------------------------
(* The end of a link *)

\* A request has no link before it opens one, and a closed one is gone or going; a transfer
\* is on its way until it has an outcome.
EndInv ==
  \A r \in Requests :
    /\ pc[r] \in {"idle", "open"} => r \notin links
    /\ pc[r] \in {"closing", "respond", "done"} /\ r \in links => "detach" \in wire[r]
    /\ pc[r] = "await" /\ r \in links => "transfer" \in wire[r] \/ outcome[r] # "none"

\* Every step keeps EndInv.
LEMMA EndStep == ASSUME IInv, EndInv, [Next]_vars PROVE EndInv'
<1> USE DEF IInv, LinkInv, Linked, TypeOK, BrokerTypeOK, Requests, EndInv, SubscribeStates
<1>1. CASE Local
  BY <1>1 DEF Local, Client, Start, OpenFails, Closed, Respond, Leave, Notice, Timeout,
    BadBody, SendFails, Confirmed, Unconfirmed, Receive, ReceiveFails, AcceptFails,
    Accepted, AcceptUnsure, Goto, Answer, brokerVars, handlerVars
<1>2. ASSUME NEW r \in Requests, Close(r) PROVE EndInv'
  BY <1>2 DEF Close, SendFrame, Goto
<1>3. ASSUME NEW p \in Publishers, OpenSender(p) \/ Send(p) PROVE EndInv'
  BY <1>3 DEF OpenSender, Send, SendFrame, Goto
<1>4. ASSUME NEW s \in Subscribers, OpenReceiver(s) \/ Accept(s) PROVE EndInv'
  BY <1>4 DEF OpenReceiver, Accept, SendFrame, Goto
<1>5. CASE BrokerStep
  <2>1. ASSUME NEW p \in Publishers, Store(p), UNCHANGED handlerVars PROVE EndInv'
    <3>1. /\ wire' = [wire EXCEPT ![p] = @ \ {"transfer"}] /\ UNCHANGED <<session, links, pc>>
          /\ \E o \in {"accepted", "rejected", "released"} : outcome' = [outcome EXCEPT ![p] = o]
      BY <2>1 DEF Store, Process, handlerVars
    <3>. QED BY <3>1
  <2>2. ASSUME NEW s \in Subscribers, Settle(s), UNCHANGED handlerVars PROVE EndInv'
    BY <2>2 DEF Settle, Process, handlerVars
  <2>3. ASSUME NEW s \in Subscribers, NEW m \in Messages, Deliver(s, m), UNCHANGED handlerVars
        PROVE EndInv'
    BY <2>3 DEF Deliver, handlerVars
  <2>4. ASSUME NEW r \in Requests, Detach(r), UNCHANGED handlerVars PROVE EndInv'
    BY <2>4 DEF Detach, Unlink, Process, handlerVars
  <2>. QED BY <1>5, <2>1, <2>2, <2>3, <2>4 DEF BrokerStep
<1>6. CASE LoseConnection
  BY <1>6 DEF LoseConnection, Unsettled, Disconnect, handlerVars
<1>7. CASE Restart
  BY <1>7 DEF Restart, Running
<1>8. CASE UNCHANGED vars
  BY <1>8 DEF vars, brokerVars, handlerVars
<1>9. ASSUME NEW r \in Requests, LoseLink(r) PROVE EndInv'
  BY <1>9 DEF LoseLink, Drop, Unlink, handlerVars
<1>. QED BY <1>1, <1>2, <1>3, <1>4, <1>5, <1>6, <1>7, <1>8, <1>9, NextCases

\* EndInv holds in every reachable state.
LEMMA EndInvariance == Spec => []EndInv
<1>1. Init => EndInv
  BY DEF Init, BrokerInit, EndInv
<1>. QED BY Invariance, <1>1, EndStep, PTL DEF Spec

\* No path of PublishMessage or ConsumeMessage, and no loss of a link or restart,
\* leaves a link of an answered request behind.
THEOREM ClosesLinks == Spec => []LinksClosed
<1>1. EndInv => LinksClosed
  BY DEF EndInv, LinksClosed
<1>. QED BY EndInvariance, <1>1, PTL

\* Whatever a handler waits for from the broker is in flight or has arrived, or its link
\* is lost, which ends the wait: Send and both calls of Close.
THEOREM NoWaitIsHopeless == Spec => []NoHopelessWait
<1>1. IInv /\ EndInv => NoHopelessWait
  BY DEF IInv, TypeOK, BrokerTypeOK, EndInv, NoHopelessWait
<1>. QED BY Invariance, EndInvariance, <1>1, PTL
=============================================================================
