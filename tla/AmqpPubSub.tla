----------------------------- MODULE AmqpPubSub -----------------------------
(***************************************************************************)
(* POST /publish/{topic} and GET /subscribe/{topic}: the handlers of       *)
(* internal/handlers and the amqpService of internal/amqp they call, run   *)
(* concurrently against one Broker over one AMQP session.                  *)
(*                                                                         *)
(* A request is a process.  pc[r] names the call it is about to make or to *)
(* return from:                                                            *)
(*   publish    open -> send -> await -> close -> closing -> respond       *)
(*   subscribe  open -> receive -> accept -> settle -> close -> closing    *)
(*              -> respond                                                 *)
(* Metrics, spans and logs change nothing here.  The empty-topic branch of *)
(* both handlers is never taken (mux matches a non-empty {topic}), nor is  *)
(* the 204 branch of subscribe (ConsumeMessage never returns nil, nil) or  *)
(* the json.Marshal error of publish (the payload was decoded from JSON).  *)
(***************************************************************************)
EXTENDS Broker, Naturals

CONSTANTS Malformed,    \* foreign messages whose body is not a MessagePayload
          MaxFaults   \* bound on dropped links and restarts of the service together

ASSUME AmqpAssumption ==
  /\ Malformed \subseteq Foreign
  /\ MaxFaults \in Nat
  /\ None \notin Nat

VARIABLES pc,        \* where each request is
          got,       \* what Receive returned to each subscriber
          reply,     \* the status each handler has decided on
          conn,      \* the client's HTTP connection
          received,  \* the status each client has read
          cut,       \* requests with an unconfirmed frame when their link was lost (history)
          faults

handlerVars == <<pc, got, reply, received>>
vars == <<brokerVars, handlerVars, conn, cut, faults>>

PublishStates == {"open", "send", "await", "close", "closing", "respond"}
SubscribeStates == {"open", "receive", "accept", "settle", "close", "closing", "respond"}
Running(r) == pc[r] \notin {"idle", "done"}

\* The request's context is cancelled when net/http sees the client gone or its
\* read deadline (ReadTimeout) passes.
CtxDone(r) == conn[r] \in {"noticed", "timedout"}

\* What makes a call on a link return an error: the link has gone, alone or with
\* the session, or the context is done.
Broken(r) == r \notin links \/ CtxDone(r)

Goto(r, state) == pc' = [pc EXCEPT ![r] = state]
Answer(r, status, state) == reply' = [reply EXCEPT ![r] = status] /\ Goto(r, state)

Init ==
  /\ BrokerInit
  /\ pc = [r \in Requests |-> "idle"]
  /\ got = [s \in Subscribers |-> None]
  /\ reply = [r \in Requests |-> None]
  /\ conn = [r \in Requests |-> "open"]
  /\ received = [r \in Requests |-> None]
  /\ cut = {}
  /\ faults = 0
-----------------------------------------------------------------------------
(* Both handlers *)

Start(r) ==
  /\ pc[r] = "idle" /\ Goto(r, "open")
  /\ UNCHANGED <<brokerVars, got, reply, conn, received, cut, faults>>

\* NewSender and NewReceiver fail when the session is gone, when the broker
\* refuses the link or, for a receiver, when the context is done.
OpenFails(r) ==
  /\ pc[r] = "open" /\ Answer(r, 500, "respond")
  /\ UNCHANGED <<brokerVars, got, conn, received, cut, faults>>

\* Mutant of Close: an error of Close becomes the error of the call.
Close_Strict(r) ==
  /\ pc[r] = "close"
  /\ IF r \in links THEN SendFrame(r, "detach") /\ Goto(r, "closing") /\ UNCHANGED reply
                    ELSE UNCHANGED wire /\ Answer(r, 500, "respond")
  /\ UNCHANGED <<session, links, queue, held, settled, outcome>>
  /\ UNCHANGED <<got, conn, received, cut, faults>>

\* Mutant of Close: the deferred call is missing.
Close_Missing(r) ==
  /\ pc[r] = "close" /\ Goto(r, "respond")
  /\ UNCHANGED <<brokerVars, got, reply, conn, received, cut, faults>>

\* Mutant of Close: no detach is written once the request's context is done.
Close_WithContext(r) ==
  /\ pc[r] = "close" /\ Goto(r, "closing")
  /\ IF Broken(r) THEN UNCHANGED wire ELSE SendFrame(r, "detach")
  /\ UNCHANGED <<session, links, queue, held, settled, outcome>>
  /\ UNCHANGED <<got, reply, conn, received, cut, faults>>

\* The deferred Close sends a detach, on every path once the link is open.
Close(r) ==
  /\ pc[r] = "close" /\ Goto(r, "closing")
  /\ IF r \in links THEN SendFrame(r, "detach") ELSE UNCHANGED wire
  /\ UNCHANGED <<session, links, queue, held, settled, outcome>>
  /\ UNCHANGED <<got, reply, conn, received, cut, faults>>

\* sender.Close(context.TODO()) waits for the broker; receiver.Close(ctx) gives
\* up when the request does.  An error is only logged.
Closed(r) ==
  /\ pc[r] = "closing" /\ Goto(r, "respond")
  /\ r \notin links \/ (r \in Subscribers /\ CtxDone(r))
  /\ UNCHANGED <<brokerVars, got, reply, conn, received, cut, faults>>

\* A client that has left reads nothing; past the deadline it may or may not.
Respond(r) ==
  /\ pc[r] = "respond" /\ Goto(r, "done")
  /\ \/ conn[r] \in {"open", "timedout"} /\ received' = [received EXCEPT ![r] = reply[r]]
     \/ conn[r] # "open" /\ UNCHANGED received
  /\ UNCHANGED <<brokerVars, got, reply, conn, cut, faults>>
-----------------------------------------------------------------------------
(* Publish *)

\* The body cannot be read (500) or is not a MessagePayload (400).
BadBody(p) ==
  /\ pc[p] = "open"
  /\ \E status \in {400, 500} : Answer(p, status, "respond")
  /\ UNCHANGED <<brokerVars, got, conn, received, cut, faults>>

\* NewSender runs on context.TODO(): the state of the request is not looked at.
OpenSender(p) ==
  /\ pc[p] = "open" /\ session = "up"
  /\ links' = links \cup {p} /\ Goto(p, "send")
  /\ UNCHANGED <<session, wire, queue, held, settled, outcome>>
  /\ UNCHANGED <<got, reply, conn, received, cut, faults>>

\* Mutant of Send: the outcome is not waited for.
Send_Unsettled(p) ==
  /\ pc[p] = "send" /\ p \in links
  /\ SendFrame(p, "transfer") /\ Answer(p, 202, "close")
  /\ UNCHANGED <<session, links, queue, held, settled, outcome>>
  /\ UNCHANGED <<got, conn, received, cut, faults>>

\* Send writes the transfer ...
Send(p) ==
  /\ pc[p] = "send" /\ p \in links
  /\ SendFrame(p, "transfer") /\ Goto(p, "await")
  /\ UNCHANGED <<session, links, queue, held, settled, outcome>>
  /\ UNCHANGED <<got, reply, conn, received, cut, faults>>

\* ... or returns the error of its context or link before that ...
SendFails(p) ==
  /\ pc[p] = "send" /\ Broken(p) /\ Answer(p, 500, "close")
  /\ UNCHANGED <<brokerVars, got, conn, received, cut, faults>>

\* Mutant of Confirmed: a rejected outcome counts as success.
Confirmed_AnyOutcome(p) ==
  /\ pc[p] = "await" /\ outcome[p] # "none" /\ Answer(p, 202, "close")
  /\ UNCHANGED <<brokerVars, got, conn, received, cut, faults>>

\* ... then waits for the broker's disposition.  go-amqp turns a rejected outcome
\* into an error and no other, and nobody else looks at the outcome ...
Confirmed(p) ==
  /\ pc[p] = "await" /\ outcome[p] # "none"
  /\ Answer(p, IF outcome[p] = "rejected" THEN 500 ELSE 202, "close")
  /\ UNCHANGED <<brokerVars, got, conn, received, cut, faults>>

\* ... or stops waiting, without knowing what became of the message.
Unconfirmed(p) ==
  /\ pc[p] = "await" /\ Broken(p) /\ Answer(p, 500, "close")
  /\ UNCHANGED <<brokerVars, got, conn, received, cut, faults>>
-----------------------------------------------------------------------------
(* Subscribe *)

OpenReceiver(s) ==
  /\ pc[s] = "open" /\ session = "up"
  /\ links' = links \cup {s} /\ Goto(s, "receive")
  /\ UNCHANGED <<session, wire, queue, held, settled, outcome>>
  /\ UNCHANGED <<got, reply, conn, received, cut, faults>>

\* Mutant of Receive: the message is accepted before it is decoded.
Receive_AcceptFirst(s) ==
  /\ pc[s] = "receive" /\ held[s] # None
  /\ got' = [got EXCEPT ![s] = held[s]] /\ SendFrame(s, "accept")
  /\ \/ held[s] \in Malformed /\ Answer(s, 500, "close")
     \/ held[s] \notin Malformed /\ Goto(s, "settle") /\ UNCHANGED reply
  /\ UNCHANGED <<session, links, queue, held, settled, outcome, conn, received, cut, faults>>

\* Receive returns the delivery; a body that is not a MessagePayload ends the
\* request without any disposition.
Receive(s) ==
  /\ pc[s] = "receive" /\ held[s] # None
  /\ got' = [got EXCEPT ![s] = held[s]]
  /\ \/ held[s] \in Malformed /\ Answer(s, 500, "close")
     \/ held[s] \notin Malformed /\ Goto(s, "accept") /\ UNCHANGED reply
  /\ UNCHANGED <<brokerVars, conn, received, cut, faults>>

\* Mutant of ReceiveFails: Receive runs on context.TODO().
ReceiveFails_NoContext(s) ==
  /\ pc[s] = "receive" /\ s \notin links /\ Answer(s, 500, "close")
  /\ UNCHANGED <<brokerVars, got, conn, received, cut, faults>>

\* Mutant of ReceiveFails: a cancelled wait is answered 204.
ReceiveFails_NoContent(s) ==
  /\ pc[s] = "receive" /\ Broken(s)
  /\ Answer(s, IF CtxDone(s) THEN 204 ELSE 500, "close")
  /\ UNCHANGED <<brokerVars, got, conn, received, cut, faults>>

ReceiveFails(s) ==
  /\ pc[s] = "receive" /\ Broken(s) /\ Answer(s, 500, "close")
  /\ UNCHANGED <<brokerVars, got, conn, received, cut, faults>>

\* Mutant of Accept: the disposition is never written.
Accept_Missing(s) ==
  /\ pc[s] = "accept" /\ s \in links /\ Goto(s, "settle")
  /\ UNCHANGED <<brokerVars, got, reply, conn, received, cut, faults>>

\* AcceptMessage writes the disposition (one written on a link that the broker has
\* just dropped is one lost with the link) ...
Accept(s) ==
  /\ pc[s] = "accept" /\ s \in links
  /\ SendFrame(s, "accept") /\ Goto(s, "settle")
  /\ UNCHANGED <<session, links, queue, held, settled, outcome>>
  /\ UNCHANGED <<got, reply, conn, received, cut, faults>>

\* Mutant of AcceptFails: the error of AcceptMessage is only logged.
AcceptFails_Logged(s) ==
  /\ pc[s] = "accept" /\ Broken(s) /\ Answer(s, 200, "close")
  /\ UNCHANGED <<brokerVars, got, conn, received, cut, faults>>

\* ... or fails before writing it ...
AcceptFails(s) ==
  /\ pc[s] = "accept" /\ Broken(s) /\ Answer(s, 500, "close")
  /\ UNCHANGED <<brokerVars, got, conn, received, cut, faults>>

\* ... and returns without an answer of the broker: the link settles first.
Accepted(s) ==
  /\ pc[s] = "settle" /\ Answer(s, 200, "close")
  /\ UNCHANGED <<brokerVars, got, conn, received, cut, faults>>

\* An error can also be returned after the frame has left.
AcceptUnsure(s) ==
  /\ pc[s] = "settle" /\ Broken(s) /\ Answer(s, 500, "close")
  /\ UNCHANGED <<brokerVars, got, conn, received, cut, faults>>
-----------------------------------------------------------------------------
(* Clients, the broker and the process *)

Leave(r) ==
  /\ Running(r) /\ conn[r] = "open" /\ conn' = [conn EXCEPT ![r] = "left"]
  /\ UNCHANGED <<brokerVars, handlerVars, cut, faults>>

\* The server's background read notices that the client has left.
Notice(r) ==
  /\ Running(r) /\ conn[r] = "left" /\ conn' = [conn EXCEPT ![r] = "noticed"]
  /\ UNCHANGED <<brokerVars, handlerVars, cut, faults>>

\* The 15 s read deadline passes with the client still there.
Timeout(r) ==
  /\ Running(r) /\ conn[r] = "open" /\ conn' = [conn EXCEPT ![r] = "timedout"]
  /\ UNCHANGED <<brokerVars, handlerVars, cut, faults>>

BrokerStep ==
  /\ \/ \E p \in Publishers : Store(p)
     \/ \E s \in Subscribers : Settle(s)
     \/ \E s \in Subscribers, m \in Messages : Deliver(s, m)
     \/ \E r \in Requests : Detach(r)
  /\ UNCHANGED <<handlerVars, conn, cut, faults>>

\* A request that cannot know what became of its frame if its link is lost.
Unsettled(r) == pc[r] \in {"await", "settle"} \/ "accept" \in wire[r]

LoseLink(r) ==
  /\ Drop(r)
  /\ faults < MaxFaults /\ faults' = faults + 1
  /\ cut' = IF Unsettled(r) THEN cut \cup {r} ELSE cut
  /\ UNCHANGED <<handlerVars, conn>>

\* Nothing in amqpService notices that the session is dead or replaces it.
LoseConnection ==
  /\ Disconnect
  /\ cut' = cut \cup {r \in Requests : Unsettled(r)}
  /\ UNCHANGED <<handlerVars, conn, faults>>

\* A new process runs NewAMQPService; the requests of the old one are gone.
Restart ==
  /\ session = "down" /\ faults < MaxFaults
  /\ session' = "up" /\ faults' = faults + 1
  /\ pc' = [r \in Requests |-> IF Running(r) THEN "done" ELSE pc[r]]
  /\ conn' = [r \in Requests |-> IF Running(r) /\ ~CtxDone(r) THEN "reset" ELSE conn[r]]
  /\ UNCHANGED <<links, wire, queue, held, settled, outcome, got, reply, received, cut>>
-----------------------------------------------------------------------------
Common(r) == Start(r) \/ OpenFails(r) \/ Close(r) \/ Closed(r) \/ Respond(r)
Publish(p) ==
  \/ BadBody(p) \/ OpenSender(p) \/ Send(p) \/ SendFails(p)
  \/ Confirmed(p) \/ Unconfirmed(p)
Subscribe(s) ==
  \/ OpenReceiver(s) \/ Receive(s) \/ ReceiveFails(s)
  \/ Accept(s) \/ AcceptFails(s) \/ Accepted(s) \/ AcceptUnsure(s)
Client(r) == Leave(r) \/ Notice(r) \/ Timeout(r)

Next ==
  \/ \E r \in Requests : Common(r) \/ Client(r)
  \/ \E p \in Publishers : Publish(p)
  \/ \E s \in Subscribers : Subscribe(s)
  \/ \E r \in Requests : LoseLink(r)
  \/ BrokerStep \/ LoseConnection \/ Restart

Spec == Init /\ [][Next]_vars

\* The handlers' goroutines run; the broker processes the frames it is sent;
\* the read deadline passes, or the server finds that the client has left.
\* Nothing obliges the broker to deliver, a client to leave, a link or the connection
\* to break or the process to restart.
Fairness ==
  /\ \A r \in Requests : WF_vars(Common(r)) /\ WF_vars(Timeout(r) \/ Notice(r))
  /\ \A p \in Publishers : WF_vars(Publish(p))
  /\ \A s \in Subscribers : WF_vars(Subscribe(s))
  /\ \A r \in Requests :
       WF_vars((\/ r \in Publishers /\ Store(r)
                \/ r \in Subscribers /\ Settle(r)
                \/ Detach(r)) /\ UNCHANGED <<handlerVars, conn, cut, faults>>)

FairSpec == Spec /\ Fairness
-----------------------------------------------------------------------------
(* What must hold *)

\* Types; a handler has decided on its status before it answers.
TypeOK ==
  /\ BrokerTypeOK
  /\ pc \in [Requests -> {"idle", "done"} \cup PublishStates \cup SubscribeStates]
  /\ \A p \in Publishers : pc[p] \in {"idle", "done"} \cup PublishStates
  /\ \A s \in Subscribers : pc[s] \in {"idle", "done"} \cup SubscribeStates
  /\ got \in [Subscribers -> Messages \cup {None}]
  /\ reply \in [Requests -> {None, 200, 202, 400, 500}]
  /\ conn \in [Requests -> {"open", "left", "noticed", "timedout", "reset"}]
  /\ received \in [Requests -> {None, 200, 202, 400, 500}]
  /\ cut \subseteq Requests
  /\ faults \in 0..MaxFaults

\* Of two subscribers who read the same message with a 200, one had its accept
\* cut off by the loss of its link or connection: ConsumeMessage hands out a message
\* once, but for that case.
DeliveredOnce ==
  \A s, t \in Subscribers :
    s # t /\ received[s] = 200 /\ received[t] = 200 /\ got[s] = got[t]
      => s \in cut \/ t \in cut

\* A client that reads a 200 has a message the broker has removed, or is about
\* to remove: ConsumeMessage returns no payload whose accept failed.
DeliveredIsConsumed ==
  \A s \in Subscribers :
    received[s] = 200 => got[s] \in settled \/ "accept" \in wire[s] \/ s \in cut

\* The broker removes a message only for a request that decoded it and is going
\* to answer 200, or was overtaken by a cancelled context or a lost link; and nobody
\* reads that answer only if the client had left, the request had timed out or the
\* process had died.  AcceptMessage comes before the response, so no more can be said;
\* no other path of ConsumeMessage and its handler consumes what its caller does not get.
SettledForSomeone ==
  \A m \in settled : \E s \in Subscribers :
    /\ got[s] = m /\ m \notin Malformed
    /\ pc[s] = "settle" \/ reply[s] = 200 \/ CtxDone(s) \/ s \in cut
    /\ pc[s] = "done" => received[s] = 200 \/ conn[s] # "open" \/ s \in cut

\* A publisher that reads a 202 has its message in the broker's keeping, or the broker
\* has said that it does not keep it: PublishMessage returns nil for every outcome but
\* rejected, and for no message without an outcome, lost on the way or never sent.
AcceptedIsAnswered ==
  \A p \in Publishers : received[p] = 202 => p \in InBroker \/ outcome[p] = "released"

\* A publisher that reads an error may resend without making a duplicate,
\* unless its request timed out or its link or the connection broke while it waited.
RefusedIsAbsent ==
  \A p \in Publishers :
    received[p] \in {400, 500} /\ p \in InBroker => p \in cut \/ conn[p] = "timedout"

\* A request that has answered, or is about to, has left no link on the shared session
\* but one whose detach is on its way: each path of PublishMessage and ConsumeMessage
\* closes the link it opened, and a link left over would go on taking messages.
LinksClosed ==
  \A r \in Requests : pc[r] \in {"respond", "done"} /\ r \in links => "detach" \in wire[r]

\* No handler waits for an answer that cannot come: while its link is there, a transfer
\* whose outcome is awaited, or a detach, is still on its way to the broker or has been
\* answered.  sender.Close, on context.TODO(), would otherwise block for ever.
NoHopelessWait ==
  \A r \in links :
    /\ pc[r] = "await" => "transfer" \in wire[r] \/ outcome[r] # "none"
    /\ pc[r] = "closing" => "detach" \in wire[r]

\* What the handler's annotation says (subscribe_handler.go:38): a subscriber
\* for whom no message is available, on an intact link and still there, is
\* answered 204.
NoMessageIs204 ==
  [][\A s \in Subscribers :
       (/\ pc[s] = "receive" /\ pc'[s] = "close"
        /\ queue = {} /\ held[s] = None
        /\ s \in links /\ conn[s] = "timedout") => reply'[s] = 204]_vars

\* Every request is answered or abandoned in the end: no call on the shared
\* session leaves a handler blocked for ever.
RequestTerminates == \A r \in Requests : Running(r) ~> ~Running(r)

\* A message put on a receiver's link is consumed or comes back to the queue:
\* no path of ConsumeMessage leaves it with a link nobody reads.
NotStranded ==
  \A s \in Subscribers, m \in Messages :
    held[s] = m ~> m \in queue \cup settled
=============================================================================
