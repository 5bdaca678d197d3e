------------------------------- MODULE Broker -------------------------------
(***************************************************************************)
(* The AMQP 1.0 broker and the one session the service keeps with it, as   *)
(* internal/amqp/amqp_service.go uses them through github.com/Azure/go-amqp*)
(* (neither is in the repository: every definition here is external).      *)
(*                                                                         *)
(* Each HTTP request opens one link of its own on the shared session, so a *)
(* link is named by the request that owns it.  Frames of one link are      *)
(* processed in the order they are sent; a link sends at most one transfer *)
(* or accept, and its detach last, so the frames in flight are a set from  *)
(* which "detach" is taken only when it is alone.                          *)
(***************************************************************************)
CONSTANTS Publishers,   \* POST /publish requests; each carries one message, named after it
          Subscribers,  \* GET /subscribe requests
          Foreign,      \* messages put on the topics by other AMQP clients
          Topic,        \* the topic of every request and foreign message
          None

Requests == Publishers \cup Subscribers
Messages == Publishers \cup Foreign

ASSUME BrokerAssumption ==
  /\ Publishers \cap Subscribers = {}
  /\ Foreign \cap Requests = {}
  /\ None \notin Messages

VARIABLES session,  \* "up" or "down": the connection and session shared by all requests
          links,    \* requests whose link the broker holds attached
          wire,     \* frames of each link sent by the service and not yet processed
          queue,    \* messages available for delivery
          held,     \* the unsettled delivery on each receiver link
          settled,  \* messages removed for good, on an accept
          outcome   \* the broker's disposition of each publisher's transfer

brokerVars == <<session, links, wire, queue, held, settled, outcome>>

HeldMessages == {held[s] : s \in Subscribers} \ {None}
InBroker == queue \cup HeldMessages \cup settled

BrokerTypeOK ==
  /\ session \in {"up", "down"}
  /\ links \subseteq Requests
  /\ wire \in [Requests -> SUBSET {"transfer", "accept", "detach"}]
  /\ queue \subseteq Messages
  /\ held \in [Subscribers -> Messages \cup {None}]
  /\ settled \subseteq Messages
  /\ outcome \in [Publishers -> {"none", "accepted", "rejected", "released"}]

BrokerInit ==
  /\ session = "up"
  /\ links = {}
  /\ wire = [r \in Requests |-> {}]
  /\ queue = Foreign
  /\ held = [s \in Subscribers |-> None]
  /\ settled = {}
  /\ outcome = [p \in Publishers |-> "none"]

\* The service writes a frame on the link of r.
SendFrame(r, frame) == wire' = [wire EXCEPT ![r] = @ \cup {frame}]

\* The broker takes a frame of r off the wire.
Process(r, frame) ==
  /\ frame \in wire[r]
  /\ wire' = [wire EXCEPT ![r] = @ \ {frame}]

\* The broker stores a transferred message, refuses it, or settles it without
\* keeping it ("released" stands for the outcomes released and modified).
Store(p) ==
  /\ Process(p, "transfer")
  /\ \/ queue' = queue \cup {p} /\ outcome' = [outcome EXCEPT ![p] = "accepted"]
     \/ /\ UNCHANGED queue
        /\ \E o \in {"rejected", "released"} : outcome' = [outcome EXCEPT ![p] = o]
  /\ UNCHANGED <<session, links, held, settled>>

\* A receiver link has one credit: the broker may put one message on it as soon
\* as it is attached, without waiting for a call of Receive.
Deliver(s, m) ==
  /\ s \in links /\ held[s] = None
  /\ m \in queue /\ Topic[m] = Topic[s]
  /\ held' = [held EXCEPT ![s] = m]
  /\ queue' = queue \ {m}
  /\ UNCHANGED <<session, links, wire, settled, outcome>>

\* An accept disposition removes the delivery for good.
Settle(s) ==
  /\ Process(s, "accept")
  /\ settled' = settled \cup {held[s]}
  /\ held' = [held EXCEPT ![s] = None]
  /\ UNCHANGED <<session, links, queue, outcome>>

\* A link that is gone gives its unsettled delivery back to the queue.
Unlink(r) ==
  /\ links' = links \ {r}
  /\ IF r \in Subscribers
     THEN /\ queue' = queue \cup ({held[r]} \ {None})
          /\ held' = [held EXCEPT ![r] = None]
     ELSE UNCHANGED <<queue, held>>
  /\ UNCHANGED <<session, settled, outcome>>

Detach(r) == wire[r] = {"detach"} /\ Process(r, "detach") /\ Unlink(r)

\* The broker detaches a link of its own accord: frames in flight on it are lost.
Drop(r) == r \in links /\ wire' = [wire EXCEPT ![r] = {}] /\ Unlink(r)

\* The connection breaks: frames in flight are lost, every link is gone and
\* every unsettled delivery is available again.
Disconnect ==
  /\ session = "up" /\ session' = "down"
  /\ links' = {}
  /\ wire' = [r \in Requests |-> {}]
  /\ queue' = queue \cup HeldMessages
  /\ held' = [s \in Subscribers |-> None]
  /\ UNCHANGED <<settled, outcome>>
=============================================================================
