-------------------------- MODULE DeliveryContract --------------------------
(***************************************************************************)
(* What the service promises its HTTP clients about messages, with no      *)
(* links, frames or handlers: a message told 202 is in the broker's        *)
(* keeping or was declined by the broker, and a message given with a 200   *)
(* has been taken from the others and is given once, except for messages   *)
(* in doubt, whose accept was cut off by the loss of a link.               *)
(***************************************************************************)
CONSTANTS Senders,   \* publish requests, which are also their messages
          Readers,   \* subscribe requests
          Others,    \* messages already on the topics
          None

Items == Senders \cup Others

VARIABLES available,  \* messages a reader may still take
          taken,      \* messages taken by a reader
          declined,   \* messages the broker has settled without keeping them
          doubt,      \* messages whose taking may have been undone
          given,      \* the message each reader was given
          told        \* what each sender was told

contractVars == <<available, taken, declined, doubt, given, told>>

ContractInit ==
  /\ available = Others
  /\ taken = {} /\ declined = {} /\ doubt = {}
  /\ given = [s \in Readers |-> None]
  /\ told = [p \in Senders |-> None]

\* A message is new until the broker has stored or declined it.
New(p) == p \notin available \cup taken \cup declined

Put(p) ==
  /\ New(p) /\ available' = available \cup {p}
  /\ UNCHANGED <<taken, declined, doubt, given, told>>

Decline(p) ==
  /\ New(p) /\ declined' = declined \cup {p}
  /\ UNCHANGED <<available, taken, doubt, given, told>>

Take(m) ==
  /\ m \in available
  /\ available' = available \ {m} /\ taken' = taken \cup {m}
  /\ UNCHANGED <<declined, doubt, given, told>>

\* Taking the messages of `back' is undone, among the messages D that fall in
\* doubt at once.
Doubt(D, back) ==
  /\ doubt' = doubt \cup D
  /\ taken' = taken \ back /\ available' = available \cup back
  /\ UNCHANGED <<declined, given, told>>

Give(s, m) ==
  /\ given[s] = None
  /\ m \in taken \cup doubt
  /\ \A t \in Readers : given[t] = m => m \in doubt
  /\ given' = [given EXCEPT ![s] = m]
  /\ UNCHANGED <<available, taken, declined, doubt, told>>

\* A 202 is an answer about a message the broker has decided on and not refused.
Tell(p, status) ==
  /\ told[p] = None
  /\ status = 202 => ~New(p)
  /\ told' = [told EXCEPT ![p] = status]
  /\ UNCHANGED <<available, taken, declined, doubt, given>>

ContractNext ==
  \/ \E p \in Senders : Put(p) \/ Decline(p)
  \/ \E m \in Items : Take(m)
  \/ \E D \in SUBSET Items : \E back \in SUBSET (D \cap taken) : Doubt(D, back)
  \/ \E s \in Readers, m \in Items : Give(s, m)
  \/ \E p \in Senders, status \in {202, 400, 500} : Tell(p, status)

ContractSpec == ContractInit /\ [][ContractNext]_contractVars
=============================================================================
