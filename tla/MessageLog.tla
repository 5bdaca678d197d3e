----------------------------- MODULE MessageLog -----------------------------
(***************************************************************************)
(* What FileStorage promises its callers while its shards are the ones it  *)
(* searches: stores and searches that each take effect at one moment.  A   *)
(* search is answered with exactly what the log holds of its trace.  A     *)
(* failing write puts one group of messages in doubt, and only messages in *)
(* doubt can be lost, or be there after an error.                          *)
(***************************************************************************)
EXTENDS Naturals

CONSTANTS Stores,     \* stores, which are also their messages
          Retrieves,  \* searches
          Group,      \* of each message: what one failing write can harm
          Trace, MaxFaults, None

VARIABLES log,     \* the messages kept
          doubt,   \* the groups a write failed in
          answer,  \* what each search was answered
          told,    \* what each store was told
          faults

logVars == <<log, doubt, answer, told, faults>>

LogInit ==
  /\ log = {} /\ doubt = {} /\ faults = 0
  /\ answer = [r \in Retrieves |-> None]
  /\ told = [m \in Stores |-> None]

Put(m) ==
  /\ told[m] = None /\ log' = log \cup {m}
  /\ UNCHANGED <<doubt, answer, told, faults>>

Fail ==
  /\ faults < MaxFaults /\ faults' = faults + 1
  /\ UNCHANGED <<log, doubt, answer, told>>

\* Messages of one group come and go, by a fault or after one.
Disturb(g) ==
  /\ \/ g \in doubt /\ faults' = faults
     \/ faults < MaxFaults /\ faults' = faults + 1
  /\ doubt' = doubt \cup {g}
  /\ log' \subseteq Stores /\ \A m \in Stores : Group[m] # g => (m \in log' <=> m \in log)
  /\ UNCHANGED <<answer, told>>

Answer(r) ==
  /\ answer[r] = None
  /\ answer' = [answer EXCEPT ![r] = {m \in log : Trace[m] = Trace[r]}]
  /\ UNCHANGED <<log, doubt, told, faults>>

Tell(m, res) ==
  /\ told[m] = None
  /\ Group[m] \in doubt \/ (res = "ok" <=> m \in log)
  /\ told' = [told EXCEPT ![m] = res]
  /\ UNCHANGED <<log, doubt, answer, faults>>

LogNext ==
  \/ \E m \in Stores : Put(m) \/ Disturb(Group[m]) \/ \E res \in {"ok", "error"} : Tell(m, res)
  \/ \E r \in Retrieves : Answer(r)
  \/ Fail

LogSpec == LogInit /\ [][LogNext]_logVars
=============================================================================
