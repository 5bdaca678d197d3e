-------------------------- MODULE Lifecycle_proofs --------------------------
(* Proofs that Lifecycle keeps its safety invariants for any set of requests. *)
EXTENDS Lifecycle, TLAPS

\* While the process lives every step of NewConfig behind us has been done, or
\* was switched off.
StartInv ==
  Live => \A i \in 1..step : Steps[i] \in started \/ Steps[i] \in Optional \ enabled

\* Requests run in a live, configured process whose server has listened, and
\* none is left once Shutdown has returned nil.
RequestInv ==
  /\ \A r \in Requests : request[r] = "running" =>
       /\ Live /\ Configured
       /\ server \in {"listening", "closed", "failed"}
       /\ watcher # "drained"
  /\ \A r \in Requests : request[r] = "aborted" => ~Live

\* The server's goroutine ends without an error only because of Shutdown.
ClosedInv == server = "closed" => ShuttingDown

LInv == TypeOK /\ StartInv /\ RequestInv /\ ClosedInv /\ CleanExit /\ AbortedAfterDeadline

\* NewConfig goes through seven services.
LEMMA StepsLen == Len(Steps) = 7 /\ \A i \in 1..7 : Steps[i] \in Services
BY DEF Steps, Services

\* The process starts in the invariant.
LEMMA InitLInv == Init => LInv
<1> SUFFICES ASSUME Init PROVE LInv
  OBVIOUS
<1> USE LifecycleAssumption DEF Init, Killed
<1>1. TypeOK
  <2>1. step \in 0..7 /\ enabled \subseteq Optional
    OBVIOUS
  <2>2. request \in [Requests -> {"new", "running", "answered", "aborted"}]
    OBVIOUS
  <2>. QED BY StepsLen, <2>1, <2>2 DEF TypeOK
<1>2. StartInv /\ RequestInv /\ ClosedInv
  BY DEF StartInv, RequestInv, ClosedInv
<1>3. CleanExit /\ AbortedAfterDeadline
  BY DEF CleanExit, AbortedAfterDeadline
<1>. QED BY <1>1, <1>2, <1>3 DEF LInv

\* Every step of main, of both goroutines and of the requests keeps the invariant.
LEMMA NextLInv == LInv /\ [Next]_vars => LInv'
<1> SUFFICES ASSUME LInv, [Next]_vars PROVE LInv'
  OBVIOUS
<1> USE StepsLen, LifecycleAssumption
    DEF LInv, TypeOK, StartInv, RequestInv, ClosedInv, CleanExit, AbortedAfterDeadline,
        Live, Configured, ShuttingDown, Killed
<1>1. CASE StartService
  <2>1. step' = step + 1 /\ step' \in 1..7 /\ Steps[step'] \in Services
    BY <1>1 DEF StartService
  <2>2. TypeOK'
    BY <1>1, <2>1 DEF StartService
  <2>3. StartInv'
    BY <1>1, <2>1 DEF StartService
  <2>4. RequestInv' /\ ClosedInv' /\ CleanExit' /\ AbortedAfterDeadline'
    BY <1>1, <2>1 DEF StartService
  <2>. QED BY <2>2, <2>3, <2>4
<1>2. CASE SkipService
  BY <1>2 DEF SkipService
<1>3. CASE ServiceFails
  BY <1>3 DEF ServiceFails, Exit
<1>4. CASE Go
  BY <1>4 DEF Go
<1>5. CASE Server \/ ListenFails
  BY <1>5 DEF Server, Listen, ListenReturns, ListenFails
<1>6. CASE Watcher
  BY <1>6 DEF Watcher, Notify, Wake, Drained, DrainDeadline, Running
<1>7. CASE MainReturns
  BY <1>7 DEF MainReturns, Exit, Cancelled
<1>8. ASSUME NEW r \in Requests, Accept(r) PROVE LInv'
  BY <1>8 DEF Accept
<1>9. ASSUME NEW r \in Requests, Finish(r) \/ HealthCheck(r) PROVE LInv'
  BY <1>9 DEF Finish, HealthCheck
<1>10. CASE Signal
  BY <1>10 DEF Signal, Exit
<1>11. CASE LoseSession
  BY <1>11 DEF LoseSession
<1>12. CASE UNCHANGED vars
  BY <1>12 DEF vars
<1>. QED
  BY <1>1, <1>2, <1>3, <1>4, <1>5, <1>6, <1>7, <1>8, <1>9, <1>10, <1>11, <1>12
     DEF Next, Main

\* The exit code, the two goroutines of main and the started services agree, in every state.
THEOREM LifecycleInvariance == Spec => []LInv
BY InitLInv, NextLInv, PTL DEF Spec

\* Types: the goroutines start together, and only after NewConfig.
THEOREM LifecycleTypes == Spec => []TypeOK
<1>1. LInv => TypeOK
  BY DEF LInv
<1>. QED BY LifecycleInvariance, <1>1, PTL

\* The process exits with 0 only when it has drained its requests and closed the
\* tracer.
THEOREM ExitsClean == Spec => []CleanExit
<1>1. LInv => CleanExit
  BY DEF LInv
<1>. QED BY LifecycleInvariance, <1>1, PTL

\* A request is cut off only by the deadline of Shutdown, or by a signal that
\* comes before the watcher listens.
THEOREM AbortsAfterDeadline == Spec => []AbortedAfterDeadline
<1>1. LInv => AbortedAfterDeadline
  BY DEF LInv
<1>. QED BY LifecycleInvariance, <1>1, PTL

\* No request is served before every service in use has started.
THEOREM ServesConfigured == Spec => []ServedWhenConfigured
<1>1. LInv => ServedWhenConfigured
  <2> SUFFICES ASSUME LInv, NEW r \in Running
               PROVE Services \ (Optional \ enabled) \subseteq started
    BY DEF ServedWhenConfigured
  <2>1. Live /\ step = 7
    BY StepsLen DEF LInv, RequestInv, Running, Configured
  <2>2. \A i \in 1..7 : Steps[i] \in started \/ Steps[i] \in Optional \ enabled
    BY <2>1 DEF LInv, StartInv
  <2>3. \A service \in Services : \E i \in 1..7 : Steps[i] = service
    BY DEF Services, Steps
  <2>. QED BY <2>2, <2>3
<1>. QED BY LifecycleInvariance, <1>1, PTL
=============================================================================
