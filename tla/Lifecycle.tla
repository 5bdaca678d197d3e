----------------------------- MODULE Lifecycle ------------------------------
(***************************************************************************)
(* The life of the process: config.NewConfig starting the services one by  *)
(* one, main's two goroutines in an errgroup (the HTTP server, and the     *)
(* watcher that shuts it down on a signal), and the way out.               *)
(*                                                                         *)
(* The environment decides which services fail, when a signal comes, when  *)
(* the AMQP session is lost and how long a request runs.                   *)
(***************************************************************************)
EXTENDS Naturals, Sequences

CONSTANTS Requests,  \* HTTP requests that reach the server
          None

Killed == 143   \* what a shell reports of a process ended by SIGTERM

ASSUME LifecycleAssumption == None \notin {0, 1, Killed, "OK"}

\* NewConfig in order: the mandatory variables, then the services.
Steps == <<"env", "amqp", "s3", "redshift", "neo4j", "files", "tracer">>
Services == {"env", "amqp", "s3", "redshift", "neo4j", "files", "tracer"}
Optional == {"s3", "redshift"}

VARIABLES step,     \* how many steps of NewConfig are behind us
          enabled,  \* the optional services switched on (ENABLE_S3, ENABLE_REDSHIFT)
          started,  \* what has been initialised
          server,   \* the goroutine of ListenAndServe
          watcher,  \* the goroutine that waits for a signal
          signal,   \* an interrupt or SIGTERM has been sent
          request,  \* where each request is
          session,  \* the AMQP session, which nothing reopens
          healthz,  \* the last answer of /healthz
          exit      \* the exit code, None while the process lives

vars == <<step, enabled, started, server, watcher, signal, request, session, healthz, exit>>

Live == exit = None
Configured == step = Len(Steps)
ShuttingDown == watcher \in {"shutdown", "drained", "forced"}
Cancelled == server = "failed" \/ watcher = "forced"   \* the errgroup's context
Running == {r \in Requests : request[r] = "running"}

\* The process ends: what still runs is cut off.
Exit(code) ==
  /\ exit' = code
  /\ request' = [r \in Requests |-> IF request[r] = "running" THEN "aborted" ELSE request[r]]

Init ==
  /\ step = 0 /\ enabled \in SUBSET Optional /\ started = {}
  /\ server = "off" /\ watcher = "off" /\ signal = FALSE
  /\ request = [r \in Requests |-> "new"]
  /\ session = "down" /\ healthz = None /\ exit = None
-----------------------------------------------------------------------------
(* NewConfig *)

StartService ==
  /\ Live /\ ~Configured /\ step' = step + 1
  /\ LET service == Steps[step + 1] IN
     /\ service \in Optional => service \in enabled
     /\ started' = started \cup {service}
     /\ session' = IF service = "amqp" THEN "up" ELSE session
  /\ UNCHANGED <<enabled, server, watcher, signal, request, healthz, exit>>

SkipService ==
  /\ Live /\ ~Configured /\ step' = step + 1
  /\ Steps[step + 1] \in Optional \ enabled
  /\ UNCHANGED <<enabled, started, server, watcher, signal, request, session, healthz, exit>>

\* Mutant of ServiceFails: the error is logged and the start goes on.
ServiceFails_Logged ==
  /\ Live /\ ~Configured /\ step' = step + 1
  /\ Steps[step + 1] \in Optional => Steps[step + 1] \in enabled
  /\ UNCHANGED <<enabled, started, server, watcher, signal, request, session, healthz, exit>>

\* A missing variable, or a service that does not start, ends the process.
ServiceFails ==
  /\ Live /\ ~Configured /\ Exit(1)
  /\ Steps[step + 1] \in Optional => Steps[step + 1] \in enabled
  /\ UNCHANGED <<step, enabled, started, server, watcher, signal, session, healthz>>
-----------------------------------------------------------------------------
(* main's goroutines *)

\* Mutant of Go: the watcher's goroutine is not started.
Go_NoWatcher ==
  /\ Live /\ Configured /\ server = "off"
  /\ server' = "starting"
  /\ UNCHANGED <<step, enabled, started, watcher, signal, request, session, healthz, exit>>

Go ==
  /\ Live /\ Configured /\ server = "off"
  /\ server' = "starting" /\ watcher' = "starting"
  /\ UNCHANGED <<step, enabled, started, signal, request, session, healthz, exit>>

\* ListenAndServe returns ErrServerClosed at once after a Shutdown.
Listen ==
  /\ Live /\ server = "starting"
  /\ server' = IF ShuttingDown THEN "closed" ELSE "listening"
  /\ UNCHANGED <<step, enabled, started, watcher, signal, request, session, healthz, exit>>

\* The port is taken, or the listener fails later.
ListenFails ==
  /\ Live /\ server \in {"starting", "listening"} /\ ~ShuttingDown
  /\ server' = "failed"
  /\ UNCHANGED <<step, enabled, started, watcher, signal, request, session, healthz, exit>>

\* Shutdown closes the listener first: the server's goroutine ends before the
\* requests do.
ListenReturns ==
  /\ Live /\ server = "listening" /\ ShuttingDown
  /\ server' = "closed"
  /\ UNCHANGED <<step, enabled, started, watcher, signal, request, session, healthz, exit>>

Notify ==
  /\ Live /\ watcher = "starting" /\ watcher' = "waiting"
  /\ UNCHANGED <<step, enabled, started, server, signal, request, session, healthz, exit>>

\* Mutant of Wake: the watcher waits for a signal only.
Wake_SignalOnly ==
  /\ Live /\ watcher = "waiting" /\ signal
  /\ watcher' = "shutdown"
  /\ UNCHANGED <<step, enabled, started, server, signal, request, session, healthz, exit>>

Wake ==
  /\ Live /\ watcher = "waiting" /\ (signal \/ Cancelled)
  /\ watcher' = "shutdown"
  /\ UNCHANGED <<step, enabled, started, server, signal, request, session, healthz, exit>>

\* Mutant of Drained: srv.Close in place of srv.Shutdown.
Drained_Close ==
  /\ Live /\ watcher = "shutdown" /\ watcher' = "drained"
  /\ UNCHANGED <<step, enabled, started, server, signal, request, session, healthz, exit>>

\* Shutdown returns nil when no request is running ...
Drained ==
  /\ Live /\ watcher = "shutdown" /\ Running = {}
  /\ watcher' = "drained"
  /\ UNCHANGED <<step, enabled, started, server, signal, request, session, healthz, exit>>

\* ... and an error when 15 s have passed.
DrainDeadline ==
  /\ Live /\ watcher = "shutdown" /\ Running # {}
  /\ watcher' = "forced"
  /\ UNCHANGED <<step, enabled, started, server, signal, request, session, healthz, exit>>

\* Mutant of MainReturns: main waits for the server's goroutine only.
MainReturns_NoGroup ==
  /\ Live /\ server \in {"closed", "failed"}
  /\ Exit(IF Cancelled THEN 1 ELSE 0)
  /\ started' = IF Cancelled THEN started ELSE started \ {"tracer"}
  /\ UNCHANGED <<step, enabled, server, watcher, signal, session, healthz>>

\* g.Wait: both goroutines have ended.  An error goes to Fatalw, which exits
\* without the deferred TracerCloser.Close.
MainReturns ==
  /\ Live /\ server \in {"closed", "failed"} /\ watcher \in {"drained", "forced"}
  /\ Exit(IF Cancelled THEN 1 ELSE 0)
  /\ started' = IF Cancelled THEN started ELSE started \ {"tracer"}
  /\ UNCHANGED <<step, enabled, server, watcher, signal, session, healthz>>
-----------------------------------------------------------------------------
(* Requests and the environment *)

Accept(r) ==
  /\ Live /\ server = "listening" /\ ~ShuttingDown /\ request[r] = "new"
  /\ request' = [request EXCEPT ![r] = "running"]
  /\ UNCHANGED <<step, enabled, started, server, watcher, signal, session, healthz, exit>>

Finish(r) ==
  /\ Live /\ request[r] = "running"
  /\ request' = [request EXCEPT ![r] = "answered"]
  /\ UNCHANGED <<step, enabled, started, server, watcher, signal, session, healthz, exit>>

\* healthCheckHandler looks at nothing.
HealthCheck(r) ==
  /\ Live /\ request[r] = "running"
  /\ request' = [request EXCEPT ![r] = "answered"] /\ healthz' = "OK"
  /\ UNCHANGED <<step, enabled, started, server, watcher, signal, session, exit>>

\* Before signal.Notify a signal kills the process; later ones are only noted.
Signal ==
  /\ Live /\ ~signal /\ signal' = TRUE
  /\ IF watcher \in {"off", "starting"} THEN Exit(Killed) ELSE UNCHANGED <<request, exit>>
  /\ UNCHANGED <<step, enabled, started, server, watcher, session, healthz>>

LoseSession ==
  /\ Live /\ session = "up" /\ session' = "down"
  /\ UNCHANGED <<step, enabled, started, server, watcher, signal, request, healthz, exit>>

Main == StartService \/ SkipService \/ Go \/ MainReturns
Server == Listen \/ ListenReturns
Watcher == Notify \/ Wake \/ Drained \/ DrainDeadline

Next ==
  \/ Main \/ ServiceFails \/ Server \/ ListenFails \/ Watcher
  \/ \E r \in Requests : Accept(r) \/ Finish(r) \/ HealthCheck(r)
  \/ Signal \/ LoseSession

Spec == Init /\ [][Next]_vars

\* The goroutines run, and Shutdown returns by its deadline; a request need not.
FairSpec == Spec /\ WF_vars(Main) /\ WF_vars(Server) /\ WF_vars(Watcher)
-----------------------------------------------------------------------------
\* Types; the two goroutines start together, after NewConfig.
TypeOK ==
  /\ server = "off" <=> watcher = "off"
  /\ server # "off" => Configured
  /\ step \in 0..Len(Steps) /\ enabled \subseteq Optional /\ started \subseteq Services
  /\ server \in {"off", "starting", "listening", "closed", "failed"}
  /\ watcher \in {"off", "starting", "waiting", "shutdown", "drained", "forced"}
  /\ signal \in BOOLEAN
  /\ request \in [Requests -> {"new", "running", "answered", "aborted"}]
  /\ session \in {"up", "down"} /\ healthz \in {None, "OK"}
  /\ exit \in {None, 0, 1, Killed}

\* The process exits with 0 only after a shutdown that left no request behind,
\* and with the tracer closed.
CleanExit ==
  exit = 0 => /\ \A r \in Requests : request[r] \in {"new", "answered"}
              /\ server = "closed" /\ watcher = "drained" /\ "tracer" \notin started

\* A request is cut off only when the 15 s of Shutdown have passed, or by a signal
\* in the moment before the watcher listens for it: not by the server's goroutine
\* ending first, nor by a listener that fails.
AbortedAfterDeadline ==
  \A r \in Requests : request[r] = "aborted" =>
    (watcher = "forced" /\ exit = 1) \/ (watcher = "starting" /\ exit = Killed)

\* A request is served only by a process whose services, all but the optional
\* ones that are switched off, have started: no handler meets a missing one.
ServedWhenConfigured ==
  \A r \in Running : Services \ (Optional \ enabled) \subseteq started

\* A signal, or a listener that fails, ends the process, whatever the requests do.
Stops == signal \/ server = "failed" ~> ~Live

\* main.go:199, "Returns OK if the service is healthy": without its AMQP session
\* the service can neither publish nor subscribe.
HealthzMeansHealthy == [][healthz' # healthz => session = "up"]_vars
=============================================================================
