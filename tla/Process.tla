------------------------------ MODULE Process -------------------------------
(***************************************************************************)
(* The life of the process (main.go, pg_main.go, Start of proxy.go and     *)
(* pg_proxy.go): the start-up with its fatal errors, the health checker,   *)
(* the accept loop, the goroutines that turn a signal into a closed        *)
(* listener, and the way out through the deferred calls.  A connection     *)
(* handler is only counted; what it does is in the other modules.  The     *)
(* names are kept apart from those of QueryLogger, which main closes.      *)
(***************************************************************************)
EXTENDS Naturals

CONSTANTS
  MaxClients,       \* bound: connections that clients open
  MaxAcceptErrors   \* bound: errors of Accept on an open listener

ASSUME ProcessAssumption == MaxClients \in Nat /\ MaxAcceptErrors \in Nat

VARIABLES
  config,           \* what loadConfig and the environment give, see Configs
  mainPc,           \* where main is, see MainPc
  logger,           \* "none", "running" or "closed"
  notified,         \* signal.Notify has been called
  sigCh,            \* a signal is in the channel
  ctxDone,          \* ctx is done
  listener,         \* "none", "open" or "closed"
  acceptErrors,     \* errors Accept has returned so far
  waiting,          \* connections that wait to be accepted
  served,           \* connections accepted so far
  handlers,         \* handlers that run
  unflushed,        \* the logger holds entries that are not written
  primaryAlive,     \* the primary accepts connections
  shadowAlive,      \* and the shadow
  health,           \* where the health checker is, see HealthPc
  probe,            \* the outcome of a dial, until it is stored
  primaryHealthy,   \* what /ready and /status answer from
  shadowHealthy

startVars == <<config, notified, logger>>
netVars == <<listener, acceptErrors, waiting, served>>
handlerVars == <<handlers, unflushed>>
aliveVars == <<primaryAlive, shadowAlive>>
healthVars == <<health, probe, primaryHealthy, shadowHealthy>>
stopVars == <<sigCh, ctxDone>>
processVars ==
  <<mainPc, startVars, netVars, handlerVars, aliveVars, healthVars, stopVars>>

\* The parts of the configuration that loadConfig reads from the environment
\* and the start-up looks at, and how the world meets them: whether the TLS
\* files load, the filter is valid, the port is free, the bucket answers.
Configs == [postgres : BOOLEAN, primaryHost : BOOLEAN, shadowHost : BOOLEAN,
            tlsLoads : BOOLEAN, filterValid : BOOLEAN, portFree : BOOLEAN,
            bucket : {"unset", "unreachable", "accessible"}]

Down == {"exited", "fatal", "killed"}
MainPc == {"hosts", "tls", "filter", "proxy", "logger", "notify", "listen",
           "accept", "failed", "closing"} \cup Down
HealthPc == {"off", "dialPrimary", "storePrimary", "dialShadow", "storeShadow",
             "sleep"}

Running == mainPc \notin Down

ProcessInit ==
  /\ config \in Configs
  /\ mainPc = "hosts" /\ logger = "none" /\ notified = FALSE
  /\ sigCh = FALSE /\ ctxDone = FALSE
  /\ listener = "none" /\ acceptErrors = 0 /\ waiting = 0 /\ served = 0
  /\ handlers = 0 /\ unflushed = FALSE
  /\ primaryAlive \in BOOLEAN /\ shadowAlive \in BOOLEAN
  /\ health = "off" /\ probe = FALSE
  /\ primaryHealthy = FALSE /\ shadowHealthy = FALSE
-----------------------------------------------------------------------------
(* Start-up: main and runPostgresProxy.                                    *)

HostsGiven ==
  config.primaryHost /\ (config.postgres \/ config.shadowHost)

\* go func() { ... checkHealth() ... }
StartHealthChecker ==
  /\ health' = "dialPrimary"
  /\ UNCHANGED <<probe, primaryHealthy, shadowHealthy>>

\* Both mains refuse to start without their hosts; main starts the health
\* checker next, runPostgresProxy only when the TLS files are loaded.
CheckHosts ==
  /\ mainPc = "hosts"
  /\ \/ /\ ~HostsGiven
        /\ mainPc' = "fatal" /\ UNCHANGED healthVars
     \/ /\ HostsGiven /\ config.postgres
        /\ mainPc' = "tls" /\ UNCHANGED healthVars
     \/ /\ HostsGiven /\ ~config.postgres
        /\ mainPc' = "filter" /\ StartHealthChecker
  /\ UNCHANGED <<startVars, netVars, handlerVars, aliveVars, stopVars>>

\* loadListenerTLSConfig and loadBackendTLSConfig.
LoadTLS ==
  /\ mainPc = "tls"
  /\ \/ ~config.tlsLoads /\ mainPc' = "fatal" /\ UNCHANGED healthVars
     \/ config.tlsLoads /\ mainPc' = "filter" /\ StartHealthChecker
  /\ UNCHANGED <<startVars, netVars, handlerVars, aliveVars, stopVars>>

MakeFilter ==
  /\ mainPc = "filter"
  /\ mainPc' = IF ~config.filterValid THEN "fatal"
             ELSE IF config.postgres THEN "logger" ELSE "proxy"
  /\ UNCHANGED <<startVars, netVars, handlerVars, aliveVars, healthVars, stopVars>>

NewTCPProxy ==
  /\ mainPc = "proxy"
  /\ mainPc' = IF config.tlsLoads THEN "logger" ELSE "fatal"
  /\ UNCHANGED <<startVars, netVars, handlerVars, aliveVars, healthVars, stopVars>>

\* An unreachable bucket is a warning; the proxy goes on without a logger.
StartLogger ==
  /\ mainPc = "logger"
  /\ logger' = IF config.bucket = "accessible" THEN "running" ELSE "none"
  /\ mainPc' = "notify"
  /\ UNCHANGED <<config, notified, netVars, handlerVars, aliveVars, healthVars,
                 stopVars>>

\* signal.Notify, and the goroutine that waits for sigCh.
Notify ==
  /\ mainPc = "notify"
  /\ notified' = TRUE
  /\ mainPc' = "listen"
  /\ UNCHANGED <<config, logger, netVars, handlerVars, aliveVars, healthVars,
                 stopVars>>

\* net.Listen; an error is returned to main, whose log.Fatal runs no deferred
\* call.
Listen ==
  /\ mainPc = "listen"
  /\ \/ /\ config.portFree
        /\ mainPc' = "accept" /\ listener' = "open" /\ UNCHANGED ctxDone
     \/ /\ ~config.portFree
        /\ mainPc' = "fatal" /\ ctxDone' = TRUE /\ UNCHANGED listener
  /\ UNCHANGED <<startVars, acceptErrors, waiting, served, handlerVars, aliveVars,
                 healthVars, sigCh>>
-----------------------------------------------------------------------------
(* The accept loop, and how it ends.                                       *)

\* go handleConnection(conn, logger)
Accept ==
  /\ mainPc = "accept" /\ listener = "open" /\ waiting > 0
  /\ waiting' = waiting - 1
  /\ served' = served + 1
  /\ handlers' = handlers + 1
  /\ UNCHANGED <<mainPc, startVars, listener, acceptErrors, unflushed, aliveVars,
                 healthVars, stopVars>>

\* Accept returns an error: the listener is closed, or there are too many open
\* files, say.
AcceptFails ==
  /\ mainPc = "accept"
  /\ \/ listener = "closed" /\ UNCHANGED acceptErrors
     \/ /\ listener = "open" /\ acceptErrors < MaxAcceptErrors
        /\ acceptErrors' = acceptErrors + 1
  /\ mainPc' = "failed"
  /\ UNCHANGED <<startVars, listener, waiting, served, handlerVars, aliveVars,
                 healthVars, stopVars>>

\* Mutant: an error that is not due to the shutdown is returned to main.
ReturnError == "fatal"

\* The default branch of the select: log and try again.
OnAcceptError == "accept"

\* Start returns, which closes the listener, and main's deferred calls begin
\* with cancel().
AfterAcceptError ==
  /\ mainPc = "failed"
  /\ mainPc' = IF ctxDone THEN "closing" ELSE OnAcceptError
  /\ listener' = IF ctxDone THEN "closed" ELSE listener
  /\ UNCHANGED <<startVars, acceptErrors, waiting, served, handlerVars, aliveVars,
                 healthVars, stopVars>>

\* queryLogger.Close(), deferred only if there is a logger; then main returns
\* and the process is gone, handlers included.
Exit ==
  /\ mainPc = "closing"
  /\ mainPc' = "exited"
  /\ logger' = IF logger = "running" THEN "closed" ELSE logger
  /\ unflushed' = FALSE
  /\ handlers' = 0
  /\ UNCHANGED <<config, notified, netVars, aliveVars, healthVars, stopVars>>

\* SIGTERM or SIGINT: before Notify it kills the process.
Signal ==
  /\ Running
  /\ \/ /\ notified
        /\ sigCh' = TRUE /\ UNCHANGED <<mainPc, handlerVars>>
     \/ /\ ~notified
        /\ mainPc' = "killed" /\ handlers' = 0 /\ UNCHANGED <<sigCh, unflushed>>
  /\ UNCHANGED <<startVars, netVars, aliveVars, healthVars, ctxDone>>

\* <-sigCh; cancel().  The goroutine ends: later signals stay in the channel.
SignalGoroutine ==
  /\ Running /\ sigCh /\ ~ctxDone
  /\ sigCh' = FALSE
  /\ ctxDone' = TRUE
  /\ UNCHANGED <<mainPc, startVars, netVars, handlerVars, aliveVars, healthVars>>

\* Mutant: nobody closes the listener while Accept blocks.
NobodyCloses == FALSE

\* <-ctx.Done(); listener.Close()
CloseListener ==
  /\ Running /\ ctxDone /\ listener = "open"
  /\ listener' = "closed"
  /\ UNCHANGED <<mainPc, startVars, acceptErrors, waiting, served, handlerVars,
                 aliveVars, healthVars, stopVars>>
-----------------------------------------------------------------------------
(* Clients, handlers, and the logger's own flushes.                        *)

Connect ==
  /\ listener = "open" /\ waiting + served < MaxClients
  /\ waiting' = waiting + 1
  /\ UNCHANGED <<mainPc, startVars, listener, acceptErrors, served, handlerVars,
                 aliveVars, healthVars, stopVars>>

HandlerLogs ==
  /\ Running /\ handlers > 0 /\ logger = "running"
  /\ unflushed' = TRUE
  /\ UNCHANGED <<mainPc, startVars, netVars, handlers, aliveVars, healthVars, stopVars>>

LoggerFlushes ==
  /\ Running /\ unflushed
  /\ unflushed' = FALSE
  /\ UNCHANGED <<mainPc, startVars, netVars, handlers, aliveVars, healthVars, stopVars>>

HandlerEnds ==
  /\ Running /\ handlers > 0
  /\ handlers' = handlers - 1
  /\ UNCHANGED <<mainPc, startVars, netVars, unflushed, aliveVars, healthVars, stopVars>>
-----------------------------------------------------------------------------
(* The health checker: a dial, which may take three seconds, and then the  *)
(* result under the lock.                                                  *)

Dial(from, alive, to) ==
  /\ Running /\ health = from
  /\ probe' = alive
  /\ health' = to
  /\ UNCHANGED <<mainPc, startVars, netVars, handlerVars, aliveVars, stopVars,
                 primaryHealthy, shadowHealthy>>

DialPrimary == Dial("dialPrimary", primaryAlive, "storePrimary")
DialShadow == Dial("dialShadow", shadowAlive, "storeShadow")

\* runPostgresProxy skips the shadow when there is none.
StorePrimary ==
  /\ Running /\ health = "storePrimary"
  /\ primaryHealthy' = probe /\ probe' = FALSE
  /\ health' = IF config.shadowHost THEN "dialShadow" ELSE "sleep"
  /\ UNCHANGED <<mainPc, startVars, netVars, handlerVars, aliveVars, stopVars,
                 shadowHealthy>>

StoreShadow ==
  /\ Running /\ health = "storeShadow"
  /\ shadowHealthy' = probe /\ probe' = FALSE
  /\ health' = "sleep"
  /\ UNCHANGED <<mainPc, startVars, netVars, handlerVars, aliveVars, stopVars,
                 primaryHealthy>>

\* Mutant: only the initial check is made.
NoTicker == FALSE

\* for range ticker.C { checkHealth() }
HealthTick ==
  /\ Running /\ health = "sleep"
  /\ health' = "dialPrimary"
  /\ UNCHANGED <<mainPc, startVars, netVars, handlerVars, aliveVars, stopVars,
                 probe, primaryHealthy, shadowHealthy>>

\* A backend goes down or comes back.
Flip ==
  /\ \/ primaryAlive' = ~primaryAlive /\ UNCHANGED shadowAlive
     \/ shadowAlive' = ~shadowAlive /\ UNCHANGED primaryAlive
  /\ Running
  /\ UNCHANGED <<mainPc, startVars, netVars, handlerVars, healthVars, stopVars>>

\* GET /ready: the status code.
ready == IF primaryHealthy THEN 200 ELSE 503

\* GET /status: what it says of the two backends.
status == [primary |-> primaryHealthy, shadow |-> shadowHealthy]
-----------------------------------------------------------------------------
MainStep ==
  \/ CheckHosts \/ LoadTLS \/ MakeFilter \/ NewTCPProxy \/ StartLogger
  \/ Notify \/ Listen \/ AfterAcceptError \/ Exit

HealthStep ==
  DialPrimary \/ StorePrimary \/ DialShadow \/ StoreShadow \/ HealthTick

Environment ==
  Signal \/ Connect \/ HandlerLogs \/ LoggerFlushes \/ HandlerEnds \/ Flip

ProcessNext ==
  \/ MainStep \/ Accept \/ AcceptFails \/ SignalGoroutine \/ CloseListener
  \/ HealthStep \/ Environment

\* Goroutines that can run are scheduled, dials time out, and Close of the
\* logger returns (its flush has a deadline, see QueryLogger).  Signals,
\* clients, handlers and backends do as they like.
Fairness ==
  /\ WF_processVars(MainStep)
  /\ WF_processVars(Accept \/ AcceptFails)
  /\ WF_processVars(SignalGoroutine)
  /\ WF_processVars(CloseListener)
  /\ WF_processVars(HealthStep)

ProcessSpec == ProcessInit /\ [][ProcessNext]_processVars
FairProcessSpec == ProcessSpec /\ Fairness
-----------------------------------------------------------------------------
Places ==
  /\ config \in Configs
  /\ mainPc \in MainPc
  /\ logger \in {"none", "running", "closed"}
  /\ listener \in {"none", "open", "closed"}
  /\ health \in HealthPc

Flags ==
  /\ notified \in BOOLEAN /\ sigCh \in BOOLEAN /\ ctxDone \in BOOLEAN
  /\ unflushed \in BOOLEAN /\ primaryAlive \in BOOLEAN
  /\ shadowAlive \in BOOLEAN /\ probe \in BOOLEAN
  /\ primaryHealthy \in BOOLEAN /\ shadowHealthy \in BOOLEAN

Counters ==
  /\ acceptErrors \in 0..MaxAcceptErrors
  /\ waiting \in Nat /\ served \in Nat /\ waiting + served <= MaxClients
  /\ handlers \in 0..served

\* Types; a handler runs only for a connection that was accepted.
ProcessTypeOK == Places /\ Flags /\ Counters

\* log.Fatal and a signal before Notify run no deferred call, so the logger is
\* not flushed: that must not happen once a connection has been served.
AbruptExitLosesNothing ==
  mainPc \in {"fatal", "killed"} => served = 0 /\ ~unflushed

\* A signal that reaches the channel ends the process, although Accept does
\* not look at ctx and more than one goroutine lies between the two.
ShutdownTerminates == sigCh ~> ~Running

\* Whatever Accept reports in between, a client that waits is served unless
\* the proxy shuts down (the `continue` of the accept loop).
ClientsServed == waiting > 0 ~> (waiting = 0 \/ ctxDone)

Serving == mainPc \in {"accept", "failed"}

\* /ready and /status follow the backends: when a backend stays up, or stays
\* down, they say so from some time on, although a result may be stored after
\* the backend has changed again.
StatusFollows ==
  /\ <>[](Serving /\ primaryAlive) => <>[](ready = 200)
  /\ <>[](Serving /\ ~primaryAlive) => <>[](ready = 503)
  /\ <>[](Serving /\ config.shadowHost /\ shadowAlive) => <>[]status.shadow
  /\ <>[](Serving /\ ~shadowAlive) => <>[]~status.shadow
=============================================================================
