--------------------------- MODULE ServerLifecycle ---------------------------
(***************************************************************************)
(* The life of one instance: cmd/main.go with the factories that dep calls, *)
(* and infra/server.go with the servers of infra/http and infra/grpc and   *)
(* the tracer and the metrics of infra/observe.  The goroutines of         *)
(* Server.Run and the goroutine that waits for a signal are not ordered by *)
(* anything, so the signal may find each of the servers anywhere in its    *)
(* start-up.                                                               *)
(*                                                                         *)
(* The cleaner is reduced to what CacheCleaner shows of it: whether it has *)
(* a pool, that Close returns, and that a message after Close may panic.   *)
(***************************************************************************)
EXTENDS Sequences

CONSTANTS
  Handlers,   \* HTTP requests
  Rpcs        \* gRPC requests

VARIABLES
  boot,       \* the factories that main has yet to call, in this order
  prom,       \* the goroutine that serves the metrics; "off" without a port
  tracer,     \* TracerProvider; "off" without the address of a collector
  launched,   \* Server.Run has started its goroutines
  http,       \* the goroutine of the HTTP server; before "created" s.svr is nil
  grpc,       \* the goroutine of the gRPC server; it is "draining" once its clients
              \* have been told to send nothing more
  cleaner,    \* the goroutine of the cleaner; before "running" l.pool is nil
  httpStop,   \* http.Server.Shutdown has been called
  grpcStop,   \* grpc.Server.GracefulStop has been called
  stopper,    \* where the goroutine of main is that waits for a signal
  expired,    \* the 5 s of the context of the shutdown are over
  redis,      \* the Redis client: "none", "open" or "closed"
  handlers,   \* the HTTP requests that are being handled
  rpcs,       \* the gRPC requests that are being handled
  wasUp,      \* history: everything had started when the signal was taken
  exit        \* how the process has ended, or "none"

vars == <<boot, prom, tracer, launched, http, grpc, cleaner, httpStop, grpcStop, stopper,
          expired, redis, handlers, rpcs, wasUp, exit>>

starting == <<boot, prom, launched, http, grpc, cleaner>>
stopping == <<tracer, httpStop, grpcStop, stopper, expired, redis, wasUp>>
working == <<handlers, rpcs>>

\* "ignoring" is before signal.Notify: the signal still kills the process.
StopperPCs == {"ignoring", "notified", "signalled", "http", "grpc", "grpcWait", "cleaner",
               "tracer", "redis", "done"}

Factories ==
  {"config", "database", "migrate", "localCache", "redis", "idGenerator", "observability"}

\* What dep.InitializeMigrator and dep.InitializeServer call that may fail.
InitializeMigrator == <<"config", "database">>
InitializeServer ==
  <<"config", "database", "localCache", "redis", "idGenerator", "observability">>

Main == InitializeMigrator \o <<"migrate">> \o InitializeServer

LifecycleTypeOK ==
  /\ boot \in Seq(Factories)
  /\ prom \in {"none", "off", "starting", "serving"}
  /\ tracer \in {"none", "off", "on", "flushing", "flushed"}
  /\ launched \in BOOLEAN
  /\ http \in {"none", "created", "serving", "returned"}
  /\ grpc \in {"none", "listening", "serving", "draining", "returned"}
  /\ cleaner \in {"none", "running", "closed"}
  /\ {httpStop, grpcStop, expired, wasUp} \subseteq BOOLEAN
  /\ stopper \in StopperPCs
  /\ redis \in {"none", "open", "closed"}
  /\ handlers \subseteq Handlers /\ rpcs \subseteq Rpcs
  /\ rpcs # {} => grpc \in {"serving", "draining"}
  /\ exit \in {"none", "done", "killed", "fatal", "acceptError", "nilServer", "nilPool",
               "lateMessage"}

Init ==
  /\ boot = Main /\ prom = "none" /\ tracer = "none"
  /\ launched = FALSE
  /\ http = "none" /\ grpc = "none" /\ cleaner = "none"
  /\ httpStop = FALSE /\ grpcStop = FALSE
  /\ stopper = "ignoring" /\ expired = FALSE
  /\ redis = "none"
  /\ handlers = {} /\ rpcs = {}
  /\ wasUp = FALSE
  /\ exit = "none"

Up == exit = "none"
Exit(how) == exit' = how

-----------------------------------------------------------------------------
(* main, until it launches its goroutines; any error is log.Fatal          *)

\* The next factory makes what it is for, or fails.
Make(factory) ==
  /\ Up /\ boot # <<>> /\ Head(boot) = factory
  /\ \/ boot' = Tail(boot) /\ UNCHANGED exit
     \/ Exit("fatal") /\ UNCHANGED boot
  /\ UNCHANGED <<launched, http, grpc, cleaner, httpStop, grpcStop, stopper, expired, wasUp,
                 working>>

\* readFile, readEnv
NewConfig == Make("config") /\ UNCHANGED <<prom, tracer, redis>>

\* gorm.Open, which connects; the migrator has a pool of connections of its own.
NewDatabaseConnection == Make("database") /\ UNCHANGED <<prom, tracer, redis>>

\* AutoMigrate of the table of customers.
Migrate == Make("migrate") /\ UNCHANGED <<prom, tracer, redis>>

NewLocalCache == Make("localCache") /\ UNCHANGED <<prom, tracer, redis>>

\* The client is made, and has to answer a ping.
NewRedisClient == Make("redis") /\ redis' = "open" /\ UNCHANGED <<prom, tracer>>

NewSonyFlake == Make("idGenerator") /\ UNCHANGED <<prom, tracer, redis>>

\* Fails if the application has no name.  The port of the metrics and the address
\* of the collector of traces may be empty.
NewObservabilityInjector ==
  /\ Make("observability")
  /\ prom' \in {"none", "off"} /\ tracer' \in {"none", "off"}
  /\ UNCHANGED redis

Boot == \/ NewConfig \/ NewDatabaseConnection \/ Migrate \/ NewLocalCache \/ NewRedisClient
        \/ NewSonyFlake \/ NewObservabilityInjector

-----------------------------------------------------------------------------
(* Server.Run and its goroutines; an error of any of them is log.Fatal     *)

\* ObsInjector.Register, where the exporter may not be had; then the goroutines
\* of Run are on their way.
Run ==
  /\ Up /\ boot = <<>> /\ ~launched
  /\ \/ /\ launched' = TRUE
        /\ tracer' = IF tracer = "off" THEN "off" ELSE "on"
        /\ prom' = IF prom = "off" THEN "off" ELSE "starting"
        /\ UNCHANGED exit
     \/ tracer # "off" /\ Exit("fatal") /\ UNCHANGED <<launched, tracer, prom>>
  /\ UNCHANGED <<boot, http, grpc, cleaner, httpStop, grpcStop, stopper, expired, redis, wasUp,
                 working>>

\* The listener of the metrics, which nothing stops.
PromServe ==
  /\ Up
  /\ \/ prom = "starting" /\ prom' = "serving" /\ UNCHANGED exit
     \/ prom = "starting" /\ Exit("fatal") /\ UNCHANGED prom
     \/ prom = "serving" /\ Exit("acceptError") /\ UNCHANGED prom
  /\ UNCHANGED <<boot, launched, http, grpc, cleaner, stopping, working>>

\* RegisterRoutes and the assignment of s.svr.
HttpCreate ==
  /\ Up /\ launched /\ http = "none"
  /\ http' = "created"
  /\ UNCHANGED <<boot, prom, launched, grpc, cleaner, stopping, working, exit>>

HttpClosedIsFatal ==    \* mutant: ErrServerClosed is returned as an error
  /\ Up
  /\ \/ http = "created" /\ ~httpStop /\ http' = "serving" /\ UNCHANGED exit
     \/ http \in {"created", "serving"} /\ httpStop /\ Exit("fatal") /\ UNCHANGED http
  /\ UNCHANGED <<boot, prom, launched, grpc, cleaner, stopping, working>>

\* ListenAndServe: after a Shutdown it returns ErrServerClosed, which is no
\* error, and so it does when a Shutdown comes while it serves.  Before that Accept
\* may fail, which the goroutine may get to report only later.
HttpServe ==
  /\ Up
  /\ \/ http = "created" /\ ~httpStop /\ http' = "serving" /\ UNCHANGED exit
     \/ http = "created" /\ ~httpStop /\ Exit("fatal") /\ UNCHANGED http
     \/ http \in {"created", "serving"} /\ httpStop /\ http' = "returned" /\ UNCHANGED exit
     \/ http = "serving" /\ Exit("acceptError") /\ UNCHANGED http
  /\ UNCHANGED <<boot, prom, launched, grpc, cleaner, stopping, working>>

\* net.Listen
GrpcListen ==
  /\ Up /\ launched /\ grpc = "none"
  /\ \/ grpc' = "listening" /\ UNCHANGED exit
     \/ Exit("fatal") /\ UNCHANGED grpc
  /\ UNCHANGED <<boot, prom, launched, http, cleaner, stopping, working>>

\* Serve: after a GracefulStop it returns ErrServerStopped, which Run hands on;
\* when a GracefulStop comes while it serves it returns nil, behind the last RPC.
\* Accept may fail here too.
GrpcServe ==
  /\ Up
  /\ \/ grpc = "listening" /\ ~grpcStop /\ grpc' = "serving" /\ UNCHANGED exit
     \/ grpc = "listening" /\ grpcStop /\ Exit("fatal") /\ UNCHANGED grpc
     \/ grpc = "draining" /\ rpcs = {} /\ grpc' = "returned" /\ UNCHANGED exit
     \/ grpc \in {"serving", "draining"} /\ Exit("acceptError") /\ UNCHANGED grpc
  /\ UNCHANGED <<boot, prom, launched, http, cleaner, stopping, working>>

\* SubscribeInvalidationEvent: the subscription is confirmed, and the pool is
\* made, or Receive fails.
Subscribe ==
  /\ Up /\ launched /\ cleaner = "none"
  /\ \/ cleaner' = "running" /\ UNCHANGED exit
     \/ Exit("fatal") /\ UNCHANGED cleaner
  /\ UNCHANGED <<boot, prom, launched, http, grpc, stopping, working>>

-----------------------------------------------------------------------------
(* Requests                                                                *)

\* A connection that was accepted before Shutdown may bring a request while Shutdown
\* waits, or later if the context ended its wait.  (The return of ListenAndServe,
\* which nothing waits for, is late enough here.)
HttpBegin(h) ==
  /\ Up /\ http = "serving"
  /\ ~httpStop \/ stopper = "http" \/ expired
  /\ handlers' = handlers \cup {h}
  /\ UNCHANGED <<starting, stopping, rpcs, exit>>

HttpEnd(h) ==
  /\ Up /\ h \in handlers
  /\ handlers' = handlers \ {h}
  /\ UNCHANGED <<starting, stopping, rpcs, exit>>

RpcBeginEarly(q) ==    \* mutant: requests are taken before Serve
  /\ Up /\ grpc \in {"listening", "serving"}
  /\ rpcs' = rpcs \cup {q}
  /\ UNCHANGED <<starting, stopping, handlers, exit>>

\* A connection may bring an RPC until its client has been told, that is also after
\* GracefulStop has been called.
RpcBegin(q) ==
  /\ Up /\ grpc = "serving"
  /\ rpcs' = rpcs \cup {q}
  /\ UNCHANGED <<starting, stopping, handlers, exit>>

RpcEnd(q) ==
  /\ Up /\ q \in rpcs
  /\ rpcs' = rpcs \ {q}
  /\ UNCHANGED <<starting, stopping, handlers, exit>>

-----------------------------------------------------------------------------
(* The goroutine of main that waits for a signal, and GracefulStop         *)

\* The goroutine is launched right after that of Server.Run.
Notify ==
  /\ Up /\ boot = <<>> /\ stopper = "ignoring"
  /\ stopper' = "notified"
  /\ UNCHANGED <<starting, tracer, httpStop, grpcStop, expired, redis, wasUp, working, exit>>

\* SIGINT or SIGTERM; from here on the 5 s of the context run.
Signal ==
  /\ Up
  /\ \/ stopper = "ignoring" /\ Exit("killed") /\ UNCHANGED <<stopper, wasUp>>
     \/ /\ stopper = "notified"
        /\ stopper' = "signalled"
        /\ wasUp' = /\ http = "serving" /\ grpc = "serving" /\ cleaner = "running"
                    /\ prom \in {"off", "serving"}
        /\ UNCHANGED exit
  /\ UNCHANGED <<starting, tracer, httpStop, grpcStop, expired, redis, working>>

ContextExpires ==
  /\ Up /\ stopper \notin {"ignoring", "notified"} /\ ~expired
  /\ expired' = TRUE
  /\ UNCHANGED <<starting, tracer, httpStop, grpcStop, stopper, redis, wasUp, working, exit>>

\* HTTPServer.GracefulStop: Shutdown, of a nil server if it is not created yet.
StopHttp ==
  /\ Up /\ stopper = "signalled"
  /\ \/ http # "none" /\ httpStop' = TRUE /\ stopper' = "http" /\ UNCHANGED exit
     \/ http = "none" /\ Exit("nilServer") /\ UNCHANGED <<httpStop, stopper>>
  /\ UNCHANGED <<starting, tracer, grpcStop, expired, redis, wasUp, working>>

\* Shutdown returns: the last handler has, or the context is over (an error
\* that is only logged).
HttpStopped ==
  /\ Up /\ stopper = "http"
  /\ handlers = {} \/ expired
  /\ stopper' = "grpc"
  /\ UNCHANGED <<starting, tracer, httpStop, grpcStop, expired, redis, wasUp, working, exit>>

StopGrpc ==
  /\ Up /\ stopper = "grpc"
  /\ grpcStop' = TRUE
  /\ stopper' = "grpcWait"
  /\ UNCHANGED <<starting, tracer, httpStop, expired, redis, wasUp, working, exit>>

GrpcStopAtOnce ==    \* mutant: Stop instead of GracefulStop
  /\ Up /\ stopper = "grpcWait"
  /\ stopper' = "cleaner"
  /\ UNCHANGED <<starting, tracer, httpStop, grpcStop, expired, redis, wasUp, working, exit>>

\* GracefulStop tells the clients of every connection (GOAWAY).
GoAway ==
  /\ Up /\ stopper = "grpcWait" /\ grpc = "serving"
  /\ grpc' = "draining"
  /\ UNCHANGED <<boot, prom, launched, http, cleaner, stopping, working, exit>>

\* GracefulStop returns when no RPC is left; it knows no deadline.
GrpcStopped ==
  /\ Up /\ stopper = "grpcWait"
  /\ grpc # "serving" /\ rpcs = {}
  /\ stopper' = "cleaner"
  /\ UNCHANGED <<starting, tracer, httpStop, grpcStop, expired, redis, wasUp, working, exit>>

\* CacheCleaner.Close, of a nil pool if the subscription is not confirmed yet.
CloseCleaner ==
  /\ Up /\ stopper = "cleaner"
  /\ \/ cleaner = "running" /\ cleaner' = "closed" /\ stopper' = "tracer" /\ UNCHANGED exit
     \/ cleaner = "none" /\ Exit("nilPool") /\ UNCHANGED <<cleaner, stopper>>
  /\ UNCHANGED <<boot, prom, tracer, launched, http, grpc, httpStop, grpcStop, expired, redis,
                 wasUp, working>>

\* A message reaches the cleaner that has been closed.
LateMessage ==
  /\ Up /\ cleaner = "closed"
  /\ Exit("lateMessage")
  /\ UNCHANGED <<starting, stopping, working>>

\* TracerProvider.Shutdown, where there is one, sends the spans that are left.
StopTracer ==
  /\ Up /\ stopper = "tracer" /\ tracer = "on"
  /\ tracer' = "flushing"
  /\ UNCHANGED <<starting, httpStop, grpcStop, stopper, expired, redis, wasUp, working, exit>>

\* The collector has answered.
Flush ==
  /\ Up /\ tracer = "flushing"
  /\ tracer' = "flushed"
  /\ UNCHANGED <<starting, httpStop, grpcStop, stopper, expired, redis, wasUp, working, exit>>

WaitForCollector ==    \* mutant: the tracer is shut down without the deadline
  /\ Up /\ stopper = "tracer"
  /\ tracer \in {"off", "flushed"}
  /\ stopper' = "redis"
  /\ UNCHANGED <<starting, tracer, httpStop, grpcStop, expired, redis, wasUp, working, exit>>

\* Shutdown returns: with the answer, or because the context is over, which the
\* HTTP server may have used up.
TracerStopped ==
  /\ Up /\ stopper = "tracer"
  /\ tracer \in {"off", "flushed"} \/ (tracer = "flushing" /\ expired)
  /\ stopper' = "redis"
  /\ UNCHANGED <<starting, tracer, httpStop, grpcStop, expired, redis, wasUp, working, exit>>

CloseRedis ==
  /\ Up /\ stopper = "redis"
  /\ redis' = "closed"
  /\ stopper' = "done"
  /\ UNCHANGED <<starting, tracer, httpStop, grpcStop, expired, wasUp, working, exit>>

\* main receives from done and returns.
Return ==
  /\ Up /\ stopper = "done"
  /\ Exit("done")
  /\ UNCHANGED <<starting, stopping, working>>

-----------------------------------------------------------------------------

Serving == Run \/ PromServe \/ HttpCreate \/ HttpServe \/ GrpcListen \/ GrpcServe \/ Subscribe

GracefulStop == \/ StopHttp \/ HttpStopped \/ StopGrpc \/ GoAway \/ GrpcStopped
                \/ CloseCleaner \/ StopTracer \/ TracerStopped \/ CloseRedis \/ Return

Next == \/ Boot \/ Serving \/ Notify \/ Signal \/ ContextExpires \/ GracefulStop
        \/ Flush \/ LateMessage
        \/ \E h \in Handlers : HttpBegin(h) \/ HttpEnd(h)
        \/ \E q \in Rpcs : RpcBegin(q) \/ RpcEnd(q)

Spec == Init /\ [][Next]_vars

\* The goroutine that stops the servers runs, time passes, and an RPC comes to its
\* end: it only parses a token.  An HTTP handler, which waits for the database,
\* need not.
Fairness == /\ WF_vars(GracefulStop) /\ WF_vars(ContextExpires)
            /\ \A q \in Rpcs : WF_vars(RpcEnd(q))

FairSpec == Spec /\ Fairness

-----------------------------------------------------------------------------
(* Properties                                                              *)

\* What the requests use is let go of after them (GracefulStop of infra/server.go):
\* the tracer is shut down, and then the Redis client closed, never under a gRPC
\* request, nor under an HTTP request that has not outlived the 5 s; and spans
\* are lost only if those are over.
ResourcesOutliveRequests ==
  /\ tracer \in {"flushing", "flushed"} \/ redis = "closed" =>
       rpcs = {} /\ (handlers = {} \/ expired)
  /\ redis = "closed" => tracer \in {"off", "flushed"} \/ expired

\* If everything had started when the signal came, being stopped is not an error to
\* any of the servers, nor is there a nil dereference, whichever of them returns
\* first.  (A message that comes after Close can still end the process, and so can
\* an Accept that fails by itself.)
StopIsOrderly == wasUp => exit \in {"none", "done", "lateMessage", "acceptError"}

\* A signal ends the process at last, wherever it finds the start-up, and although
\* HTTP handlers and the collector of traces may hang (the 5 s of cmd/main.go:43).
SignalEndsProcess == stopper = "signalled" ~> exit # "none"
=============================================================================
