------------------------ MODULE ServerLifecycleProofs ------------------------
(***************************************************************************)
(* Proofs about ServerLifecycle, for any HTTP and gRPC requests.           *)
(***************************************************************************)
EXTENDS ServerLifecycle, SequenceTheorems, TLAPS

-----------------------------------------------------------------------------
(* The inductive invariant                                                 *)

\* How far GracefulStop has got.
AfterStopGrpc == {"grpcWait", "cleaner", "tracer", "redis", "done"}
AfterStopHttp == {"http", "grpc"} \cup AfterStopGrpc
AfterGrpc == {"cleaner", "tracer", "redis", "done"}
AfterCleaner == {"tracer", "redis", "done"}

\* main calls every factory before it launches a goroutine, and the servers are
\* goroutines of Server.Run.
StartsInOrder ==
  /\ stopper # "ignoring" \/ launched => boot = <<>>
  /\ http # "none" => launched
  /\ stopper \in AfterStopHttp => http # "none"

\* The flags follow the stopper, which waits for the requests before it goes on.
StopsInOrder ==
  /\ httpStop <=> stopper \in AfterStopHttp
  /\ grpcStop <=> stopper \in AfterStopGrpc
  /\ stopper \in AfterStopGrpc \cup {"grpc"} => handlers = {} \/ expired
  /\ stopper \in AfterGrpc => rpcs = {} /\ grpc # "serving"
  /\ tracer \in {"flushing", "flushed"} => stopper \in AfterCleaner
  /\ stopper \in {"redis", "done"} => tracer \in {"off", "flushed"} \/ expired
  /\ redis = "closed" => stopper = "done"

\* What was up stays up until GracefulStop stops it.
UpUntilStopped ==
  wasUp => /\ stopper \notin {"ignoring", "notified"}
           /\ launched /\ prom \in {"off", "serving"}
           /\ http \in {"serving", "returned"}
           /\ grpc \in {"serving", "draining", "returned"}
           /\ cleaner \in {"running", "closed"}
           /\ cleaner = "closed" => stopper \in AfterCleaner

IInv == /\ LifecycleTypeOK /\ StartsInOrder /\ StopsInOrder /\ UpUntilStopped
        /\ StopIsOrderly

USE DEF StopperPCs, AfterStopGrpc, AfterStopHttp, AfterGrpc, AfterCleaner

-----------------------------------------------------------------------------
(* The steps                                                               *)

LEMMA InitIInv == Init => IInv
<1> SUFFICES ASSUME Init PROVE IInv
  OBVIOUS
<1>1. Main \in Seq(Factories)
  <2>1. InitializeMigrator \in Seq(Factories) /\ <<"migrate">> \in Seq(Factories)
    BY DEF InitializeMigrator, Factories
  <2>2. InitializeServer \in Seq(Factories)
    BY DEF InitializeServer, Factories
  <2> QED BY <2>1, <2>2, ConcatProperties DEF Main
<1> QED
  BY <1>1 DEF Init, IInv, LifecycleTypeOK, StartsInOrder, StopsInOrder, UpUntilStopped,
              StopIsOrderly

\* A factory is only called while nothing has been launched.
LEMMA BootKeeps == IInv /\ Boot => IInv'
<1> SUFFICES ASSUME IInv, Boot PROVE IInv'
  OBVIOUS
<1>1. /\ Up /\ boot # <<>>
      /\ \/ boot' = Tail(boot) /\ UNCHANGED exit
         \/ exit' = "fatal" /\ UNCHANGED boot
      /\ UNCHANGED <<launched, http, grpc, cleaner, httpStop, grpcStop, stopper, expired, wasUp,
                     handlers, rpcs>>
  <2>1. PICK factory \in Factories : Make(factory)
    BY DEF Boot, NewConfig, NewDatabaseConnection, Migrate, NewLocalCache, NewRedisClient,
           NewSonyFlake, NewObservabilityInjector, Factories
  <2> QED BY <2>1 DEF Make, Exit, working
<1>2. /\ tracer' = tracer \/ tracer' \in {"none", "off"}
      /\ prom' = prom \/ prom' \in {"none", "off"}
      /\ redis' = redis \/ redis' = "open"
  BY DEF Boot, NewConfig, NewDatabaseConnection, Migrate, NewLocalCache, NewRedisClient,
         NewSonyFlake, NewObservabilityInjector
<1>3. boot' \in Seq(Factories)
  BY <1>1 DEF IInv, LifecycleTypeOK
<1>4. stopper = "ignoring" /\ ~launched /\ ~wasUp
  BY <1>1 DEF IInv, StartsInOrder, UpUntilStopped
<1>5. LifecycleTypeOK'
  BY <1>1, <1>2, <1>3 DEF IInv, LifecycleTypeOK
<1> QED
  BY <1>1, <1>2, <1>4, <1>5 DEF IInv, StartsInOrder, StopsInOrder, UpUntilStopped, StopIsOrderly

LEMMA ServingKeeps == IInv /\ Serving => IInv'
<1> SUFFICES ASSUME IInv, Serving PROVE IInv'
  OBVIOUS
<1> USE DEF IInv, LifecycleTypeOK, StartsInOrder, StopsInOrder, UpUntilStopped, StopIsOrderly,
            Up, Exit, stopping, working
<1>1. CASE Run
  <2>1. /\ boot = <<>> /\ ~launched /\ exit = "none"
        /\ UNCHANGED <<boot, http, grpc, cleaner, httpStop, grpcStop, stopper, expired, redis,
                       wasUp, handlers, rpcs>>
    BY <1>1 DEF Run
  <2>2. http = "none" /\ ~wasUp
    BY <2>1
  <2>3. stopper \notin AfterStopHttp
    BY <2>2
  <2>4. tracer \notin {"flushing", "flushed"}
    BY <2>3
  <2>5. CASE launched' = TRUE /\ UNCHANGED exit
    <3>1. tracer' \in {"off", "on"} /\ prom' \in {"off", "starting"}
      BY <1>1, <2>1, <2>5 DEF Run
    <3>2. LifecycleTypeOK'
      BY <2>1, <2>5, <3>1
    <3> QED BY <2>1, <2>2, <2>3, <2>5, <3>1, <3>2
  <2>6. CASE exit' = "fatal" /\ UNCHANGED <<launched, tracer, prom>>
    <3>1. LifecycleTypeOK'
      BY <2>1, <2>6
    <3> QED BY <2>1, <2>2, <2>3, <2>4, <2>6, <3>1
  <2> QED BY <1>1, <2>5, <2>6 DEF Run
<1>2. CASE PromServe
  BY <1>2 DEF PromServe
<1>3. CASE HttpCreate
  BY <1>3 DEF HttpCreate
<1>4. CASE HttpServe
  BY <1>4 DEF HttpServe
<1>5. CASE GrpcListen
  BY <1>5 DEF GrpcListen
<1>6. CASE GrpcServe
  BY <1>6 DEF GrpcServe
<1>7. CASE Subscribe
  BY <1>7 DEF Subscribe
<1> QED BY <1>1, <1>2, <1>3, <1>4, <1>5, <1>6, <1>7 DEF Serving

LEMMA HandlerKeeps ==
  ASSUME IInv, NEW h \in Handlers, HttpBegin(h) \/ HttpEnd(h)
  PROVE  IInv'
<1> USE DEF IInv, LifecycleTypeOK, StartsInOrder, StopsInOrder, UpUntilStopped, StopIsOrderly,
            Up, starting, stopping
<1>1. CASE HttpBegin(h)
  BY <1>1 DEF HttpBegin
<1>2. CASE HttpEnd(h)
  BY <1>2 DEF HttpEnd
<1> QED BY <1>1, <1>2

LEMMA RpcKeeps ==
  ASSUME IInv, NEW q \in Rpcs, RpcBegin(q) \/ RpcEnd(q)
  PROVE  IInv'
<1> USE DEF IInv, LifecycleTypeOK, StartsInOrder, StopsInOrder, UpUntilStopped, StopIsOrderly,
            Up, starting, stopping
<1>1. CASE RpcBegin(q)
  BY <1>1 DEF RpcBegin
<1>2. CASE RpcEnd(q)
  BY <1>2 DEF RpcEnd
<1> QED BY <1>1, <1>2

LEMMA SignalKeeps == IInv /\ (Notify \/ Signal \/ ContextExpires) => IInv'
<1> SUFFICES ASSUME IInv, Notify \/ Signal \/ ContextExpires PROVE IInv'
  OBVIOUS
<1> USE DEF IInv, LifecycleTypeOK, StartsInOrder, StopsInOrder, UpUntilStopped, StopIsOrderly,
            Up, Exit, starting, working
<1>1. CASE Notify
  BY <1>1 DEF Notify
<1>2. CASE Signal
  <2>1. CASE stopper = "ignoring"
    BY <1>2, <2>1 DEF Signal
  <2>2. CASE stopper = "notified" /\ wasUp'
    <3>1. http = "serving" /\ grpc = "serving" /\ cleaner = "running" /\ prom \in {"off", "serving"}
      BY <1>2, <2>2 DEF Signal
    <3> QED BY <1>2, <2>2, <3>1 DEF Signal
  <2>3. CASE stopper = "notified" /\ ~wasUp'
    <3>1. wasUp' \in BOOLEAN
      BY <1>2, <2>3 DEF Signal
    <3> QED BY <1>2, <2>3, <3>1 DEF Signal
  <2> QED BY <1>2, <2>1, <2>2, <2>3 DEF Signal
<1>3. CASE ContextExpires
  BY <1>3 DEF ContextExpires
<1> QED BY <1>1, <1>2, <1>3

LEMMA StopKeeps == IInv /\ (GracefulStop \/ Flush \/ LateMessage) => IInv'
<1> SUFFICES ASSUME IInv, GracefulStop \/ Flush \/ LateMessage PROVE IInv'
  OBVIOUS
<1> USE DEF IInv, LifecycleTypeOK, StartsInOrder, StopsInOrder, UpUntilStopped, StopIsOrderly,
            Up, Exit, starting, working
<1>1. CASE StopHttp
  <2>1. CASE http # "none"
    <3>1. /\ stopper = "signalled" /\ stopper' = "http" /\ httpStop' = TRUE
          /\ UNCHANGED <<boot, prom, tracer, launched, http, grpc, cleaner, grpcStop, expired,
                         redis, wasUp, handlers, rpcs, exit>>
      BY <1>1, <2>1 DEF StopHttp
    <3>2. LifecycleTypeOK'
      BY <3>1
    <3>3. StartsInOrder' /\ UpUntilStopped' /\ StopIsOrderly'
      BY <2>1, <3>1
    <3>4. StopsInOrder'
      BY <3>1
    <3> QED BY <3>2, <3>3, <3>4
  <2>2. CASE http = "none"
    BY <1>1, <2>2 DEF StopHttp
  <2> QED BY <2>1, <2>2
<1>2. CASE HttpStopped
  BY <1>2 DEF HttpStopped
<1>3. CASE StopGrpc
  BY <1>3 DEF StopGrpc
<1>4. CASE GrpcStopped
  BY <1>4 DEF GrpcStopped
<1>5. CASE CloseCleaner
  BY <1>5 DEF CloseCleaner
<1>6. CASE StopTracer
  BY <1>6 DEF StopTracer
<1>7. CASE TracerStopped
  BY <1>7 DEF TracerStopped
<1>8. CASE CloseRedis
  BY <1>8 DEF CloseRedis
<1>9. CASE Return
  BY <1>9 DEF Return, stopping
<1>10. CASE Flush
  BY <1>10 DEF Flush
<1>11. CASE GoAway
  BY <1>11 DEF GoAway, stopping
<1>12. CASE LateMessage
  BY <1>12 DEF LateMessage, stopping
<1> QED
  BY <1>1, <1>2, <1>3, <1>4, <1>5, <1>6, <1>7, <1>8, <1>9, <1>10, <1>11, <1>12 DEF GracefulStop

LEMMA NextIInv == IInv /\ [Next]_vars => IInv'
<1> SUFFICES ASSUME IInv, [Next]_vars PROVE IInv'
  OBVIOUS
<1>1. ASSUME NEW h \in Handlers, HttpBegin(h) \/ HttpEnd(h) PROVE IInv'
  BY <1>1, HandlerKeeps
<1>2. ASSUME NEW q \in Rpcs, RpcBegin(q) \/ RpcEnd(q) PROVE IInv'
  BY <1>2, RpcKeeps
<1>3. CASE UNCHANGED vars
  BY <1>3 DEF vars, IInv, LifecycleTypeOK, StartsInOrder, StopsInOrder, UpUntilStopped,
              StopIsOrderly
<1> QED
  BY <1>1, <1>2, <1>3, BootKeeps, ServingKeeps, SignalKeeps, StopKeeps DEF Next

LEMMA IInvAlways == Spec => []IInv
BY InitIInv, NextIInv, PTL DEF Spec

-----------------------------------------------------------------------------
(* The theorems                                                            *)

\* Type correctness of ServerLifecycle.
THEOREM LifecycleTypeCorrect == Spec => []LifecycleTypeOK
<1>1. IInv => LifecycleTypeOK
  BY DEF IInv
<1> QED BY <1>1, IInvAlways, PTL

\* The tracer and the Redis client are let go of in order, never under a request
\* that GracefulStop waits for, however many requests there are.
THEOREM ResourcesDoOutliveRequests == Spec => []ResourcesOutliveRequests
<1>1. IInv => ResourcesOutliveRequests
  BY DEF IInv, StopsInOrder, ResourcesOutliveRequests
<1> QED BY <1>1, IInvAlways, PTL

\* Once everything has started, a signal never makes a server fail for being stopped,
\* nor dereference a nil.
THEOREM StopsAreOrderly == Spec => []StopIsOrderly
<1>1. IInv => StopIsOrderly
  BY DEF IInv
<1> QED BY <1>1, IInvAlways, PTL
=============================================================================
