------------------------- MODULE CacheCleanerProofs -------------------------
(***************************************************************************)
(* Proofs about CacheCleaner, for any number of workers, messages and keys *)
(* and any size of the channel.  What WorkerPoolProofs knows of the pool   *)
(* holds here as well, for every step of the cleaner is a step of its pool *)
(* or leaves it alone.                                                     *)
(***************************************************************************)
EXTENDS CacheCleaner, WorkerPoolProofs

-----------------------------------------------------------------------------
(* The inductive invariant                                                 *)

Shaped ==
  /\ sub \in SubPCs
  /\ channel \in Seq(Tasks) /\ Len(channel) <= ChannelSize
  /\ sent \subseteq Tasks
  /\ lc \subseteq Keys
  /\ poolSet \in BOOLEAN
  /\ stage \in {"up", "closing", "closed"}

StopPCs == {"casStarted", "casUnstarted", "cancel", "close", "wait"}

\* Which methods of the pool the two goroutines call, and when.
Roles ==
  /\ caller[Closer].pc \in StopPCs \cup {"idle"}
  /\ caller[Subscriber].pc \in {"idle", "spawn", "push", "parked"}
  /\ stage # "closing" => caller[Closer].pc = "idle"
  /\ sub # "receive" => caller[Subscriber].pc = "idle"

\* How far the one Stop has got.
Phases ==
  /\ stage = "up" => state # 2 /\ ~cancelled /\ ~closed
  /\ caller[Closer].pc \in {"casStarted", "casUnstarted"} => state # 2 /\ ~cancelled /\ ~closed
  /\ caller[Closer].pc = "cancel" => state = 2 /\ ~cancelled /\ ~closed
  /\ caller[Closer].pc = "close" => state = 2 /\ cancelled /\ ~closed
  /\ caller[Closer].pc = "wait" => state = 2 /\ cancelled /\ closed

\* The loop pushes only after Start has returned.
NothingBeforeSpawn ==
  sub # "receive" \/ caller[Subscriber].pc = "spawn" => queue = <<>>

Stopped ==
  /\ state = 2 /\ cancelled /\ closed /\ Running = {}
  /\ \/ queue = <<>>
     \/ (\A w \in Workers : worker[w].pc = "none") /\ caller[Subscriber].pc # "spawn"

RanOn == state = 1 /\ ~cancelled /\ ~closed

\* Stop has returned.
Returned ==
  \/ stage = "closed"
  \/ stage = "closing" /\ caller[Closer].pc = "idle" /\ panic # "nilPool"

CInv == /\ IInv /\ Shaped /\ Roles /\ Phases /\ NothingBeforeSpawn
        /\ Returned => Stopped \/ RanOn

-----------------------------------------------------------------------------
(* The steps                                                               *)

LEMMA TwoCallers ==
  /\ Subscriber \in Callers /\ Closer \in Callers /\ Subscriber # Closer
  /\ \A c \in Callers : c = Subscriber \/ c = Closer
BY CleanerConstantsOK

LEMMA InitCInv == Init => CInv
<1> SUFFICES ASSUME Init PROVE CInv
  OBVIOUS
<1>1. IInv
  BY InitIInv DEF Init
<1>2. /\ \A c \in Callers : caller[c].pc = "idle"
      /\ state = 0 /\ ~cancelled /\ ~closed /\ queue = <<>>
  BY DEF Init, PoolInit, Idle
<1>3. Shaped
  <2>1. channel = <<>>
    BY DEF Init
  <2>2. channel \in Seq(Tasks) /\ Len(channel) = 0
    BY <2>1, EmptySeq
  <2>3. Len(channel) <= ChannelSize
    BY <2>2, CleanerConstantsOK
  <2>4. sent \subseteq Tasks /\ lc \subseteq Keys /\ poolSet \in BOOLEAN
    BY DEF Init
  <2>5. sub \in SubPCs /\ stage \in {"up", "closing", "closed"}
    BY DEF Init, SubPCs
  <2> QED BY <2>2, <2>3, <2>4, <2>5 DEF Shaped
<1>4. stage = "up"
  BY DEF Init
<1>5. Roles /\ Phases /\ NothingBeforeSpawn /\ ~Returned
  BY <1>2, <1>4, TwoCallers DEF Roles, Phases, NothingBeforeSpawn, Returned, StopPCs
<1> QED BY <1>1, <1>3, <1>5 DEF CInv

\* Steps that leave the pool alone.
LEMMA OutsideKeeps ==
  ASSUME CInv,
         \/ Subscribe \/ NewPool \/ EndClose \/ (\E m \in Tasks : Deliver(m))
         \/ (\E k \in Keys : Store(k) \/ Expire(k)) \/ UNCHANGED vars
  PROVE  CInv'
<1>1. UNCHANGED poolVars
  BY DEF Subscribe, NewPool, EndClose, Deliver, Store, Expire, vars
<1>2. IInv'
  BY <1>1, NextIInv DEF CInv
<1>3. /\ sub' = sub \/ (sub # "receive" /\ sub' \in {"newPool", "start"})
      /\ stage' = stage \/ (stage = "closing" /\ caller[Closer] = Idle /\ Alive /\ stage' = "closed")
  BY DEF Subscribe, NewPool, EndClose, Deliver, Store, Expire, vars, cleanerVars
<1>4. Shaped'
  <2>1. ASSUME NEW m \in Tasks, Deliver(m) PROVE Shaped'
    <3>1. CASE channel' = Append(channel, m) /\ Len(channel) < ChannelSize
      <4>1. channel' \in Seq(Tasks) /\ Len(channel') = Len(channel) + 1
        BY <3>1, AppendProperties DEF CInv, Shaped
      <4>2. Len(channel) \in Nat
        BY LenProperties DEF CInv, Shaped
      <4> QED BY <2>1, <3>1, <4>1, <4>2, CleanerConstantsOK DEF CInv, Shaped, Deliver
    <3>2. CASE channel' = channel
      BY <2>1, <3>2 DEF CInv, Shaped, Deliver
    <3> QED BY <2>1, <3>1, <3>2 DEF Deliver
  <2>2. CASE Subscribe \/ NewPool \/ EndClose
    BY <2>2 DEF CInv, Shaped, Subscribe, NewPool, EndClose, SubPCs
  <2>3. CASE (\E k \in Keys : Store(k) \/ Expire(k)) \/ UNCHANGED vars
    BY <2>3 DEF CInv, Shaped, Store, Expire, vars, cleanerVars
  <2> QED BY <2>1, <2>2, <2>3
<1>5. Running' = Running
  BY <1>1 DEF Running, poolVars
<1> QED
  BY <1>1, <1>2, <1>3, <1>4, <1>5
     DEF CInv, Roles, Phases, NothingBeforeSpawn, Returned, Stopped, RanOn, Idle, Alive, poolVars

\* l.pool.Stop on a nil pool.
Dies == /\ panic' = "nilPool"
        /\ UNCHANGED <<state, cancelled, closed, queue, wg, worker, caller, executed>>

\* The pool takes a step, or dies of a nil dereference.
LEMMA StepOfPool ==
  ASSUME CInv, [Next]_vars
  PROVE  PoolNext \/ UNCHANGED poolVars \/ Dies
<1>1. CASE Subscribing
  <2>1. CASE ReceiveMessage
    <3>1. Head(channel) \in Tasks
      BY <2>1 DEF ReceiveMessage, CInv, Shaped
    <3> QED BY <2>1, <3>1, TwoCallers DEF ReceiveMessage, PoolNext
  <2> QED BY <1>1, <2>1, TwoCallers DEF Subscribing, Subscribe, NewPool, StartPool, PoolNext
<1>2. CASE BeginClose
  BY <1>2, TwoCallers DEF BeginClose, PoolNext, Dies
<1>3. CASE EndClose \/ (\E m \in Tasks : Deliver(m)) \/ (\E k \in Keys : Store(k) \/ Expire(k))
  BY <1>3 DEF EndClose, Deliver, Store, Expire
<1>4. CASE PoolStep \/ \E w \in Workers : CleanTask(w)
  BY <1>4 DEF PoolStep, CleanTask, PoolNext, Work
<1>5. CASE UNCHANGED vars
  BY <1>5 DEF vars
<1> QED BY <1>1, <1>2, <1>3, <1>4, <1>5 DEF Next

LEMMA StepKeepsPool ==
  ASSUME CInv, Next
  PROVE  IInv'
<1>1. CASE UNCHANGED poolVars \/ PoolNext
  BY <1>1, NextIInv DEF CInv
<1>2. CASE Dies
  BY <1>2 DEF Dies, CInv, IInv, Shape, Hands, OnePlace, StartsOnce, StopsInOrder, Counted, Active,
              Elems, Injective
<1> QED BY <1>1, <1>2, StepOfPool

\* The loop, outside of Start: it goes on to where Roles allows it, and neither
\* the state nor the flags change.
LEMMA SubscriberFrame ==
  ASSUME CInv, IInv', Shaped', sub = "receive", sub' = sub, stage' = stage,
         caller[Subscriber].pc # "spawn", caller'[Subscriber].pc \in {"idle", "push", "parked"},
         caller'[Closer] = caller[Closer], UNCHANGED <<state, cancelled, closed, worker>>,
         panic' = panic \/ panic' = "sendOnClosed", panic # "nilPool",
         ~closed \/ queue' = queue
  PROVE  CInv'
<1>1. Roles' /\ Phases' /\ NothingBeforeSpawn'
  BY DEF CInv, Roles, Phases, NothingBeforeSpawn
<1>2. Running' = Running
  BY DEF Running
<1>3. Returned' => (Stopped \/ RanOn)'
  BY <1>2 DEF CInv, Returned, Stopped, RanOn
<1> QED BY <1>1, <1>3 DEF CInv

LEMMA LoopKeeps ==
  ASSUME CInv, IInv', Shaped', stage' = stage,
         \/ StartPool
         \/ ReceiveMessage
  PROVE  CInv'
<1>1. CASE StartPool /\ Start(Subscriber)
  <2>1. /\ sub = "start" /\ sub' = "receive" /\ state = 0 /\ state' = 1
        /\ Goto(Subscriber, "spawn") /\ caller[Subscriber] = Idle
        /\ UNCHANGED <<cancelled, closed, queue, panic>>
    BY <1>1 DEF StartPool, Start
  <2>2. caller'[Subscriber].pc = "spawn" /\ caller'[Closer] = caller[Closer]
    BY <2>1, GotoFacts, TwoCallers DEF CInv, CallerPCs
  <2>3. queue' = <<>> /\ ~Returned'
    BY <2>1, <2>2 DEF CInv, NothingBeforeSpawn, Returned, Stopped, RanOn
  <2> QED BY <2>1, <2>2, <2>3 DEF CInv, Roles, Phases, NothingBeforeSpawn
<1>2. CASE StartPool /\ state # 0 /\ UNCHANGED poolVars
  <2>1. sub = "start" /\ sub' = "receive" /\ caller[Subscriber].pc = "idle" /\ Running' = Running
    BY <1>2 DEF StartPool, CInv, Roles, poolVars, Running
  <2> QED BY <1>2, <2>1 DEF CInv, Roles, Phases, NothingBeforeSpawn, Returned, Stopped, RanOn, poolVars
<1>3. CASE ReceiveMessage
  <2>1. PICK m \in Tasks : Do(Subscriber, m)
    <3>1. Head(channel) \in Tasks
      BY <1>3 DEF ReceiveMessage, CInv, Shaped
    <3> QED BY <1>3, <3>1 DEF ReceiveMessage
  <2>2. sub = "receive" /\ sub' = sub /\ panic = "none"
    BY <1>3 DEF ReceiveMessage, Alive
  <2>3. /\ caller[Subscriber].pc = "idle"
        /\ caller' = [caller EXCEPT ![Subscriber] = [pc |-> "push", task |-> m]]
        /\ UNCHANGED <<state, cancelled, closed, worker, queue, panic>>
    BY <2>1 DEF Do, Idle
  <2>4. caller'[Subscriber].pc = "push" /\ caller'[Closer] = caller[Closer]
    BY <2>3, TwoCallers DEF CInv, IInv, Shape
  <2> QED BY <2>2, <2>3, <2>4, SubscriberFrame
<1> QED BY <1>1, <1>2, <1>3 DEF StartPool

LEMMA SubscriberKeeps ==
  ASSUME CInv, IInv', Shaped', sub' = sub, stage' = stage, Continue(Subscriber)
  PROVE  CInv'
<1>1. /\ \/ Spawn(Subscriber) \/ PushSend(Subscriber) \/ PushDone(Subscriber)
         \/ PushPanic(Subscriber) \/ PushPark(Subscriber)
      /\ sub = "receive" /\ panic = "none"
  BY DEF Continue, CInv, Roles, Spawn, CasStarted, CasUnstarted, Swap, Cancel, Close, Wait,
         PushSend, PushDone, PushPanic, PushPark, Alive
<1>2. CASE Spawn(Subscriber)
  <2>1. /\ caller[Subscriber].pc = "spawn" /\ Return(Subscriber)
        /\ \A w \in Workers : worker'[w].task = Nil
        /\ UNCHANGED <<state, cancelled, closed, queue, panic>>
    BY <1>2 DEF Spawn
  <2>2. caller'[Subscriber].pc = "idle" /\ caller'[Closer] = caller[Closer]
    BY <2>1, ReturnFacts, TwoCallers DEF CInv
  <2>3. Running' = {} /\ queue = <<>>
    BY <1>1, <2>1 DEF Running, CInv, NothingBeforeSpawn
  <2> QED
    BY <1>1, <2>1, <2>2, <2>3
       DEF CInv, Roles, Phases, NothingBeforeSpawn, Returned, Stopped, RanOn
<1>3. CASE PushSend(Subscriber)
  <2>1. /\ caller[Subscriber].pc = "push" /\ Return(Subscriber) /\ ~closed
        /\ UNCHANGED <<state, cancelled, closed, worker, panic>>
    BY <1>3 DEF PushSend
  <2>2. caller'[Subscriber].pc = "idle" /\ caller'[Closer] = caller[Closer]
    BY <2>1, ReturnFacts, TwoCallers DEF CInv
  <2> QED BY <1>1, <2>1, <2>2, SubscriberFrame
<1>4. CASE PushDone(Subscriber)
  <2>1. /\ caller[Subscriber].pc = "push" /\ Return(Subscriber)
        /\ UNCHANGED <<state, cancelled, closed, worker, queue, panic>>
    BY <1>4 DEF PushDone
  <2>2. caller'[Subscriber].pc = "idle" /\ caller'[Closer] = caller[Closer]
    BY <2>1, ReturnFacts, TwoCallers DEF CInv
  <2> QED BY <1>1, <2>1, <2>2, SubscriberFrame
<1>5. CASE PushPanic(Subscriber)
  <2>1. /\ caller[Subscriber].pc = "push" /\ panic' = "sendOnClosed"
        /\ UNCHANGED <<state, cancelled, closed, worker, queue, caller>>
    BY <1>5 DEF PushPanic
  <2> QED BY <1>1, <2>1, SubscriberFrame
<1>6. CASE PushPark(Subscriber)
  <2>1. /\ caller[Subscriber].pc = "push" /\ Goto(Subscriber, "parked")
        /\ UNCHANGED <<state, cancelled, closed, worker, queue, panic>>
    BY <1>6 DEF PushPark
  <2>2. caller'[Subscriber].pc = "parked" /\ caller'[Closer] = caller[Closer]
    BY <2>1, GotoFacts, TwoCallers DEF CInv, CallerPCs
  <2> QED BY <1>1, <2>1, <2>2, SubscriberFrame
<1> QED BY <1>1, <1>2, <1>3, <1>4, <1>5, <1>6

\* The one Stop.
LEMMA BeginCloseKeeps ==
  ASSUME CInv, IInv', Shaped', BeginClose
  PROVE  CInv'
<1>1. stage = "up" /\ stage' = "closing" /\ sub' = sub
  BY DEF BeginClose
<1>2. CASE Stop(Closer)
  <2>1. Goto(Closer, "casStarted") /\ UNCHANGED <<state, cancelled, closed, queue, panic>>
    BY <1>2 DEF Stop
  <2>2. caller'[Closer].pc = "casStarted" /\ caller'[Subscriber] = caller[Subscriber]
    BY <2>1, GotoFacts, TwoCallers DEF CInv, CallerPCs
  <2> QED
    BY <1>1, <2>1, <2>2 DEF CInv, Roles, Phases, NothingBeforeSpawn, Returned, StopPCs
<1>3. CASE panic' = "nilPool" /\ UNCHANGED <<state, cancelled, closed, queue, caller>>
  BY <1>1, <1>3 DEF CInv, Roles, Phases, NothingBeforeSpawn, Returned
<1> QED BY <1>2, <1>3 DEF BeginClose

LEMMA CloserKeeps ==
  ASSUME CInv, IInv', Shaped', sub' = sub, stage' = stage, Continue(Closer)
  PROVE  CInv'
<1>1. /\ \/ CasStarted(Closer) \/ CasUnstarted(Closer) \/ Cancel(Closer) \/ Close(Closer)
         \/ Wait(Closer)
      /\ stage = "closing" /\ state \in 0..2
  BY DEF Continue, CInv, Roles, IInv, Shape, Spawn, CasStarted, CasUnstarted, Swap, Cancel, Close,
         Wait, PushSend, PushDone, PushPanic, PushPark, StopPCs
<1>2. CASE CasStarted(Closer) \/ CasUnstarted(Closer)
  <2>1. /\ caller[Closer].pc \in {"casStarted", "casUnstarted"}
        /\ UNCHANGED <<cancelled, closed, queue, worker, panic>>
        /\ \/ state' = 2 /\ Goto(Closer, "cancel")
           \/ state' = state /\ Goto(Closer, "casUnstarted")
           \/ state' = state /\ state # 0 /\ Return(Closer)
    BY <1>2 DEF CasStarted, CasUnstarted, Swap
  <2>2. ~cancelled /\ ~closed /\ state # 2
    BY <2>1 DEF CInv, Phases
  <2>3. /\ caller'[Subscriber] = caller[Subscriber]
        /\ \/ caller'[Closer].pc = "cancel" /\ state' = 2
           \/ caller'[Closer].pc = "casUnstarted" /\ state' = state
           \/ caller'[Closer].pc = "idle" /\ state' = 1
    BY <1>1, <2>1, <2>2, GotoFacts, ReturnFacts, TwoCallers DEF CInv, CallerPCs
  <2> QED
    BY <1>1, <2>1, <2>2, <2>3
       DEF CInv, Roles, Phases, NothingBeforeSpawn, Returned, Stopped, RanOn, StopPCs
<1>3. CASE Cancel(Closer)
  <2>1. /\ caller[Closer].pc = "cancel" /\ cancelled' = TRUE
        /\ caller'[Closer].pc = "close"
        /\ caller'[Subscriber].pc \in {caller[Subscriber].pc, "idle"}
        /\ UNCHANGED <<state, closed, queue, worker, panic>>
    BY <1>3, TwoCallers DEF Cancel, Idle, CInv, IInv, Shape
  <2> QED
    BY <1>1, <2>1 DEF CInv, Roles, Phases, NothingBeforeSpawn, Returned, StopPCs
<1>4. CASE Close(Closer)
  <2>1. /\ caller[Closer].pc = "close" /\ closed' = TRUE /\ Goto(Closer, "wait")
        /\ UNCHANGED <<state, cancelled, queue, worker, panic>>
    BY <1>4 DEF Close
  <2>2. caller'[Closer].pc = "wait" /\ caller'[Subscriber] = caller[Subscriber]
    BY <2>1, GotoFacts, TwoCallers DEF CInv, CallerPCs
  <2> QED
    BY <1>1, <2>1, <2>2 DEF CInv, Roles, Phases, NothingBeforeSpawn, Returned, StopPCs
<1>5. CASE Wait(Closer)
  <2>1. /\ caller[Closer].pc = "wait" /\ wg = 0 /\ Return(Closer)
        /\ UNCHANGED <<state, cancelled, closed, queue, worker, panic>>
    BY <1>5 DEF Wait
  <2>2. caller'[Closer].pc = "idle" /\ caller'[Subscriber] = caller[Subscriber]
    BY <2>1, ReturnFacts, TwoCallers DEF CInv
  <2>3. Active = {}
    BY <2>1, ActiveIsFinite, FS_EmptySet DEF CInv, IInv, Counted
  <2>4. \A w \in Workers : worker[w].pc \in {"none", "exited"} /\ worker[w].task = Nil
    BY <2>3 DEF Active, CInv, IInv, Shape, Hands, WorkerPCs
  <2>5. queue = <<>> \/ \A w \in Workers : worker[w].pc = "none"
    BY <2>4 DEF CInv, IInv, StopsInOrder
  <2>6. Running = {} /\ Running' = {}
    BY <2>1, <2>4 DEF Running
  <2>7. Stopped'
    BY <2>1, <2>2, <2>5, <2>6 DEF CInv, Phases, NothingBeforeSpawn, Stopped
  <2> QED
    BY <1>1, <2>1, <2>2, <2>7 DEF CInv, Roles, Phases, NothingBeforeSpawn
<1> QED BY <1>1, <1>2, <1>3, <1>4, <1>5

LEMMA WorkerKeeps ==
  ASSUME CInv, IInv', Shaped', sub' = sub, stage' = stage, NEW w \in Workers, Work(w)
  PROVE  CInv'
<1>1. CASE Take(w)
  <2>1. /\ worker[w].pc = "range" /\ queue # <<>>
        /\ UNCHANGED <<state, cancelled, closed, panic>>
    BY <1>1 DEF Take
  <2>2. /\ caller'[Closer] = caller[Closer]
        /\ caller'[Subscriber].pc \in {caller[Subscriber].pc, "idle"}
    BY <1>1, TakeFacts, TwoCallers DEF CInv, Roles, StopPCs
  <2>3. ~Stopped
    BY <2>1 DEF Stopped
  <2> QED
    BY <2>1, <2>2, <2>3 DEF CInv, Roles, Phases, NothingBeforeSpawn, Returned, RanOn
<1>2. CASE Execute(w)
  <2>1. /\ worker[w].pc = "execute"
        /\ UNCHANGED <<state, cancelled, closed, queue, caller, panic>>
    BY <1>2 DEF Execute
  <2>2. ~Stopped
    <3>1. worker[w].task # Nil
      BY <2>1 DEF CInv, IInv, Hands
    <3> QED BY <3>1 DEF Stopped, Running
  <2> QED
    BY <2>1, <2>2 DEF CInv, Roles, Phases, NothingBeforeSpawn, Returned, RanOn
<1>3. CASE Exit(w)
  <2>1. /\ worker[w].pc = "range" /\ queue = <<>>
        /\ \A v \in Workers : worker'[v].task = worker[v].task
        /\ UNCHANGED <<state, cancelled, closed, queue, caller, panic>>
    BY <1>3 DEF Exit, CInv, IInv, Shape
  <2>2. Running' = Running
    BY <2>1 DEF Running
  <2> QED
    BY <2>1, <2>2 DEF CInv, Roles, Phases, NothingBeforeSpawn, Returned, Stopped, RanOn
<1> QED BY <1>1, <1>2, <1>3 DEF Work

LEMMA NextCInv == CInv /\ [Next]_vars => CInv'
<1> SUFFICES ASSUME CInv, [Next]_vars PROVE CInv'
  OBVIOUS
<1>1. CASE \/ Subscribe \/ NewPool \/ EndClose \/ (\E m \in Tasks : Deliver(m))
           \/ (\E k \in Keys : Store(k) \/ Expire(k)) \/ UNCHANGED vars
  BY <1>1, OutsideKeeps
<1>2. CASE StartPool \/ ReceiveMessage
  <2>1. IInv'
    BY <1>2, StepKeepsPool DEF Next, Subscribing
  <2>2. Shaped'
    <3>1. channel' \in Seq(Tasks) /\ Len(channel') <= ChannelSize
      <4>1. CASE ReceiveMessage
        <5>1. channel # <<>> /\ channel' = Tail(channel)
          BY <4>1 DEF ReceiveMessage
        <5>2. channel' \in Seq(Tasks) /\ Len(channel') = Len(channel) - 1 /\ Len(channel) \in Nat
          BY <5>1, HeadTailProperties, LenProperties DEF CInv, Shaped
        <5> QED BY <5>2, CleanerConstantsOK DEF CInv, Shaped
      <4> QED BY <1>2, <4>1 DEF StartPool, CInv, Shaped
    <3> QED BY <1>2, <3>1 DEF StartPool, ReceiveMessage, CInv, Shaped, SubPCs
  <2> QED BY <1>2, <2>1, <2>2, LoopKeeps DEF StartPool, ReceiveMessage
<1>3. CASE BeginClose
  BY <1>3, StepKeepsPool, BeginCloseKeeps DEF Next, BeginClose, CInv, Shaped
<1>4. CASE PoolStep
  <2>1. IInv' /\ Shaped' /\ sub' = sub /\ stage' = stage
    BY <1>4, StepKeepsPool DEF Next, PoolStep, cleanerVars, CInv, Shaped
  <2> QED BY <1>4, <2>1, TwoCallers, SubscriberKeeps, CloserKeeps, WorkerKeeps DEF PoolStep, Work
<1>5. CASE \E w \in Workers : CleanTask(w)
  <2>1. IInv' /\ Shaped' /\ sub' = sub /\ stage' = stage
    BY <1>5, StepKeepsPool DEF Next, CleanTask, CInv, Shaped
  <2> QED BY <1>5, <2>1, WorkerKeeps DEF CleanTask, Work
<1> QED BY <1>1, <1>2, <1>3, <1>4, <1>5 DEF Next, Subscribing

LEMMA CInvAlways == Spec => []CInv
BY InitCInv, NextCInv, PTL DEF Spec

\* The loop has started the pool, or has found it stopped.
LoopStarted == sub = "receive" => state # 0

\* What wakes the callers of the pool wakes the loop.
LEMMA NextWakersHere == CInv /\ Wakers /\ LoopStarted /\ [Next]_vars => Wakers' /\ LoopStarted'
<1> SUFFICES ASSUME CInv, Wakers, LoopStarted, [Next]_vars PROVE Wakers' /\ LoopStarted'
  OBVIOUS
<1>1. Wakers'
  <2>1. CASE Dies
    BY <2>1 DEF Dies, Wakers
  <2> QED BY <2>1, StepOfPool, NextWakers DEF CInv
<1>2. state' = state \/ state' \in {1, 2}
  BY StepOfPool
     DEF Dies, PoolNext, Continue, Work, Start, Spawn, Stop, CasStarted, CasUnstarted, Swap, Cancel,
         Close, Wait, Do, PushSend, PushDone, PushPanic, PushPark, Take, Execute, Exit, poolVars
<1>3. sub' = sub \/ sub' # "receive" \/ state' # 0
  BY DEF Next, Subscribing, Subscribe, NewPool, StartPool, ReceiveMessage, Start, BeginClose,
         EndClose, PoolStep, CleanTask, Deliver, Store, Expire, vars, poolVars, cleanerVars
<1> QED BY <1>1, <1>2, <1>3 DEF LoopStarted

LEMMA WakersAlways == Spec => [](Wakers /\ LoopStarted)
<1>1. Init => Wakers /\ LoopStarted
  BY InitWakers DEF Init, LoopStarted
<1> QED BY <1>1, NextWakersHere, CInvAlways, PTL DEF Spec

-----------------------------------------------------------------------------
(* A pool that was started before Close                                    *)

\* Its workers are there, or the Start that is about to create them.
Crew == caller[Subscriber].pc = "spawn" \/ \A w \in Workers : worker[w].pc # "none"

\* The one Stop finds it started.
StoppedInTime ==
  /\ stage = "up" => state = 1
  /\ stage = "closing" => state = 2 \/ (state = 1 /\ (caller[Closer].pc = "casStarted" \/ ~Alive))
  /\ stage = "closed" => state = 2

LEMMA CrewStays ==
  ASSUME CInv, Crew, PoolNext \/ UNCHANGED poolVars \/ Dies
  PROVE  Crew'
<1>1. CASE UNCHANGED <<caller, worker>>
  BY <1>1 DEF Crew
<1>2. ASSUME NEW c \in Callers, Spawn(c) PROVE Crew'
  BY <1>2 DEF Spawn, Crew
<1>3. ASSUME NEW w \in Workers, Take(w) PROVE Crew'
  <2>1. /\ worker' = [worker EXCEPT ![w] = [pc |-> "execute", task |-> Head(queue)]]
        /\ caller[Subscriber].pc = "spawn" => caller'[Subscriber] = caller[Subscriber]
    BY <1>3, TakeFacts, TwoCallers DEF CInv
  <2> QED BY <2>1 DEF Crew, CInv, IInv, Shape
<1>4. ASSUME NEW w \in Workers, Execute(w) \/ Exit(w) PROVE Crew'
  BY <1>4 DEF Execute, Exit, Crew, CInv, IInv, Shape
<1>5. ASSUME NEW c \in Callers, UNCHANGED worker,
             \/ Start(c) \/ Stop(c) \/ (\E t \in Tasks : Do(c, t))
             \/ Continue(c) /\ ~Spawn(c)
      PROVE  Crew'
  <2>1. CASE Cancel(c)
    BY <2>1, <1>5, TwoCallers DEF Cancel, Crew, CInv, IInv, Shape
  <2>2. CASE ~Cancel(c)
    <3>1. \A d \in Callers : d # c => caller'[d] = caller[d]
      BY <1>5, <2>2, GotoFacts, ReturnFacts
         DEF Start, Stop, Do, Continue, CasStarted, CasUnstarted, Swap, Close, Wait, PushSend,
             PushDone, PushPanic, PushPark, CallerPCs, CInv, IInv, Shape
    <3>2. caller[c].pc # "spawn"
      BY <1>5, <2>2
         DEF Start, Stop, Do, Continue, CasStarted, CasUnstarted, Swap, Close, Wait, PushSend,
             PushDone, PushPanic, PushPark, Idle
    <3> QED BY <1>5, <3>1, <3>2, TwoCallers DEF Crew
  <2> QED BY <2>1, <2>2
<1>6. \A c \in Callers : Start(c) \/ Stop(c) \/ (\E t \in Tasks : Do(c, t)) => UNCHANGED worker
  BY DEF Start, Stop, Do
<1>7. \A c \in Callers : Continue(c) => Spawn(c) \/ UNCHANGED worker
  BY DEF Continue, CasStarted, CasUnstarted, Swap, Cancel, Close, Wait, PushSend, PushDone,
         PushPanic, PushPark
<1> QED BY <1>1, <1>2, <1>3, <1>4, <1>5, <1>6, <1>7 DEF PoolNext, Work, Dies, poolVars

LEMMA StopIsInTime ==
  ASSUME CInv, StoppedInTime, [Next]_vars
  PROVE  StoppedInTime'
<1>1. state \in {1, 2}
  BY DEF StoppedInTime, CInv, Shaped
<1>2. CASE Subscribing
  <2>1. UNCHANGED <<stage, state, panic>> /\ caller'[Closer] = caller[Closer]
    BY <1>1, <1>2, TwoCallers
       DEF Subscribing, Subscribe, NewPool, StartPool, Start, ReceiveMessage, Do, poolVars, CInv,
           IInv, Shape
  <2> QED BY <2>1 DEF StoppedInTime, Alive
<1>3. CASE BeginClose
  <2>1. stage = "up" /\ stage' = "closing" /\ state' = 1
    BY <1>3 DEF BeginClose, Stop, StoppedInTime
  <2>2. CASE Stop(Closer)
    BY <2>1, <2>2, GotoFacts, TwoCallers DEF Stop, StoppedInTime, CInv, CallerPCs
  <2>3. CASE panic' = "nilPool"
    BY <2>1, <2>3 DEF StoppedInTime, Alive
  <2> QED BY <1>3, <2>2, <2>3 DEF BeginClose
<1>4. CASE EndClose
  BY <1>4 DEF EndClose, StoppedInTime, Idle, poolVars, Alive
<1>5. ASSUME PoolStep, Continue(Closer) PROVE StoppedInTime'
  <2>1. stage = "closing" /\ stage' = stage /\ caller[Closer].pc \in StopPCs
    BY <1>5 DEF PoolStep, cleanerVars, CInv, Roles, Shaped, StopPCs, Continue, Spawn, CasStarted,
                CasUnstarted, Swap, Cancel, Close, Wait, PushSend, PushDone, PushPanic, PushPark
  <2>2. state = 2 \/ (state = 1 /\ CasStarted(Closer))
    BY <1>5, <2>1
       DEF StoppedInTime, StopPCs, Alive, Continue, Spawn, CasStarted, CasUnstarted, Swap, Cancel,
           Close, Wait, PushSend, PushDone, PushPanic, PushPark
  <2>3. state' = 2
    BY <1>5, <2>1, <2>2
       DEF StopPCs, Continue, Spawn, CasStarted, CasUnstarted, Swap, Cancel, Close, Wait, PushSend,
           PushDone, PushPanic, PushPark
  <2> QED BY <2>1, <2>3 DEF StoppedInTime
<1>6. ASSUME PoolStep, Continue(Subscriber) PROVE StoppedInTime'
  <2>1. caller[Subscriber].pc \in {"spawn", "push", "parked"} /\ Alive
    BY <1>6 DEF CInv, Roles, Continue, Spawn, CasStarted, CasUnstarted, Swap, Cancel, Close, Wait,
                PushSend, PushDone, PushPanic, PushPark
  <2>2. UNCHANGED <<stage, state>> /\ caller'[Closer] = caller[Closer]
    BY <1>6, <2>1, GotoFacts, ReturnFacts, TwoCallers
       DEF PoolStep, cleanerVars, Continue, Spawn, CasStarted, CasUnstarted, Swap, Cancel, Close,
           Wait, PushSend, PushDone, PushPanic, PushPark, CallerPCs, CInv
  <2> QED BY <2>1, <2>2 DEF StoppedInTime
<1>7. ASSUME NEW w \in Workers, Work(w), UNCHANGED stage PROVE StoppedInTime'
  <2>1. UNCHANGED <<state, panic>>
    BY <1>7 DEF Work, Take, Execute, Exit
  <2>2. caller[Closer].pc = "casStarted" => caller'[Closer] = caller[Closer]
    BY <1>7, TakeFacts, TwoCallers DEF Work, Execute, Exit, CInv
  <2> QED BY <1>7, <2>1, <2>2 DEF StoppedInTime, Alive
<1>8. CASE \/ (\E m \in Tasks : Deliver(m)) \/ (\E k \in Keys : Store(k) \/ Expire(k))
           \/ UNCHANGED vars
  BY <1>8 DEF Deliver, Store, Expire, vars, poolVars, cleanerVars, StoppedInTime, Alive
<1>9. CASE PoolStep
  BY <1>5, <1>6, <1>7, <1>9, TwoCallers DEF PoolStep, Work, cleanerVars
<1>10. CASE \E w \in Workers : CleanTask(w)
  BY <1>7, <1>10 DEF CleanTask, Work
<1> QED BY <1>2, <1>3, <1>4, <1>8, <1>9, <1>10 DEF Next

-----------------------------------------------------------------------------
(* Where the messages are                                                  *)

Letters == Elems(channel)
Placed == Given \cup Queued \cup Running

\* A message is in the channel once, and no longer when the pool has it.
Mail == /\ Injective(channel)
        /\ Letters \cup Placed \subseteq sent
        /\ Letters \cap Placed = {}

LEMMA OutstandingFacts ==
  /\ Outstanding = Letters \cup Placed
  /\ Outstanding' = Letters' \cup Placed'
BY DEF Outstanding, Letters, Placed, Elems

\* Only the loop has a task in hand.
LEMMA GivenFacts ==
  ASSUME CInv
  PROVE  /\ Given = {caller[Subscriber].task} \ {Nil}
         /\ caller[Subscriber].task # Nil => caller[Subscriber].pc \in {"push", "parked"}
         /\ caller[Closer].task = Nil
<1>1. caller[Closer].task = Nil
  BY TwoCallers DEF CInv, IInv, Hands, Roles, StopPCs
<1>2. caller[Subscriber].task # Nil => caller[Subscriber].pc \in {"push", "parked"}
  BY TwoCallers DEF CInv, IInv, Hands
<1>3. Given = {caller[Subscriber].task} \ {Nil}
  BY <1>1, TwoCallers DEF Given
<1> QED BY <1>1, <1>2, <1>3

LEMMA GivenNext ==
  ASSUME caller'[Closer].task = Nil
  PROVE  Given' = {caller'[Subscriber].task} \ {Nil}
BY TwoCallers DEF Given

\* What the loop has in hand is neither queued nor in a worker.
LEMMA HandFacts ==
  ASSUME CInv, caller[Subscriber].pc \in {"push", "parked"}
  PROVE  /\ caller[Subscriber].task \in Tasks
         /\ Given = {caller[Subscriber].task}
         /\ caller[Subscriber].task \notin Queued \cup Running
<1> DEFINE t == caller[Subscriber].task
<1>1. t \in Tasks /\ t # Nil
  BY TwoCallers, PoolConstantsOK DEF CInv, IInv, Shape, Hands
<1>2. t \notin Elems(queue) /\ \A w \in Workers : worker[w].task # t
  BY <1>1, TwoCallers DEF CInv, IInv, OnePlace
<1>3. t \notin Queued \cup Running
  BY <1>2, QueuedIsElems DEF Running
<1> QED BY <1>1, <1>3, GivenFacts

\* The pool loses a message only while the process shuts down.
LoseOne == stage # "up" /\ \E t \in Tasks : Placed' = Placed \ {t}

LEMMA SubscriberPlaces ==
  ASSUME CInv, UNCHANGED stage, Continue(Subscriber)
  PROVE  Placed' = Placed \/ LoseOne
<1> DEFINE t == caller[Subscriber].task
<1>1. \/ Spawn(Subscriber) \/ PushSend(Subscriber) \/ PushDone(Subscriber)
      \/ PushPanic(Subscriber) \/ PushPark(Subscriber)
  BY DEF Continue, CInv, Roles, Spawn, CasStarted, CasUnstarted, Swap, Cancel, Close, Wait,
         PushSend, PushDone, PushPanic, PushPark
<1>2. CASE Spawn(Subscriber)
  <2>1. /\ \A w \in Workers : worker[w].task = Nil /\ worker'[w].task = Nil
        /\ UNCHANGED queue
        /\ caller[Subscriber].pc = "spawn" /\ Return(Subscriber)
    BY <1>2, TwoCallers DEF Spawn, CInv, IInv, StartsOnce, Hands
  <2>2. Running = {} /\ Running' = {} /\ Queued' = Queued
    BY <2>1 DEF Running, Queued
  <2>3. Given = {} /\ Given' = {}
    BY <2>1, GivenFacts, GivenNext, ReturnFacts, TwoCallers DEF CInv
  <2> QED BY <2>2, <2>3 DEF Placed
<1>3. CASE PushSend(Subscriber)
  <2>1. /\ caller[Subscriber].pc = "push" /\ Return(Subscriber)
        /\ queue' = Append(queue, t) /\ UNCHANGED worker
    BY <1>3 DEF PushSend
  <2>2. t \in Tasks /\ Given = {t} /\ t \notin Elems(queue)
    BY <2>1, HandFacts, QueuedIsElems
  <2>3. queue \in Seq(Tasks) /\ Injective(queue)
    BY DEF CInv, IInv, Shape, OnePlace
  <2>4. Queued' = Queued \cup {t}
    <3>1. Elems(queue') = Elems(queue) \cup {t}
      BY <2>1, <2>2, <2>3, PutIntoQueue
    <3> QED BY <3>1 DEF Queued, Elems
  <2>5. Given' = {} /\ Running' = Running
    BY <2>1, GivenFacts, GivenNext, ReturnFacts, TwoCallers DEF CInv, Running
  <2> QED BY <2>2, <2>4, <2>5 DEF Placed
<1>4. CASE PushDone(Subscriber)
  <2>1. /\ caller[Subscriber].pc = "push" /\ Return(Subscriber) /\ cancelled
        /\ UNCHANGED <<worker, queue>>
    BY <1>4 DEF PushDone
  <2>2. t \in Tasks /\ Given = {t} /\ t \notin Queued \cup Running
    BY <2>1, HandFacts
  <2>3. Given' = {} /\ Running' = Running /\ Queued' = Queued
    BY <2>1, GivenFacts, GivenNext, ReturnFacts, TwoCallers DEF CInv, Running, Queued
  <2>4. stage # "up"
    BY <2>1 DEF CInv, Phases
  <2>5. Placed' = Placed \ {t}
    BY <2>2, <2>3 DEF Placed
  <2> QED BY <2>2, <2>4, <2>5 DEF LoseOne
<1>5. CASE PushPanic(Subscriber) \/ PushPark(Subscriber)
  <2>1. UNCHANGED <<worker, queue>> /\ \A c \in Callers : caller'[c].task = caller[c].task
    BY <1>5, GotoFacts, TwoCallers DEF PushPanic, PushPark, CallerPCs, CInv
  <2> QED BY <2>1 DEF Placed, Given, Queued, Running
<1> QED BY <1>1, <1>2, <1>3, <1>4, <1>5

LEMMA CloserPlaces ==
  ASSUME CInv, UNCHANGED stage, Continue(Closer)
  PROVE  Placed' = Placed \/ LoseOne
<1> DEFINE t == caller[Subscriber].task
<1>1. /\ UNCHANGED <<worker, queue>> /\ stage # "up"
      /\ \/ Cancel(Closer)
         \/ CasStarted(Closer) \/ CasUnstarted(Closer) \/ Close(Closer) \/ Wait(Closer)
  BY DEF Continue, CInv, Roles, Spawn, CasStarted, CasUnstarted, Swap, Cancel, Close, Wait,
         PushSend, PushDone, PushPanic, PushPark, StopPCs
<1>2. Queued' = Queued /\ Running' = Running
  BY <1>1 DEF Queued, Running
<1>3. CASE ~Cancel(Closer)
  <2>1. caller'[Subscriber] = caller[Subscriber] /\ caller'[Closer].task = Nil
    BY <1>1, <1>3, GivenFacts, GotoFacts, ReturnFacts, TwoCallers
       DEF CasStarted, CasUnstarted, Swap, Close, Wait, CInv, CallerPCs
  <2> QED BY <1>2, <2>1, GivenFacts, GivenNext DEF Placed
<1>4. CASE Cancel(Closer)
  <2>1. /\ caller'[Closer].task = Nil
        /\ \/ caller'[Subscriber] = caller[Subscriber]
           \/ caller[Subscriber].pc = "parked" /\ caller'[Subscriber].task = Nil
    BY <1>4, GivenFacts, TwoCallers DEF Cancel, Idle, CInv, IInv, Shape
  <2>2. CASE caller'[Subscriber] = caller[Subscriber]
    BY <1>2, <2>1, <2>2, GivenFacts, GivenNext DEF Placed
  <2>3. CASE caller[Subscriber].pc = "parked" /\ caller'[Subscriber].task = Nil
    <3>1. t \in Tasks /\ Given = {t} /\ t \notin Queued \cup Running
      BY <2>3, HandFacts
    <3>2. Given' = {}
      BY <2>1, <2>3, GivenNext
    <3>3. Placed' = Placed \ {t}
      BY <1>2, <3>1, <3>2 DEF Placed
    <3> QED BY <1>1, <3>1, <3>3 DEF LoseOne
  <2> QED BY <2>1, <2>2, <2>3
<1> QED BY <1>3, <1>4

LEMMA TakePlaces ==
  ASSUME CInv, NEW w \in Workers, Take(w)
  PROVE  Placed' = Placed
<1> DEFINE h == Head(queue)
<1>1. /\ h \in Elems(queue) /\ h # Nil /\ worker[w].task = Nil
      /\ worker'[w].task = h /\ \A v \in Workers : v # w => worker'[v] = worker[v]
  BY TakeFacts, PoolConstantsOK DEF CInv, IInv, Hands, Shape
<1>2. Running' = Running \cup {h}
  BY <1>1 DEF Running
<1>3. CASE UNCHANGED caller /\ Elems(queue)' = Elems(queue) \ {h}
  <2>1. Given' = Given
    BY <1>3 DEF Given
  <2> QED BY <1>1, <1>2, <1>3, <2>1, QueuedIsElems DEF Placed
<1>4. ASSUME NEW c \in Callers, caller[c].pc = "parked",
             caller'[c].task = Nil, \A d \in Callers : d # c => caller'[d] = caller[d],
             Elems(queue)' = (Elems(queue) \ {h}) \cup {caller[c].task}
      PROVE  Placed' = Placed
  <2>1. c = Subscriber
    BY <1>4, TwoCallers DEF CInv, Roles, StopPCs
  <2>2. Given = {caller[Subscriber].task}
    BY <1>4, <2>1, HandFacts
  <2>3. Given' = {}
    BY <1>4, <2>1, GivenFacts, GivenNext, TwoCallers
  <2> QED BY <1>1, <1>2, <1>4, <2>1, <2>2, <2>3, QueuedIsElems DEF Placed
<1> QED BY <1>3, <1>4, TakeFacts DEF CInv

LEMMA PoolPlaces ==
  ASSUME CInv, PoolStep
  PROVE  Placed' = Placed \/ LoseOne
<1>1. UNCHANGED stage
  BY DEF PoolStep, cleanerVars
<1>2. ASSUME NEW w \in Workers, Exit(w)
      PROVE  Placed' = Placed
  <2>1. UNCHANGED <<queue, caller>> /\ \A v \in Workers : worker'[v].task = worker[v].task
    BY <1>2 DEF Exit, CInv, IInv, Shape
  <2> QED BY <2>1 DEF Placed, Given, Queued, Running
<1> QED BY <1>1, <1>2, TakePlaces, SubscriberPlaces, CloserPlaces, TwoCallers DEF PoolStep

LEMMA CleanPlaces ==
  ASSUME CInv, NEW w \in Workers, Execute(w)
  PROVE  /\ worker[w].task \in Placed /\ worker[w].task \in Tasks
         /\ Placed' = Placed \ {worker[w].task}
<1> DEFINE t == worker[w].task
<1>1. /\ worker[w].pc = "execute" /\ UNCHANGED <<caller, queue>>
      /\ worker' = [worker EXCEPT ![w] = [pc |-> "range", task |-> Nil]]
  BY DEF Execute
<1>2. /\ t \in Tasks /\ t # Nil /\ t \notin Elems(queue)
      /\ \A v \in Workers : v # w => worker[v].task # t
      /\ \A c \in Callers : caller[c].task # t
  BY <1>1, PoolConstantsOK DEF CInv, IInv, Shape, Hands, OnePlace
<1>3. Running' = Running \ {t} /\ t \in Running
  <2>1. worker'[w].task = Nil /\ \A v \in Workers : v # w => worker'[v] = worker[v]
    BY <1>1 DEF CInv, IInv, Shape
  <2> QED BY <1>2, <2>1 DEF Running
<1>4. /\ Queued' = Queued /\ Given' = Given
      /\ t \notin Queued /\ t \notin Given
  BY <1>1, <1>2, QueuedIsElems DEF Queued, Given
<1> QED BY <1>2, <1>3, <1>4 DEF Placed

LEMMA PlacedFrame ==
  ASSUME UNCHANGED poolVars
  PROVE  Placed' = Placed
BY DEF poolVars, Placed, Given, Queued, Running

LEMMA LettersFrame ==
  ASSUME UNCHANGED channel
  PROVE  Letters' = Letters /\ (Injective(channel) => Injective(channel)')
BY DEF Letters, Elems, Injective

-----------------------------------------------------------------------------
(* Every step is one of LocalInvalidation, or none                         *)

InvalidationStep == Invalidation!Next \/ UNCHANGED <<lc, Outstanding, stage = "up">>

LEMMA DeliverSimulates ==
  ASSUME CInv, Mail, NEW m \in Tasks, Deliver(m)
  PROVE  Mail' /\ InvalidationStep
<1>1. /\ m \notin sent /\ sent' = sent \cup {m} /\ UNCHANGED <<lc, stage>> /\ Placed' = Placed
      /\ channel' = Append(channel, m) \/ UNCHANGED channel
  BY PlacedFrame DEF Deliver
<1>2. CASE UNCHANGED channel
  <2>1. Mail'
    BY <1>1, <1>2, LettersFrame DEF Mail
  <2>2. Outstanding' = Outstanding
    BY <1>1, <1>2, LettersFrame, OutstandingFacts
  <2> QED BY <1>1, <2>1, <2>2 DEF InvalidationStep
<1>3. CASE channel' = Append(channel, m)
  <2>1. channel \in Seq(Tasks) /\ Injective(channel) /\ m \notin Elems(channel) \cup Placed
    BY <1>1 DEF CInv, Shaped, Mail, Letters
  <2>2. Elems(channel') = Elems(channel) \cup {m} /\ Injective(channel')
    BY <1>3, <2>1, PutIntoQueue
  <2>3. Letters' = Letters \cup {m} /\ Injective(channel)'
    BY <2>2 DEF Letters, Elems, Injective
  <2>4. Mail'
    BY <1>1, <2>1, <2>3 DEF Mail, Letters
  <2>5. Outstanding' = Outstanding \cup {m}
    BY <1>1, <2>3, OutstandingFacts
  <2>6. Invalidation!Receive(m)
    BY <1>1, <2>5 DEF Invalidation!Receive
  <2> QED BY <2>4, <2>6 DEF InvalidationStep, Invalidation!Next
<1> QED BY <1>1, <1>2, <1>3

LEMMA ReceiveSimulates ==
  ASSUME CInv, Mail, ReceiveMessage
  PROVE  Mail' /\ InvalidationStep
<1> DEFINE h == Head(channel)
<1>1. /\ channel # <<>> /\ channel' = Tail(channel) /\ Do(Subscriber, h)
      /\ UNCHANGED <<lc, stage, sent>>
  BY DEF ReceiveMessage
<1>2. channel \in Seq(Tasks) /\ Injective(channel)
  BY DEF CInv, Shaped, Mail
<1>3. /\ h \in Elems(channel) /\ h \in Tasks /\ h # Nil
      /\ Elems(channel') = Elems(channel) \ {h} /\ Injective(channel')
  BY <1>1, <1>2, TakeFromQueue, PoolConstantsOK
<1>4. Letters' = Letters \ {h} /\ h \in Letters /\ Injective(channel)'
  BY <1>3 DEF Letters, Elems, Injective
<1>5. Placed' = Placed \cup {h}
  <2>1. /\ caller[Subscriber].task = Nil /\ UNCHANGED <<queue, worker>>
        /\ caller' = [caller EXCEPT ![Subscriber] = [pc |-> "push", task |-> h]]
    BY <1>1 DEF Do, Idle
  <2>2. caller'[Subscriber].task = h /\ caller'[Closer] = caller[Closer]
    BY <2>1, TwoCallers DEF CInv, IInv, Shape
  <2>3. Given = {} /\ Given' = {h} /\ Queued' = Queued /\ Running' = Running
    BY <1>3, <2>1, <2>2, GivenFacts, GivenNext DEF Queued, Running
  <2> QED BY <2>3 DEF Placed
<1>6. Mail'
  BY <1>1, <1>4, <1>5 DEF Mail
<1>7. Outstanding' = Outstanding
  BY <1>4, <1>5, OutstandingFacts
<1> QED BY <1>1, <1>6, <1>7 DEF InvalidationStep

LEMMA CleanSimulates ==
  ASSUME CInv, Mail, NEW w \in Workers, CleanTask(w)
  PROVE  Mail' /\ InvalidationStep
<1>1. /\ lc' = lc \ {KeyOf[worker[w].task]} /\ UNCHANGED <<channel, sent, stage>>
      /\ worker[w].task \in Placed /\ worker[w].task \in Tasks
      /\ Placed' = Placed \ {worker[w].task}
  BY CleanPlaces DEF CleanTask
<1>2. PICK t \in Tasks : t = worker[w].task
  BY <1>1
<1>3. Mail'
  BY <1>1, LettersFrame DEF Mail
<1>4. t \in Outstanding /\ Outstanding' = Outstanding \ {t}
  BY <1>1, <1>2, LettersFrame, OutstandingFacts DEF Mail
<1>5. Invalidation!Clean(t)
  BY <1>1, <1>2, <1>4 DEF Invalidation!Clean
<1> QED BY <1>3, <1>5 DEF InvalidationStep, Invalidation!Next

LEMMA PoolSimulates ==
  ASSUME CInv, Mail, PoolStep
  PROVE  Mail' /\ InvalidationStep
<1>1. UNCHANGED <<channel, sent, lc, stage>>
  BY DEF PoolStep, cleanerVars
<1>2. CASE Placed' = Placed
  BY <1>1, <1>2, LettersFrame, OutstandingFacts DEF Mail, InvalidationStep
<1>3. CASE LoseOne
  <2>1. PICK t \in Tasks : stage # "up" /\ Placed' = Placed \ {t}
    BY <1>3 DEF LoseOne
  <2>2. Mail'
    BY <1>1, <2>1, LettersFrame DEF Mail
  <2>3. CASE t \in Placed
    <3>1. Outstanding' = Outstanding \ {t}
      BY <1>1, <2>1, <2>3, LettersFrame, OutstandingFacts DEF Mail
    <3>2. Invalidation!GiveUp(t)
      BY <1>1, <2>1, <3>1 DEF Invalidation!GiveUp
    <3> QED BY <2>2, <3>2 DEF InvalidationStep, Invalidation!Next
  <2>4. CASE t \notin Placed
    BY <1>1, <2>1, <2>2, <2>4, LettersFrame, OutstandingFacts DEF InvalidationStep
  <2> QED BY <2>3, <2>4
<1> QED BY <1>2, <1>3, PoolPlaces

LEMMA StillSimulates ==
  ASSUME CInv, Mail,
         \/ Subscribe \/ NewPool \/ StartPool \/ BeginClose \/ EndClose
         \/ (\E k \in Keys : Store(k) \/ Expire(k)) \/ UNCHANGED vars
  PROVE  Mail' /\ InvalidationStep
<1>1. /\ UNCHANGED <<channel, sent>>
      /\ UNCHANGED poolVars \/ (UNCHANGED <<queue, worker>> /\ \E c \in Callers :
                                \E pc \in {"spawn", "casStarted"} : Goto(c, pc))
         \/ UNCHANGED <<queue, worker, caller>>
  BY TwoCallers DEF Subscribe, NewPool, StartPool, BeginClose, EndClose, Store, Expire, vars,
                    cleanerVars, Start, Stop
<1>2. Placed' = Placed
  <2>1. UNCHANGED <<queue, worker>> /\ \A c \in Callers : caller'[c].task = caller[c].task
    BY <1>1, GotoFacts DEF CInv, CallerPCs, poolVars
  <2> QED BY <2>1 DEF Placed, Given, Queued, Running
<1>3. Mail' /\ Outstanding' = Outstanding
  BY <1>1, <1>2, LettersFrame, OutstandingFacts DEF Mail
<1>4. CASE BeginClose
  <2>1. Invalidation!GoDown
    BY <1>3, <1>4 DEF BeginClose, Invalidation!GoDown
  <2> QED BY <1>3, <2>1 DEF InvalidationStep, Invalidation!Next
<1>5. ASSUME NEW k \in Keys, Store(k) PROVE Invalidation!Store(k)
  BY <1>3, <1>5 DEF Store, Invalidation!Store
<1>6. ASSUME NEW k \in Keys, Expire(k) PROVE Invalidation!Expire(k)
  BY <1>3, <1>6 DEF Expire, Invalidation!Expire
<1>7. CASE Subscribe \/ NewPool \/ StartPool \/ UNCHANGED vars
  <2>1. UNCHANGED <<lc, stage>>
    BY <1>7 DEF Subscribe, NewPool, StartPool, vars, cleanerVars
  <2> QED BY <1>3, <2>1 DEF InvalidationStep
<1>8. CASE EndClose
  <2>1. UNCHANGED lc /\ (stage = "up")' = (stage = "up")
    BY <1>8 DEF EndClose
  <2> QED BY <1>3, <2>1 DEF InvalidationStep
<1> QED BY <1>3, <1>4, <1>5, <1>6, <1>7, <1>8 DEF InvalidationStep, Invalidation!Next

LEMMA NextSimulatesInvalidation == CInv /\ Mail /\ [Next]_vars => Mail' /\ InvalidationStep
BY DeliverSimulates, ReceiveSimulates, CleanSimulates, PoolSimulates, StillSimulates
   DEF Next, Subscribing

-----------------------------------------------------------------------------
(* The theorems                                                            *)

\* Type correctness of CacheCleaner, the bounds of the queue, of the wait group and
\* of the channel included.
THEOREM CleanerTypeCorrect == Spec => []CleanerTypeOK
<1>1. CInv => CleanerTypeOK
  <2> SUFFICES ASSUME CInv PROVE CleanerTypeOK
    OBVIOUS
  <2>1. PoolTypeOK
    BY ActiveIsFinite DEF CInv, IInv, Shape, Counted, PoolTypeOK
  <2> QED BY <2>1 DEF CInv, Shaped, CleanerTypeOK
<1> QED BY <1>1, CInvAlways, PTL

\* Close stops the pool altogether or, when a Start gets between its two
\* compare-and-swaps, not at all.
THEOREM CloseDoesAllOrNothing == Spec => []CloseIsAllOrNothing
<1>1. CInv => CloseIsAllOrNothing
  BY DEF CInv, Returned, Stopped, RanOn, CloseIsAllOrNothing
<1> QED BY <1>1, CInvAlways, PTL

\* The loop is never blocked in the pool for good, whatever Close does meanwhile: who
\* will take a task or cancel is there.
THEOREM LoopIsNeverStuck == Spec => []LoopNeverStuck
<1>1. CInv /\ Wakers /\ LoopStarted => LoopNeverStuck
  <2> SUFFICES ASSUME CInv, Wakers, LoopStarted, caller[Subscriber].pc = "parked"
               PROVE  caller[Closer].pc = "cancel" \/ \E w \in Workers : CanWork(w)
    BY DEF LoopNeverStuck
  <2>1. \A d \in Callers : caller[d].pc # "spawn"
    BY TwoCallers DEF CInv, Roles, StopPCs
  <2>2. \A d \in Callers : caller[d].pc = "cancel" => d = Closer
    BY TwoCallers
  <2>3. state # 0
    BY DEF CInv, Roles, LoopStarted
  <2> QED BY <2>1, <2>2, <2>3, ParkedFacts, TwoCallers DEF CInv
<1> QED BY <1>1, CInvAlways, WakersAlways, PTL

\* A Close that begins when the pool has been started stops it, and comes back only
\* when every message that was pushed has been applied.
THEOREM CloseStopsWhatStarted == Spec => CloseStopsStarted
<1> DEFINE Begun == stage = "up" /\ state = 1
           Over == stage = "closed" =>
                     state = 2 /\ cancelled /\ closed /\ queue = <<>> /\ Running = {}
<1>1. Wakers /\ CInv /\ Begun => StoppedInTime /\ Crew
  <2> SUFFICES ASSUME Wakers, CInv, Begun PROVE StoppedInTime /\ Crew
    OBVIOUS
  <2>1. StoppedInTime
    BY DEF StoppedInTime
  <2>2. caller[Closer].pc # "spawn"
    BY DEF CInv, Roles
  <2> QED BY <2>1, <2>2, TwoCallers DEF Wakers, Crew
<1>2. CInv /\ StoppedInTime /\ Crew /\ [Next]_vars => (StoppedInTime /\ Crew)'
  BY StopIsInTime, StepOfPool, CrewStays
<1>3. CInv /\ StoppedInTime /\ Crew => Over
  <2> SUFFICES ASSUME CInv, StoppedInTime, Crew, stage = "closed"
               PROVE  state = 2 /\ cancelled /\ closed /\ queue = <<>> /\ Running = {}
    OBVIOUS
  <2>1. Stopped
    BY DEF CInv, Returned, RanOn, StoppedInTime
  <2> QED BY <2>1, PoolConstantsOK DEF Stopped, Crew
<1>4. Spec => [](Begun => []Over)
  BY <1>1, <1>2, <1>3, CInvAlways, WakersAlways, PTL DEF Spec
<1> QED BY <1>4 DEF CloseStopsStarted

\* The cleaner and its pool implement LocalInvalidation: a message that has been
\* received is applied once, and is given up only after Close has begun.
THEOREM CleanerIsInvalidation == Spec => InvalidationSpec
<1>1. Init => Mail
  <2> SUFFICES ASSUME Init PROVE Mail
    OBVIOUS
  <2>1. channel = <<>> /\ queue = <<>>
    BY DEF Init, PoolInit
  <2>2. Injective(channel) /\ Letters = {}
    BY <2>1 DEF Injective, Letters, Elems
  <2>3. Placed = {}
    BY <2>1 DEF Init, PoolInit, Placed, Given, Queued, Running, Idle
  <2> QED BY <2>2, <2>3 DEF Mail
<1>2. Init => Invalidation!Init
  <2> SUFFICES ASSUME Init PROVE Invalidation!Init
    OBVIOUS
  <2>1. channel = <<>> /\ queue = <<>> /\ lc = {} /\ stage = "up"
    BY DEF Init, PoolInit
  <2>2. Outstanding = {}
    BY <2>1 DEF Init, PoolInit, Outstanding, Given, Queued, Running, Idle
  <2> QED BY <2>1, <2>2 DEF Invalidation!Init
<1>3. CInv /\ Mail /\ [Next]_vars => [Invalidation!Next]_<<lc, Outstanding, stage = "up">>
  BY NextSimulatesInvalidation DEF InvalidationStep
<1>4. CInv /\ Mail /\ [Next]_vars => Mail'
  BY NextSimulatesInvalidation
<1> QED BY <1>1, <1>2, <1>3, <1>4, CInvAlways, PTL DEF Spec, InvalidationSpec, Invalidation!Spec
=============================================================================
