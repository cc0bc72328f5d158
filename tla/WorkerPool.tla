----------------------------- MODULE WorkerPool -----------------------------
(***************************************************************************)
(* The worker pool of pkg/workerpool/pool.go: goroutines that take tasks   *)
(* from a buffered channel, and callers that Start and Stop the pool and   *)
(* Do tasks, in any order and at the same time.                            *)
(*                                                                         *)
(* The two compare-and-swaps of Stop, the cancel, the close and the Wait   *)
(* are steps of their own, and so is the select of push, with the panic of *)
(* a send on a closed channel.                                             *)
(***************************************************************************)
EXTENDS Integers, Sequences, FiniteSets

CONSTANTS
  Workers,   \* the goroutines Start creates; NumberWorker is their number
  Callers,   \* the goroutines that call the methods of the pool
  Tasks,     \* tasks, each given to Do at most once at a time
  Nil        \* no task

ASSUME PoolConstantsOK ==
  /\ IsFiniteSet(Workers)
  /\ Workers # {}
  /\ Nil \notin Tasks

VARIABLES
  state,      \* 0: not started, 1: started, 2: stopped
  cancelled,  \* p.ctx is done
  closed,     \* p.taskQueue is closed
  queue,      \* the buffer of p.taskQueue
  wg,         \* the counter of p.wg
  worker,     \* worker[w]: what the goroutine does, and on which task
  caller,     \* caller[c]: where the goroutine is in a method, with which task
  executed,   \* the tasks that have been executed
  panic       \* why the process has panicked, or "none"

poolVars == <<state, cancelled, closed, queue, wg, worker, caller, executed, panic>>

NumberWorker == Cardinality(Workers)

\* "none" until Start creates the goroutine.
WorkerPCs == {"none", "range", "execute", "exited"}

\* "parked" is a caller that waits in the select of push.
CallerPCs == {"idle", "spawn", "casStarted", "casUnstarted", "cancel", "close", "wait",
              "push", "parked"}

Idle == [pc |-> "idle", task |-> Nil]

\* Tasks in the hands of a caller, of a worker, and in the queue.
Given == {caller[c].task : c \in Callers} \ {Nil}
Running == {worker[w].task : w \in Workers} \ {Nil}
Queued == {queue[n] : n \in DOMAIN queue}

PoolTypeOK ==
  /\ state \in 0..2
  /\ cancelled \in BOOLEAN
  /\ closed \in BOOLEAN
  /\ queue \in Seq(Tasks) /\ Len(queue) <= NumberWorker
  /\ wg \in 0..NumberWorker
  /\ worker \in [Workers -> [pc : WorkerPCs, task : Tasks \cup {Nil}]]
  /\ caller \in [Callers -> [pc : CallerPCs, task : Tasks \cup {Nil}]]
  /\ executed \subseteq Tasks
  /\ panic \in {"none", "sendOnClosed", "nilPool"}

PoolInit ==
  /\ state = 0
  /\ cancelled = FALSE
  /\ closed = FALSE
  /\ queue = <<>>
  /\ wg = 0
  /\ worker = [w \in Workers |-> [pc |-> "none", task |-> Nil]]
  /\ caller = [c \in Callers |-> Idle]
  /\ executed = {}
  /\ panic = "none"

-----------------------------------------------------------------------------

Goto(c, pc) == caller' = [caller EXCEPT ![c].pc = pc]
Return(c) == caller' = [caller EXCEPT ![c] = Idle]

\* A panic in any goroutine ends the process.
Alive == panic = "none"

(* Start *)

StartTwice(c) ==    \* mutant: the state is not checked
  /\ Alive /\ caller[c] = Idle
  /\ state' = 1 /\ Goto(c, "spawn")
  /\ UNCHANGED <<cancelled, closed, queue, wg, worker, executed, panic>>

\* CompareAndSwap(0, 1); a pool that was started or stopped is left alone.
Start(c) ==
  /\ Alive /\ caller[c] = Idle
  /\ state = 0
  /\ state' = 1 /\ Goto(c, "spawn")
  /\ UNCHANGED <<cancelled, closed, queue, wg, worker, executed, panic>>

\* wg.Add and the go statements.
Spawn(c) ==
  /\ Alive /\ caller[c].pc = "spawn"
  /\ wg' = wg + NumberWorker
  /\ worker' = [w \in Workers |-> [pc |-> "range", task |-> Nil]]
  /\ Return(c)
  /\ UNCHANGED <<state, cancelled, closed, queue, executed, panic>>

(* Stop *)

Stop(c) ==
  /\ Alive /\ caller[c] = Idle
  /\ Goto(c, "casStarted")
  /\ UNCHANGED <<state, cancelled, closed, queue, wg, worker, executed, panic>>

SwapArguments(c, from, old, failed) ==    \* mutant: old and new value are exchanged
  /\ Alive /\ caller[c].pc = from
  /\ \/ state = 2 /\ state' = old /\ Goto(c, "cancel")
     \/ state # 2 /\ UNCHANGED state /\ failed
  /\ UNCHANGED <<cancelled, closed, queue, wg, worker, executed, panic>>

\* CompareAndSwap(1, 2), or else CompareAndSwap(0, 2), or else nothing.
Swap(c, from, old, failed) ==
  /\ Alive /\ caller[c].pc = from
  /\ \/ state = old /\ state' = 2 /\ Goto(c, "cancel")
     \/ state # old /\ UNCHANGED state /\ failed
  /\ UNCHANGED <<cancelled, closed, queue, wg, worker, executed, panic>>

\* A Start between the two makes both fail: the Stop returns and stops nothing.
CasStarted(c) == Swap(c, "casStarted", 1, Goto(c, "casUnstarted"))
CasUnstarted(c) == Swap(c, "casUnstarted", 0, Return(c))

CancelQuietly(c) ==    \* mutant: the callers that wait in push are not woken
  /\ Alive /\ caller[c].pc = "cancel"
  /\ cancelled' = TRUE
  /\ Goto(c, "close")
  /\ UNCHANGED <<state, closed, queue, wg, worker, executed, panic>>

\* p.cancel: the callers that wait in push return without their task.
Cancel(c) ==
  /\ Alive /\ caller[c].pc = "cancel"
  /\ cancelled' = TRUE
  /\ caller' = [d \in Callers |-> IF d = c THEN [caller[c] EXCEPT !.pc = "close"]
                                  ELSE IF caller[d].pc = "parked" THEN Idle
                                  ELSE caller[d]]
  /\ UNCHANGED <<state, closed, queue, wg, worker, executed, panic>>

CloseEmpties(c) ==    \* mutant: what is queued is thrown away
  /\ Alive /\ caller[c].pc = "close"
  /\ closed' = TRUE /\ queue' = <<>> /\ Goto(c, "wait")
  /\ UNCHANGED <<state, cancelled, wg, worker, executed, panic>>

Close(c) ==
  /\ Alive /\ caller[c].pc = "close"
  /\ closed' = TRUE
  /\ Goto(c, "wait")
  /\ UNCHANGED <<state, cancelled, queue, wg, worker, executed, panic>>

WaitSkipped(c) ==    \* mutant: wg.Wait is left out
  /\ Alive /\ caller[c].pc = "wait"
  /\ Return(c)
  /\ UNCHANGED <<state, cancelled, closed, queue, wg, worker, executed, panic>>

\* p.wg.Wait
Wait(c) ==
  /\ Alive /\ caller[c].pc = "wait"
  /\ wg = 0
  /\ Return(c)
  /\ UNCHANGED <<state, cancelled, closed, queue, wg, worker, executed, panic>>

(* Do: of the cases of the select in push that are ready one is taken at   *)
(* random, and a send on a closed channel is ready, and panics.            *)

Do(c, t) ==
  /\ Alive /\ caller[c] = Idle
  /\ t \notin Given \cup Queued \cup Running \cup executed
  /\ caller' = [caller EXCEPT ![c] = [pc |-> "push", task |-> t]]
  /\ UNCHANGED <<state, cancelled, closed, queue, wg, worker, executed, panic>>

PushUnbounded(c) ==    \* mutant: the channel has no bound
  /\ Alive /\ caller[c].pc = "push"
  /\ ~closed
  /\ queue' = Append(queue, caller[c].task)
  /\ Return(c)
  /\ UNCHANGED <<state, cancelled, closed, wg, worker, executed, panic>>

PushSend(c) ==
  /\ Alive /\ caller[c].pc = "push"
  /\ ~closed /\ Len(queue) < NumberWorker
  /\ queue' = Append(queue, caller[c].task)
  /\ Return(c)
  /\ UNCHANGED <<state, cancelled, closed, wg, worker, executed, panic>>

PushDone(c) ==
  /\ Alive /\ caller[c].pc = "push"
  /\ cancelled
  /\ Return(c)
  /\ UNCHANGED <<state, cancelled, closed, queue, wg, worker, executed, panic>>

PushPanic(c) ==
  /\ Alive /\ caller[c].pc = "push"
  /\ closed
  /\ panic' = "sendOnClosed"
  /\ UNCHANGED <<state, cancelled, closed, queue, wg, worker, caller, executed>>

PushPark(c) ==
  /\ Alive /\ caller[c].pc = "push"
  /\ ~cancelled /\ ~closed /\ Len(queue) = NumberWorker
  /\ Goto(c, "parked")
  /\ UNCHANGED <<state, cancelled, closed, queue, wg, worker, executed, panic>>

(* startWorker *)

\* A receive from a full buffer lets one of the parked senders put its task in.
Take(w) ==
  /\ Alive /\ worker[w].pc = "range"
  /\ queue # <<>>
  /\ worker' = [worker EXCEPT ![w] = [pc |-> "execute", task |-> Head(queue)]]
  /\ \/ \E c \in Callers : /\ caller[c].pc = "parked"
                           /\ queue' = Append(Tail(queue), caller[c].task)
                           /\ Return(c)
     \/ /\ \A c \in Callers : caller[c].pc # "parked"
        /\ queue' = Tail(queue)
        /\ UNCHANGED caller
  /\ UNCHANGED <<state, cancelled, closed, wg, executed, panic>>

\* task.Execute: the result goes into a channel of its own, with room for it.
Execute(w) ==
  /\ Alive /\ worker[w].pc = "execute"
  /\ executed' = executed \cup {worker[w].task}
  /\ worker' = [worker EXCEPT ![w] = [pc |-> "range", task |-> Nil]]
  /\ UNCHANGED <<state, cancelled, closed, queue, wg, caller, panic>>

ExitEarly(w) ==    \* mutant: the worker ends when the queue is closed, not drained
  /\ Alive /\ worker[w].pc = "range"
  /\ closed
  /\ wg' = wg - 1
  /\ worker' = [worker EXCEPT ![w].pc = "exited"]
  /\ UNCHANGED <<state, cancelled, closed, queue, caller, executed, panic>>

ExitSilently(w) ==    \* mutant: wg.Done is left out
  /\ Alive /\ worker[w].pc = "range"
  /\ closed /\ queue = <<>>
  /\ worker' = [worker EXCEPT ![w].pc = "exited"]
  /\ UNCHANGED <<state, cancelled, closed, queue, wg, caller, executed, panic>>

\* The range ends when the queue is closed and empty: wg.Done.
Exit(w) ==
  /\ Alive /\ worker[w].pc = "range"
  /\ closed /\ queue = <<>>
  /\ wg' = wg - 1
  /\ worker' = [worker EXCEPT ![w].pc = "exited"]
  /\ UNCHANGED <<state, cancelled, closed, queue, caller, executed, panic>>

-----------------------------------------------------------------------------

\* A caller that is inside a method goes on.
Continue(c) == \/ Spawn(c) \/ CasStarted(c) \/ CasUnstarted(c) \/ Cancel(c) \/ Close(c)
               \/ Wait(c) \/ PushSend(c) \/ PushDone(c) \/ PushPanic(c) \/ PushPark(c)

Work(w) == Take(w) \/ Execute(w) \/ Exit(w)

PoolNext ==
  \/ \E c \in Callers : \/ Start(c) \/ Stop(c) \/ Continue(c)
                        \/ \E t \in Tasks : Do(c, t)
  \/ \E w \in Workers : Work(w)

PoolSpec == PoolInit /\ [][PoolNext]_poolVars

\* Go runs every goroutine that can run.  Nobody has to call the pool.
PoolFairness == /\ \A c \in Callers : WF_poolVars(Continue(c))
                /\ \A w \in Workers : WF_poolVars(Work(w))

FairPoolSpec == PoolSpec /\ PoolFairness

-----------------------------------------------------------------------------
(* Properties                                                              *)

\* The wait group counts the goroutines that run (Start, startWorker), a task is
\* in one place only, and a worker ends only when nothing is left to take: so
\* Wait cannot return over a task that is queued or being executed.
WaitCoversWork ==
  /\ wg = Cardinality({w \in Workers : worker[w].pc \in {"range", "execute"}})
  /\ Queued \cap Running = {} /\ (Queued \cup Running) \cap executed = {}
  /\ (\E w \in Workers : worker[w].pc = "exited") => closed /\ queue = <<>>

\* A worker that is not waiting: it has a task, or something to take, or has to end.
CanWork(w) == \/ worker[w].pc = "execute"
              \/ worker[w].pc = "range" /\ (queue # <<>> \/ closed)

\* Nobody waits for nobody.  A Stop in wg.Wait that may not return yet has a worker
\* to wait for who goes on, and so has a caller that is parked in push, unless a
\* Start or the cancel of a Stop is still going on, or the pool was never started.
NobodyStuck ==
  \A c \in Callers :
    /\ caller[c].pc = "wait" => wg = 0 \/ \E w \in Workers : CanWork(w)
    /\ caller[c].pc = "parked" => \/ state = 0
                                  \/ \E w \in Workers : CanWork(w)
                                  \/ \E d \in Callers : caller[d].pc \in {"spawn", "cancel"}

\* The pool is a TaskService: what push has put into the channel is executed once
\* and never dropped, by a Stop least of all, and nothing gets in after the close.
Service == INSTANCE TaskService
             WITH status <- [t \in Tasks |-> IF t \in executed THEN "done"
                                             ELSE IF t \in Queued \cup Running THEN "accepted"
                                             ELSE "new"],
                  open <- ~closed
ServiceSpec == Service!Spec

\* "Stop worker and wait all task done" (pool.go:118): once the workers run, what
\* is queued is executed, and no Stop waits for ever, unless the process dies.
StopDrains ==
  /\ \A t \in Tasks : t \in Queued /\ wg > 0 ~> t \in executed \/ ~Alive
  /\ \A c \in Callers : caller[c].pc = "wait" ~> caller[c].pc # "wait" \/ ~Alive
=============================================================================
