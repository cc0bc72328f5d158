---------------------------- MODULE CacheCleaner ----------------------------
(***************************************************************************)
(* The LocalCacheCleaner of infra/cache/cleaner.go in one instance of the  *)
(* service: the goroutine that receives invalidations from Redis and gives *)
(* them to a WorkerPool, the local cache the workers delete from, and the  *)
(* goroutine that closes the cleaner when the process is asked to stop.    *)
(*                                                                         *)
(* A message names one key, as rc.Publish in repo/proxy/account.go sends   *)
(* it, and is its own task of the pool.                                    *)
(***************************************************************************)
EXTENDS WorkerPool

CONSTANTS
  Keys,
  KeyOf,        \* KeyOf[m] is the key message m invalidates
  Subscriber,   \* the goroutine of SubscribeInvalidationEvent
  Closer,       \* the goroutine of GracefulStop, which calls Close
  ChannelSize   \* size of the buffer of pubsub.Channel

ASSUME CleanerConstantsOK ==
  /\ Callers = {Subscriber, Closer}
  /\ Subscriber # Closer
  /\ KeyOf \in [Tasks -> Keys]
  /\ ChannelSize \in Nat \ {0}

VARIABLES
  sub,      \* where the subscriber is in SubscribeInvalidationEvent
  channel,  \* the messages in pubsub.Channel
  sent,     \* the messages that have been published
  lc,       \* the keys the local cache has an entry of
  poolSet,  \* l.pool is not nil
  stage     \* of the process: "up", "closing" while Close runs, "closed"

cleanerVars == <<sub, channel, sent, lc, poolSet, stage>>
vars == <<poolVars, cleanerVars>>

SubPCs == {"subscribe", "newPool", "start", "receive"}

CleanerTypeOK ==
  /\ PoolTypeOK
  /\ sub \in SubPCs
  /\ channel \in Seq(Tasks) /\ Len(channel) <= ChannelSize
  /\ sent \subseteq Tasks
  /\ lc \subseteq Keys
  /\ poolSet \in BOOLEAN
  /\ stage \in {"up", "closing", "closed"}

Init ==
  /\ PoolInit
  /\ sub = "subscribe"
  /\ channel = <<>>
  /\ sent = {}
  /\ lc = {}
  /\ poolSet = FALSE
  /\ stage = "up"

-----------------------------------------------------------------------------
(* SubscribeInvalidationEvent                                              *)

\* client.Subscribe and the first pubsub.Receive.  (If Receive fails, the
\* goroutine of Server.Run ends the process.)
Subscribe ==
  /\ Alive /\ sub = "subscribe"
  /\ sub' = "newPool"
  /\ UNCHANGED <<poolVars, channel, sent, lc, poolSet, stage>>

NewPool ==
  /\ Alive /\ sub = "newPool"
  /\ poolSet' = TRUE
  /\ sub' = "start"
  /\ UNCHANGED <<poolVars, channel, sent, lc, stage>>

StartNothing ==    \* mutant: the pool is not started
  /\ Alive /\ sub = "start"
  /\ sub' = "receive"
  /\ UNCHANGED <<poolVars, channel, sent, lc, poolSet, stage>>

\* l.pool.Start: on a pool that Close has stopped it does nothing.
StartPool ==
  /\ Alive /\ sub = "start"
  /\ \/ Start(Subscriber)
     \/ state # 0 /\ UNCHANGED poolVars
  /\ sub' = "receive"
  /\ UNCHANGED <<channel, sent, lc, poolSet, stage>>

ReceiveOnlyFresh ==    \* mutant: a message is skipped while one is being done
  /\ Alive /\ sub = "receive"
  /\ channel # <<>>
  /\ channel' = Tail(channel)
  /\ IF Running = {} THEN Do(Subscriber, Head(channel)) ELSE UNCHANGED poolVars
  /\ UNCHANGED <<sub, sent, lc, poolSet, stage>>

\* The loop takes a message off the channel and calls l.pool.Do.
ReceiveMessage ==
  /\ Alive /\ sub = "receive"
  /\ channel # <<>>
  /\ channel' = Tail(channel)
  /\ Do(Subscriber, Head(channel))
  /\ UNCHANGED <<sub, sent, lc, poolSet, stage>>

(* cleanTask *)

CleanNothing(w) ==    \* mutant: the task does not delete
  /\ Execute(w)
  /\ UNCHANGED cleanerVars

\* The worker executes a task: lc.Delete, for which a missing entry is no error.
CleanTask(w) ==
  /\ Execute(w)
  /\ lc' = lc \ {KeyOf[worker[w].task]}
  /\ UNCHANGED <<sub, channel, sent, poolSet, stage>>

(* Close *)

\* l.pool.Stop, on a nil pool if the subscriber has not come that far.
BeginClose ==
  /\ Alive /\ stage = "up"
  /\ stage' = "closing"
  /\ \/ poolSet /\ Stop(Closer)
     \/ /\ ~poolSet
        /\ panic' = "nilPool"
        /\ UNCHANGED <<state, cancelled, closed, queue, wg, worker, caller, executed>>
  /\ UNCHANGED <<sub, channel, sent, lc, poolSet>>

\* Stop has returned.
EndClose ==
  /\ Alive /\ stage = "closing" /\ caller[Closer] = Idle
  /\ stage' = "closed"
  /\ UNCHANGED <<poolVars, sub, channel, sent, lc, poolSet>>

(* What goes on besides *)

\* Some instance publishes m.  go-redis puts it into the channel; it drops a
\* message if there is no subscription yet, or no room for long.
Deliver(m) ==
  /\ Alive /\ m \notin sent
  /\ sent' = sent \cup {m}
  /\ IF sub # "subscribe" /\ Len(channel) < ChannelSize
     THEN channel' = Append(channel, m)
     ELSE UNCHANGED channel
  /\ UNCHANGED <<poolVars, sub, lc, poolSet, stage>>

\* A getter stores an entry, or the entry expires.
Store(k) ==
  /\ Alive
  /\ lc' = lc \cup {k}
  /\ UNCHANGED <<poolVars, sub, channel, sent, poolSet, stage>>

Expire(k) ==
  /\ Alive
  /\ lc' = lc \ {k}
  /\ UNCHANGED <<poolVars, sub, channel, sent, poolSet, stage>>

-----------------------------------------------------------------------------

Subscribing == Subscribe \/ NewPool \/ StartPool \/ ReceiveMessage

\* The pool goes on by itself: calls in progress, workers that take or exit.
PoolStep == /\ \/ \E c \in Callers : Continue(c)
               \/ \E w \in Workers : Take(w) \/ Exit(w)
            /\ UNCHANGED cleanerVars

Next == \/ Subscribing \/ BeginClose \/ EndClose \/ PoolStep
        \/ \E w \in Workers : CleanTask(w)
        \/ \E m \in Tasks : Deliver(m)
        \/ \E k \in Keys : Store(k) \/ Expire(k)

Spec == Init /\ [][Next]_vars

\* The goroutines run.  Nobody has to publish, to fill the cache or to stop.
Fairness ==
  /\ WF_vars(Subscribing) /\ WF_vars(EndClose)
  /\ \A c \in Callers : WF_vars(Continue(c) /\ UNCHANGED cleanerVars)
  /\ \A w \in Workers : /\ WF_vars((Take(w) \/ Exit(w)) /\ UNCHANGED cleanerVars)
                        /\ WF_vars(CleanTask(w))

FairSpec == Spec /\ Fairness

-----------------------------------------------------------------------------
(* Properties                                                              *)

\* Between the channel and the cache an invalidation is where the loop, the pool
\* or a worker has it.
Outstanding == {channel[n] : n \in DOMAIN channel} \cup Given \cup Queued \cup Running

\* Cleaner and pool together apply every message they receive, once, whatever
\* the order in which workers take them, and give one up only after Close has
\* begun: they are the pending invalidations and the Clean of CacheProxy.
Invalidation == INSTANCE LocalInvalidation
                  WITH Messages <- Tasks, outstanding <- Outstanding, up <- stage = "up"
InvalidationSpec == Invalidation!Spec

\* A received invalidation is applied in the end although the queue is bounded
\* and the loop blocks on it, unless the process shuts down.
EveryMessageApplied ==
  \A m \in Tasks : m \in Outstanding ~> m \in executed \/ stage # "up"

\* Close comes back ("Stop worker and wait all task done", pool.go:118): it does
\* not wait for ever for workers, or the process has died.
CloseReturns == stage = "closing" ~> stage = "closed" \/ ~Alive

\* The loop, which alone takes messages off the channel, is never blocked in l.pool.Do
\* for good: while it is parked some worker goes on and will take a task, or Close is
\* about to cancel.  The loop has started the pool itself (cleaner.go:45), unless
\* Close was there first, whose cancel does not let it park.
LoopNeverStuck ==
  caller[Subscriber].pc = "parked" =>
    caller[Closer].pc = "cancel" \/ \E w \in Workers : CanWork(w)

\* When Close has returned, the pool has been stopped altogether or not at all.
\* Stopped, it has no task left in a worker, nor in the queue, unless it never
\* had workers (Close came before Start, and the loop pushed before the cancel).
\* Not stopped it is if a Start comes between the two compare-and-swaps of Stop
\* (pool.go:120): both fail, and the pool runs on as if nothing had been asked.
CloseIsAllOrNothing ==
  stage = "closed" =>
    \/ /\ state = 2 /\ cancelled /\ closed /\ Running = {}
       /\ queue = <<>> \/ \A w \in Workers : worker[w].pc = "none"
    \/ state = 1 /\ ~cancelled /\ ~closed

\* "Stop worker and wait all task done" (pool.go:118): a pool whose Start has been
\* called before Close begins is not missed by the compare-and-swaps of Stop, and
\* when Close returns, every message that was pushed has been applied.
CloseStopsStarted ==
  [](stage = "up" /\ state = 1 =>
       [](stage = "closed" => state = 2 /\ cancelled /\ closed /\ queue = <<>> /\ Running = {}))

\* "Graceful shutdown" (README.md:16): a message that arrives while the process
\* shuts down does not make it panic.
NoSendOnClosed == panic # "sendOnClosed"
=============================================================================
