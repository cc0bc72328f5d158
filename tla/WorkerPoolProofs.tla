-------------------------- MODULE WorkerPoolProofs --------------------------
(***************************************************************************)
(* Proofs about WorkerPool, for any finite number of workers and any       *)
(* callers and tasks.                                                      *)
(***************************************************************************)
EXTENDS WorkerPool, FiniteSetTheorems, SequenceTheorems, TLAPS

-----------------------------------------------------------------------------
(* The inductive invariant                                                 *)

Elems(q) == {q[n] : n \in DOMAIN q}
Injective(q) == \A m, n \in DOMAIN q : q[m] = q[n] => m = n

Active == {w \in Workers : worker[w].pc \in {"range", "execute"}}

\* Who has a task in hand.
Hands ==
  /\ \A c \in Callers : caller[c].task # Nil <=> caller[c].pc \in {"push", "parked"}
  /\ \A w \in Workers : worker[w].task # Nil <=> worker[w].pc = "execute"

\* A task is in one place.
OnePlace ==
  /\ Injective(queue)
  /\ \A c, d \in Callers : caller[c].task # Nil /\ caller[c].task = caller[d].task => c = d
  /\ \A v, w \in Workers : worker[v].task # Nil /\ worker[v].task = worker[w].task => v = w
  /\ \A c \in Callers, w \in Workers : caller[c].task # Nil => caller[c].task # worker[w].task
  /\ \A c \in Callers : caller[c].task \notin Elems(queue) \cup executed
  /\ \A w \in Workers : worker[w].task \notin Elems(queue) \cup executed
  /\ Elems(queue) \cap executed = {}

\* One Start spawns the workers, all at once.
StartsOnce ==
  /\ \A c \in Callers : caller[c].pc = "spawn" => state # 0
  /\ \A c, d \in Callers : caller[c].pc = "spawn" /\ caller[d].pc = "spawn" => c = d
  /\ state = 0 \/ (\E c \in Callers : caller[c].pc = "spawn") =>
       \A w \in Workers : worker[w].pc = "none"

\* The cancel comes before the close, and the close before a worker ends.
StopsInOrder ==
  /\ closed => cancelled
  /\ \A c \in Callers : caller[c].pc \in {"close", "wait"} => cancelled
  /\ \A c \in Callers : caller[c].pc = "parked" => ~cancelled
  /\ \A w \in Workers : worker[w].pc = "exited" => closed /\ queue = <<>>

Counted == wg = Cardinality(Active)

Shape ==
  /\ state \in 0..2
  /\ cancelled \in BOOLEAN /\ closed \in BOOLEAN
  /\ queue \in Seq(Tasks) /\ Len(queue) <= NumberWorker
  /\ worker \in [Workers -> [pc : WorkerPCs, task : Tasks \cup {Nil}]]
  /\ caller \in [Callers -> [pc : CallerPCs, task : Tasks \cup {Nil}]]
  /\ executed \subseteq Tasks
  /\ panic \in {"none", "sendOnClosed", "nilPool"}

IInv == Shape /\ Hands /\ OnePlace /\ StartsOnce /\ StopsInOrder /\ Counted

-----------------------------------------------------------------------------
(* Lemmas about the queue and the wait group                               *)

LEMMA TakeFromQueue ==
  ASSUME NEW q \in Seq(Tasks), q # <<>>, Injective(q)
  PROVE  /\ Head(q) \in Elems(q) /\ Head(q) \in Tasks
         /\ Tail(q) \in Seq(Tasks) /\ Len(Tail(q)) = Len(q) - 1
         /\ Elems(Tail(q)) = Elems(q) \ {Head(q)}
         /\ Injective(Tail(q))
<1>1. /\ Tail(q) \in Seq(Tasks) /\ Len(Tail(q)) = Len(q) - 1 /\ Len(q) \in Nat \ {0}
      /\ \A i \in 1..(Len(q) - 1) : Tail(q)[i] = q[i + 1]
      /\ DOMAIN q = 1..Len(q) /\ DOMAIN Tail(q) = 1..(Len(q) - 1)
      /\ Head(q) \in Tasks
  BY HeadTailProperties, EmptySeq, LenProperties
<1>2. Head(q) = q[1]
  OBVIOUS
<1>3. Head(q) \in Elems(q)
  BY <1>1, <1>2 DEF Elems
<1>4. ASSUME NEW t \in Elems(Tail(q))
      PROVE  t \in Elems(q) \ {Head(q)}
  <2>1. PICK i \in 1..(Len(q) - 1) : t = q[i + 1]
    BY <1>1, <1>4 DEF Elems
  <2>2. i + 1 \in 1..Len(q) /\ i + 1 # 1 /\ 1 \in 1..Len(q)
    BY <1>1
  <2> QED BY <1>1, <1>2, <2>1, <2>2 DEF Elems, Injective
<1>5. ASSUME NEW t \in Elems(q), t # Head(q)
      PROVE  t \in Elems(Tail(q))
  <2>1. PICK i \in 1..Len(q) : t = q[i]
    BY <1>1 DEF Elems
  <2>2. i - 1 \in 1..(Len(q) - 1) /\ Tail(q)[i - 1] = t
    BY <1>1, <1>2, <1>5, <2>1
  <2> QED BY <1>1, <2>2 DEF Elems
<1>6. Injective(Tail(q))
  BY <1>1 DEF Injective
<1> QED BY <1>1, <1>3, <1>4, <1>5, <1>6

LEMMA PutIntoQueue ==
  ASSUME NEW q \in Seq(Tasks), Injective(q), NEW t \in Tasks, t \notin Elems(q)
  PROVE  /\ Append(q, t) \in Seq(Tasks) /\ Len(Append(q, t)) = Len(q) + 1
         /\ Append(q, t) # <<>>
         /\ Elems(Append(q, t)) = Elems(q) \cup {t}
         /\ Injective(Append(q, t))
<1>1. /\ Append(q, t) \in Seq(Tasks) /\ Len(Append(q, t)) = Len(q) + 1 /\ Append(q, t) # <<>>
      /\ Len(q) \in Nat
      /\ \A i \in 1..Len(q) : Append(q, t)[i] = q[i]
      /\ Append(q, t)[Len(q) + 1] = t
      /\ DOMAIN q = 1..Len(q) /\ DOMAIN Append(q, t) = 1..(Len(q) + 1)
  BY AppendProperties, LenProperties
<1>2. Elems(Append(q, t)) = Elems(q) \cup {t}
  <2>1. ASSUME NEW x \in Elems(Append(q, t)) PROVE x \in Elems(q) \cup {t}
    <3>1. PICK i \in 1..(Len(q) + 1) : x = Append(q, t)[i]
      BY <1>1 DEF Elems
    <3>2. i \in 1..Len(q) \/ i = Len(q) + 1
      BY <1>1
    <3> QED BY <1>1, <3>1, <3>2 DEF Elems
  <2>2. ASSUME NEW x \in Elems(q) PROVE x \in Elems(Append(q, t))
    <3>1. PICK i \in 1..Len(q) : x = q[i]
      BY <1>1 DEF Elems
    <3>2. i \in 1..(Len(q) + 1) /\ x = Append(q, t)[i]
      BY <1>1, <3>1
    <3> QED BY <1>1, <3>2 DEF Elems
  <2>3. t \in Elems(Append(q, t))
    <3>1. Len(q) + 1 \in 1..(Len(q) + 1)
      BY <1>1
    <3> QED BY <1>1, <3>1 DEF Elems
  <2> QED BY <2>1, <2>2, <2>3
<1>3. Injective(Append(q, t))
  <2>1. \A i \in 1..Len(q) : q[i] # t
    BY <1>1 DEF Elems
  <2>2. \A i \in 1..(Len(q) + 1) : i \in 1..Len(q) \/ i = Len(q) + 1
    BY <1>1
  <2> QED BY <1>1, <2>1, <2>2 DEF Injective
<1> QED BY <1>1, <1>2, <1>3

LEMMA ActiveIsFinite ==
  /\ IsFiniteSet(Active) /\ Cardinality(Active) \in 0..NumberWorker
  /\ NumberWorker \in Nat /\ NumberWorker > 0
<1>1. Active \subseteq Workers
  BY DEF Active
<1>2. IsFiniteSet(Workers) /\ NumberWorker \in Nat /\ NumberWorker # 0
  BY PoolConstantsOK, FS_CardinalityType, FS_EmptySet DEF NumberWorker
<1>3. IsFiniteSet(Active) /\ Cardinality(Active) <= NumberWorker
  BY <1>1, <1>2, FS_Subset DEF NumberWorker
<1>4. Cardinality(Active) \in Nat
  BY <1>3, FS_CardinalityType
<1> QED BY <1>2, <1>3, <1>4

\* A step that leaves the set of running workers alone.
LEMMA StillCounted ==
  ASSUME IInv, Active' = Active, wg' = wg
  PROVE  Counted'
BY DEF IInv, Counted

-----------------------------------------------------------------------------
(* The steps                                                               *)

LEMMA InitIInv == PoolInit => IInv
<1> SUFFICES ASSUME PoolInit PROVE IInv
  OBVIOUS
<1>1. Elems(queue) = {} /\ Injective(queue)
  BY DEF PoolInit, Elems, Injective
<1>2. Shape
  <2>1. queue \in Seq(Tasks) /\ Len(queue) <= NumberWorker
    BY ActiveIsFinite, EmptySeq DEF PoolInit
  <2>2. /\ worker \in [Workers -> [pc : WorkerPCs, task : Tasks \cup {Nil}]]
        /\ caller \in [Callers -> [pc : CallerPCs, task : Tasks \cup {Nil}]]
    BY DEF PoolInit, WorkerPCs, CallerPCs, Idle
  <2>3. state \in 0..2
    BY DEF PoolInit
  <2>4. cancelled \in BOOLEAN /\ closed \in BOOLEAN
    BY DEF PoolInit
  <2>5. executed \subseteq Tasks /\ panic = "none"
    BY DEF PoolInit
  <2> QED BY <2>1, <2>2, <2>3, <2>4, <2>5 DEF Shape
<1>3. Hands /\ OnePlace /\ StartsOnce /\ StopsInOrder
  BY <1>1, PoolConstantsOK DEF PoolInit, Hands, OnePlace, StartsOnce, StopsInOrder, Idle
<1>4. Active = {}
  BY DEF PoolInit, Active
<1>5. Counted
  BY <1>4, FS_EmptySet DEF PoolInit, Counted
<1> QED BY <1>2, <1>3, <1>5 DEF IInv

CallerRecords == [pc : CallerPCs, task : Tasks \cup {Nil}]

LEMMA GotoFacts ==
  ASSUME IInv, NEW c \in Callers, NEW pc \in CallerPCs, Goto(c, pc)
  PROVE  /\ caller' \in [Callers -> CallerRecords]
         /\ caller'[c].pc = pc /\ caller'[c].task = caller[c].task
         /\ \A d \in Callers : d # c => caller'[d] = caller[d]
BY DEF IInv, Shape, Goto, CallerRecords

LEMMA ReturnFacts ==
  ASSUME IInv, NEW c \in Callers, Return(c)
  PROVE  /\ caller' \in [Callers -> CallerRecords]
         /\ caller'[c].pc = "idle" /\ caller'[c].task = Nil
         /\ \A d \in Callers : d # c => caller'[d] = caller[d]
BY DEF IInv, Shape, Return, Idle, CallerRecords, CallerPCs

\* A method that leaves the queue and the workers alone, and that goes on from where
\* it has its task, if any, to where it still has it, or returns without.
LEMMA CallerFrame ==
  ASSUME IInv, NEW c \in Callers, UNCHANGED <<queue, wg, worker, executed>>,
         caller' \in [Callers -> CallerRecords],
         \A d \in Callers : d # c => caller'[d] = caller[d],
         caller'[c].task \in {Nil, caller[c].task},
         caller'[c].task # Nil <=> caller'[c].pc \in {"push", "parked"}
  PROVE  Hands' /\ OnePlace' /\ Counted'
<1>1. Counted'
  BY StillCounted DEF Active
<1>2. Hands'
  BY DEF IInv, Hands
<1>3. OnePlace'
  <2>1. Elems(queue)' = Elems(queue) /\ Injective(queue)' /\ Nil \notin Elems(queue) \cup executed
    <3>1. Elems(queue) \subseteq Tasks
      BY LenProperties DEF IInv, Shape, Elems
    <3> QED BY <3>1, PoolConstantsOK DEF IInv, Shape, OnePlace, Elems, Injective
  <2>2. \A d, e \in Callers :
          caller'[d].task # Nil /\ caller'[d].task = caller'[e].task => d = e
    BY DEF IInv, OnePlace
  <2>3. \A d \in Callers, w \in Workers : caller'[d].task # Nil => caller'[d].task # worker[w].task
    BY DEF IInv, OnePlace
  <2>4. \A d \in Callers : caller'[d].task \notin Elems(queue) \cup executed
    BY <2>1 DEF IInv, OnePlace
  <2> QED BY <2>1, <2>2, <2>3, <2>4 DEF IInv, OnePlace
<1> QED BY <1>1, <1>2, <1>3

\* Methods that do not touch the queue nor the workers.
LEMMA CallKeeps ==
  ASSUME IInv, NEW c \in Callers,
         \/ Start(c) \/ Stop(c) \/ CasStarted(c) \/ CasUnstarted(c) \/ Close(c)
         \/ Wait(c) \/ PushDone(c) \/ PushPark(c)
  PROVE  IInv'
<1>1. UNCHANGED <<queue, wg, worker, executed, panic>>
  BY DEF Start, Stop, CasStarted, CasUnstarted, Swap, Close, Wait, PushDone, PushPark
<1>2. \/ \E pc \in CallerPCs : Goto(c, pc)
      \/ Return(c)
  BY DEF Start, Stop, CasStarted, CasUnstarted, Swap, Close, Wait, PushDone, PushPark, CallerPCs
<1>3. /\ caller' \in [Callers -> CallerRecords]
      /\ \A d \in Callers : d # c => caller'[d] = caller[d]
      /\ caller'[c].task \in {Nil, caller[c].task}
  BY <1>2, GotoFacts, ReturnFacts
<1>4. Shape'
  <2>1. /\ state' \in {state, 1, 2} /\ cancelled' = cancelled
        /\ closed' = closed \/ closed' = TRUE
    BY DEF Start, Stop, CasStarted, CasUnstarted, Swap, Close, Wait, PushDone, PushPark
  <2>2. state' \in 0..2 /\ cancelled' \in BOOLEAN
    BY <2>1 DEF IInv, Shape
  <2>3. closed' \in BOOLEAN
    BY <2>1 DEF IInv, Shape
  <2> QED BY <1>1, <1>3, <2>2, <2>3 DEF IInv, Shape, CallerRecords
<1> USE DEF CallerPCs
<1>5. CASE Start(c)
  <2>1. state = 0 /\ state' = 1 /\ UNCHANGED <<cancelled, closed>>
        /\ caller[c] = Idle /\ Goto(c, "spawn")
    BY <1>5 DEF Start
  <2>2. caller'[c].pc = "spawn" /\ caller'[c].task = Nil
    BY <2>1, GotoFacts DEF Idle
  <2> QED
    BY <1>1, <1>3, <1>4, <2>1, <2>2, CallerFrame DEF IInv, StartsOnce, StopsInOrder
<1>6. CASE Stop(c)
  <2>1. caller[c] = Idle /\ Goto(c, "casStarted") /\ UNCHANGED <<state, cancelled, closed>>
    BY <1>6 DEF Stop
  <2>2. caller'[c].pc = "casStarted" /\ caller'[c].task = Nil
    BY <2>1, GotoFacts DEF Idle
  <2> QED
    BY <1>1, <1>3, <1>4, <2>1, <2>2, CallerFrame DEF IInv, StartsOnce, StopsInOrder
<1>7. CASE CasStarted(c) \/ CasUnstarted(c)
  <2>1. /\ caller[c].pc \in {"casStarted", "casUnstarted"} /\ UNCHANGED <<cancelled, closed>>
        /\ state' = state \/ state' = 2
        /\ Goto(c, "cancel") \/ Goto(c, "casUnstarted") \/ Return(c)
    BY <1>7 DEF CasStarted, CasUnstarted, Swap
  <2>2. caller'[c].pc \in {"cancel", "casUnstarted", "idle"} /\ caller'[c].task = Nil
    BY <2>1, GotoFacts, ReturnFacts DEF IInv, Hands
  <2> QED
    BY <1>1, <1>3, <1>4, <2>1, <2>2, CallerFrame DEF IInv, StartsOnce, StopsInOrder
<1>8. CASE Close(c)
  <2>1. caller[c].pc = "close" /\ closed' = TRUE /\ Goto(c, "wait") /\ UNCHANGED <<state, cancelled>>
    BY <1>8 DEF Close
  <2>2. caller'[c].pc = "wait" /\ caller'[c].task = Nil
    BY <2>1, GotoFacts DEF IInv, Hands
  <2> QED
    BY <1>1, <1>3, <1>4, <2>1, <2>2, CallerFrame DEF IInv, StartsOnce, StopsInOrder
<1>9. CASE Wait(c) \/ PushDone(c)
  <2>1. Return(c) /\ UNCHANGED <<state, cancelled, closed>>
    BY <1>9 DEF Wait, PushDone
  <2>2. caller'[c].pc = "idle" /\ caller'[c].task = Nil
    BY <2>1, ReturnFacts
  <2> QED
    BY <1>1, <1>3, <1>4, <2>1, <2>2, CallerFrame DEF IInv, StartsOnce, StopsInOrder
<1>10. CASE PushPark(c)
  <2>1. caller[c].pc = "push" /\ ~cancelled /\ Goto(c, "parked") /\ UNCHANGED <<state, cancelled, closed>>
    BY <1>10 DEF PushPark
  <2>2. caller'[c].pc = "parked" /\ caller'[c].task # Nil
    BY <2>1, GotoFacts DEF IInv, Hands
  <2> QED
    BY <1>1, <1>3, <1>4, <2>1, <2>2, CallerFrame DEF IInv, StartsOnce, StopsInOrder
<1> QED BY <1>5, <1>6, <1>7, <1>8, <1>9, <1>10

LEMMA PanicKeeps ==
  ASSUME IInv, NEW c \in Callers, PushPanic(c)
  PROVE  IInv'
<1>1. UNCHANGED <<state, cancelled, closed, queue, wg, worker, caller, executed>>
      /\ panic' = "sendOnClosed"
  BY DEF PushPanic
<1> QED
  BY <1>1 DEF IInv, Shape, Hands, OnePlace, StartsOnce, StopsInOrder, Counted, Active, Elems,
              Injective

LEMMA CancelKeeps ==
  ASSUME IInv, NEW c \in Callers, Cancel(c)
  PROVE  IInv'
<1>1. /\ caller[c].pc = "cancel" /\ cancelled' = TRUE
      /\ UNCHANGED <<state, closed, queue, wg, worker, executed, panic>>
      /\ \A d \in Callers : \/ d = c /\ caller'[d] = [caller[c] EXCEPT !.pc = "close"]
                            \/ d # c /\ caller[d].pc = "parked" /\ caller'[d] = Idle
                            \/ d # c /\ caller[d].pc # "parked" /\ caller'[d] = caller[d]
      /\ caller' \in [Callers -> CallerRecords]
  <2>1. caller \in [Callers -> CallerRecords]
    BY DEF IInv, Shape, CallerRecords
  <2>2. Idle \in CallerRecords /\ [caller[c] EXCEPT !.pc = "close"] \in CallerRecords
    BY <2>1 DEF Idle, CallerRecords, CallerPCs
  <2> QED BY <2>1, <2>2 DEF Cancel
<1>2. caller[c] \in CallerRecords /\ caller[c].task = Nil
  BY <1>1 DEF IInv, Shape, Hands, CallerRecords
<1>3. \A d \in Callers :
        \/ d = c /\ caller'[d].pc = "close" /\ caller'[d].task = Nil
        \/ caller'[d].pc = "idle" /\ caller'[d].task = Nil
        \/ caller[d].pc # "parked" /\ caller'[d] = caller[d]
  BY <1>1, <1>2 DEF Idle, CallerRecords
<1>4. Shape'
  BY <1>1 DEF IInv, Shape, CallerRecords
<1>5. Hands'
  BY <1>1, <1>3 DEF IInv, Hands
<1>6. OnePlace'
  <2>1. Elems(queue)' = Elems(queue) /\ Injective(queue)' /\ Nil \notin Elems(queue) \cup executed
    <3>1. Elems(queue) \subseteq Tasks
      BY LenProperties DEF IInv, Shape, Elems
    <3> QED BY <1>1, <3>1, PoolConstantsOK DEF IInv, Shape, OnePlace, Elems, Injective
  <2>2. \A d \in Callers : caller'[d].task = Nil \/ caller'[d].task = caller[d].task
    BY <1>3
  <2> QED BY <1>1, <2>1, <2>2 DEF IInv, OnePlace
<1>7. StartsOnce' /\ StopsInOrder'
  BY <1>1, <1>3 DEF IInv, StartsOnce, StopsInOrder
<1>8. Counted'
  BY <1>1, StillCounted DEF Active
<1> QED BY <1>4, <1>5, <1>6, <1>7, <1>8 DEF IInv

\* The goroutines are created when there is none, and counted at once.
LEMMA SpawnKeeps ==
  ASSUME IInv, NEW c \in Callers, Spawn(c)
  PROVE  IInv'
<1> DEFINE started == [pc |-> "range", task |-> Nil]
<1>1. /\ caller[c].pc = "spawn" /\ Return(c) /\ wg' = wg + NumberWorker
      /\ worker' = [w \in Workers |-> started]
      /\ UNCHANGED <<state, cancelled, closed, queue, executed, panic>>
  BY DEF Spawn
<1>2. /\ caller' \in [Callers -> CallerRecords]
      /\ caller'[c].pc = "idle" /\ caller'[c].task = Nil
      /\ \A d \in Callers : d # c => caller'[d] = caller[d]
  BY <1>1, ReturnFacts
<1>3. /\ state # 0
      /\ \A w \in Workers : worker[w].pc = "none"
      /\ \A d \in Callers : caller'[d].pc # "spawn"
  BY <1>1, <1>2 DEF IInv, StartsOnce
<1>4. Shape'
  <2>1. started \in [pc : WorkerPCs, task : Tasks \cup {Nil}]
    BY DEF WorkerPCs
  <2>2. worker' \in [Workers -> [pc : WorkerPCs, task : Tasks \cup {Nil}]]
    BY <1>1, <2>1
  <2> QED BY <1>1, <1>2, <2>2 DEF IInv, Shape, CallerRecords
<1>5. \A w \in Workers : worker'[w].pc = "range" /\ worker'[w].task = Nil
  BY <1>1
<1>6. Hands'
  BY <1>2, <1>5 DEF IInv, Hands
<1>7. OnePlace'
  <2>1. Elems(queue)' = Elems(queue) /\ Injective(queue)' /\ Nil \notin Elems(queue) \cup executed
    <3>1. Elems(queue) \subseteq Tasks
      BY LenProperties DEF IInv, Shape, Elems
    <3> QED BY <1>1, <3>1, PoolConstantsOK DEF IInv, Shape, OnePlace, Elems, Injective
  <2> QED BY <1>1, <1>2, <1>5, <2>1 DEF IInv, OnePlace
<1>8. StartsOnce' /\ StopsInOrder'
  BY <1>1, <1>2, <1>3, <1>5 DEF IInv, StartsOnce, StopsInOrder
<1>9. Counted'
  <2>1. Active = {} /\ Active' = Workers
    BY <1>3, <1>5 DEF Active
  <2>2. wg = 0
    BY <2>1, FS_EmptySet DEF IInv, Counted
  <2> QED BY <1>1, <2>1, <2>2, ActiveIsFinite DEF Counted, NumberWorker
<1> QED BY <1>4, <1>6, <1>7, <1>8, <1>9 DEF IInv

\* Nobody else has the task that Do is called with.
LEMMA DoKeeps ==
  ASSUME IInv, NEW c \in Callers, NEW t \in Tasks, Do(c, t)
  PROVE  IInv'
<1>1. /\ caller[c] = Idle /\ t \notin Given \cup Queued \cup Running \cup executed
      /\ caller' = [caller EXCEPT ![c] = [pc |-> "push", task |-> t]]
      /\ UNCHANGED <<state, cancelled, closed, queue, wg, worker, executed, panic>>
  BY DEF Do
<1>2. /\ caller' \in [Callers -> CallerRecords]
      /\ caller'[c].pc = "push" /\ caller'[c].task = t /\ t # Nil
      /\ \A d \in Callers : d # c => caller'[d] = caller[d]
  BY <1>1, PoolConstantsOK DEF IInv, Shape, CallerRecords, CallerPCs
<1>3. /\ t \notin Elems(queue) \cup executed
      /\ \A d \in Callers : caller[d].task # t
      /\ \A w \in Workers : worker[w].task # t
  BY <1>1, <1>2 DEF Given, Queued, Running, Elems
<1>4. Shape'
  BY <1>1, <1>2 DEF IInv, Shape, CallerRecords
<1>5. Hands'
  BY <1>1, <1>2 DEF IInv, Hands
<1>6. OnePlace'
  <2>1. Elems(queue)' = Elems(queue) /\ Injective(queue)'
    BY <1>1 DEF IInv, OnePlace, Elems, Injective
  <2> QED BY <1>1, <1>2, <1>3, <2>1 DEF IInv, OnePlace
<1>7. StartsOnce' /\ StopsInOrder'
  BY <1>1, <1>2 DEF IInv, StartsOnce, StopsInOrder, Idle
<1>8. Counted'
  BY <1>1, StillCounted DEF Active
<1> QED BY <1>4, <1>5, <1>6, <1>7, <1>8 DEF IInv

LEMMA PushSendKeeps ==
  ASSUME IInv, NEW c \in Callers, PushSend(c)
  PROVE  IInv'
<1> DEFINE t == caller[c].task
<1>1. /\ caller[c].pc = "push" /\ ~closed /\ Len(queue) < NumberWorker
      /\ queue' = Append(queue, t) /\ Return(c)
      /\ UNCHANGED <<state, cancelled, closed, wg, worker, executed, panic>>
  BY DEF PushSend
<1>2. /\ caller' \in [Callers -> CallerRecords]
      /\ caller'[c].pc = "idle" /\ caller'[c].task = Nil
      /\ \A d \in Callers : d # c => caller'[d] = caller[d]
  BY <1>1, ReturnFacts
<1>3. t \in Tasks /\ t # Nil /\ t \notin Elems(queue) \cup executed
  BY <1>1, PoolConstantsOK DEF IInv, Shape, Hands, OnePlace
<1>4. /\ queue' \in Seq(Tasks) /\ Len(queue') = Len(queue) + 1
      /\ Elems(queue)' = Elems(queue) \cup {t} /\ Injective(queue)'
  <2>1. queue \in Seq(Tasks) /\ Injective(queue)
    BY DEF IInv, Shape, OnePlace
  <2> QED BY <1>1, <1>3, <2>1, PutIntoQueue DEF Elems, Injective
<1>5. Shape'
  <2>1. Len(queue') <= NumberWorker
    BY <1>1, <1>4, ActiveIsFinite, LenProperties DEF IInv, Shape
  <2> QED BY <1>1, <1>2, <1>4, <2>1 DEF IInv, Shape, CallerRecords
<1>6. Hands'
  BY <1>1, <1>2 DEF IInv, Hands
<1>7. OnePlace'
  <2>1. Nil \notin Elems(queue)' \cup executed
    <3>1. Elems(queue) \subseteq Tasks
      BY LenProperties DEF IInv, Shape, Elems
    <3> QED BY <1>3, <1>4, <3>1, PoolConstantsOK DEF IInv, Shape
  <2>2. \A d \in Callers : d # c => caller[d].task # t
    BY <1>3 DEF IInv, OnePlace
  <2>3. \A w \in Workers : worker[w].task # t
    BY <1>3 DEF IInv, OnePlace
  <2> HIDE DEF t
  <2> QED BY <1>1, <1>2, <1>3, <1>4, <2>1, <2>2, <2>3 DEF IInv, OnePlace
<1>8. StartsOnce' /\ StopsInOrder'
  BY <1>1, <1>2 DEF IInv, StartsOnce, StopsInOrder
<1>9. Counted'
  BY <1>1, StillCounted DEF Active
<1> QED BY <1>5, <1>6, <1>7, <1>8, <1>9 DEF IInv

\* What a receive makes of the queue: the head is gone, and the task of a parked
\* sender is in, if there is one.
LEMMA TakeFacts ==
  ASSUME IInv, NEW w \in Workers, Take(w)
  PROVE  /\ Head(queue) \in Elems(queue) /\ Head(queue) \in Tasks
         /\ queue' \in Seq(Tasks) /\ Len(queue') <= Len(queue) /\ Injective(queue)'
         /\ worker' = [worker EXCEPT ![w] = [pc |-> "execute", task |-> Head(queue)]]
         /\ caller' \in [Callers -> CallerRecords]
         /\ UNCHANGED <<state, cancelled, closed, wg, executed, panic>>
         /\ worker[w].pc = "range" /\ queue # <<>>
         /\ \/ /\ UNCHANGED caller
               /\ Elems(queue)' = Elems(queue) \ {Head(queue)}
            \/ \E c \in Callers :
                 /\ caller[c].pc = "parked" /\ caller[c].task \in Tasks
                 /\ caller[c].task \notin Elems(queue)
                 /\ caller'[c].pc = "idle" /\ caller'[c].task = Nil
                 /\ \A d \in Callers : d # c => caller'[d] = caller[d]
                 /\ Elems(queue)' = (Elems(queue) \ {Head(queue)}) \cup {caller[c].task}
<1>1. /\ worker[w].pc = "range" /\ queue # <<>>
      /\ worker' = [worker EXCEPT ![w] = [pc |-> "execute", task |-> Head(queue)]]
      /\ UNCHANGED <<state, cancelled, closed, wg, executed, panic>>
  BY DEF Take
<1>2. /\ Head(queue) \in Elems(queue) /\ Head(queue) \in Tasks
      /\ Tail(queue) \in Seq(Tasks) /\ Len(Tail(queue)) = Len(queue) - 1
      /\ Elems(Tail(queue)) = Elems(queue) \ {Head(queue)} /\ Injective(Tail(queue))
      /\ Len(queue) \in Nat /\ Len(Tail(queue)) \in Nat
  BY <1>1, TakeFromQueue, LenProperties DEF IInv, Shape, OnePlace
<1>3. CASE queue' = Tail(queue) /\ UNCHANGED caller
  <2>1. Injective(queue)' /\ Elems(queue)' = Elems(queue) \ {Head(queue)}
    BY <1>2, <1>3 DEF Injective, Elems
  <2> QED BY <1>1, <1>2, <1>3, <2>1 DEF IInv, Shape, CallerRecords
<1>4. ASSUME NEW c \in Callers, caller[c].pc = "parked",
             queue' = Append(Tail(queue), caller[c].task), Return(c)
      PROVE  /\ queue' \in Seq(Tasks) /\ Len(queue') <= Len(queue) /\ Injective(queue)'
             /\ caller' \in [Callers -> CallerRecords]
             /\ caller[c].task \in Tasks /\ caller[c].task \notin Elems(queue)
             /\ caller'[c].pc = "idle" /\ caller'[c].task = Nil
             /\ \A d \in Callers : d # c => caller'[d] = caller[d]
             /\ Elems(queue)' = (Elems(queue) \ {Head(queue)}) \cup {caller[c].task}
  <2>1. caller[c].task \in Tasks /\ caller[c].task \notin Elems(queue)
    BY <1>4, PoolConstantsOK DEF IInv, Shape, Hands, OnePlace
  <2>2. /\ queue' \in Seq(Tasks) /\ Len(queue') = Len(Tail(queue)) + 1
        /\ Elems(queue') = Elems(Tail(queue)) \cup {caller[c].task}
        /\ Injective(queue')
    BY <1>2, <1>4, <2>1, PutIntoQueue
  <2>3. Injective(queue)' /\ Elems(queue)' = Elems(queue')
    BY <2>2 DEF Injective, Elems
  <2> QED BY <1>2, <1>4, <2>1, <2>2, <2>3, ReturnFacts
<1>5. \/ queue' = Tail(queue) /\ UNCHANGED caller
      \/ \E c \in Callers : /\ caller[c].pc = "parked"
                            /\ queue' = Append(Tail(queue), caller[c].task) /\ Return(c)
  BY DEF Take
<1>6. CASE \E c \in Callers : /\ caller[c].pc = "parked"
                              /\ queue' = Append(Tail(queue), caller[c].task) /\ Return(c)
  BY <1>1, <1>2, <1>4, <1>6
<1> QED BY <1>3, <1>5, <1>6

LEMMA TakeKeeps ==
  ASSUME IInv, NEW w \in Workers, Take(w)
  PROVE  IInv'
<1> DEFINE h == Head(queue)
<1>1. /\ h \in Elems(queue) /\ h \in Tasks /\ h # Nil
      /\ queue' \in Seq(Tasks) /\ Len(queue') <= Len(queue) /\ Injective(queue)'
      /\ caller' \in [Callers -> CallerRecords]
      /\ UNCHANGED <<state, cancelled, closed, wg, executed, panic>>
      /\ worker[w].pc = "range" /\ queue # <<>>
  BY TakeFacts, PoolConstantsOK
<1>2. worker' \in [Workers -> [pc : WorkerPCs, task : Tasks \cup {Nil}]]
      /\ worker'[w].pc = "execute" /\ worker'[w].task = h
      /\ \A v \in Workers : v # w => worker'[v] = worker[v]
  BY <1>1, TakeFacts DEF IInv, Shape, WorkerPCs
<1>3. \A d \in Callers : \/ caller'[d] = caller[d]
                         \/ /\ caller[d].pc = "parked" /\ caller[d].task \in Tasks
                            /\ caller'[d].pc = "idle" /\ caller'[d].task = Nil
  BY TakeFacts
<1>4. \A x \in Elems(queue)' : x # h /\ (x \in Elems(queue) \/ \E d \in Callers : x = caller[d].task /\ x # Nil)
  BY <1>1, TakeFacts, PoolConstantsOK
<1>5. \A d \in Callers : caller'[d].task # Nil => caller'[d].task \notin Elems(queue)'
  <2>1. CASE UNCHANGED caller /\ Elems(queue)' = Elems(queue) \ {h}
    BY <2>1 DEF IInv, OnePlace
  <2>2. CASE \E c \in Callers :
               /\ caller[c].task \in Tasks
               /\ caller'[c].task = Nil
               /\ \A d \in Callers : d # c => caller'[d] = caller[d]
               /\ Elems(queue)' = (Elems(queue) \ {h}) \cup {caller[c].task}
    BY <2>2, PoolConstantsOK DEF IInv, OnePlace
  <2> QED BY <2>1, <2>2, TakeFacts
<1>6. Nil \notin Elems(queue)' /\ Nil \notin executed
  <2>1. Elems(queue)' \subseteq Tasks
    BY <1>1, LenProperties DEF Elems
  <2> QED BY <2>1, PoolConstantsOK DEF IInv, Shape
<1> HIDE DEF h
<1>7. Shape'
  <2>1. Len(queue') <= NumberWorker
    BY <1>1, ActiveIsFinite, LenProperties DEF IInv, Shape
  <2> QED BY <1>1, <1>2, <2>1 DEF IInv, Shape, CallerRecords
<1>8. Hands'
  BY <1>1, <1>2, <1>3 DEF IInv, Hands
<1>9. OnePlace'
  <2>1. \A c, d \in Callers : caller'[c].task # Nil /\ caller'[c].task = caller'[d].task => c = d
    BY <1>3 DEF IInv, OnePlace
  <2>2. \A u, v \in Workers : worker'[u].task # Nil /\ worker'[u].task = worker'[v].task => u = v
    BY <1>1, <1>2 DEF IInv, OnePlace
  <2>3. \A d \in Callers, v \in Workers :
          caller'[d].task # Nil => caller'[d].task # worker'[v].task
    BY <1>1, <1>2, <1>3 DEF IInv, OnePlace
  <2>4. \A d \in Callers : caller'[d].task \notin Elems(queue)' \cup executed
    BY <1>3, <1>5, <1>6 DEF IInv, OnePlace
  <2>5. \A v \in Workers : worker'[v].task \notin Elems(queue)' \cup executed
    BY <1>1, <1>2, <1>4 DEF IInv, OnePlace
  <2>6. Elems(queue)' \cap executed = {}
    BY <1>4 DEF IInv, OnePlace
  <2> QED BY <1>1, <2>1, <2>2, <2>3, <2>4, <2>5, <2>6 DEF OnePlace
<1>10. StartsOnce' /\ StopsInOrder'
  BY <1>1, <1>2, <1>3 DEF IInv, StartsOnce, StopsInOrder
<1>11. Counted'
  <2>1. Active' = Active
    BY <1>1, <1>2 DEF Active
  <2> QED BY <1>1, <2>1, StillCounted
<1> QED BY <1>7, <1>8, <1>9, <1>10, <1>11 DEF IInv

LEMMA ExecuteKeeps ==
  ASSUME IInv, NEW w \in Workers, Execute(w)
  PROVE  IInv'
<1> DEFINE t == worker[w].task
<1>1. /\ worker[w].pc = "execute" /\ executed' = executed \cup {t}
      /\ worker' = [worker EXCEPT ![w] = [pc |-> "range", task |-> Nil]]
      /\ UNCHANGED <<state, cancelled, closed, queue, wg, caller, panic>>
  BY DEF Execute
<1>2. /\ worker' \in [Workers -> [pc : WorkerPCs, task : Tasks \cup {Nil}]]
      /\ worker'[w].pc = "range" /\ worker'[w].task = Nil
      /\ \A v \in Workers : v # w => worker'[v] = worker[v]
  BY <1>1 DEF IInv, Shape, WorkerPCs
<1>3. t \in Tasks /\ t # Nil
  BY <1>1, PoolConstantsOK DEF IInv, Shape, Hands
<1>4. /\ Elems(queue)' = Elems(queue) /\ Injective(queue)'
      /\ Nil \notin Elems(queue) \cup executed
  <2>1. Elems(queue) \subseteq Tasks
    BY LenProperties DEF IInv, Shape, Elems
  <2> QED BY <1>1, <2>1, PoolConstantsOK DEF IInv, Shape, OnePlace, Elems, Injective
<1> HIDE DEF t
<1>5. Shape'
  BY <1>1, <1>2, <1>3 DEF IInv, Shape
<1>6. Hands'
  BY <1>1, <1>2 DEF IInv, Hands
<1>7. OnePlace'
  <2>1. /\ \A d \in Callers : caller[d].task # t
        /\ \A v \in Workers : v # w => worker[v].task # t
        /\ t \notin Elems(queue)
    BY <1>3 DEF IInv, OnePlace, t
  <2> QED BY <1>1, <1>2, <1>3, <1>4, <2>1 DEF IInv, OnePlace
<1>8. StartsOnce' /\ StopsInOrder'
  BY <1>1, <1>2 DEF IInv, StartsOnce, StopsInOrder
<1>9. Counted'
  <2>1. Active' = Active
    BY <1>1, <1>2 DEF Active
  <2> QED BY <1>1, <2>1, StillCounted
<1> QED BY <1>5, <1>6, <1>7, <1>8, <1>9 DEF IInv

LEMMA ExitKeeps ==
  ASSUME IInv, NEW w \in Workers, Exit(w)
  PROVE  IInv'
<1>1. /\ worker[w].pc = "range" /\ closed /\ queue = <<>> /\ wg' = wg - 1
      /\ worker' = [worker EXCEPT ![w].pc = "exited"]
      /\ UNCHANGED <<state, cancelled, closed, queue, caller, executed, panic>>
  BY DEF Exit
<1>2. /\ worker' \in [Workers -> [pc : WorkerPCs, task : Tasks \cup {Nil}]]
      /\ worker'[w].pc = "exited" /\ worker'[w].task = worker[w].task
      /\ \A v \in Workers : v # w => worker'[v] = worker[v]
  BY <1>1 DEF IInv, Shape, WorkerPCs
<1>3. Shape'
  BY <1>1, <1>2 DEF IInv, Shape
<1>4. Hands'
  BY <1>1, <1>2 DEF IInv, Hands
<1>5. OnePlace'
  <2>1. Elems(queue)' = Elems(queue) /\ Injective(queue)'
    BY <1>1 DEF IInv, OnePlace, Elems, Injective
  <2>2. \A v \in Workers : worker'[v].task = worker[v].task
    BY <1>2
  <2> QED BY <1>1, <2>1, <2>2 DEF IInv, OnePlace
<1>6. StartsOnce' /\ StopsInOrder'
  BY <1>1, <1>2 DEF IInv, StartsOnce, StopsInOrder
<1>7. Counted'
  <2>1. Active' = Active \ {w} /\ w \in Active
    BY <1>1, <1>2 DEF Active
  <2> QED BY <1>1, <2>1, FS_RemoveElement, ActiveIsFinite DEF IInv, Counted
<1> QED BY <1>3, <1>4, <1>5, <1>6, <1>7 DEF IInv

LEMMA NextIInv == IInv /\ [PoolNext]_poolVars => IInv'
<1> SUFFICES ASSUME IInv, [PoolNext]_poolVars PROVE IInv'
  OBVIOUS
<1>1. ASSUME NEW c \in Callers, Start(c) \/ Stop(c) \/ Continue(c) PROVE IInv'
  BY <1>1, CallKeeps, SpawnKeeps, CancelKeeps, PushSendKeeps, PanicKeeps DEF Continue
<1>2. ASSUME NEW c \in Callers, NEW t \in Tasks, Do(c, t) PROVE IInv'
  BY <1>2, DoKeeps
<1>3. ASSUME NEW w \in Workers, Work(w) PROVE IInv'
  BY <1>3, TakeKeeps, ExecuteKeeps, ExitKeeps DEF Work
<1>4. CASE UNCHANGED poolVars
  BY <1>4 DEF poolVars, IInv, Shape, Hands, OnePlace, StartsOnce, StopsInOrder, Counted, Active,
              Elems, Injective
<1> QED BY <1>1, <1>2, <1>3, <1>4 DEF PoolNext

LEMMA IInvAlways == PoolSpec => []IInv
BY InitIInv, NextIInv, PTL DEF PoolSpec

-----------------------------------------------------------------------------
(* Nobody is left waiting                                                  *)

\* Who will wake a parked caller, or let a Stop return: a caller is parked only at a
\* full queue; a started pool has its workers, or the Start that is about to create
\* them; and a stopped one is cancelled, or the Stop is about to.
Wakers ==
  /\ \A c \in Callers : caller[c].pc = "parked" => Len(queue) = NumberWorker
  /\ \A c \in Callers : caller[c].pc = "wait" => closed
  /\ state = 1 => \/ \E c \in Callers : caller[c].pc = "spawn"
                  \/ \A w \in Workers : worker[w].pc # "none"
  /\ state = 2 => cancelled \/ \E c \in Callers : caller[c].pc = "cancel"
  /\ cancelled \/ (\E c \in Callers : caller[c].pc = "cancel") => state = 2

LEMMA InitWakers == PoolInit => Wakers
BY DEF PoolInit, Wakers, Idle

\* A caller goes on, and parks only at a full queue; the rest stays as it is.
LEMMA WakersFrame ==
  ASSUME Wakers, NEW c \in Callers, UNCHANGED <<state, cancelled, queue, worker>>,
         closed' = closed \/ closed' = TRUE,
         \A d \in Callers : d # c => caller'[d] = caller[d],
         caller[c].pc \notin {"spawn", "cancel"}, caller'[c].pc \notin {"spawn", "cancel"},
         caller'[c].pc = "wait" => closed',
         caller'[c].pc = "parked" => Len(queue) = NumberWorker
  PROVE  Wakers'
<1>1. \A d \in Callers : d # c => caller'[d].pc = caller[d].pc
  OBVIOUS
<1>2. /\ (\E d \in Callers : caller[d].pc = "spawn") <=> \E d \in Callers : caller'[d].pc = "spawn"
      /\ (\E d \in Callers : caller[d].pc = "cancel") <=> \E d \in Callers : caller'[d].pc = "cancel"
  BY <1>1
<1> QED BY <1>1, <1>2 DEF Wakers

LEMMA CallWakers ==
  ASSUME IInv, Wakers, NEW c \in Callers,
         \/ Stop(c) \/ Close(c) \/ Wait(c) \/ PushDone(c) \/ PushPark(c) \/ PushPanic(c)
         \/ \E t \in Tasks : Do(c, t)
  PROVE  Wakers'
<1>1. /\ UNCHANGED <<state, cancelled, queue, worker>>
      /\ closed' = closed \/ closed' = TRUE
      /\ caller[c].pc \notin {"spawn", "cancel"}
  BY DEF Stop, Close, Wait, PushDone, PushPark, PushPanic, Do, Idle
<1>2. /\ \A d \in Callers : d # c => caller'[d] = caller[d]
      /\ \/ caller'[c].pc \in {"casStarted", "idle", "push"}
         \/ caller'[c].pc = "wait" /\ closed'
         \/ caller'[c].pc = "parked" /\ Len(queue) = NumberWorker
  <2>1. CASE Stop(c) \/ Close(c) \/ PushPark(c)
    BY <2>1, GotoFacts DEF Stop, Close, PushPark, CallerPCs
  <2>2. CASE Wait(c) \/ PushDone(c)
    BY <2>2, ReturnFacts DEF Wait, PushDone
  <2>3. CASE PushPanic(c)
    BY <2>3 DEF PushPanic
  <2>4. CASE \E t \in Tasks : Do(c, t)
    BY <2>4 DEF Do, IInv, Shape
  <2> QED BY <2>1, <2>2, <2>3, <2>4
<1> QED BY <1>1, <1>2, WakersFrame

\* Start and the compare-and-swaps of Stop.
LEMMA SwapWakers ==
  ASSUME IInv, Wakers, NEW c \in Callers, Start(c) \/ CasStarted(c) \/ CasUnstarted(c)
  PROVE  Wakers'
<1>1. UNCHANGED <<cancelled, closed, queue, worker>> /\ state \in 0..2
  BY DEF Start, CasStarted, CasUnstarted, Swap, IInv, Shape
<1>2. /\ \A d \in Callers : d # c => caller'[d] = caller[d]
      /\ caller[c].pc \notin {"spawn", "cancel"}
      /\ \/ state = 0 /\ state' = 1 /\ caller'[c].pc = "spawn"
         \/ state # 2 /\ state' = 2 /\ caller'[c].pc = "cancel"
         \/ state' = state /\ caller'[c].pc \in {"casUnstarted", "idle"}
  BY GotoFacts, ReturnFacts DEF Start, CasStarted, CasUnstarted, Swap, CallerPCs, Idle
<1>3. CASE state' = state
  BY <1>1, <1>2, <1>3, WakersFrame
<1>4. CASE state = 0 /\ state' = 1 /\ caller'[c].pc = "spawn"
  BY <1>1, <1>2, <1>4 DEF Wakers
<1>5. CASE state # 2 /\ state' = 2 /\ caller'[c].pc = "cancel"
  BY <1>1, <1>2, <1>5 DEF Wakers
<1> QED BY <1>2, <1>3, <1>4, <1>5

LEMMA SpawnWakers ==
  ASSUME IInv, Wakers, NEW c \in Callers, Spawn(c)
  PROVE  Wakers'
<1>1. /\ caller[c].pc = "spawn" /\ \A w \in Workers : worker'[w].pc = "range"
      /\ UNCHANGED <<state, cancelled, closed, queue>>
  BY DEF Spawn
<1>2. caller'[c].pc = "idle" /\ \A d \in Callers : d # c => caller'[d] = caller[d]
  BY ReturnFacts DEF Spawn
<1>3. (\E d \in Callers : caller[d].pc = "cancel") <=> \E d \in Callers : caller'[d].pc = "cancel"
  BY <1>1, <1>2
<1> QED BY <1>1, <1>2, <1>3 DEF Wakers

\* The cancel wakes all of them.
LEMMA CancelWakers ==
  ASSUME IInv, Wakers, NEW c \in Callers, Cancel(c)
  PROVE  Wakers'
<1>1. /\ caller[c].pc = "cancel" /\ cancelled' = TRUE
      /\ UNCHANGED <<state, closed, queue, worker>>
  BY DEF Cancel
<1>2. \A d \in Callers : \/ caller'[d].pc \in {"close", "idle"}
                         \/ caller[d].pc # "parked" /\ caller'[d] = caller[d]
  BY DEF Cancel, Idle, IInv, Shape
<1>3. state = 2
  BY <1>1 DEF Wakers
<1> QED BY <1>1, <1>2, <1>3 DEF Wakers

LEMMA PushSendWakers ==
  ASSUME IInv, Wakers, NEW c \in Callers, PushSend(c)
  PROVE  Wakers'
<1>1. /\ caller[c].pc = "push" /\ Len(queue) < NumberWorker
      /\ UNCHANGED <<state, cancelled, closed, worker>>
  BY DEF PushSend
<1>2. caller'[c].pc = "idle" /\ \A d \in Callers : d # c => caller'[d] = caller[d]
  BY ReturnFacts DEF PushSend
<1>3. Len(queue) \in Nat
  BY LenProperties DEF IInv, Shape
<1>4. \A d \in Callers : caller[d].pc # "parked"
  BY <1>1, <1>3, ActiveIsFinite DEF Wakers
<1>5. /\ (\E d \in Callers : caller[d].pc = "spawn") <=> \E d \in Callers : caller'[d].pc = "spawn"
      /\ (\E d \in Callers : caller[d].pc = "cancel") <=> \E d \in Callers : caller'[d].pc = "cancel"
  BY <1>1, <1>2
<1> QED BY <1>1, <1>2, <1>4, <1>5 DEF Wakers

\* While somebody is parked, a receive leaves the queue full.
LEMMA TakeWakers ==
  ASSUME IInv, Wakers, NEW w \in Workers, Take(w)
  PROVE  Wakers'
<1>1. /\ \A v \in Workers : worker'[v].pc = worker[v].pc \/ worker'[v].pc = "execute"
      /\ UNCHANGED <<state, cancelled, closed>>
  BY DEF Take, IInv, Shape
<1>2. \A d \in Callers : \/ caller'[d] = caller[d]
                         \/ caller[d].pc = "parked" /\ caller'[d].pc = "idle"
  BY TakeFacts
<1>3. (\E d \in Callers : caller[d].pc = "parked") => Len(queue') = Len(queue)
  <2> SUFFICES ASSUME \E d \in Callers : caller[d].pc = "parked" PROVE Len(queue') = Len(queue)
    OBVIOUS
  <2>1. PICK c \in Callers : caller[c].pc = "parked" /\ queue' = Append(Tail(queue), caller[c].task)
    BY DEF Take
  <2>2. queue \in Seq(Tasks) /\ queue # <<>> /\ caller[c].task \in Tasks
    BY <2>1, PoolConstantsOK DEF IInv, Shape, Hands, Take
  <2>3. Tail(queue) \in Seq(Tasks) /\ Len(Tail(queue)) = Len(queue) - 1 /\ Len(queue) \in Nat
    BY <2>2, HeadTailProperties, LenProperties
  <2>4. Len(queue') = Len(Tail(queue)) + 1
    BY <2>1, <2>2, <2>3, AppendProperties
  <2> QED BY <2>3, <2>4
<1>4. /\ (\E d \in Callers : caller[d].pc = "spawn") <=> \E d \in Callers : caller'[d].pc = "spawn"
      /\ (\E d \in Callers : caller[d].pc = "cancel") <=> \E d \in Callers : caller'[d].pc = "cancel"
  BY <1>2
<1>5. \A d \in Callers : caller'[d].pc = "parked" => Len(queue') = NumberWorker
  BY <1>2, <1>3 DEF Wakers
<1>6. \A d \in Callers : caller'[d].pc = "wait" => closed'
  BY <1>1, <1>2 DEF Wakers
<1> QED BY <1>1, <1>4, <1>5, <1>6 DEF Wakers

LEMMA WorkerWakers ==
  ASSUME IInv, Wakers, NEW w \in Workers, Execute(w) \/ Exit(w)
  PROVE  Wakers'
<1>1. /\ \A v \in Workers : worker'[v].pc = worker[v].pc \/ worker'[v].pc \in {"range", "exited"}
      /\ UNCHANGED <<state, cancelled, closed, queue, caller>>
  BY DEF Execute, Exit, IInv, Shape
<1> QED BY <1>1 DEF Wakers

LEMMA NextWakers == IInv /\ Wakers /\ [PoolNext]_poolVars => Wakers'
<1> SUFFICES ASSUME IInv, Wakers, [PoolNext]_poolVars PROVE Wakers'
  OBVIOUS
<1>1. ASSUME NEW c \in Callers,
             Start(c) \/ Stop(c) \/ Continue(c) \/ \E t \in Tasks : Do(c, t)
      PROVE  Wakers'
  BY <1>1, CallWakers, SwapWakers, SpawnWakers, CancelWakers, PushSendWakers DEF Continue
<1>2. ASSUME NEW w \in Workers, Work(w) PROVE Wakers'
  BY <1>2, TakeWakers, WorkerWakers DEF Work
<1>3. CASE UNCHANGED poolVars
  BY <1>3 DEF poolVars, Wakers
<1> QED BY <1>1, <1>2, <1>3 DEF PoolNext

\* A worker who has not ended has something to do while somebody is parked.
LEMMA ParkedFacts ==
  ASSUME IInv, Wakers, NEW c \in Callers, caller[c].pc = "parked"
  PROVE  \/ state = 0
         \/ \E w \in Workers : CanWork(w)
         \/ \E d \in Callers : caller[d].pc = "spawn" \/ caller[d].pc = "cancel"
<1>1. queue # <<>> /\ ~cancelled /\ ~closed
  <2>1. Len(queue) = NumberWorker /\ NumberWorker > 0 /\ NumberWorker \in Nat
    BY ActiveIsFinite DEF Wakers
  <2>2. Len(<<>>) = 0
    BY EmptySeq
  <2>3. queue # <<>>
    BY <2>1, <2>2
  <2> QED BY <2>3 DEF IInv, StopsInOrder
<1>2. CASE state = 2
  BY <1>1, <1>2 DEF Wakers
<1>3. CASE state = 1 /\ \A w \in Workers : worker[w].pc # "none"
  <2>1. PICK w \in Workers : TRUE
    BY PoolConstantsOK
  <2>2. worker[w].pc \in {"range", "execute"}
    BY <1>1, <1>3 DEF IInv, Shape, StopsInOrder, WorkerPCs
  <2> QED BY <1>1, <2>2 DEF CanWork
<1> QED BY <1>2, <1>3 DEF Wakers, IInv, Shape

LEMMA WaitFacts ==
  ASSUME IInv, Wakers, NEW c \in Callers, caller[c].pc = "wait", wg # 0
  PROVE  \E w \in Workers : CanWork(w)
<1>1. closed
  BY DEF Wakers
<1>2. Active # {}
  BY FS_EmptySet DEF IInv, Counted
<1> QED BY <1>1, <1>2 DEF Active, CanWork

-----------------------------------------------------------------------------
(* The pool is a TaskService                                               *)

Pending == Queued \cup Running

Status == [t \in Tasks |-> IF t \in executed THEN "done"
                           ELSE IF t \in Pending THEN "accepted"
                           ELSE "new"]

serviceVars == <<[t \in Tasks |-> IF t \in executed THEN "done"
                                  ELSE IF t \in Queued \cup Running THEN "accepted"
                                  ELSE "new"], ~closed>>

LEMMA InitService == PoolInit => Service!Init
<1> SUFFICES ASSUME PoolInit PROVE Service!Init
  OBVIOUS
<1>1. Queued = {} /\ Running = {} /\ executed = {} /\ ~closed
  BY DEF PoolInit, Queued, Running
<1> QED BY <1>1 DEF Service!Init

\* The steps of the service in terms of the sets of the pool.
LEMMA StutterFacts ==
  ASSUME Pending' = Pending, executed' = executed
  PROVE  Status' = Status
BY DEF Status

LEMMA AcceptFacts ==
  ASSUME NEW t \in Tasks, ~closed, UNCHANGED <<closed, executed>>,
         t \notin Pending \cup executed, Pending' = Pending \cup {t}
  PROVE  Service!Accept(t)
<1>1. Status[t] = "new"
  BY DEF Status
<1>2. Status' = [Status EXCEPT ![t] = "accepted"]
  BY DEF Status
<1> QED BY <1>1, <1>2 DEF Service!Accept, Status, Pending

LEMMA FinishFacts ==
  ASSUME NEW t \in Tasks, UNCHANGED closed, t \in Pending \ executed,
         executed' = executed \cup {t}, Pending' = Pending \ {t}
  PROVE  Service!Finish(t)
<1>1. Status[t] = "accepted"
  BY DEF Status
<1>2. Status' = [Status EXCEPT ![t] = "done"]
  BY DEF Status
<1> QED BY <1>1, <1>2 DEF Service!Finish, Status, Pending

LEMMA QueuedIsElems == Queued = Elems(queue) /\ Queued' = Elems(queue)'
BY DEF Queued, Elems

ServiceStep == Service!Next \/ UNCHANGED <<Status, ~closed>>

\* Outside of the queue and the workers a pool can only shut.
LEMMA FlagsStep ==
  ASSUME Pending' = Pending, executed' = executed, closed' = closed \/ closed' = TRUE
  PROVE  ServiceStep
<1>1. Status' = Status
  BY StutterFacts
<1>2. CASE closed' = closed
  BY <1>1, <1>2 DEF ServiceStep
<1>3. CASE closed' = TRUE
  BY <1>1, <1>3 DEF ServiceStep, Service!Next, Service!Shut, Status, Pending
<1> QED BY <1>2, <1>3

LEMMA CallStep ==
  ASSUME IInv, NEW c \in Callers,
         \/ Start(c) \/ Stop(c) \/ CasStarted(c) \/ CasUnstarted(c) \/ Cancel(c) \/ Close(c)
         \/ Wait(c) \/ PushDone(c) \/ PushPanic(c) \/ PushPark(c) \/ \E t \in Tasks : Do(c, t)
  PROVE  ServiceStep
<1>1. /\ UNCHANGED <<queue, worker, executed>>
      /\ closed' = closed \/ closed' = TRUE
  BY DEF Start, Stop, CasStarted, CasUnstarted, Swap, Cancel, Close, Wait, PushDone, PushPanic,
         PushPark, Do
<1>2. Pending' = Pending
  BY <1>1 DEF Pending, Queued, Running
<1> QED BY <1>1, <1>2, FlagsStep

LEMMA SpawnStep ==
  ASSUME IInv, NEW c \in Callers, Spawn(c)
  PROVE  ServiceStep
<1>1. /\ \A w \in Workers : worker[w].task = Nil /\ worker'[w].task = Nil
      /\ UNCHANGED <<queue, closed, executed>>
  BY DEF Spawn, IInv, StartsOnce, Hands
<1>2. Running = {} /\ Running' = {}
  BY <1>1 DEF Running
<1>3. Pending' = Pending
  BY <1>1, <1>2 DEF Pending, Queued
<1> QED BY <1>1, <1>3, FlagsStep

LEMMA PushSendStep ==
  ASSUME IInv, NEW c \in Callers, PushSend(c)
  PROVE  ServiceStep
<1> DEFINE t == caller[c].task
<1>1. /\ caller[c].pc = "push" /\ ~closed /\ queue' = Append(queue, t)
      /\ UNCHANGED <<closed, worker, executed>>
  BY DEF PushSend
<1>2. /\ t \in Tasks /\ t # Nil /\ t \notin Elems(queue) \cup executed
      /\ \A w \in Workers : worker[w].task # t
  BY <1>1, PoolConstantsOK DEF IInv, Shape, Hands, OnePlace
<1>3. Elems(queue)' = Elems(queue) \cup {t}
  <2>1. queue \in Seq(Tasks) /\ Injective(queue)
    BY DEF IInv, Shape, OnePlace
  <2> QED BY <1>1, <1>2, <2>1, PutIntoQueue DEF Elems
<1>4. Running' = Running /\ t \notin Running
  BY <1>1, <1>2 DEF Running
<1>5. t \notin Pending \cup executed /\ Pending' = Pending \cup {t}
  BY <1>2, <1>3, <1>4, QueuedIsElems DEF Pending
<1>6. PICK u \in Tasks : u = t
  BY <1>2
<1>7. Service!Accept(u)
  BY <1>1, <1>5, <1>6, AcceptFacts
<1> QED BY <1>7 DEF ServiceStep, Service!Next

LEMMA TakeStep ==
  ASSUME IInv, NEW w \in Workers, Take(w)
  PROVE  ServiceStep
<1> DEFINE h == Head(queue)
<1>1. /\ h \in Elems(queue) /\ h \in Tasks /\ h # Nil
      /\ UNCHANGED <<cancelled, closed, executed>>
      /\ worker[w].task = Nil
  BY TakeFacts, PoolConstantsOK DEF IInv, Hands
<1>2. Running' = Running \cup {h}
  <2>1. worker'[w].task = h /\ \A v \in Workers : v # w => worker'[v] = worker[v]
    BY TakeFacts DEF IInv, Shape
  <2> QED BY <1>1, <2>1 DEF Running
<1>3. CASE Elems(queue)' = Elems(queue) \ {h}
  <2>1. Pending' = Pending
    BY <1>1, <1>2, <1>3, QueuedIsElems DEF Pending
  <2> QED BY <1>1, <2>1, FlagsStep
<1>4. ASSUME NEW c \in Callers, caller[c].pc = "parked", caller[c].task \in Tasks,
             caller[c].task \notin Elems(queue),
             Elems(queue)' = (Elems(queue) \ {h}) \cup {caller[c].task}
      PROVE  ServiceStep
  <2> DEFINE t == caller[c].task
  <2>1. t # Nil /\ t \notin executed /\ \A v \in Workers : worker[v].task # t
    BY <1>4, PoolConstantsOK DEF IInv, OnePlace
  <2>2. t \notin Running
    BY <2>1 DEF Running
  <2>3. t \notin Pending \cup executed /\ Pending' = Pending \cup {t}
    BY <1>1, <1>2, <1>4, <2>1, <2>2, QueuedIsElems DEF Pending
  <2>4. ~closed
    BY <1>4 DEF IInv, StopsInOrder
  <2>5. PICK u \in Tasks : u = t
    BY <1>4
  <2>6. Service!Accept(u)
    BY <1>1, <2>3, <2>4, <2>5, AcceptFacts
  <2> QED BY <2>6 DEF ServiceStep, Service!Next
<1> QED BY <1>3, <1>4, TakeFacts

LEMMA ExecuteStep ==
  ASSUME IInv, NEW w \in Workers, Execute(w)
  PROVE  ServiceStep
<1> DEFINE t == worker[w].task
<1>1. /\ worker[w].pc = "execute" /\ executed' = executed \cup {t}
      /\ worker' = [worker EXCEPT ![w] = [pc |-> "range", task |-> Nil]]
      /\ UNCHANGED <<closed, queue>>
  BY DEF Execute
<1>2. /\ t \in Tasks /\ t # Nil /\ t \notin Elems(queue) \cup executed
      /\ \A v \in Workers : v # w => worker[v].task # t
  BY <1>1, PoolConstantsOK DEF IInv, Shape, Hands, OnePlace
<1>3. Running' = Running \ {t} /\ t \in Running
  <2>1. worker'[w].task = Nil /\ \A v \in Workers : v # w => worker'[v] = worker[v]
    BY <1>1 DEF IInv, Shape
  <2> QED BY <1>2, <2>1 DEF Running
<1>4. Queued' = Queued /\ t \notin Queued
  BY <1>1, <1>2 DEF Queued, Elems
<1>5. t \in Pending \ executed /\ Pending' = Pending \ {t}
  BY <1>2, <1>3, <1>4 DEF Pending
<1>6. PICK u \in Tasks : u = t
  BY <1>2
<1>7. Service!Finish(u)
  BY <1>1, <1>5, <1>6, FinishFacts
<1> QED BY <1>7 DEF ServiceStep, Service!Next

LEMMA ExitStep ==
  ASSUME IInv, NEW w \in Workers, Exit(w)
  PROVE  ServiceStep
<1>1. UNCHANGED <<queue, closed, executed>> /\ \A v \in Workers : worker'[v].task = worker[v].task
  BY DEF Exit, IInv, Shape
<1>2. Pending' = Pending
  BY <1>1 DEF Pending, Queued, Running
<1> QED BY <1>1, <1>2, FlagsStep

LEMMA NextSimulates == IInv /\ [PoolNext]_poolVars => ServiceStep
<1> SUFFICES ASSUME IInv, [PoolNext]_poolVars PROVE ServiceStep
  OBVIOUS
<1>1. ASSUME NEW c \in Callers, \/ Start(c) \/ Stop(c) \/ Continue(c)
                                \/ \E t \in Tasks : Do(c, t)
      PROVE  ServiceStep
  BY <1>1, CallStep, SpawnStep, PushSendStep DEF Continue
<1>2. ASSUME NEW w \in Workers, Work(w) PROVE ServiceStep
  BY <1>2, TakeStep, ExecuteStep, ExitStep DEF Work
<1>3. CASE UNCHANGED poolVars
  <2>1. Pending' = Pending
    BY <1>3 DEF poolVars, Pending, Queued, Running
  <2> QED BY <1>3, <2>1, FlagsStep DEF poolVars
<1> QED BY <1>1, <1>2, <1>3 DEF PoolNext

-----------------------------------------------------------------------------
(* The theorems                                                            *)

\* Type correctness of WorkerPool: the buffer of the queue and the counter of the
\* wait group stay within the number of workers.
THEOREM PoolTypeCorrect == PoolSpec => []PoolTypeOK
<1>1. IInv => PoolTypeOK
  BY ActiveIsFinite DEF IInv, Shape, Counted, PoolTypeOK
<1> QED BY <1>1, IInvAlways, PTL

\* wg.Wait in Stop returns only when no worker runs, and no worker ends over a task:
\* for any number of workers, callers and tasks, and any calls of Start and Stop.
THEOREM WaitDoesCoverWork == PoolSpec => []WaitCoversWork
<1>1. IInv => WaitCoversWork
  <2> SUFFICES ASSUME IInv PROVE WaitCoversWork
    OBVIOUS
  <2>1. wg = Cardinality({w \in Workers : worker[w].pc \in {"range", "execute"}})
    BY DEF IInv, Counted, Active
  <2>2. Queued \cap Running = {} /\ (Queued \cup Running) \cap executed = {}
    BY QueuedIsElems DEF IInv, OnePlace, Running
  <2>3. (\E w \in Workers : worker[w].pc = "exited") => closed /\ queue = <<>>
    BY DEF IInv, StopsInOrder
  <2> QED BY <2>1, <2>2, <2>3 DEF WaitCoversWork
<1> QED BY <1>1, IInvAlways, PTL

\* Nobody waits for nobody: for any number of workers and callers, a Stop that waits
\* and a caller that is parked have somebody who goes on and will let them.
THEOREM NobodyIsStuck == PoolSpec => []NobodyStuck
<1>1. IInv /\ Wakers => NobodyStuck
  BY ParkedFacts, WaitFacts DEF NobodyStuck
<1>2. PoolSpec => []Wakers
  BY InitWakers, NextWakers, IInvAlways, PTL DEF PoolSpec
<1> QED BY <1>1, <1>2, IInvAlways, PTL

\* The pool implements TaskService: a task that push has put into the queue is not
\* dropped nor done twice, and none gets in after the close of Stop.
THEOREM PoolIsTaskService == PoolSpec => ServiceSpec
<1>1. IInv /\ [PoolNext]_poolVars => [Service!Next]_serviceVars
  BY NextSimulates DEF ServiceStep, Status, Pending, serviceVars
<1> QED BY <1>1, InitService, IInvAlways, PTL
        DEF PoolSpec, ServiceSpec, Service!Spec, serviceVars
=============================================================================
