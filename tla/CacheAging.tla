------------------------------ MODULE CacheAging ------------------------------
(***************************************************************************)
(* How long an outdated answer lives: the chain of copies that CacheProxy  *)
(* describes, from the database through Redis and a local cache to a token *)
(* of service/auth, with the times after which each link lets go of it.    *)
(*                                                                         *)
(* One cache key.  Time passes in ticks of a second.  A copy carries its   *)
(* lag: the ticks since the database would last have given that answer.    *)
(* Invalidations may remove a copy at any time (Drop), and may be lost for *)
(* good; the mutex is left out, so that fills overlap in every way.        *)
(***************************************************************************)
EXTENDS Integers

CONSTANTS
  Instances,          \* processes of the service, each with its local cache
  Requests,           \* request goroutines
  Host,               \* Host[r] is the instance that serves request r
  Replicas,           \* the Redis nodes besides the master; reads go anywhere
  ExpirationSeconds,  \* RedisConfig.ExpirationSeconds
  Jitter,             \* rand.Int63n(10) adds 0..9 seconds to it
  LifeWindow,         \* LocalCacheConfig.ExpirationSeconds
  CleanWindow,        \* the period of bigcache's clean-up, 5 minutes
  TokenLife,          \* the life of the longer-lived token of a pair
  HoldTime,           \* the longest a request keeps an answer until it has
                      \* stored it or signed a token; no code bounds it
  Master, Nil

Nodes == Replicas \cup {Master}

\* An entry with the expiration 0 stays for good (go-redis sends no EX), hence
\* the minimum.
ASSUME AgingConstantsOK ==
  /\ Host \in [Requests -> Instances]
  /\ ExpirationSeconds \in Nat \ {0}
  /\ {Jitter, LifeWindow, CleanWindow, HoldTime, TokenLife} \subseteq Nat
  /\ Master \notin Replicas
  /\ Nil \notin [lag : Int, ttl : Int] \cup [lag : Int, age : Int] \cup [lag : Int, left : Int]

VARIABLES
  redis,   \* redis[n]: the entry of node n, with the ticks it has to live
  local,   \* local[i]: the entry of instance i's local cache, with its age
  sweep,   \* sweep[i]: the ticks since the last clean-up of that cache
  call,    \* call[r]: what request r does with the answer it holds, and how
           \* long it has held it
  token    \* some token signed on the strength of an answer, with the ticks
           \* it has to live, or Nil

vars == <<redis, local, sweep, call, token>>

\* A copy of what the database answers now.
Fresh == -1
Lag == Nat \cup {Fresh}
Forever == -1

RedisEntry == [lag : Lag, ttl : Nat \cup {Forever}]
LocalEntry == [lag : Lag, age : Nat]
Token == [lag : Lag, left : Nat]

\* "rcSet" and "lcSet": the answer is about to be stored; "answered": the getter
\* has returned it.
Call == [pc : {"idle", "rcSet", "lcSet", "answered"}, lag : Lag, held : Nat]

Idle == [pc |-> "idle", lag |-> Fresh, held |-> 0]

AgingTypeOK ==
  /\ redis \in [Nodes -> RedisEntry \cup {Nil}]
  /\ local \in [Instances -> LocalEntry \cup {Nil}]
  /\ sweep \in [Instances -> Nat]
  /\ call \in [Requests -> Call]
  /\ token \in Token \cup {Nil}

\* Every cache is cold; the instances were started at different times.
Init ==
  /\ redis = [n \in Nodes |-> Nil]
  /\ local = [i \in Instances |-> Nil]
  /\ sweep \in [Instances -> 0..CleanWindow]
  /\ call = [r \in Requests |-> Idle]
  /\ token = Nil

-----------------------------------------------------------------------------
(* A getter                                                                *)

\* The request takes an answer of this lag into its hands.
Take(r, pc, lag) ==
  /\ call[r] = Idle
  /\ call' = [call EXCEPT ![r] = [pc |-> pc, lag |-> lag, held |-> 0]]

Goto(r, pc) ==
  call' = [call EXCEPT ![r] = [pc |-> pc, lag |-> call[r].lag, held |-> call[r].held]]

LocalHitRenews(r) ==    \* mutant: a hit starts the life window again
  /\ local[Host[r]] # Nil
  /\ Take(r, "answered", local[Host[r]].lag)
  /\ local' = [local EXCEPT ![Host[r]].age = 0]
  /\ UNCHANGED <<redis, sweep, token>>

\* lc.Get finds the entry, which bigcache gives away until it is cleaned up.
LocalHit(r) ==
  /\ local[Host[r]] # Nil
  /\ Take(r, "answered", local[Host[r]].lag)
  /\ UNCHANGED <<redis, local, sweep, token>>

\* rc.Get finds the entry of one of the nodes.
RedisHit(r) ==
  /\ \E n \in Nodes : redis[n] # Nil /\ Take(r, "lcSet", redis[n].lag)
  /\ UNCHANGED <<redis, local, sweep, token>>

\* Neither cache helped: the query.
Load(r) ==
  /\ Take(r, "rcSet", Fresh)
  /\ UNCHANGED <<redis, local, sweep, token>>

\* getRandomExpiration
RandomExpiration == ExpirationSeconds..(ExpirationSeconds + Jitter)

\* rc.Set; its error is only logged.
RcSet(r) ==
  /\ call[r].pc = "rcSet"
  /\ \/ \E d \in RandomExpiration :
          redis' = [redis EXCEPT ![Master] =
                      [lag |-> call[r].lag, ttl |-> IF d = 0 THEN Forever ELSE d]]
     \/ UNCHANGED redis
  /\ Goto(r, "answered")
  /\ UNCHANGED <<local, sweep, token>>

\* lc.Set of what Redis had; its error is only logged.
LcSet(r) ==
  /\ call[r].pc = "lcSet"
  /\ \/ local' = [local EXCEPT ![Host[r]] = [lag |-> call[r].lag, age |-> 0]]
     \/ UNCHANGED local
  /\ Goto(r, "answered")
  /\ UNCHANGED <<redis, sweep, token>>

-----------------------------------------------------------------------------
(* What the answer is for                                                  *)

NewTokenUnasked(r) ==    \* mutant: a refresh signs what the old token says
  /\ call[r].pc = "answered"
  /\ token' = [lag |-> IF token = Nil THEN call[r].lag ELSE token.lag, left |-> TokenLife]
  /\ call' = [call EXCEPT ![r] = Idle]
  /\ UNCHANGED <<redis, local, sweep>>

\* newTokenPair, for the customer the answer is about.  Of a pair the token that
\* lives longer is kept, and of all pairs ever signed one is watched.
NewToken(r) ==
  /\ call[r].pc = "answered"
  /\ token' = [lag |-> call[r].lag, left |-> TokenLife]
  /\ call' = [call EXCEPT ![r] = Idle]
  /\ UNCHANGED <<redis, local, sweep>>

\* The answer is only read, or the request fails.
Return(r) ==
  /\ call[r].pc = "answered"
  /\ call' = [call EXCEPT ![r] = Idle]
  /\ UNCHANGED <<redis, local, sweep, token>>

-----------------------------------------------------------------------------
(* What happens beside the requests                                        *)

\* A transaction changes the answer: copies that were fresh begin to lag.
Outdate(c) == IF c # Nil /\ c.lag = Fresh THEN [c EXCEPT !.lag = 0] ELSE c

Commit ==
  /\ redis' = [n \in Nodes |-> Outdate(redis[n])]
  /\ local' = [i \in Instances |-> Outdate(local[i])]
  /\ call' = [r \in Requests |-> IF call[r] = Idle THEN Idle ELSE Outdate(call[r])]
  /\ token' = Outdate(token)
  /\ UNCHANGED sweep

\* The replica catches up with the master.
Replicate(n) ==
  /\ redis' = [redis EXCEPT ![n] = redis[Master]]
  /\ UNCHANGED <<local, sweep, call, token>>

\* An entry is deleted: by an updater, a clean task, bigcache's own look at its
\* oldest entry, or for want of memory.
RedisDrop(n) ==
  /\ redis' = [redis EXCEPT ![n] = Nil]
  /\ UNCHANGED <<local, sweep, call, token>>

LocalDrop(i) ==
  /\ local' = [local EXCEPT ![i] = Nil]
  /\ UNCHANGED <<redis, sweep, call, token>>

\* bigcache's clean-up, which its ticker starts each CleanWindow.
Sweep(i) ==
  /\ sweep[i] = CleanWindow
  /\ sweep' = [sweep EXCEPT ![i] = 0]
  /\ local' = IF local[i] # Nil /\ local[i].age > LifeWindow
              THEN [local EXCEPT ![i] = Nil] ELSE local
  /\ UNCHANGED <<redis, call, token>>

\* The instance dies and is started again.
Restart(i) ==
  /\ local' = [local EXCEPT ![i] = Nil]
  /\ sweep' = [sweep EXCEPT ![i] = 0]
  /\ call' = [r \in Requests |-> IF Host[r] = i THEN Idle ELSE call[r]]
  /\ UNCHANGED <<redis, token>>

\* A second passes; clean-ups are on time, requests hold nothing for longer.
Older(lag) == IF lag = Fresh THEN Fresh ELSE lag + 1

AgeRedis(e) ==
  IF e = Nil \/ e.ttl = 1 THEN Nil
  ELSE [lag |-> Older(e.lag), ttl |-> IF e.ttl = Forever THEN Forever ELSE e.ttl - 1]

AgeLocal(e) == IF e = Nil THEN Nil ELSE [lag |-> Older(e.lag), age |-> e.age + 1]

AgeCall(c) ==
  IF c = Idle THEN Idle ELSE [pc |-> c.pc, lag |-> Older(c.lag), held |-> c.held + 1]

AgeTokenUnchecked(t) ==    \* mutant: exp is not looked at
  IF t = Nil THEN Nil ELSE [lag |-> Older(t.lag), left |-> t.left - 1]

AgeToken(t) ==
  IF t = Nil \/ t.left <= 1 THEN Nil ELSE [lag |-> Older(t.lag), left |-> t.left - 1]

Tick ==
  /\ \A r \in Requests : call[r].held < HoldTime
  /\ \A i \in Instances : sweep[i] < CleanWindow
  /\ redis' = [n \in Nodes |-> AgeRedis(redis[n])]
  /\ local' = [i \in Instances |-> AgeLocal(local[i])]
  /\ sweep' = [i \in Instances |-> sweep[i] + 1]
  /\ call' = [r \in Requests |-> AgeCall(call[r])]
  /\ token' = AgeToken(token)

-----------------------------------------------------------------------------

Getter(r) == LocalHit(r) \/ RedisHit(r) \/ Load(r) \/ RcSet(r) \/ LcSet(r)

Next ==
  \/ \E r \in Requests : Getter(r) \/ NewToken(r) \/ Return(r)
  \/ \E n \in Nodes : Replicate(n) \/ RedisDrop(n)
  \/ \E i \in Instances : LocalDrop(i) \/ Sweep(i) \/ Restart(i)
  \/ Commit \/ Tick

Spec == Init /\ [][Next]_vars

-----------------------------------------------------------------------------
(* Properties                                                              *)

\* What Redis holds is outdated for less than this: it was stored up to HoldTime
\* after the query, and lives ExpirationSeconds and the jitter.
RedisBound == HoldTime + ExpirationSeconds + Jitter

\* What a local cache holds: a request took it from Redis, held it, and bigcache
\* keeps it for LifeWindow and until the next clean-up.
LocalBound == RedisBound + HoldTime + LifeWindow + CleanWindow

\* No getter answers with, and no cache holds, what has not been true for longer than
\* the life times of both caches allow, with the period of bigcache's clean-up
\* (local.go:26) and the jitter (redis.go:210) on top, even if every
\* invalidation is lost and requests race in any way.
AnswersAreRecent ==
  /\ \A n \in Nodes : redis[n] # Nil => redis[n].lag < RedisBound
  /\ \A i \in Instances : local[i] # Nil => local[i].lag < LocalBound
  /\ \A r \in Requests : call[r].lag < LocalBound + HoldTime

\* A token signed for a customer who has been deactivated since, or whose answer
\* was outdated already, has expired before the caches can hide a change and a
\* token lives: RefreshToken asks the caches again each time (impl.go:127-138),
\* and the answer they give keeps its age.
SessionsEnd ==
  token # Nil => token.lag + token.left < LocalBound + HoldTime + TokenLife
=============================================================================
