--------------------------- MODULE CacheAgingProofs ---------------------------
(***************************************************************************)
(* For every number of instances, requests and replicas, and whatever the  *)
(* configured times are: outdated answers, and tokens signed on them, do   *)
(* not outlive the bounds of CacheAging.                                   *)
(*                                                                         *)
(* Each link of the chain of copies trades life against lag.  An entry of  *)
(* Redis cannot both be old and have long to live; the age of a local      *)
(* entry is bounded by the clean-ups, and its lag by its age; a request    *)
(* adds what it has held the answer for.                                   *)
(***************************************************************************)
EXTENDS CacheAging, TLAPS

RedisLinks ==
  \A n \in Nodes : redis[n] # Nil =>
    /\ redis[n].ttl \in 1..(ExpirationSeconds + Jitter)
    /\ redis[n].lag + redis[n].ttl <= RedisBound

LocalLinks ==
  \A i \in Instances :
    /\ sweep[i] <= CleanWindow
    /\ local[i] # Nil => /\ local[i].age <= LifeWindow + sweep[i]
                         /\ local[i].lag < RedisBound + HoldTime + local[i].age

CallLinks ==
  \A r \in Requests :
    /\ call[r].held <= HoldTime
    /\ call[r].pc = "idle" => call[r] = Idle
    /\ call[r].pc = "rcSet" => call[r].lag <= call[r].held
    /\ call[r].pc = "lcSet" => call[r].lag < RedisBound + call[r].held
    /\ call[r].pc = "answered" => call[r].lag < LocalBound + call[r].held

TokenLink ==
  token # Nil => /\ token.left <= TokenLife
                 /\ token.lag + token.left < LocalBound + HoldTime + TokenLife

Chain == AgingTypeOK /\ RedisLinks /\ LocalLinks /\ CallLinks /\ TokenLink

-----------------------------------------------------------------------------

\* What the assumption says of the times, as the arithmetic needs it.
LEMMA Times ==
  /\ ExpirationSeconds \in Nat /\ ExpirationSeconds >= 1
  /\ Jitter \in Nat /\ LifeWindow \in Nat /\ CleanWindow \in Nat
  /\ HoldTime \in Nat /\ TokenLife \in Nat
  /\ RedisBound \in Nat /\ LocalBound \in Nat
  /\ RedisBound >= HoldTime + 1
  /\ RedisBound >= ExpirationSeconds + Jitter
  /\ LocalBound = RedisBound + HoldTime + LifeWindow + CleanWindow
  BY AgingConstantsOK DEF RedisBound, LocalBound

LEMMA NilIsNoCopy == Nil \notin RedisEntry \cup LocalEntry \cup Token
  BY AgingConstantsOK DEF RedisEntry, LocalEntry, Token, Lag, Fresh, Forever

LEMMA ChainAtFirst == Init => Chain
  BY Times, AgingConstantsOK
     DEF Init, Chain, AgingTypeOK, RedisLinks, LocalLinks, CallLinks, TokenLink, Call, Idle,
         Lag, Fresh

\* The steps of a request.
LEMMA ChainInRequests ==
  ASSUME Chain, NEW r \in Requests, Getter(r) \/ NewToken(r) \/ Return(r)
  PROVE  Chain'
  <1> USE Times, AgingConstantsOK, NilIsNoCopy
  <1> USE DEF Chain, AgingTypeOK, Call, Lag, Fresh, Idle
  <1>1. CASE LocalHit(r)
    BY <1>1
       DEF LocalHit, Take, RedisLinks, LocalLinks, CallLinks, TokenLink,
           RedisEntry, LocalEntry, Token, Forever
  <1>2. CASE RedisHit(r)
    BY <1>2
       DEF RedisHit, Take, RedisLinks, LocalLinks, CallLinks, TokenLink,
           RedisEntry, LocalEntry, Token, Forever
  <1>3. CASE Load(r)
    BY <1>3
       DEF Load, Take, RedisLinks, LocalLinks, CallLinks, TokenLink,
           RedisEntry, LocalEntry, Token, Forever
  <1>4. CASE RcSet(r)
    <2> USE <1>4 DEF RcSet
    <2>1. call' = [call EXCEPT ![r] = [pc |-> "answered", lag |-> call[r].lag,
                                       held |-> call[r].held]]
      BY DEF Goto
    <2>2. CASE UNCHANGED redis
      BY <2>1, <2>2 DEF RedisLinks, LocalLinks, CallLinks, TokenLink
    <2>3. ASSUME NEW d \in RandomExpiration,
                 redis' = [redis EXCEPT ![Master] =
                             [lag |-> call[r].lag, ttl |-> IF d = 0 THEN Forever ELSE d]]
          PROVE  Chain'
      <3>1. d \in 1..(ExpirationSeconds + Jitter)
        BY DEF RandomExpiration
      <3>2. (IF d = 0 THEN Forever ELSE d) = d
        BY <3>1
      <3>3. redis' = [redis EXCEPT ![Master] = [lag |-> call[r].lag, ttl |-> d]]
        BY <2>3, <3>2
      <3>4. [lag |-> call[r].lag, ttl |-> d] \in RedisEntry
        BY <3>1 DEF RedisEntry
      <3>5. call[r].lag + d <= RedisBound
        BY <3>1 DEF CallLinks, RedisBound
      <3>6. AgingTypeOK' /\ RedisLinks'
        BY <2>1, <3>1, <3>3, <3>4, <3>5 DEF RedisLinks
      <3>7. LocalLinks' /\ CallLinks' /\ TokenLink'
        BY <2>1 DEF LocalLinks, CallLinks, TokenLink
      <3> QED
        BY <3>6, <3>7
    <2> QED
      BY <2>2, <2>3
  <1>5. CASE LcSet(r)
    BY <1>5
       DEF LcSet, Goto, RedisLinks, LocalLinks, CallLinks, TokenLink,
           RedisEntry, LocalEntry, Token, Forever
  <1>6. CASE NewToken(r)
    BY <1>6
       DEF NewToken, RedisLinks, LocalLinks, CallLinks, TokenLink,
           RedisEntry, LocalEntry, Token, Forever
  <1>7. CASE Return(r)
    BY <1>7
       DEF Return, RedisLinks, LocalLinks, CallLinks, TokenLink,
           RedisEntry, LocalEntry, Token, Forever
  <1>q. QED
    BY <1>1, <1>2, <1>3, <1>4, <1>5, <1>6, <1>7 DEF Getter

\* The steps of the caches, of the database and of time.
LEMMA ChainOutsideRequests ==
  ASSUME Chain,
         \/ \E n \in Nodes : Replicate(n) \/ RedisDrop(n)
         \/ \E i \in Instances : LocalDrop(i) \/ Sweep(i) \/ Restart(i)
         \/ Commit \/ Tick
  PROVE  Chain'
  <1> USE Times, AgingConstantsOK, NilIsNoCopy
  <1> USE DEF Chain, AgingTypeOK, Lag, Fresh, RedisEntry, LocalEntry, Token, Forever
  <1>1. ASSUME NEW n \in Nodes, Replicate(n) \/ RedisDrop(n)
        PROVE  Chain'
    BY <1>1 DEF Replicate, RedisDrop, Nodes, RedisLinks, LocalLinks, CallLinks, TokenLink
  <1>2. ASSUME NEW i \in Instances, LocalDrop(i) \/ Sweep(i)
        PROVE  Chain'
    BY <1>2 DEF LocalDrop, Sweep, RedisLinks, LocalLinks, CallLinks, TokenLink
  <1>3. ASSUME NEW i \in Instances, Restart(i)
        PROVE  Chain'
    BY <1>3 DEF Restart, RedisLinks, LocalLinks, CallLinks, TokenLink, Call, Idle
  <1>4. CASE Commit
    <2> USE <1>4 DEF Commit, Outdate
    <2>1. redis' \in [Nodes -> RedisEntry \cup {Nil}] /\ RedisLinks'
      BY DEF RedisLinks
    <2>2. /\ local' \in [Instances -> LocalEntry \cup {Nil}]
          /\ sweep' \in [Instances -> Nat]
          /\ LocalLinks'
      BY DEF LocalLinks
    <2>3. call' \in [Requests -> Call] /\ CallLinks'
      BY DEF CallLinks, Call, Idle
    <2>4. token' \in Token \cup {Nil} /\ TokenLink'
      BY DEF TokenLink
    <2> QED
      BY <2>1, <2>2, <2>3, <2>4
  <1>5. CASE Tick
    <2> USE <1>5 DEF Tick, Older
    <2>1. redis' \in [Nodes -> RedisEntry \cup {Nil}] /\ RedisLinks'
      <3>1. ASSUME NEW n \in Nodes, redis[n] # Nil, redis[n].ttl # 1
            PROVE  /\ AgeRedis(redis[n]) = [lag |-> Older(redis[n].lag), ttl |-> redis[n].ttl - 1]
                   /\ AgeRedis(redis[n]) \in RedisEntry
                   /\ redis[n].ttl - 1 \in 1..(ExpirationSeconds + Jitter)
                   /\ Older(redis[n].lag) + (redis[n].ttl - 1) <= RedisBound
        BY <3>1 DEF RedisLinks, AgeRedis
      <3>2. ASSUME NEW n \in Nodes, redis[n] = Nil \/ redis[n].ttl = 1
            PROVE  AgeRedis(redis[n]) = Nil
        BY <3>2 DEF AgeRedis
      <3>3. \A n \in Nodes : AgeRedis(redis[n]) \in RedisEntry \cup {Nil}
        BY <3>1, <3>2
      <3>4. redis' \in [Nodes -> RedisEntry \cup {Nil}]
        BY <3>3
      <3>5. RedisLinks'
        BY <3>1, <3>2 DEF RedisLinks
      <3> QED
        BY <3>4, <3>5
    <2>2. /\ local' \in [Instances -> LocalEntry \cup {Nil}]
          /\ sweep' \in [Instances -> Nat]
          /\ LocalLinks'
      <3>1. ASSUME NEW i \in Instances, local[i] # Nil
            PROVE  /\ AgeLocal(local[i]) = [lag |-> Older(local[i].lag), age |-> local[i].age + 1]
                   /\ AgeLocal(local[i]) \in LocalEntry
                   /\ local[i].age + 1 <= LifeWindow + (sweep[i] + 1)
                   /\ Older(local[i].lag) < RedisBound + HoldTime + (local[i].age + 1)
        BY <3>1 DEF LocalLinks, AgeLocal
      <3>2. ASSUME NEW i \in Instances, local[i] = Nil
            PROVE  AgeLocal(local[i]) = Nil
        BY <3>2 DEF AgeLocal
      <3>3. \A i \in Instances : AgeLocal(local[i]) \in LocalEntry \cup {Nil}
        BY <3>1, <3>2
      <3>4. /\ local' \in [Instances -> LocalEntry \cup {Nil}]
            /\ sweep' \in [Instances -> Nat]
        BY <3>3
      <3>5. \A i \in Instances : sweep'[i] <= CleanWindow
        OBVIOUS
      <3>6. LocalLinks'
        BY <3>1, <3>2, <3>5 DEF LocalLinks
      <3> QED
        BY <3>4, <3>6
    <2>3. call' \in [Requests -> Call] /\ CallLinks'
      <3> USE DEF Call, Idle
      <3>1. ASSUME NEW r \in Requests, call[r] # Idle
            PROVE  /\ AgeCall(call[r]) = [pc |-> call[r].pc, lag |-> Older(call[r].lag),
                                          held |-> call[r].held + 1]
                   /\ AgeCall(call[r]) \in Call
                   /\ call[r].held + 1 <= HoldTime
                   /\ call[r].pc # "idle"
        BY <3>1 DEF CallLinks, AgeCall
      <3>2. ASSUME NEW r \in Requests, call[r] = Idle
            PROVE  AgeCall(call[r]) = Idle
        BY <3>2 DEF AgeCall
      <3>3. \A r \in Requests : AgeCall(call[r]) \in Call
        BY <3>1, <3>2
      <3>4. call' \in [Requests -> Call]
        BY <3>3
      <3>5. CallLinks'
        BY <3>1, <3>2 DEF CallLinks
      <3> QED
        BY <3>4, <3>5
    <2>4. token' \in Token \cup {Nil} /\ TokenLink'
      BY DEF TokenLink, AgeToken
    <2> QED
      BY <2>1, <2>2, <2>3, <2>4
  <1>q. QED
    BY <1>1, <1>2, <1>3, <1>4, <1>5

\* The chain holds together in every reachable state.
LEMMA ChainAlways == Spec => []Chain
  <1>1. Chain /\ [Next]_vars => Chain'
    <2> SUFFICES ASSUME Chain, [Next]_vars PROVE Chain'
      OBVIOUS
    <2>1. CASE Next
      BY <2>1, ChainInRequests, ChainOutsideRequests DEF Next
    <2>2. CASE UNCHANGED vars
      BY <2>2
         DEF vars, Chain, AgingTypeOK, RedisLinks, LocalLinks, CallLinks, TokenLink
    <2> QED
      BY <2>1, <2>2
  <1> QED
    BY ChainAtFirst, <1>1, PTL DEF Spec

-----------------------------------------------------------------------------

\* The types are kept: lags, ages and lives stay whole numbers.
THEOREM AgingTypeCorrect == Spec => []AgingTypeOK
  <1>1. Chain => AgingTypeOK
    BY DEF Chain
  <1> QED
    BY <1>1, ChainAlways, PTL

\* Nothing outdated is kept or answered for longer than the life times of Redis
\* (redis.go:210) and of bigcache (local.go:24-34) add up to, even if every
\* invalidation is lost.
THEOREM AnswersStayRecent == Spec => []AnswersAreRecent
  <1>1. Chain => AnswersAreRecent
    <2> SUFFICES ASSUME Chain PROVE AnswersAreRecent
      OBVIOUS
    <2> USE Times DEF Chain, AgingTypeOK, Lag, Fresh
    <2>1. ASSUME NEW n \in Nodes, redis[n] # Nil
          PROVE  redis[n].lag < RedisBound
      BY <2>1 DEF RedisLinks, RedisEntry, Forever
    <2>2. ASSUME NEW i \in Instances, local[i] # Nil
          PROVE  local[i].lag < LocalBound
      BY <2>2 DEF LocalLinks, LocalEntry
    <2>3. ASSUME NEW r \in Requests
          PROVE  call[r].lag < LocalBound + HoldTime
      BY <2>3 DEF CallLinks, Call, Idle
    <2> QED
      BY <2>1, <2>2, <2>3 DEF AnswersAreRecent
  <1> QED
    BY <1>1, ChainAlways, PTL

\* A session that newTokenPair (impl.go:141-156) opens or carries on although the
\* customer has been deactivated ends within the bound.
THEOREM SessionsDoEnd == Spec => []SessionsEnd
  <1>1. Chain => SessionsEnd
    BY DEF Chain, TokenLink, SessionsEnd
  <1> QED
    BY <1>1, ChainAlways, PTL
=============================================================================
