----------------------------- MODULE CacheProxy -----------------------------
(***************************************************************************)
(* The caching proxies of repo/proxy: JWTAuthRepoCacheImpl (auth.go) and   *)
(* CustomerRepoCacheImpl (account.go), with the caches they use            *)
(* (infra/cache) and the tables behind them (repo), in several instances   *)
(* of the service that share one database and one Redis cluster.           *)
(*                                                                         *)
(* The four getters are one algorithm: local cache, Redis, a Redis mutex   *)
(* ("request coalescing"), Redis again, database, Redis.  The two updaters *)
(* write the database, delete the Redis entry and publish an invalidation  *)
(* that every instance applies to its local cache.  Each Redis, database   *)
(* or local-cache call is a step; requests interleave between them.        *)
(*                                                                         *)
(* Data is abstracted to versions: db[k] counts the changes of the answer  *)
(* the repository would give for cache key k, 0 being "no such customer".  *)
(***************************************************************************)
EXTENDS Integers

CONSTANTS
  Instances,   \* processes of the service, each with its own local cache
  Requests,    \* request goroutines; one is reused once its call returns
  Host,        \* Host[r] is the instance that serves request r
  InfoKeys,    \* "cuspersonalinfo:id", "cusshippinginfo:id" (account.go)
  AuthKeys,    \* "cuscheck:id", "cuscred:email" (auth.go)
  Rewrites,    \* Rewrites[k]: the auth answers an update of k may change
               \* (a new e-mail changes what "cuscred:" keys answer)
  MaxVersion,  \* bound on db[k]: how often an answer changes
  MaxPending,  \* bound on pending[i][k] beyond which Publish is not repeated
  Faults,      \* what the environment may do wrong, a subset of FaultKinds
  Nil          \* redis.Nil / ErrEntryNotFound / an unlocked mutex

Keys == InfoKeys \cup AuthKeys

(***************************************************************************)
(* "redis": a Redis command returns an error; "db": a query does;          *)
(* "lag": a replica that serves reads is behind its master (the client is  *)
(* built with ReadOnly and RouteRandomly); "loss": a published message     *)
(* does not reach a subscriber; "slow": a mutex expires (5 s) while its    *)
(* holder is still working; "crash": an instance dies and restarts;        *)
(* "retry": the reply to a command that took effect is lost, and go-redis  *)
(* sends it again (MaxRetries).                                            *)
(***************************************************************************)
FaultKinds == {"redis", "db", "lag", "loss", "slow", "crash", "retry"}

ASSUME ConstantsOK ==
  /\ Host \in [Requests -> Instances]
  /\ InfoKeys \cap AuthKeys = {}
  /\ Rewrites \in [InfoKeys -> SUBSET AuthKeys]
  /\ MaxVersion \in Nat \ {0}
  /\ MaxPending \in Nat
  /\ Faults \subseteq FaultKinds
  /\ Nil \notin Nat
  /\ Nil \notin Requests
  /\ Nil \notin Keys

VARIABLES
  db,       \* db[k]: version of the repository's answer for k
  rc,       \* rc[k]: the entry of the Redis master, a version or Nil
  replica,  \* replica[k]: the entry of the replica that reads may be sent to
  lc,       \* lc[i][k]: the entry of instance i's local cache
  lock,     \* lock[k]: the request whose token is in "mutex:k", or Nil
  pending,  \* pending[i][k]: invalidations of k published to i, not applied
  newest,   \* history: newest[k] is the newest version rc[k] has had
  call,     \* call[r]: where request r is, for which key, with which value
  late      \* history: the info keys of which an outdated value was stored
            \* after the last invalidation that could remove it

vars == <<db, rc, replica, newest, lc, lock, pending, call, late>>

Version == 0..MaxVersion
Entry == Version \cup {Nil}

\* Control points are named after the call of the source that comes next.
HeldPCs == {"recheck", "lcSetHeld", "dbGet", "rcSet", "unlock"}
UpdatePCs == {"rcDelete", "publish"}
PCs == {"idle", "rcGet", "lcSet", "lock"} \cup HeldPCs \cup UpdatePCs

StorePCs == {"lcSet", "lcSetHeld", "rcSet"}

\* Only a call about to store carries a value; only info keys are updated.
Call == {c \in [pc : PCs, key : Keys \cup {Nil}, val : Entry] :
           /\ c.pc = "idle" <=> c.key = Nil
           /\ c.pc \in UpdatePCs => c.key \in InfoKeys
           /\ c.pc \in StorePCs <=> c.val # Nil}

Idle == [pc |-> "idle", key |-> Nil, val |-> Nil]

TypeOK ==
  /\ db \in [Keys -> Version]
  /\ rc \in [Keys -> Entry]
  /\ replica \in [Keys -> Entry]
  /\ newest \in [Keys -> Version]
  /\ lc \in [Instances -> [Keys -> Entry]]
  /\ lock \in [Keys -> Requests \cup {Nil}]
  /\ pending \in [Instances -> [Keys -> Nat]]
  /\ call \in [Requests -> Call]
  /\ late \subseteq InfoKeys

\* The customer exists already or is still to sign up, some auth keys are of
\* nobody (an e-mail that is not in use), and every cache is cold.
Init ==
  /\ \E v \in {0, 1}, S \in SUBSET AuthKeys :
        db = [k \in Keys |-> IF k \in S THEN 0 ELSE v]
  /\ rc = [k \in Keys |-> Nil]
  /\ replica = rc
  /\ newest = [k \in Keys |-> 0]
  /\ lc = [i \in Instances |-> [k \in Keys |-> Nil]]
  /\ lock = [k \in Keys |-> Nil]
  /\ pending = [i \in Instances |-> [k \in Keys |-> 0]]
  /\ call = [r \in Requests |-> Idle]
  /\ late = {}

-----------------------------------------------------------------------------
(* Helpers                                                                 *)

Goto(r, pc) == call' = [call EXCEPT ![r].pc = pc]
GotoWith(r, pc, v) == call' = [call EXCEPT ![r].pc = pc, ![r].val = v]
Return(r) == call' = [call EXCEPT ![r] = Idle]

\* A read is routed to the master or to a replica.
RedisView(k) == {rc[k], replica[k]}

\* Writes go to the master; without lag the replica follows at once.
WriteRedis(k, v) ==
  /\ rc' = [rc EXCEPT ![k] = v]
  /\ replica' = IF "lag" \in Faults THEN replica ELSE [replica EXCEPT ![k] = v]
  /\ newest' = IF v = Nil \/ v <= newest[k] THEN newest ELSE [newest EXCEPT ![k] = v]

\* Request r runs its critical section: it got the mutex of k and will unlock.
Holds(r, k) == call[r].key = k /\ call[r].pc \in HeldPCs

\* Some update of k still has to make one of the calls in pcs.
UpdateAt(k, pcs) == \E r \in Requests : call[r].key = k /\ call[r].pc \in pcs

\* Nothing that is under way will remove an entry of k stored now.
NoDeleteToCome(k) == ~UpdateAt(k, {"rcDelete"})
NoCleanToCome(i, k) == ~UpdateAt(k, UpdatePCs) /\ pending[i][k] = 0

\* A store of v for k that happens now, with no later invalidation iff final.
NoteStore(k, v, final) ==
  late' = IF k \in InfoKeys /\ v # db[k] /\ final THEN late \cup {k} ELSE late

-----------------------------------------------------------------------------
(* The getters: CheckCustomer, GetCustomerCredentials,                     *)
(* GetCustomerPersonalInfo, GetCustomerShippingInfo                        *)

\* lc.Get finds nothing (a hit is returned at once and changes no state).
Get(r, k) ==
  /\ call[r] = Idle
  /\ lc[Host[r]][k] = Nil
  /\ call' = [call EXCEPT ![r] = [pc |-> "rcGet", key |-> k, val |-> Nil]]
  /\ UNCHANGED <<db, rc, replica, newest, lc, lock, pending, late>>

\* rc.Get: a hit goes on to hit, redis.Nil or an error to miss.
Lookup(r, from, hit, miss) ==
  /\ call[r].pc = from
  /\ \/ \E v \in RedisView(call[r].key) \ {Nil} : GotoWith(r, hit, v)
     \/ /\ Nil \in RedisView(call[r].key) \/ "redis" \in Faults
        /\ Goto(r, miss)
  /\ UNCHANGED <<db, rc, replica, newest, lc, lock, pending, late>>

RcGet(r) == Lookup(r, "rcGet", "lcSet", "lock")

\* The second look, with the mutex held.
RecheckSkipped(r) ==    \* mutant: the entry is not looked up again
  /\ call[r].pc = "recheck"
  /\ Goto(r, "dbGet")
  /\ UNCHANGED <<db, rc, replica, newest, lc, lock, pending, late>>

Recheck(r) == Lookup(r, "recheck", "lcSetHeld", "dbGet")

\* lc.Set of a value found in Redis; with the mutex held, Unlock is next.  Its error
\* is only logged; it leaves no entry, as LcExpire may at once.
LcSet(r) ==
  LET i == Host[r]
      k == call[r].key
      v == call[r].val
  IN  /\ \/ call[r].pc = "lcSet" /\ Return(r)
         \/ call[r].pc = "lcSetHeld" /\ GotoWith(r, "unlock", Nil)
      /\ lc' = [lc EXCEPT ![i][k] = v]
      /\ NoteStore(k, v, NoCleanToCome(i, k))
      /\ UNCHANGED <<db, rc, replica, newest, lock, pending>>

\* mutex.Lock: the token is set if there is none; an error, which may follow
\* a SET that took place, or a mutex that stays taken for all the tries of
\* redsync, makes the getter return.
Lock(r) ==
  LET k == call[r].key
  IN  /\ call[r].pc = "lock"
      /\ \/ /\ lock[k] = Nil
            /\ lock' = [lock EXCEPT ![k] = r]
            /\ Goto(r, "recheck")
         \/ /\ lock[k] # Nil \/ "redis" \in Faults
            /\ Return(r)
            /\ UNCHANGED lock
         \/ /\ lock[k] = Nil /\ "redis" \in Faults
            /\ Return(r)
            /\ lock' = [lock EXCEPT ![k] = r]
      /\ UNCHANGED <<db, rc, replica, newest, lc, pending, late>>

DbGetEarlyUnlock(r) ==    \* mutant: the mutex is released before rc.Set
  LET k == call[r].key
  IN  /\ call[r].pc = "dbGet"
      /\ GotoWith(r, "rcSet", db[k])
      /\ lock' = [lock EXCEPT ![k] = Nil]
      /\ UNCHANGED <<db, rc, replica, newest, lc, pending, late>>

DbGetCachesMissing(r) ==    \* mutant: ErrCustomerNotFound is not returned
  /\ call[r].pc = "dbGet"
  /\ GotoWith(r, "rcSet", db[call[r].key])
  /\ UNCHANGED <<db, rc, replica, newest, lc, lock, pending, late>>

\* The repository query.  That a customer does not exist is an answer for the
\* auth getters, and an error, never cached, for the info getters.
DbGet(r) ==
  LET k == call[r].key
  IN  /\ call[r].pc = "dbGet"
      /\ \/ /\ k \in AuthKeys \/ db[k] > 0
            /\ GotoWith(r, "rcSet", db[k])
         \/ /\ (k \in InfoKeys /\ db[k] = 0) \/ "db" \in Faults
            /\ Goto(r, "unlock")
      /\ UNCHANGED <<db, rc, replica, newest, lc, lock, pending, late>>

\* rc.Set of the value just read; an error is only logged.
RcSet(r) ==
  LET k == call[r].key
      v == call[r].val
  IN  /\ call[r].pc = "rcSet"
      /\ \/ WriteRedis(k, v) /\ NoteStore(k, v, NoDeleteToCome(k))
         \/ "redis" \in Faults /\ UNCHANGED <<rc, replica, newest, late>>
      /\ GotoWith(r, "unlock", Nil)
      /\ UNCHANGED <<db, lc, lock, pending>>

\* The deferred mutex.Unlock: the token is deleted only if it is still the
\* one this request set; its error is ignored.
Unlock(r) ==
  LET k == call[r].key
  IN  /\ call[r].pc = "unlock"
      /\ \/ lock' = IF lock[k] = r THEN [lock EXCEPT ![k] = Nil] ELSE lock
         \/ "redis" \in Faults /\ UNCHANGED lock
      /\ Return(r)
      /\ UNCHANGED <<db, rc, replica, newest, lc, pending, late>>

-----------------------------------------------------------------------------
(* CreateCustomer and the two updaters                                     *)

\* One INSERT, which changes what the keys in S answer besides the info keys;
\* neither cache is told.  A duplicate changes nothing.
CreateCustomer(r) ==
  /\ call[r] = Idle
  /\ \A k \in Keys : db[k] = 0
  /\ \E S \in SUBSET AuthKeys :
        db' = [k \in Keys |-> IF k \in InfoKeys \cup S THEN 1 ELSE 0]
  /\ UNCHANGED <<rc, replica, newest, lc, lock, pending, call, late>>

UpdateWithoutDelete(r, k) ==    \* mutant: rc.Delete is left out
  /\ call[r] = Idle
  /\ db[k] \in 1..(MaxVersion - 1)
  /\ db' = [db EXCEPT ![k] = @ + 1]
  /\ call' = [call EXCEPT ![r] = [pc |-> "publish", key |-> k, val |-> Nil]]
  /\ UNCHANGED <<rc, replica, newest, lc, lock, pending, late>>

\* The UPDATE of the row commits.  The row exists: the routes take the id
\* from a token, tokens follow the INSERT, and no code deletes rows.  After
\* an error the updater returns; the commit may have taken place.
Update(r, k) ==
  /\ call[r] = Idle
  /\ db[k] \in 1..(MaxVersion - 1)
  /\ \E S \in SUBSET {a \in Rewrites[k] : db[a] < MaxVersion} :
        db' = [a \in Keys |-> IF a \in S \cup {k} THEN db[a] + 1 ELSE db[a]]
  /\ \/ call' = [call EXCEPT ![r] = [pc |-> "rcDelete", key |-> k, val |-> Nil]]
     \/ "db" \in Faults /\ UNCHANGED call
  /\ UNCHANGED <<rc, replica, newest, lc, lock, pending, late>>

\* rc.Delete: after an error, which may follow a deletion that took place,
\* the updater returns without publishing.
RcDelete(r) ==
  /\ call[r].pc = "rcDelete"
  /\ \/ WriteRedis(call[r].key, Nil) /\ Goto(r, "publish")
     \/ /\ "redis" \in Faults
        /\ Return(r)
        /\ \/ WriteRedis(call[r].key, Nil)
           \/ UNCHANGED <<rc, replica, newest>>
  /\ UNCHANGED <<db, lc, lock, pending, late>>

\* rc.Publish on InvalidationTopic: Redis hands the message to whoever is
\* subscribed then, and keeps no copy; after an error it may have no receiver.
Publish(r) ==
  LET k == call[r].key
  IN  /\ call[r].pc = "publish"
      /\ \E reached \in SUBSET Instances :
            /\ \/ reached = Instances
               \/ reached = {} /\ "redis" \in Faults
               \/ "loss" \in Faults
            /\ pending' = [i \in Instances |-> IF i \in reached
                             THEN [pending[i] EXCEPT ![k] = @ + 1]
                             ELSE pending[i]]
      /\ Return(r)
      /\ UNCHANGED <<db, rc, replica, newest, lc, lock, late>>

\* The command that r waits for takes effect, and will once more.  Not listed are
\* commands that a repetition changes nothing about: reads, and the script of
\* Unlock.  (Lock finds its own token there, and redsync takes that back, as
\* LockExpire may.)
Resend(r) ==
  LET k == call[r].key
  IN  /\ "retry" \in Faults
      /\ \/ /\ call[r].pc = "rcSet"
            /\ WriteRedis(k, call[r].val)
            /\ NoteStore(k, call[r].val, NoDeleteToCome(k))
            /\ UNCHANGED <<lock, pending>>
         \/ /\ call[r].pc = "rcDelete"
            /\ WriteRedis(k, Nil)
            /\ UNCHANGED <<lock, pending, late>>
         \/ /\ call[r].pc = "publish"
            /\ \A i \in Instances : pending[i][k] < MaxPending
            /\ \E reached \in SUBSET Instances :
                  /\ reached = Instances \/ "loss" \in Faults
                  /\ pending' = [i \in Instances |-> IF i \in reached
                                   THEN [pending[i] EXCEPT ![k] = @ + 1]
                                   ELSE pending[i]]
            /\ UNCHANGED <<rc, replica, newest, lock, late>>
         \/ /\ call[r].pc = "lock" /\ lock[k] = Nil
            /\ lock' = [lock EXCEPT ![k] = r]
            /\ UNCHANGED <<rc, replica, newest, pending, late>>
      /\ UNCHANGED <<db, lc, call>>

-----------------------------------------------------------------------------
(* What happens beside the requests                                        *)

CleanAgain(i, k) ==    \* mutant: a task is run without being taken off
  /\ lc' = [lc EXCEPT ![i][k] = Nil]
  /\ pending' = [pending EXCEPT ![i][k] = @ - 1]
  /\ UNCHANGED <<db, rc, replica, newest, lock, call, late>>

\* A cleanTask of the LocalCacheCleaner: lc.Delete(k).  The workers of the
\* pool take the tasks in any order.
Clean(i, k) ==
  /\ pending[i][k] > 0
  /\ lc' = [lc EXCEPT ![i][k] = Nil]
  /\ pending' = [pending EXCEPT ![i][k] = @ - 1]
  /\ UNCHANGED <<db, rc, replica, newest, lock, call, late>>

\* The TTL of the Redis entry runs out.
RcExpire(k) ==
  /\ rc[k] # Nil
  /\ WriteRedis(k, Nil)
  /\ UNCHANGED <<db, lc, lock, pending, call, late>>

LcExpireNever(i, k) ==    \* mutant: the local cache has no life window
  /\ FALSE
  /\ UNCHANGED <<vars, i, k>>

\* bigcache drops the entry: its life window is over.
LcExpire(i, k) ==
  /\ lc[i][k] # Nil
  /\ lc' = [lc EXCEPT ![i][k] = Nil]
  /\ UNCHANGED <<db, rc, replica, newest, lock, pending, call, late>>

LockExpireNever(k) ==    \* mutant: the mutex is created without an expiry
  /\ FALSE
  /\ UNCHANGED <<vars, k>>

\* The 5 s of the mutex run out: its holder is gone, or it is slow.
LockExpire(k) ==
  /\ lock[k] # Nil
  /\ ~Holds(lock[k], k) \/ "slow" \in Faults
  /\ lock' = [lock EXCEPT ![k] = Nil]
  /\ UNCHANGED <<db, rc, replica, newest, lc, pending, call, late>>

\* The replica catches up with the master.
Replicate(k) ==
  /\ replica[k] # rc[k]
  /\ replica' = [replica EXCEPT ![k] = rc[k]]
  /\ UNCHANGED <<db, rc, newest, lc, lock, pending, call, late>>

\* Instance i dies with its memory, its subscription and its requests.
Crash(i) ==
  /\ "crash" \in Faults
  /\ lc' = [lc EXCEPT ![i] = [k \in Keys |-> Nil]]
  /\ pending' = [pending EXCEPT ![i] = [k \in Keys |-> 0]]
  /\ call' = [r \in Requests |-> IF Host[r] = i THEN Idle ELSE call[r]]
  /\ UNCHANGED <<db, rc, replica, newest, lock, late>>

-----------------------------------------------------------------------------
(* The specification                                                       *)

\* A call that has begun goes on.
Step(r) == \/ RcGet(r) \/ LcSet(r) \/ Lock(r) \/ Recheck(r) \/ DbGet(r)
           \/ RcSet(r) \/ Unlock(r) \/ RcDelete(r) \/ Publish(r)

Next ==
  \/ \E r \in Requests : \/ Step(r) \/ Resend(r)
                         \/ CreateCustomer(r)
                         \/ \E k \in Keys : Get(r, k)
                         \/ \E k \in InfoKeys : Update(r, k)
  \/ \E k \in Keys : RcExpire(k) \/ LockExpire(k) \/ Replicate(k)
  \/ \E i \in Instances : \/ Crash(i)
                          \/ \E k \in Keys : Clean(i, k) \/ LcExpire(i, k)

Spec == Init /\ [][Next]_vars

\* Go runs every goroutine, repeats of a command come to an end, Redis and bigcache
\* drop what has expired and a replica catches up.  No client has to send a request.
Fairness ==
  /\ \A r \in Requests : WF_vars(Step(r))
  /\ \A k \in Keys : /\ WF_vars(RcExpire(k))
                     /\ WF_vars(LockExpire(k))
                     /\ WF_vars(Replicate(k))
  /\ \A i \in Instances, k \in Keys : WF_vars(Clean(i, k)) /\ WF_vars(LcExpire(i, k))

FairSpec == Spec /\ Fairness

-----------------------------------------------------------------------------
(* Properties                                                              *)

\* The versions of the answer for k that some cache or request holds.
Copies(k) ==
  ({rc[k], replica[k]} \cup {lc[i][k] : i \in Instances}
     \cup {call[r].val : r \in {q \in Requests : call[q].key = k}}) \ {Nil}

\* At most one request, of all instances, is between its query of the database
\* for a key and the end of its rc.Set.
LoadsExclude ==
  \A r, q \in Requests :
    r # q /\ {call[r].pc, call[q].pc} \subseteq {"dbGet", "rcSet"} =>
      call[r].key # call[q].key

\* Request coalescing (README.md:9, the mutex of every getter): of all the
\* requests of all the instances that miss a key, one at a time loads it from
\* the database and stores it, and it loads it only while Redis has no entry;
\* those that waited for the mutex find the entry it left.
CoalescedLoad ==
  /\ LoadsExclude
  /\ \A r \in Requests : call[r].pc = "dbGet" => rc[call[r].key] = Nil

\* The value a getter is about to store in Redis (rc.Set) is at least as new as
\* every copy of that key in Redis, in a local cache or in another request:
\* the mutex, held from the query to the rc.Set, keeps a slow fill from
\* overwriting a newer one, whatever else fails.
FillsNeverRegress ==
  \A r \in Requests :
    call[r].pc = "rcSet" => \A c \in Copies(call[r].key) : c <= call[r].val

\* What Redis answers for a key never goes back: an entry is at least as new as
\* every entry of that key before it, also of those that an updater has deleted or
\* that have expired.  A getter that was slow between its query and its rc.Set
\* cannot bring an older answer back behind a later fill.
RedisNeverRegresses ==
  \A k \in Keys : rc[k] # Nil => newest[k] <= rc[k]

\* Delete, publish and clean reach every outdated copy: an entry of Redis that
\* is older than the database has an updater that will still delete it, and an
\* entry of a local cache one that will publish or a clean task that waits,
\* unless a getter stored an outdated value behind the last invalidation
\* (the race the comment at repo/proxy/account.go:51 admits).
StaleIsDoomed ==
  \A k \in InfoKeys \ late :
    /\ rc[k] \notin {Nil, db[k]} => UpdateAt(k, {"rcDelete"})
    /\ \A i \in Instances :
         lc[i][k] \notin {Nil, db[k]} => UpdateAt(k, UpdatePCs) \/ pending[i][k] > 0

\* A version that left circulation never comes back, and "no such customer" is
\* never cached for the info keys: every store into a cache copies what the
\* database answers at that moment or what another cache holds.
Circulation == INSTANCE CopyCirculation
                 WITH store <- db, copies <- [k \in Keys |-> Copies(k)]
CirculationSpec == Circulation!Spec

\* Whatever is lost, raced or crashed, the expiry of the entries (rc.Set,
\* NewLocalCache) and of the mutex heals it: once the database stays as it is,
\* every copy of every answer is at last the database's.
EventuallyConsistent == <>[](\A k \in Keys : Copies(k) \subseteq {db[k]})

\* A mutex is released even if its holder fails to unlock it or dies, so that
\* no key is locked for good (defer mutex.Unlock, redsync.WithExpiry).
LocksAreFreed == \A k \in Keys : lock[k] # Nil ~> lock[k] = Nil

\* What the comment at repo/proxy/account.go:51 says of a getter that stores
\* without the mutex ("may set stale data here unless we acquire lock"): what a
\* getter puts into Redis with the mutex held, as at account.go:74, is not an
\* outdated answer that no updater will delete.
LockedFillIsFresh ==
  [][\A k \in Keys : rc'[k] \notin {rc[k], Nil} =>
       rc'[k] = db[k] \/ UpdateAt(k, {"rcDelete"})]_vars
=============================================================================
