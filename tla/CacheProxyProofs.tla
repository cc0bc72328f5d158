-------------------------- MODULE CacheProxyProofs --------------------------
(***************************************************************************)
(* Proofs about CacheProxy, for any number of instances, requests and keys *)
(* and any bound on the versions.  Each theorem assumes away no more than  *)
(* the faults under which its property fails.                              *)
(***************************************************************************)
EXTENDS CacheProxy, TLAPS

-----------------------------------------------------------------------------
(* Types                                                                   *)

LEMMA InitType == Init => TypeOK
BY ConstantsOK DEF Init, TypeOK, Idle, Call, PCs, UpdatePCs, StorePCs, HeldPCs,
                   Entry, Version, Keys

LEMMA IdleType == Idle \in Call
BY ConstantsOK DEF Idle, Call, PCs, UpdatePCs, StorePCs, HeldPCs, Entry, Version, Keys

\* A call that goes on without a value, or with one to store.
LEMMA GotoType ==
  ASSUME TypeOK, NEW r \in Requests, call[r].pc # "idle", NEW pc \in PCs \ {"idle"},
         pc \in UpdatePCs => call[r].key \in InfoKeys,
         pc \in StorePCs <=> call[r].val # Nil,
         Goto(r, pc)
  PROVE  call' \in [Requests -> Call]
<1>1. [call[r] EXCEPT !.pc = pc] \in Call
  BY DEF TypeOK, Call
<1>2. call' = [call EXCEPT ![r] = [call[r] EXCEPT !.pc = pc]]
  BY DEF TypeOK, Goto
<1> QED BY <1>1, <1>2 DEF TypeOK

LEMMA GotoWithType ==
  ASSUME TypeOK, NEW r \in Requests, call[r].pc # "idle", NEW pc \in PCs \ {"idle"},
         NEW v \in Entry, pc \notin UpdatePCs, pc \in StorePCs <=> v # Nil,
         GotoWith(r, pc, v)
  PROVE  call' \in [Requests -> Call]
<1>1. [call[r] EXCEPT !.pc = pc, !.val = v] \in Call
  BY DEF TypeOK, Call
<1>2. call' = [call EXCEPT ![r] = [call[r] EXCEPT !.pc = pc, !.val = v]]
  BY DEF TypeOK, GotoWith
<1> QED BY <1>1, <1>2 DEF TypeOK

LEMMA ReturnType ==
  ASSUME TypeOK, NEW r \in Requests, Return(r)
  PROVE  call' \in [Requests -> Call]
BY IdleType DEF TypeOK, Return

\* A call that is not idle has a key, and none but a storing one a value.
LEMMA CallFacts ==
  ASSUME TypeOK, NEW r \in Requests
  PROVE  /\ call[r].pc # "idle" => call[r].key \in Keys
         /\ call[r].pc \in UpdatePCs => call[r].key \in InfoKeys
         /\ call[r].pc \in StorePCs => call[r].val \in Version
         /\ call[r].pc \notin StorePCs => call[r].val = Nil
         /\ call[r].key \in Keys \cup {Nil}
         /\ call[r].val \in Entry
BY DEF TypeOK, Call, Entry

\* The part of TypeOK about what WriteRedis changes.
Stored == /\ rc \in [Keys -> Entry] /\ replica \in [Keys -> Entry]
          /\ newest \in [Keys -> Version]

LEMMA WriteRedisType ==
  ASSUME TypeOK, NEW k \in Keys, NEW v \in Entry, WriteRedis(k, v)
  PROVE  Stored'
BY ConstantsOK DEF Stored, TypeOK, WriteRedis, Entry, Version

LEMMA LookupType ==
  ASSUME TypeOK, NEW r \in Requests, NEW from \in {"rcGet", "recheck"},
         NEW hit \in {"lcSet", "lcSetHeld"}, NEW miss \in {"lock", "dbGet"},
         Lookup(r, from, hit, miss)
  PROVE  TypeOK'
<1>1. call[r].pc = from /\ call[r].key \in Keys /\ call[r].val = Nil
  BY CallFacts DEF Lookup, StorePCs
<1>2. RedisView(call[r].key) \subseteq Entry
  BY <1>1 DEF RedisView, TypeOK
<1>3. /\ hit \in PCs \ {"idle"} /\ hit \notin UpdatePCs /\ hit \in StorePCs
      /\ miss \in PCs \ {"idle"} /\ miss \notin UpdatePCs /\ miss \notin StorePCs
  BY DEF PCs, HeldPCs, UpdatePCs, StorePCs
<1>4. call' \in [Requests -> Call]
  <2>1. CASE \E v \in RedisView(call[r].key) \ {Nil} : GotoWith(r, hit, v)
    BY <1>1, <1>2, <1>3, <2>1, GotoWithType
  <2>2. CASE Goto(r, miss)
    BY <1>1, <1>3, <2>2, GotoType
  <2> QED BY <2>1, <2>2 DEF Lookup
<1> QED BY <1>4 DEF Lookup, TypeOK

LEMMA StepType ==
  ASSUME TypeOK, NEW r \in Requests, Step(r)
  PROVE  TypeOK'
<1> USE CallFacts
<1>1. CASE RcGet(r)
  BY <1>1, LookupType DEF RcGet
<1>2. CASE LcSet(r)
  <2>1. call[r].key \in Keys /\ call[r].val \in Entry /\ Host[r] \in Instances
    BY <1>2, ConstantsOK DEF LcSet
  <2>2. call' \in [Requests -> Call]
    <3>1. CASE Return(r)
      BY <3>1, ReturnType
    <3>2. CASE call[r].pc = "lcSetHeld" /\ GotoWith(r, "unlock", Nil)
      BY <3>2, GotoWithType DEF PCs, HeldPCs, UpdatePCs, StorePCs, Entry
    <3> QED BY <1>2, <3>1, <3>2 DEF LcSet
  <2>3. lc' \in [Instances -> [Keys -> Entry]]
    BY <1>2, <2>1 DEF LcSet, TypeOK
  <2> QED BY <1>2, <2>1, <2>2, <2>3 DEF LcSet, NoteStore, TypeOK
<1>3. CASE Lock(r)
  <2>1. call[r].key \in Keys /\ call[r].val = Nil
    BY <1>3 DEF Lock, StorePCs
  <2>2. call' \in [Requests -> Call]
    <3>1. CASE Goto(r, "recheck")
      BY <1>3, <2>1, <3>1, GotoType DEF Lock, PCs, HeldPCs, UpdatePCs, StorePCs
    <3>2. CASE Return(r)
      BY <3>2, ReturnType
    <3> QED BY <1>3, <3>1, <3>2 DEF Lock
  <2> QED BY <1>3, <2>1, <2>2 DEF Lock, TypeOK
<1>4. CASE Recheck(r)
  BY <1>4, LookupType DEF Recheck
<1>5. CASE DbGet(r)
  <2>1. call[r].key \in Keys /\ call[r].val = Nil
    BY <1>5 DEF DbGet, StorePCs
  <2>2. db[call[r].key] \in Entry \ {Nil}
    BY <2>1, ConstantsOK DEF TypeOK, Entry, Version
  <2>3. call' \in [Requests -> Call]
    <3>1. CASE GotoWith(r, "rcSet", db[call[r].key])
      BY <1>5, <2>2, <3>1, GotoWithType DEF DbGet, PCs, HeldPCs, UpdatePCs, StorePCs
    <3>2. CASE Goto(r, "unlock")
      BY <1>5, <2>1, <3>2, GotoType DEF DbGet, PCs, HeldPCs, UpdatePCs, StorePCs
    <3> QED BY <1>5, <3>1, <3>2 DEF DbGet
  <2> QED BY <1>5, <2>3 DEF DbGet, TypeOK
<1>6. CASE RcSet(r)
  <2>1. call[r].key \in Keys /\ call[r].val \in Entry
    BY <1>6 DEF RcSet
  <2>2. call' \in [Requests -> Call]
    BY <1>6, GotoWithType DEF RcSet, PCs, HeldPCs, UpdatePCs, StorePCs, Entry
  <2>3. Stored' /\ late' \subseteq InfoKeys
    BY <1>6, <2>1, WriteRedisType DEF RcSet, NoteStore, Stored, TypeOK
  <2> QED BY <1>6, <2>2, <2>3 DEF RcSet, Stored, TypeOK
<1>7. CASE Unlock(r)
  BY <1>7, ReturnType DEF Unlock, TypeOK
<1>8. CASE RcDelete(r)
  <2>1. call[r].key \in InfoKeys /\ call[r].key \in Keys /\ call[r].val = Nil /\ Nil \in Entry
    BY <1>8 DEF RcDelete, UpdatePCs, StorePCs, Entry
  <2>2. call' \in [Requests -> Call]
    <3>1. CASE Goto(r, "publish")
      BY <1>8, <2>1, <3>1, GotoType DEF RcDelete, PCs, HeldPCs, UpdatePCs, StorePCs
    <3>2. CASE Return(r)
      BY <3>2, ReturnType
    <3> QED BY <1>8, <3>1, <3>2 DEF RcDelete
  <2>3. Stored'
    BY <1>8, <2>1, WriteRedisType DEF RcDelete, Stored, TypeOK
  <2> QED BY <1>8, <2>2, <2>3 DEF RcDelete, Stored, TypeOK
<1>9. CASE Publish(r)
  <2>1. pending' \in [Instances -> [Keys -> Nat]]
    BY <1>9 DEF Publish, TypeOK
  <2> QED BY <1>9, <2>1, ReturnType DEF Publish, TypeOK
<1> QED BY <1>1, <1>2, <1>3, <1>4, <1>5, <1>6, <1>7, <1>8, <1>9 DEF Step

\* A repeated command leaves the calls alone, and changes what it changed before.
LEMMA ResendEffect ==
  ASSUME TypeOK, NEW r \in Requests, Resend(r)
  PROVE  /\ UNCHANGED <<db, lc, call>> /\ "retry" \in Faults
         /\ TypeOK'
         /\ \/ UNCHANGED <<rc, replica, newest>>
            \/ WriteRedis(call[r].key, Nil)
            \/ /\ call[r].pc = "rcSet" /\ WriteRedis(call[r].key, call[r].val)
               /\ NoteStore(call[r].key, call[r].val, NoDeleteToCome(call[r].key))
         /\ late \subseteq late'
         /\ \A i \in Instances, k \in Keys : pending'[i][k] >= pending[i][k]
         /\ lock' = lock \/ (lock[call[r].key] = Nil /\ lock' = [lock EXCEPT ![call[r].key] = r])
         /\ call[r].key \in Keys
<1> USE CallFacts
<1>1. CASE /\ call[r].pc = "rcSet"
           /\ WriteRedis(call[r].key, call[r].val)
           /\ NoteStore(call[r].key, call[r].val, NoDeleteToCome(call[r].key))
           /\ UNCHANGED <<lock, pending>>
  <2>1. Stored'
    BY <1>1, WriteRedisType
  <2>2. late' \subseteq InfoKeys /\ late \subseteq late'
    BY <1>1 DEF NoteStore, TypeOK
  <2> QED BY <1>1, <2>1, <2>2 DEF Resend, Stored, TypeOK
<1>2. CASE /\ call[r].pc = "rcDelete"
           /\ WriteRedis(call[r].key, Nil)
           /\ UNCHANGED <<lock, pending, late>>
  <2>1. Stored'
    BY <1>2, WriteRedisType DEF Entry
  <2> QED BY <1>2, <2>1 DEF Resend, Stored, TypeOK
<1>3. ASSUME call[r].pc = "publish", UNCHANGED <<rc, replica, newest, lock, late>>,
             NEW reached \in SUBSET Instances,
             pending' = [i \in Instances |-> IF i \in reached
                          THEN [pending[i] EXCEPT ![call[r].key] = @ + 1]
                          ELSE pending[i]]
      PROVE  /\ pending' \in [Instances -> [Keys -> Nat]]
             /\ \A i \in Instances, k \in Keys : pending'[i][k] >= pending[i][k]
  BY <1>3 DEF TypeOK
<1>4. CASE /\ call[r].pc = "publish" /\ UNCHANGED <<rc, replica, newest, lock, late>>
           /\ \E reached \in SUBSET Instances :
                 pending' = [i \in Instances |-> IF i \in reached
                              THEN [pending[i] EXCEPT ![call[r].key] = @ + 1]
                              ELSE pending[i]]
  BY <1>3, <1>4 DEF Resend, TypeOK
<1>5. CASE /\ call[r].pc = "lock" /\ lock[call[r].key] = Nil
           /\ lock' = [lock EXCEPT ![call[r].key] = r]
           /\ UNCHANGED <<rc, replica, newest, pending, late>>
  BY <1>5 DEF Resend, TypeOK
<1> QED BY <1>1, <1>2, <1>4, <1>5 DEF Resend

LEMMA CreateType ==
  ASSUME TypeOK, NEW r \in Requests, CreateCustomer(r)
  PROVE  TypeOK'
BY ConstantsOK DEF CreateCustomer, TypeOK, Version

LEMMA UpdateType ==
  ASSUME TypeOK, NEW r \in Requests, NEW k \in InfoKeys, Update(r, k)
  PROVE  TypeOK'
<1>1. [pc |-> "rcDelete", key |-> k, val |-> Nil] \in Call
  BY ConstantsOK DEF Call, PCs, HeldPCs, UpdatePCs, StorePCs, Entry, Keys
<1>2. db' \in [Keys -> Version]
  <2>1. k \in Keys /\ Rewrites[k] \subseteq Keys
    BY ConstantsOK DEF Keys
  <2> QED BY <2>1, ConstantsOK DEF Update, TypeOK, Version
<1> QED BY <1>1, <1>2 DEF Update, TypeOK

LEMMA NextType == TypeOK /\ [Next]_vars => TypeOK'
<1> SUFFICES ASSUME TypeOK, [Next]_vars PROVE TypeOK'
  OBVIOUS
<1>1. CASE UNCHANGED vars
  BY <1>1 DEF vars, TypeOK
<1>2. CASE \E r \in Requests : Step(r)
  BY <1>2, StepType
<1>3. CASE \E r \in Requests : CreateCustomer(r)
  BY <1>3, CreateType
<1>4. CASE \E r \in Requests, k \in Keys : Get(r, k)
  <2>1. PICK r \in Requests, k \in Keys : Get(r, k)
    BY <1>4
  <2>2. [pc |-> "rcGet", key |-> k, val |-> Nil] \in Call
    BY ConstantsOK DEF Call, PCs, HeldPCs, UpdatePCs, StorePCs, Entry
  <2> QED BY <2>1, <2>2 DEF Get, TypeOK
<1>5. CASE \E r \in Requests, k \in InfoKeys : Update(r, k)
  BY <1>5, UpdateType
<1>6. CASE \E k \in Keys : RcExpire(k) \/ LockExpire(k) \/ Replicate(k)
  <2>1. PICK k \in Keys : RcExpire(k) \/ LockExpire(k) \/ Replicate(k)
    BY <1>6
  <2>2. CASE RcExpire(k)
    BY <2>2, WriteRedisType DEF RcExpire, Stored, TypeOK, Entry
  <2>3. CASE LockExpire(k)
    BY <2>3 DEF LockExpire, TypeOK
  <2>4. CASE Replicate(k)
    BY <2>4 DEF Replicate, TypeOK
  <2> QED BY <2>1, <2>2, <2>3, <2>4
<1>7. CASE \E i \in Instances : Crash(i)
  BY <1>7, IdleType DEF Crash, TypeOK, Entry
<1>8. CASE \E i \in Instances, k \in Keys : Clean(i, k) \/ LcExpire(i, k)
  <2>1. PICK i \in Instances, k \in Keys : Clean(i, k) \/ LcExpire(i, k)
    BY <1>8
  <2>2. lc' \in [Instances -> [Keys -> Entry]]
    <3>1. lc' = [lc EXCEPT ![i] = [lc[i] EXCEPT ![k] = Nil]]
      BY <2>1 DEF Clean, LcExpire, TypeOK
    <3>2. [lc[i] EXCEPT ![k] = Nil] \in [Keys -> Entry]
      BY DEF TypeOK, Entry
    <3> QED BY <3>1, <3>2 DEF TypeOK
  <2>3. pending' \in [Instances -> [Keys -> Nat]]
    <3>1. pending[i][k] \in Nat /\ (Clean(i, k) => pending[i][k] > 0)
      BY DEF Clean, TypeOK
    <3>2. Clean(i, k) => pending[i][k] - 1 \in Nat
      BY <3>1
    <3>3. pending \in [Instances -> [Keys -> Nat]]
      BY DEF TypeOK
    <3>4. CASE Clean(i, k)
      <4>1. pending' = [pending EXCEPT ![i] = [pending[i] EXCEPT ![k] = pending[i][k] - 1]]
        BY <3>3, <3>4 DEF Clean
      <4>2. [pending[i] EXCEPT ![k] = pending[i][k] - 1] \in [Keys -> Nat]
        BY <3>2, <3>3, <3>4
      <4> QED BY <3>3, <4>1, <4>2
    <3>5. CASE LcExpire(i, k)
      BY <3>3, <3>5 DEF LcExpire
    <3> QED BY <2>1, <3>4, <3>5
  <2> QED BY <2>1, <2>2, <2>3 DEF Clean, LcExpire, TypeOK
<1>9. CASE \E r \in Requests : Resend(r)
  BY <1>9, ResendEffect
<1> QED BY <1>1, <1>2, <1>3, <1>4, <1>5, <1>6, <1>7, <1>8, <1>9 DEF Next

\* The variables keep their types: in particular no clean task is taken off an
\* empty queue, and only a call about to store carries a value.
THEOREM TypeCorrect == Spec => []TypeOK
BY InitType, NextType, PTL DEF Spec

-----------------------------------------------------------------------------
(* What a step does to the calls                                           *)

LEMMA GotoEffect ==
  ASSUME TypeOK, NEW r \in Requests, NEW pc, Goto(r, pc)
  PROVE  /\ call'[r].pc = pc /\ call'[r].key = call[r].key /\ call'[r].val = call[r].val
         /\ \A q \in Requests \ {r} : call'[q] = call[q]
BY DEF TypeOK, Call, Goto

LEMMA GotoWithEffect ==
  ASSUME TypeOK, NEW r \in Requests, NEW pc, NEW v, GotoWith(r, pc, v)
  PROVE  /\ call'[r].pc = pc /\ call'[r].key = call[r].key /\ call'[r].val = v
         /\ \A q \in Requests \ {r} : call'[q] = call[q]
BY DEF TypeOK, Call, GotoWith

LEMMA ReturnEffect ==
  ASSUME TypeOK, NEW r \in Requests, Return(r)
  PROVE  /\ call'[r].pc = "idle" /\ call'[r].key = Nil /\ call'[r].val = Nil
         /\ \A q \in Requests \ {r} : call'[q] = call[q]
BY DEF TypeOK, Return, Idle

LEMMA DropEffect ==
  ASSUME TypeOK, NEW j \in Instances, NEW h \in Keys, Clean(j, h) \/ LcExpire(j, h)
  PROVE  /\ UNCHANGED <<db, rc, replica, newest, lock, call, late>>
         /\ \A i \in Instances, k \in Keys :
              \/ lc'[i][k] = Nil
              \/ lc'[i][k] = lc[i][k] /\ pending'[i][k] = pending[i][k]
<1>1. /\ lc \in [Instances -> [Keys -> Entry]]
      /\ pending \in [Instances -> [Keys -> Nat]]
  BY DEF TypeOK
<1>2. CASE Clean(j, h)
  BY <1>1, <1>2 DEF Clean
<1>3. CASE LcExpire(j, h)
  BY <1>1, <1>3 DEF LcExpire
<1> QED BY <1>2, <1>3

LEMMA CrashEffect ==
  ASSUME TypeOK, NEW i \in Instances, Crash(i), NEW q \in Requests
  PROVE  \/ call'[q] = call[q]
         \/ call'[q].pc = "idle" /\ call'[q].key = Nil /\ call'[q].val = Nil
BY DEF TypeOK, Crash, Idle

\* A step of r leaves the other calls alone; r returns or goes on with its key.
LEMMA StepEffect ==
  ASSUME TypeOK, NEW r \in Requests, Step(r)
  PROVE  /\ \A q \in Requests \ {r} : call'[q] = call[q]
         /\ \/ call'[r].pc = "idle" /\ call'[r].key = Nil /\ call'[r].val = Nil
            \/ call'[r].key = call[r].key
         /\ call[r].pc # "idle" /\ call[r].key \in Keys
         /\ db' = db
<1> USE GotoEffect, GotoWithEffect, ReturnEffect
<1>1. CASE RcGet(r) BY <1>1, CallFacts DEF RcGet, Lookup
<1>2. CASE LcSet(r) BY <1>2, CallFacts DEF LcSet
<1>3. CASE Lock(r) BY <1>3, CallFacts DEF Lock
<1>4. CASE Recheck(r) BY <1>4, CallFacts DEF Recheck, Lookup
<1>5. CASE DbGet(r) BY <1>5, CallFacts DEF DbGet
<1>6. CASE RcSet(r) BY <1>6, CallFacts DEF RcSet
<1>7. CASE Unlock(r) BY <1>7, CallFacts DEF Unlock
<1>8. CASE RcDelete(r) BY <1>8, CallFacts DEF RcDelete
<1>9. CASE Publish(r) BY <1>9, CallFacts DEF Publish
<1> QED BY <1>1, <1>2, <1>3, <1>4, <1>5, <1>6, <1>7, <1>8, <1>9 DEF Step

-----------------------------------------------------------------------------
(* The mutex: only a request whose token is in Redis is between Lock and   *)
(* Unlock, if no mutex expires under its holder.                           *)

Mutex == \A r \in Requests : call[r].pc \in HeldPCs => lock[call[r].key] = r

LEMMA MutexInit == Init => Mutex
BY DEF Init, Mutex, Idle, HeldPCs

LEMMA MutexStep ==
  ASSUME TypeOK, Mutex, NEW r \in Requests, Step(r)
  PROVE  Mutex'
<1> SUFFICES ASSUME NEW q \in Requests, call'[q].pc \in HeldPCs
             PROVE  lock'[call'[q].key] = q
  BY DEF Mutex
<1> USE CallFacts, StepEffect DEF Mutex, HeldPCs
<1>1. CASE RcGet(r)
  BY <1>1, GotoEffect, GotoWithEffect DEF RcGet, Lookup
<1>2. CASE LcSet(r)
  BY <1>2, GotoWithEffect, ReturnEffect DEF LcSet
<1>3. CASE Lock(r)
  <2>1. call[r].key \in Keys /\ lock \in [Keys -> Requests \cup {Nil}] /\ Nil \notin Requests
    BY ConstantsOK DEF TypeOK
  <2>2. CASE q = r
    BY <1>3, <2>1, <2>2, GotoEffect, ReturnEffect DEF Lock
  <2>3. CASE q # r
    <3>1. call[q] = call'[q] /\ lock[call[q].key] = q /\ call[q].key \in Keys
      BY <2>3
    <3>2. CASE call[q].key = call[r].key
      BY <1>3, <2>1, <3>1, <3>2 DEF Lock
    <3>3. CASE call[q].key # call[r].key
      BY <1>3, <2>1, <3>1, <3>3 DEF Lock
    <3> QED BY <3>2, <3>3
  <2> QED BY <2>2, <2>3
<1>4. CASE Recheck(r)
  BY <1>4, GotoEffect, GotoWithEffect DEF Recheck, Lookup
<1>5. CASE DbGet(r)
  BY <1>5, GotoEffect, GotoWithEffect DEF DbGet
<1>6. CASE RcSet(r)
  BY <1>6, GotoWithEffect DEF RcSet
<1>7. CASE Unlock(r)
  <2>1. q # r /\ call[q] = call'[q] /\ lock[call[q].key] = q
    BY <1>7, ReturnEffect DEF Unlock
  <2> QED BY <1>7, <2>1 DEF Unlock, TypeOK
<1>8. CASE RcDelete(r)
  BY <1>8, GotoEffect, ReturnEffect DEF RcDelete
<1>9. CASE Publish(r)
  BY <1>9, ReturnEffect DEF Publish
<1> QED BY <1>1, <1>2, <1>3, <1>4, <1>5, <1>6, <1>7, <1>8, <1>9 DEF Step

LEMMA MutexNext ==
  ASSUME TypeOK, Mutex, "slow" \notin Faults, [Next]_vars
  PROVE  Mutex'
<1>0. call \in [Requests -> Call]
  BY DEF TypeOK
<1>1. CASE \E r \in Requests : Step(r)
  BY <1>1, MutexStep
<1>2. CASE \E r \in Requests : CreateCustomer(r)
  BY <1>2 DEF CreateCustomer, Mutex
<1>3. CASE \E r \in Requests, k \in Keys : Get(r, k)
  BY <1>0, <1>3 DEF Get, Mutex, HeldPCs
<1>4. CASE \E r \in Requests, k \in InfoKeys : Update(r, k)
  <2>1. PICK r \in Requests, k \in InfoKeys : Update(r, k)
    BY <1>4
  <2>2. lock' = lock /\ \A q \in Requests : call'[q] = call[q] \/ call'[q].pc = "rcDelete"
    BY <1>0, <2>1 DEF Update
  <2> QED BY <2>2 DEF Mutex, HeldPCs
<1>5. CASE \E k \in Keys : RcExpire(k) \/ Replicate(k)
  BY <1>5 DEF RcExpire, Replicate, Mutex
<1>6. ASSUME NEW k \in Keys, LockExpire(k) PROVE Mutex'
  <2> SUFFICES ASSUME NEW q \in Requests, call[q].pc \in HeldPCs
               PROVE  lock'[call[q].key] = q
    BY <1>6 DEF Mutex, LockExpire
  <2>1. lock[call[q].key] = q /\ call[q].key \in Keys
    BY CallFacts DEF Mutex, HeldPCs
  <2>2. call[q].key # k
    BY <1>6, <2>1 DEF LockExpire, Holds
  <2> QED BY <1>6, <2>1, <2>2 DEF LockExpire, TypeOK
<1>7. CASE \E i \in Instances : Crash(i)
  BY <1>7, CrashEffect DEF Crash, Mutex, HeldPCs
<1>8. CASE \E i \in Instances, k \in Keys : Clean(i, k) \/ LcExpire(i, k)
  BY <1>8 DEF Clean, LcExpire, Mutex
<1>9. CASE UNCHANGED vars
  BY <1>9 DEF vars, Mutex
<1>10. ASSUME NEW r \in Requests, Resend(r) PROVE Mutex'
  <2> SUFFICES ASSUME NEW q \in Requests, call[q].pc \in HeldPCs
               PROVE  lock'[call[q].key] = q
    BY <1>10, ResendEffect DEF Mutex
  <2>1. lock[call[q].key] = q /\ call[q].key \in Keys /\ q # Nil
    BY CallFacts, ConstantsOK DEF Mutex, HeldPCs
  <2> QED BY <1>10, <2>1, ResendEffect DEF TypeOK
<1> QED BY <1>1, <1>2, <1>3, <1>4, <1>5, <1>6, <1>7, <1>8, <1>9, <1>10 DEF Next

LEMMA MutexExcludes == Mutex => LoadsExclude
BY DEF Mutex, LoadsExclude, HeldPCs

\* If no mutex expires under its holder, whatever else fails, at most one
\* request of all the instances is between its query for a key and the end of
\* its rc.Set: its token is in Redis from Lock to Unlock (Mutex).
THEOREM LoadersExclude ==
  ASSUME "slow" \notin Faults
  PROVE  Spec => []LoadsExclude
<1>1. TypeOK /\ Mutex /\ [Next]_vars => TypeOK' /\ Mutex'
  BY MutexNext, NextType
<1> QED BY <1>1, InitType, MutexInit, MutexExcludes, PTL DEF Spec

-----------------------------------------------------------------------------
(* Copies: a step copies a copy, drops some, or loads from the database    *)

\* r loads the answer for k.
Loads(r, k) ==
  /\ call[r].pc = "dbGet" /\ call[r].key = k
  /\ k \in AuthKeys \/ db[k] > 0
  /\ call'[r].pc = "rcSet" /\ call'[r].key = k /\ call'[r].val = db[k]
  /\ \A q \in Requests \ {r} : call'[q] = call[q]
  /\ UNCHANGED <<db, rc, replica, lc, lock>>

LEMMA CopiesSame ==
  ASSUME NEW k \in Keys, UNCHANGED <<rc, replica, lc>>,
         \A q \in Requests : \/ call'[q].key = call[q].key /\ call'[q].val = call[q].val
                             \/ call[q].val = Nil /\ call'[q].val = Nil
  PROVE  Copies(k)' = Copies(k)
BY Zenon DEF Copies

LEMMA CopiesShrink ==
  ASSUME NEW k \in Keys,
         rc'[k] \in Copies(k) \cup {Nil}, replica'[k] \in Copies(k) \cup {Nil},
         \A i \in Instances : lc'[i][k] \in Copies(k) \cup {Nil},
         \A q \in Requests : call'[q].key = k => call'[q].val \in Copies(k) \cup {Nil}
  PROVE  Copies(k)' \subseteq Copies(k)
<1> SUFFICES ASSUME NEW c \in Copies(k)' PROVE c \in Copies(k)
  OBVIOUS
<1>1. /\ c # Nil
      /\ \/ c = rc'[k] \/ c = replica'[k]
         \/ \E i \in Instances : c = lc'[i][k]
         \/ \E q \in Requests : call'[q].key = k /\ c = call'[q].val
  BY DEF Copies
<1> QED BY <1>1

LEMMA CopiesMember ==
  ASSUME NEW k \in Keys
  PROVE  /\ rc[k] \in Copies(k) \cup {Nil}
         /\ replica[k] \in Copies(k) \cup {Nil}
         /\ \A i \in Instances : lc[i][k] \in Copies(k) \cup {Nil}
         /\ \A q \in Requests : call[q].key = k => call[q].val \in Copies(k) \cup {Nil}
BY DEF Copies

LEMMA CopiesLoaded ==
  ASSUME TypeOK, NEW k \in Keys, NEW r \in Requests, Loads(r, k), call[r].val = Nil
  PROVE  /\ Copies(k)' = Copies(k) \cup {db[k]}
         /\ \A j \in Keys \ {k} : Copies(j)' = Copies(j)
<1>1. db[k] # Nil
  BY ConstantsOK DEF TypeOK, Version
<1>2. ASSUME NEW c PROVE c \in Copies(k)' <=> c \in Copies(k) \cup {db[k]}
  <2>1. c \in Copies(k)' <=>
          /\ c # Nil
          /\ \/ c = rc[k] \/ c = replica[k]
             \/ \E i \in Instances : c = lc[i][k]
             \/ \E q \in Requests : call'[q].key = k /\ c = call'[q].val
    BY DEF Copies, Loads
  <2>2. c \in Copies(k) <=>
          /\ c # Nil
          /\ \/ c = rc[k] \/ c = replica[k]
             \/ \E i \in Instances : c = lc[i][k]
             \/ \E q \in Requests : call[q].key = k /\ c = call[q].val
    BY DEF Copies
  <2> QED BY <1>1, <2>1, <2>2 DEF Loads
<1>3. ASSUME NEW j \in Keys \ {k} PROVE Copies(j)' = Copies(j)
  <2>1. \A q \in Requests : call'[q].key = j <=> call[q].key = j
    BY DEF Loads
  <2>2. \A q \in Requests : call[q].key = j => call'[q].val = call[q].val
    BY DEF Loads
  <2> QED BY <2>1, <2>2 DEF Copies, Loads
<1> QED BY <1>2, <1>3

\* With respect to the copies there are three kinds of steps.
CopiesKept == /\ db' = db
              /\ \A k \in Keys : Copies(k)' \subseteq Copies(k)
Commits(S) == /\ S \subseteq Keys
              /\ db' = [k \in Keys |-> IF k \in S THEN db[k] + 1 ELSE db[k]]
              /\ \A k \in Keys : Copies(k)' = Copies(k)

LEMMA StepCopies ==
  ASSUME TypeOK, NEW r \in Requests, Step(r)
  PROVE  CopiesKept \/ \E k \in Keys : Loads(r, k) /\ call[r].val = Nil
<1> DEFINE k == call[r].key
<1>1. /\ k \in Keys /\ db' = db /\ call[r].pc # "idle"
      /\ \A q \in Requests \ {r} : call'[q] = call[q]
      /\ call'[r].key = k \/ call'[r].val = Nil
  BY StepEffect
<1>2. ASSUME UNCHANGED <<rc, replica, lc>>, call'[r].val \in Copies(k) \cup {Nil},
             call'[r].key # Nil => call'[r].key = k
      PROVE  CopiesKept
  <2> SUFFICES ASSUME NEW j \in Keys PROVE Copies(j)' \subseteq Copies(j)
    BY <1>1 DEF CopiesKept
  <2>1. j # Nil
    BY ConstantsOK
  <2>2. ASSUME NEW q \in Requests, call'[q].key = j
        PROVE  call'[q].val \in Copies(j) \cup {Nil}
    BY <1>1, <1>2, <2>1, <2>2, CopiesMember
  <2> QED BY <1>2, <2>2, CopiesMember, CopiesShrink
<1>3. call'[r].key # Nil => call'[r].key = k
  BY StepEffect
<1>4. ASSUME NEW from, NEW hit, NEW miss, Lookup(r, from, hit, miss),
             call[r].pc \notin StorePCs
      PROVE  CopiesKept
  <2>1. call[r].val = Nil
    BY <1>4, CallFacts
  <2>2. RedisView(k) \subseteq Copies(k) \cup {Nil}
    BY <1>1, CopiesMember DEF RedisView
  <2>3. call'[r].val \in Copies(k) \cup {Nil}
    <3>1. CASE Goto(r, miss)
      BY <2>1, <3>1, GotoEffect
    <3>2. CASE \E v \in RedisView(k) \ {Nil} : GotoWith(r, hit, v)
      BY <2>2, <3>2, GotoWithEffect
    <3> QED BY <1>4, <3>1, <3>2 DEF Lookup
  <2> QED BY <1>2, <1>3, <1>4, <2>3 DEF Lookup
<1>5. CASE RcGet(r)
  BY <1>4, <1>5 DEF RcGet, Lookup, StorePCs
<1>6. CASE LcSet(r)
  <2> SUFFICES ASSUME NEW j \in Keys PROVE Copies(j)' \subseteq Copies(j)
    BY <1>1 DEF CopiesKept
  <2>1. call'[r].val = Nil
    BY <1>6, GotoWithEffect, ReturnEffect DEF LcSet
  <2>2. \A i \in Instances : lc'[i][j] = lc[i][j] \/ (j = k /\ lc'[i][j] = call[r].val)
    BY <1>1, <1>6 DEF LcSet, TypeOK
  <2>3. \A i \in Instances : lc'[i][j] \in Copies(j) \cup {Nil}
    BY <2>2, CopiesMember
  <2>4. \A q \in Requests : call'[q].key = j => call'[q].val \in Copies(j) \cup {Nil}
    BY <1>1, <2>1, CopiesMember
  <2> QED BY <1>6, <2>3, <2>4, CopiesMember, CopiesShrink DEF LcSet
<1>7. CASE Lock(r)
  <2>1. call'[r].val = Nil
    BY <1>7, CallFacts, GotoEffect, ReturnEffect DEF Lock, StorePCs
  <2> QED BY <1>2, <1>3, <1>7, <2>1 DEF Lock
<1>8. CASE Recheck(r)
  BY <1>4, <1>8 DEF Recheck, Lookup, StorePCs
<1>9. CASE DbGet(r)
  <2>1. call[r].val = Nil /\ call[r].pc = "dbGet"
    BY <1>9, CallFacts DEF DbGet, StorePCs
  <2>2. CASE Goto(r, "unlock")
    BY <1>2, <1>3, <1>9, <2>1, <2>2, GotoEffect DEF DbGet
  <2>3. CASE (k \in AuthKeys \/ db[k] > 0) /\ GotoWith(r, "rcSet", db[k])
    BY <1>1, <1>9, <2>1, <2>3, GotoWithEffect DEF DbGet, Loads
  <2> QED BY <1>9, <2>2, <2>3 DEF DbGet
<1>10. CASE RcSet(r)
  <2> SUFFICES ASSUME NEW j \in Keys PROVE Copies(j)' \subseteq Copies(j)
    BY <1>1 DEF CopiesKept
  <2>1. call'[r].val = Nil
    BY <1>10, GotoWithEffect DEF RcSet
  <2>2. /\ rc'[j] = rc[j] \/ (j = k /\ rc'[j] = call[r].val)
        /\ replica'[j] = replica[j] \/ (j = k /\ replica'[j] = call[r].val)
    BY <1>1, <1>10 DEF RcSet, WriteRedis, TypeOK
  <2>3. \A q \in Requests : call'[q].key = j => call'[q].val \in Copies(j) \cup {Nil}
    BY <1>1, <2>1, CopiesMember
  <2> QED BY <1>10, <2>2, <2>3, CopiesMember, CopiesShrink DEF RcSet
<1>11. CASE Unlock(r)
  BY <1>2, <1>3, <1>11, ReturnEffect DEF Unlock
<1>12. CASE RcDelete(r)
  <2> SUFFICES ASSUME NEW j \in Keys PROVE Copies(j)' \subseteq Copies(j)
    BY <1>1 DEF CopiesKept
  <2>1. call'[r].val = Nil
    BY <1>12, CallFacts, GotoEffect, ReturnEffect DEF RcDelete, StorePCs
  <2>2. rc'[j] \in {rc[j], Nil} /\ replica'[j] \in {replica[j], Nil}
    BY <1>1, <1>12 DEF RcDelete, WriteRedis, TypeOK
  <2>3. \A q \in Requests : call'[q].key = j => call'[q].val \in Copies(j) \cup {Nil}
    BY <1>1, <2>1, CopiesMember
  <2> QED BY <1>12, <2>2, <2>3, CopiesMember, CopiesShrink DEF RcDelete
<1>13. CASE Publish(r)
  BY <1>2, <1>3, <1>13, ReturnEffect DEF Publish
<1> QED BY <1>5, <1>6, <1>7, <1>8, <1>9, <1>10, <1>11, <1>12, <1>13 DEF Step

LEMMA NextCopies ==
  ASSUME TypeOK, [Next]_vars
  PROVE  \/ CopiesKept
         \/ \E S : Commits(S)
         \/ \E r \in Requests, k \in Keys : Step(r) /\ Loads(r, k) /\ call[r].val = Nil
<1>1. CASE \E r \in Requests : Step(r)
  BY <1>1, StepCopies
<1>2. ASSUME NEW r \in Requests, CreateCustomer(r)
      PROVE  \E S : Commits(S)
  <2>1. PICK S \in SUBSET AuthKeys :
               db' = [k \in Keys |-> IF k \in InfoKeys \cup S THEN 1 ELSE 0]
    BY <1>2 DEF CreateCustomer
  <2>2. db' = [k \in Keys |-> IF k \in InfoKeys \cup S THEN db[k] + 1 ELSE db[k]]
    BY <1>2, <2>1 DEF CreateCustomer
  <2>3. ASSUME NEW k \in Keys PROVE Copies(k)' = Copies(k)
    BY <1>2, CopiesSame DEF CreateCustomer
  <2> QED BY <2>2, <2>3 DEF Commits, Keys
<1>3. ASSUME NEW r \in Requests, NEW j \in InfoKeys, Update(r, j)
      PROVE  \E S : Commits(S)
  <2>1. PICK S \in SUBSET {a \in Rewrites[j] : db[a] < MaxVersion} :
               db' = [a \in Keys |-> IF a \in S \cup {j} THEN db[a] + 1 ELSE db[a]]
    BY <1>3 DEF Update
  <2>2. S \cup {j} \subseteq Keys
    BY ConstantsOK DEF Keys
  <2>3. \A q \in Requests : \/ call'[q].key = call[q].key /\ call'[q].val = call[q].val
                            \/ call[q].val = Nil /\ call'[q].val = Nil
    <3>1. \/ call' = call
          \/ call' = [call EXCEPT ![r] = [pc |-> "rcDelete", key |-> j, val |-> Nil]]
      BY <1>3 DEF Update
    <3>2. call[r].val = Nil /\ call \in [Requests -> Call]
      BY <1>3 DEF Update, TypeOK, Idle
    <3> QED BY <3>1, <3>2
  <2>4. ASSUME NEW k \in Keys PROVE Copies(k)' = Copies(k)
    BY <1>3, <2>3, CopiesSame DEF Update
  <2> QED BY <2>1, <2>2, <2>4 DEF Commits
<1>4. ASSUME NEW r \in Requests, NEW j \in Keys, Get(r, j)
      PROVE  CopiesKept
  <2>1. \A q \in Requests : \/ call'[q].key = call[q].key /\ call'[q].val = call[q].val
                            \/ call[q].val = Nil /\ call'[q].val = Nil
    BY <1>4 DEF Get, TypeOK, Idle
  <2> QED BY <1>4, <2>1, CopiesSame DEF Get, CopiesKept
<1>5. ASSUME NEW j \in Keys, RcExpire(j) \/ LockExpire(j) \/ Replicate(j)
      PROVE  CopiesKept
  <2> SUFFICES ASSUME NEW k \in Keys PROVE Copies(k)' \subseteq Copies(k)
    BY <1>5 DEF CopiesKept, RcExpire, LockExpire, Replicate
  <2>1. /\ rc'[k] \in {rc[k], Nil} /\ replica'[k] \in {replica[k], rc[k], Nil}
        /\ UNCHANGED <<lc, call>>
    BY <1>5 DEF RcExpire, LockExpire, Replicate, WriteRedis, TypeOK
  <2> QED BY <2>1, CopiesMember, CopiesShrink
<1>6. ASSUME NEW j \in Instances, Crash(j)
      PROVE  CopiesKept
  <2> SUFFICES ASSUME NEW k \in Keys PROVE Copies(k)' \subseteq Copies(k)
    BY <1>6 DEF CopiesKept, Crash
  <2>1. \A i \in Instances : lc'[i][k] \in {lc[i][k], Nil}
    BY <1>6 DEF Crash, TypeOK
  <2> QED BY <1>6, <2>1, CrashEffect, CopiesMember, CopiesShrink, ConstantsOK DEF Crash
<1>7. ASSUME NEW j \in Instances, NEW h \in Keys, Clean(j, h) \/ LcExpire(j, h)
      PROVE  CopiesKept
  <2> SUFFICES ASSUME NEW k \in Keys PROVE Copies(k)' \subseteq Copies(k)
    BY <1>7 DEF CopiesKept, Clean, LcExpire
  <2>1. \A i \in Instances : lc'[i][k] \in {lc[i][k], Nil}
    BY <1>7, DropEffect
  <2>2. UNCHANGED <<rc, replica, call>>
    BY <1>7, DropEffect
  <2> QED BY <2>1, <2>2, CopiesMember, CopiesShrink
<1>8. CASE UNCHANGED vars
  BY <1>8, CopiesSame DEF vars, CopiesKept
<1>9. ASSUME NEW r \in Requests, Resend(r)
      PROVE  CopiesKept
  <2> SUFFICES ASSUME NEW k \in Keys PROVE Copies(k)' \subseteq Copies(k)
    BY <1>9, ResendEffect DEF CopiesKept
  <2>1. /\ rc'[k] \in {rc[k], Nil} \/ (call[r].key = k /\ rc'[k] = call[r].val)
        /\ \/ replica'[k] \in {replica[k], Nil}
           \/ call[r].key = k /\ replica'[k] = call[r].val
    BY <1>9, ResendEffect DEF WriteRedis, TypeOK
  <2>2. UNCHANGED <<lc, call>>
    BY <1>9, ResendEffect
  <2> QED BY <2>1, <2>2, CopiesMember, CopiesShrink
<1> QED BY <1>1, <1>2, <1>3, <1>4, <1>5, <1>6, <1>7, <1>8, <1>9 DEF Next

-----------------------------------------------------------------------------
(* CacheProxy implements CopyCirculation                                   *)

LEMMA InitCopies == Init => \A k \in Keys : Copies(k) = {}
<1> SUFFICES ASSUME Init, NEW k \in Keys, NEW c \in Copies(k) PROVE FALSE
  OBVIOUS
<1> QED BY DEF Init, Idle, Copies

\* The proxies implement CopyCirculation whatever fails: what they store is the
\* database's answer of that moment or a copy in circulation, so that a version
\* that left every cache never comes back, and the absence of a customer is
\* never cached for the info keys.
THEOREM ImplementsCirculation == Spec => CirculationSpec
<1> DEFINE bar == [k \in Keys |-> Copies(k)]
<1>1. Circulation!Keys = Keys
  BY DEF Circulation!Keys, Keys
<1>2. Init => Circulation!Init
  BY <1>1, InitCopies DEF Init, Circulation!Init, Keys
<1>3. TypeOK /\ [Next]_vars => [Circulation!Next]_<<db, bar>>
  <2> SUFFICES ASSUME TypeOK, [Next]_vars
               PROVE  Circulation!Next \/ UNCHANGED <<db, bar>>
    OBVIOUS
  <2>1. CASE CopiesKept
    <3>1. \A k \in Keys : bar'[k] \subseteq bar[k]
      BY <2>1 DEF CopiesKept
    <3>2. bar' \in [Keys -> SUBSET UNION {bar[k] : k \in Keys}]
      <4>1. ASSUME NEW k \in Keys
            PROVE  bar'[k] \in SUBSET UNION {bar[j] : j \in Keys}
        BY <3>1
      <4> QED BY <4>1
    <3> QED BY <1>1, <2>1, <3>1, <3>2 DEF CopiesKept, Circulation!Next, Circulation!Forget
  <2>2. CASE \E S : Commits(S)
    BY <1>1, <2>2 DEF Commits, Circulation!Next, Circulation!Commit
  <2>3. ASSUME NEW r \in Requests, NEW k \in Keys, Loads(r, k), call[r].val = Nil
        PROVE  Circulation!Load(k)
    <3>1. bar' = [bar EXCEPT ![k] = @ \cup {db[k]}]
      BY <2>3, CopiesLoaded
    <3> QED BY <2>3, <3>1 DEF Loads, Circulation!Load
  <2> QED BY <1>1, <2>1, <2>2, <2>3, NextCopies DEF Circulation!Next
<1> QED BY <1>2, <1>3, TypeCorrect, PTL DEF Spec, CirculationSpec, Circulation!Spec

-----------------------------------------------------------------------------
(* No fill regresses: with the mutex kept, what a holder has read from the *)
(* database stays the newest copy until it is stored                       *)

NotAhead == \A k \in Keys : \A c \in Copies(k) : c <= db[k]

LEMMA CopiesType ==
  ASSUME TypeOK, NEW k \in Keys
  PROVE  Copies(k) \subseteq Version
BY DEF Copies, TypeOK, Call, Entry

LEMMA NotAheadNext ==
  ASSUME TypeOK, NotAhead, [Next]_vars
  PROVE  NotAhead'
<1> SUFFICES ASSUME NEW k \in Keys, NEW c \in Copies(k)' PROVE c <= db'[k]
  BY DEF NotAhead
<1>1. db[k] \in Nat /\ \A d \in Copies(k) : d \in Nat /\ d <= db[k]
  BY CopiesType, ConstantsOK DEF TypeOK, Version, NotAhead
<1>2. CASE CopiesKept
  BY <1>1, <1>2 DEF CopiesKept
<1>3. CASE \E S : Commits(S)
  BY <1>1, <1>3 DEF Commits
<1>4. ASSUME NEW r \in Requests, NEW j \in Keys, Loads(r, j), call[r].val = Nil
      PROVE  c <= db'[k]
  <2>1. c \in Copies(k) \cup {db[k]} /\ db' = db
    BY <1>4, CopiesLoaded DEF Loads
  <2> QED BY <1>1, <2>1
<1> QED BY <1>2, <1>3, <1>4, NextCopies

LEMMA StepGoesTo ==
  ASSUME TypeOK, NEW r \in Requests, Step(r)
  PROVE  /\ call'[r].pc = "rcSet" => DbGet(r)
         /\ call'[r].pc = "dbGet" => Recheck(r)
<1>1. CASE RcGet(r) \/ Recheck(r)
  BY <1>1, GotoEffect, GotoWithEffect DEF RcGet, Recheck, Lookup
<1>2. CASE LcSet(r) \/ Lock(r)
  BY <1>2, GotoEffect, GotoWithEffect, ReturnEffect DEF LcSet, Lock
<1>3. CASE DbGet(r) \/ RcSet(r)
  BY <1>3, GotoEffect, GotoWithEffect DEF DbGet, RcSet
<1>4. CASE Unlock(r) \/ RcDelete(r) \/ Publish(r)
  BY <1>4, GotoEffect, ReturnEffect DEF Unlock, RcDelete, Publish
<1> QED BY <1>1, <1>2, <1>3, <1>4 DEF Step

\* Which request is about to store, and what, changes with Step only.
LEMMA StoringNext ==
  ASSUME TypeOK, [Next]_vars, NEW r \in Requests, call'[r].pc = "rcSet"
  PROVE  \/ call'[r] = call[r]
         \/ Loads(r, call'[r].key) /\ call[r].val = Nil
<1>1. CASE \E q \in Requests : Step(q)
  <2>1. PICK q \in Requests : Step(q)
    BY <1>1
  <2>2. CASE q # r
    BY <2>1, <2>2, StepEffect
  <2>3. CASE q = r
    <3>1. DbGet(r)
      BY <2>1, <2>3, StepGoesTo
    <3>2. /\ GotoWith(r, "rcSet", db[call[r].key])
          /\ call[r].key \in AuthKeys \/ db[call[r].key] > 0
      BY <3>1, GotoEffect DEF DbGet
    <3>3. call[r].val = Nil
      BY <3>1, CallFacts DEF DbGet, StorePCs
    <3> QED BY <3>1, <3>2, <3>3, GotoWithEffect DEF DbGet, Loads
  <2> QED BY <2>2, <2>3
<1>2. CASE \E q \in Requests : \/ CreateCustomer(q)
                               \/ \E k \in Keys : Get(q, k)
                               \/ \E k \in InfoKeys : Update(q, k)
  BY <1>2 DEF CreateCustomer, Get, Update, TypeOK
<1>3. CASE \E k \in Keys : RcExpire(k) \/ LockExpire(k) \/ Replicate(k)
  BY <1>3 DEF RcExpire, LockExpire, Replicate
<1>4. CASE \E i \in Instances : Crash(i)
  BY <1>4, CrashEffect
<1>5. CASE \E i \in Instances, k \in Keys : Clean(i, k) \/ LcExpire(i, k)
  BY <1>5 DEF Clean, LcExpire
<1>6. CASE UNCHANGED vars
  BY <1>6 DEF vars
<1>7. CASE \E q \in Requests : Resend(q)
  BY <1>7, ResendEffect
<1> QED BY <1>1, <1>2, <1>3, <1>4, <1>5, <1>6, <1>7 DEF Next

\* Two requests cannot both be about to load or store the same key.
LEMMA OneLoader ==
  ASSUME TypeOK, Mutex, NEW r \in Requests, NEW q \in Requests, q # r,
         call[r].pc \in {"dbGet", "rcSet"}, call[q].key = call[r].key
  PROVE  call[q].pc \notin {"dbGet", "rcSet"}
BY DEF Mutex, HeldPCs

FillInv == TypeOK /\ Mutex /\ NotAhead /\ FillsNeverRegress

LEMMA FillInit == Init => FillInv
<1> SUFFICES ASSUME Init PROVE FillInv
  OBVIOUS
<1>1. NotAhead
  BY InitCopies DEF NotAhead
<1>2. FillsNeverRegress
  BY DEF FillsNeverRegress, Init, Idle
<1> QED BY <1>1, <1>2, InitType, MutexInit DEF FillInv

LEMMA FillNext ==
  ASSUME FillInv, "slow" \notin Faults, [Next]_vars
  PROVE  FillInv'
<1> USE DEF FillInv
<1>1. FillsNeverRegress'
  <2> SUFFICES ASSUME NEW r \in Requests, NEW k \in Keys, call'[r].key = k,
                      call'[r].pc = "rcSet", NEW c \in Copies(k)'
               PROVE  c <= call'[r].val
    <3>1. \A r \in Requests : call'[r].pc = "rcSet" => call'[r].key \in Keys
      BY NextType DEF TypeOK, Call
    <3> QED BY <3>1 DEF FillsNeverRegress
  <2>1. CASE Loads(r, k) /\ call[r].val = Nil
    <3>1. k \in Keys /\ call'[r].val = db[k]
      BY <2>1, CallFacts DEF Loads
    <3>2. c \in Copies(k) \cup {db[k]} /\ db[k] \in Nat
      BY <2>1, <3>1, CopiesLoaded, ConstantsOK DEF TypeOK, Version
    <3> QED BY <3>1, <3>2 DEF NotAhead
  <2>2. CASE call'[r] = call[r]
    <3>1. k \in Keys /\ \A d \in Copies(k) : d <= call'[r].val
      BY <2>2, CallFacts DEF FillsNeverRegress
    <3>2. CASE CopiesKept
      BY <3>1, <3>2 DEF CopiesKept
    <3>3. CASE \E S : Commits(S)
      BY <3>1, <3>3 DEF Commits
    <3>4. ASSUME NEW q \in Requests, NEW j \in Keys, Loads(q, j), call[q].val = Nil
          PROVE  c \in Copies(k)
      <4>1. q # r /\ call[q].pc = "dbGet" /\ call[q].key = j /\ call[r].pc = "rcSet"
        BY <2>2, <3>4 DEF Loads
      <4>2. j # k
        BY <2>2, <4>1, OneLoader
      <4> QED BY <3>1, <3>4, <4>2, CopiesLoaded
    <3> QED BY <3>1, <3>2, <3>3, <3>4, NextCopies
  <2> QED BY <2>1, <2>2, StoringNext
<1> QED BY <1>1, NextType, MutexNext, NotAheadNext

\* If no mutex expires under its holder, whatever else fails: a value on its
\* way into Redis is at least as new as every copy of that key.  The mutex
\* makes the holder the only one that can bring a newer version into
\* circulation (Mutex), and no copy is newer than the database (NotAhead).
THEOREM FillsInOrder ==
  ASSUME "slow" \notin Faults
  PROVE  Spec => []FillsNeverRegress
<1>1. FillInv => FillsNeverRegress
  BY DEF FillInv
<1> QED BY <1>1, FillInit, FillNext, PTL DEF Spec

\* r stores its value in Redis, by rc.Set or a repetition of it.
Stores(r, k) ==
  /\ call[r].pc = "rcSet" /\ call[r].key = k
  /\ rc'[k] = call[r].val
  /\ newest'[k] = IF call[r].val <= newest[k] THEN newest[k] ELSE call[r].val

LEMMA WriteRedisEffect ==
  ASSUME TypeOK, NEW j \in Keys, NEW v \in Entry, WriteRedis(j, v), NEW k \in Keys
  PROVE  \/ rc'[k] \in {rc[k], Nil} /\ newest'[k] = newest[k]
         \/ /\ k = j /\ rc'[k] = v /\ v # Nil
            /\ newest'[k] = IF v <= newest[k] THEN newest[k] ELSE v
BY DEF WriteRedis, TypeOK

\* What is in Redis changes by a request about to store, or becomes Nil.
LEMMA RedisNext ==
  ASSUME TypeOK, [Next]_vars, NEW k \in Keys
  PROVE  \/ rc'[k] \in {rc[k], Nil} /\ newest'[k] = newest[k]
         \/ \E r \in Requests : Stores(r, k)
<1>0. Nil \in Entry
  BY DEF Entry
<1>1. ASSUME NEW r \in Requests, call[r].pc = "rcSet", WriteRedis(call[r].key, call[r].val)
      PROVE  \/ rc'[k] \in {rc[k], Nil} /\ newest'[k] = newest[k]
             \/ Stores(r, k)
  BY <1>1, CallFacts, WriteRedisEffect DEF Stores
<1>2. ASSUME NEW j \in Keys, WriteRedis(j, Nil)
      PROVE  rc'[k] \in {rc[k], Nil} /\ newest'[k] = newest[k]
  BY <1>0, <1>2, WriteRedisEffect
<1>3. ASSUME NEW r \in Requests, Step(r)
      PROVE  \/ rc'[k] \in {rc[k], Nil} /\ newest'[k] = newest[k]
             \/ Stores(r, k)
  <2>1. CASE RcSet(r)
    BY <1>1, <2>1 DEF RcSet
  <2>2. CASE RcDelete(r)
    BY <1>2, <2>2, CallFacts DEF RcDelete
  <2> QED BY <1>3, <2>1, <2>2
          DEF Step, RcGet, Recheck, Lookup, LcSet, Lock, DbGet, Unlock, Publish
<1>4. CASE \E r \in Requests : \/ CreateCustomer(r)
                               \/ \E j \in Keys : Get(r, j)
                               \/ \E j \in InfoKeys : Update(r, j)
  BY <1>4 DEF CreateCustomer, Get, Update
<1>5. CASE \E j \in Keys : RcExpire(j) \/ LockExpire(j) \/ Replicate(j)
  BY <1>2, <1>5 DEF RcExpire, LockExpire, Replicate
<1>6. CASE \E i \in Instances : \/ Crash(i)
                                \/ \E j \in Keys : Clean(i, j) \/ LcExpire(i, j)
  BY <1>6 DEF Crash, Clean, LcExpire
<1>7. CASE UNCHANGED vars
  BY <1>7 DEF vars
<1>8. CASE \E r \in Requests : Resend(r)
  BY <1>1, <1>2, <1>8, ResendEffect
<1> QED BY <1>3, <1>4, <1>5, <1>6, <1>7, <1>8 DEF Next

\* The newest version that Redis has had is not newer than the database, nor than
\* what is in Redis or about to get there.
NewestInv ==
  /\ FillInv /\ RedisNeverRegresses
  /\ \A k \in Keys : newest[k] <= db[k]
  /\ \A r \in Requests : call[r].pc = "rcSet" => newest[call[r].key] <= call[r].val

LEMMA NewestInit == Init => NewestInv
<1> SUFFICES ASSUME Init PROVE NewestInv
  OBVIOUS
<1>1. \A k \in Keys : newest[k] = 0 /\ db[k] \in Nat /\ rc[k] = Nil
  BY InitType, ConstantsOK DEF Init, TypeOK, Version
<1> QED BY <1>1, FillInit DEF NewestInv, RedisNeverRegresses, Init, Idle

LEMMA NewestNext ==
  ASSUME NewestInv, "slow" \notin Faults, [Next]_vars
  PROVE  NewestInv'
<1> USE DEF NewestInv, FillInv
<1>1. FillInv' /\ TypeOK'
  BY FillNext
<1>2. ASSUME NEW k \in Keys
      PROVE  newest[k] \in Nat /\ db[k] \in Nat /\ db'[k] \in Nat /\ newest[k] <= db[k]
  BY <1>1, ConstantsOK DEF TypeOK, Version
<1>3. ASSUME NEW k \in Keys, NEW r \in Requests, Stores(r, k)
      PROVE  /\ call[r].val \in Nat /\ newest[k] <= call[r].val /\ call[r].val <= db[k]
             /\ newest'[k] = call[r].val /\ rc'[k] = call[r].val
  <2>1. call[r].val \in Nat /\ call[r].val \in Copies(k)
    BY <1>3, CallFacts, ConstantsOK DEF Stores, StorePCs, Copies, Entry, Version
  <2> QED BY <1>2, <1>3, <2>1 DEF Stores, NotAhead
<1>4. ASSUME NEW k \in Keys PROVE db[k] <= db'[k]
  BY <1>2, <1>4, NextCopies DEF CopiesKept, Commits, Loads
<1>5. ASSUME NEW k \in Keys PROVE newest'[k] <= db'[k]
  BY <1>2, <1>3, <1>4, <1>5, RedisNext
<1>6. ASSUME NEW k \in Keys, rc'[k] # Nil PROVE newest'[k] <= rc'[k]
  <2>1. CASE rc'[k] = rc[k] /\ newest'[k] = newest[k]
    BY <1>6, <2>1 DEF RedisNeverRegresses
  <2>2. CASE \E r \in Requests : Stores(r, k)
    BY <1>3, <2>2
  <2> QED BY <1>6, <2>1, <2>2, RedisNext
<1>7. ASSUME NEW r \in Requests, call'[r].pc = "rcSet"
      PROVE  newest'[call'[r].key] <= call'[r].val
  <2> DEFINE k == call'[r].key
  <2>1. k \in Keys
    BY <1>1, <1>7 DEF TypeOK, Call
  <2>2. CASE Loads(r, k)
    BY <1>5, <2>1, <2>2 DEF Loads
  <2>3. CASE call'[r] = call[r]
    <3>1. newest[k] <= call[r].val
      BY <1>7, <2>3
    <3>2. ASSUME NEW q \in Requests, Stores(q, k) PROVE q = r
      BY <1>7, <2>3, <3>2, OneLoader DEF Stores
    <3> QED BY <1>2, <1>3, <2>1, <2>3, <3>1, <3>2, RedisNext
  <2> QED BY <1>7, <2>2, <2>3, StoringNext
<1> QED BY <1>1, <1>5, <1>6, <1>7 DEF RedisNeverRegresses

\* If no mutex expires under its holder, whatever else fails: an entry of Redis is
\* never older than one that was there before, were it deleted or expired in
\* between.  The holder reads the newest answer there is, and until it has stored
\* it no other request can read a newer one, let alone store it (NewestInv).
THEOREM RedisGoesForward ==
  ASSUME "slow" \notin Faults
  PROVE  Spec => []RedisNeverRegresses
<1>1. NewestInv => RedisNeverRegresses
  BY DEF NewestInv
<1> QED BY <1>1, NewestInit, NewestNext, PTL DEF Spec

-----------------------------------------------------------------------------
(* Request coalescing: Redis misses nothing that a holder of the mutex has *)
(* stored before                                                           *)

LoadInv == TypeOK /\ Mutex /\ replica = rc /\ CoalescedLoad

LEMMA LoadInit == Init => LoadInv
<1> SUFFICES ASSUME Init PROVE LoadInv
  OBVIOUS
<1>1. CoalescedLoad
  BY DEF CoalescedLoad, LoadsExclude, Init, Idle
<1> QED BY <1>1, InitType, MutexInit DEF LoadInv, Init

\* Without lag the replica is a copy of the master.
LEMMA ReplicaNext ==
  ASSUME TypeOK, replica = rc, "lag" \notin Faults, [Next]_vars
  PROVE  replica' = rc'
<1>1. \A k, v : WriteRedis(k, v) => replica' = rc'
  BY DEF WriteRedis
<1>2. CASE \E r \in Requests : Step(r)
  BY <1>1, <1>2 DEF Step, RcGet, Recheck, Lookup, LcSet, Lock, DbGet, RcSet, Unlock,
                    RcDelete, Publish
<1>3. CASE \E r \in Requests : \/ CreateCustomer(r)
                               \/ \E j \in Keys : Get(r, j)
                               \/ \E j \in InfoKeys : Update(r, j)
  BY <1>3 DEF CreateCustomer, Get, Update
<1>4. CASE \E j \in Keys : RcExpire(j) \/ LockExpire(j) \/ Replicate(j)
  BY <1>1, <1>4 DEF RcExpire, LockExpire, Replicate
<1>5. CASE \E i \in Instances : \/ Crash(i)
                                \/ \E j \in Keys : Clean(i, j) \/ LcExpire(i, j)
  BY <1>5 DEF Crash, Clean, LcExpire
<1>6. CASE UNCHANGED vars
  BY <1>6 DEF vars
<1>7. CASE \E r \in Requests : Resend(r)
  BY <1>1, <1>7, ResendEffect
<1> QED BY <1>2, <1>3, <1>4, <1>5, <1>6, <1>7 DEF Next

LEMMA LoadingNext ==
  ASSUME TypeOK, [Next]_vars, NEW r \in Requests, call'[r].pc = "dbGet"
  PROVE  call'[r] = call[r] \/ Recheck(r)
<1>1. CASE \E q \in Requests : Step(q)
  <2>1. PICK q \in Requests : Step(q)
    BY <1>1
  <2>2. CASE q # r
    BY <2>1, <2>2, StepEffect
  <2>3. CASE q = r
    BY <2>1, <2>3, StepGoesTo
  <2> QED BY <2>2, <2>3
<1>2. CASE \E q \in Requests : \/ CreateCustomer(q)
                               \/ \E k \in Keys : Get(q, k)
                               \/ \E k \in InfoKeys : Update(q, k)
  BY <1>2 DEF CreateCustomer, Get, Update, TypeOK
<1>3. CASE \E k \in Keys : RcExpire(k) \/ LockExpire(k) \/ Replicate(k)
  BY <1>3 DEF RcExpire, LockExpire, Replicate
<1>4. CASE \E i \in Instances : Crash(i)
  BY <1>4, CrashEffect
<1>5. CASE \E i \in Instances, k \in Keys : Clean(i, k) \/ LcExpire(i, k)
  BY <1>5 DEF Clean, LcExpire
<1>6. CASE UNCHANGED vars
  BY <1>6 DEF vars
<1>7. CASE \E q \in Requests : Resend(q)
  BY <1>7, ResendEffect
<1> QED BY <1>1, <1>2, <1>3, <1>4, <1>5, <1>6, <1>7 DEF Next

LEMMA LoadNext ==
  ASSUME LoadInv, Faults \cap {"redis", "lag", "slow"} = {}, [Next]_vars
  PROVE  LoadInv'
<1> USE DEF LoadInv
<1>1. TypeOK' /\ Mutex' /\ replica' = rc'
  BY NextType, MutexNext, ReplicaNext
<1>2. ASSUME NEW r \in Requests, call'[r].pc = "dbGet"
      PROVE  rc'[call'[r].key] = Nil
  <2>1. CASE call'[r] = call[r]
    <3>1. call[r].pc = "dbGet" /\ rc[call[r].key] = Nil /\ call[r].key \in Keys
      BY <1>2, <2>1, CallFacts DEF CoalescedLoad
    <3>2. \A q \in Requests : ~(call[q].pc = "rcSet" /\ call[q].key = call[r].key)
      BY <3>1, OneLoader
    <3> QED BY <2>1, <3>1, <3>2, RedisNext DEF Stores
  <2>2. CASE Recheck(r)
    <3>1. Goto(r, "dbGet") /\ Nil \in RedisView(call[r].key)
      BY <1>2, <2>2, GotoWithEffect DEF Recheck, Lookup
    <3> QED BY <2>2, <3>1, GotoEffect DEF Recheck, Lookup, RedisView
  <2> QED BY <1>2, <2>1, <2>2, LoadingNext
<1>3. LoadsExclude'
  BY <1>1 DEF Mutex, LoadsExclude, HeldPCs
<1>4. CoalescedLoad'
  BY <1>2, <1>3 DEF CoalescedLoad
<1> QED BY <1>1, <1>4

\* If Redis answers, reads do not lag and no mutex expires under its holder:
\* one request at a time loads a key, and only while Redis has no entry for it.
\* The mutex makes the requests exclude each other; the second look finds what
\* the previous holder stored.
THEOREM OneLoadAtATime ==
  ASSUME Faults \cap {"redis", "lag", "slow"} = {}
  PROVE  Spec => []CoalescedLoad
<1>1. LoadInv => CoalescedLoad
  BY DEF LoadInv
<1> QED BY <1>1, LoadInit, LoadNext, PTL DEF Spec

-----------------------------------------------------------------------------
(* Every outdated entry is doomed                                          *)

NotFoundUncached == \A k \in InfoKeys : 0 \notin Copies(k)

LEMMA NotFoundNext ==
  ASSUME TypeOK, NotFoundUncached, [Next]_vars
  PROVE  NotFoundUncached'
<1> SUFFICES ASSUME NEW k \in InfoKeys PROVE 0 \notin Copies(k)'
  BY DEF NotFoundUncached
<1>1. k \in Keys /\ k \notin AuthKeys /\ 0 \notin Copies(k)
  BY ConstantsOK DEF Keys, NotFoundUncached
<1>2. CASE CopiesKept
  BY <1>1, <1>2 DEF CopiesKept
<1>3. CASE \E S : Commits(S)
  BY <1>1, <1>3 DEF Commits
<1>4. ASSUME NEW r \in Requests, NEW j \in Keys, Loads(r, j), call[r].val = Nil
      PROVE  0 \notin Copies(k)'
  <2>1. CASE j = k
    <3>1. db[k] \in Nat /\ db[k] > 0
      BY <1>1, <1>4, <2>1, ConstantsOK DEF Loads, TypeOK, Version
    <3> QED BY <1>1, <1>4, <2>1, <3>1, CopiesLoaded
  <2>2. CASE j # k
    BY <1>1, <1>4, <2>2, CopiesLoaded
  <2> QED BY <2>1, <2>2
<1> QED BY <1>2, <1>3, <1>4, NextCopies

DoomInv == TypeOK /\ NotAhead /\ NotFoundUncached /\ StaleIsDoomed

\* The two halves of StaleIsDoomed for one key.
RcDoomed(k) == rc[k] \notin {Nil, db[k]} => UpdateAt(k, {"rcDelete"})
LcDoomed(k, i) == lc[i][k] \notin {Nil, db[k]} =>
                    UpdateAt(k, UpdatePCs) \/ pending[i][k] > 0

LEMMA StepDoomed ==
  ASSUME DoomInv, Faults \cap {"redis", "db", "loss", "crash"} = {},
         NEW r \in Requests, Step(r),
         NEW k \in InfoKeys \ late', NEW i \in Instances
  PROVE  RcDoomed(k)' /\ LcDoomed(k, i)'
<1>1. /\ k \in Keys /\ call[r].key \in Keys /\ k \in InfoKeys /\ TypeOK
      /\ db' = db /\ \A q \in Requests \ {r} : call'[q] = call[q]
  BY StepEffect DEF DoomInv, Keys
<1>2. k \notin late => RcDoomed(k) /\ LcDoomed(k, i)
  BY DEF DoomInv, StaleIsDoomed, RcDoomed, LcDoomed
<1>3. ASSUME call[r].pc \notin UpdatePCs, NEW pcs \in SUBSET UpdatePCs, UpdateAt(k, pcs)
      PROVE  UpdateAt(k, pcs)'
  BY <1>1, <1>3 DEF UpdateAt
<1>4. ASSUME call[r].pc \notin UpdatePCs, UNCHANGED <<rc, lc, pending, late>>
      PROVE  RcDoomed(k)' /\ LcDoomed(k, i)'
  BY <1>1, <1>2, <1>3, <1>4 DEF RcDoomed, LcDoomed, UpdatePCs
<1>5. CASE RcGet(r)
  BY <1>4, <1>5 DEF RcGet, Lookup, UpdatePCs
<1>6. CASE LcSet(r)
  <2>1. call[r].pc \notin UpdatePCs /\ late \subseteq late' /\ k \notin late
    BY <1>6 DEF LcSet, NoteStore, UpdatePCs
  <2>2. RcDoomed(k)'
    BY <1>1, <1>2, <1>3, <1>6, <2>1 DEF RcDoomed, LcSet, UpdatePCs
  <2>3. CASE i = Host[r] /\ call[r].key = k
    <3>1. lc'[i][k] = call[r].val
      BY <1>1, <1>6, <2>3 DEF LcSet, TypeOK
    <3>2. call[r].val = db[k] \/ ~NoCleanToCome(i, k)
      BY <1>1, <1>6, <2>3 DEF LcSet, NoteStore
    <3>3. ~NoCleanToCome(i, k) => UpdateAt(k, UpdatePCs)' \/ pending'[i][k] > 0
      <4>1. pending' = pending /\ pending[i][k] \in Nat
        BY <1>1, <1>6 DEF LcSet, TypeOK
      <4> QED BY <1>3, <2>1, <4>1 DEF NoCleanToCome
    <3> QED BY <1>1, <2>2, <3>1, <3>2, <3>3 DEF LcDoomed
  <2>4. CASE ~(i = Host[r] /\ call[r].key = k)
    <3>1. lc'[i][k] = lc[i][k] /\ pending' = pending
      BY <1>1, <1>6, <2>4 DEF LcSet, TypeOK
    <3> QED BY <1>1, <1>2, <1>3, <2>1, <2>2, <3>1 DEF LcDoomed
  <2> QED BY <2>3, <2>4
<1>7. CASE Lock(r)
  BY <1>4, <1>7 DEF Lock, UpdatePCs
<1>8. CASE Recheck(r)
  BY <1>4, <1>8 DEF Recheck, Lookup, UpdatePCs
<1>9. CASE DbGet(r)
  BY <1>4, <1>9 DEF DbGet, UpdatePCs
<1>10. CASE RcSet(r)
  <2>1. /\ call[r].pc \notin UpdatePCs /\ k \notin late
        /\ UNCHANGED <<lc, pending>>
    BY <1>10 DEF RcSet, NoteStore, UpdatePCs
  <2>2. LcDoomed(k, i)'
    BY <1>1, <1>2, <1>3, <2>1 DEF LcDoomed
  <2>3. CASE call[r].key = k
    <3>1. rc'[k] = call[r].val /\ (call[r].val = db[k] \/ ~NoDeleteToCome(k))
      BY <1>1, <1>10, <2>3 DEF RcSet, WriteRedis, NoteStore, TypeOK
    <3> QED BY <1>1, <1>3, <2>1, <2>2, <3>1 DEF RcDoomed, NoDeleteToCome, UpdatePCs
  <2>4. CASE call[r].key # k
    <3>1. rc'[k] = rc[k]
      BY <1>1, <1>10, <2>4 DEF RcSet, WriteRedis, TypeOK
    <3> QED BY <1>1, <1>2, <1>3, <2>1, <2>2, <3>1 DEF RcDoomed, UpdatePCs
  <2> QED BY <2>3, <2>4
<1>11. CASE Unlock(r)
  BY <1>4, <1>11 DEF Unlock, UpdatePCs
<1>12. CASE RcDelete(r)
  <2>1. /\ call'[r].pc = "publish" /\ call'[r].key = call[r].key
        /\ WriteRedis(call[r].key, Nil) /\ k \notin late
        /\ UNCHANGED <<lc, pending>>
    BY <1>1, <1>12, GotoEffect DEF RcDelete
  <2>2. UpdateAt(k, UpdatePCs) => UpdateAt(k, UpdatePCs)'
    BY <1>1, <2>1 DEF UpdateAt, UpdatePCs
  <2>3. LcDoomed(k, i)'
    BY <1>1, <1>2, <2>1, <2>2 DEF LcDoomed
  <2>4. CASE call[r].key = k
    <3>1. rc'[k] = Nil
      BY <1>1, <2>1, <2>4 DEF WriteRedis, TypeOK
    <3> QED BY <2>3, <3>1 DEF RcDoomed
  <2>5. CASE call[r].key # k
    <3>1. rc'[k] = rc[k]
      BY <1>1, <2>1, <2>5 DEF WriteRedis, TypeOK
    <3>2. UpdateAt(k, {"rcDelete"}) => UpdateAt(k, {"rcDelete"})'
      BY <1>1, <2>5 DEF UpdateAt
    <3> QED BY <1>1, <1>2, <2>1, <2>3, <3>1, <3>2 DEF RcDoomed
  <2> QED BY <2>4, <2>5
<1>13. CASE Publish(r)
  <2>1. /\ call[r].pc = "publish" /\ k \notin late /\ UNCHANGED <<rc, lc>>
        /\ pending' = [j \in Instances |-> [pending[j] EXCEPT ![call[r].key] = @ + 1]]
    BY <1>13 DEF Publish
  <2>2. pending[i][k] \in Nat /\ pending[i] \in [Keys -> Nat]
    BY <1>1 DEF TypeOK
  <2>3. pending'[i][k] = IF call[r].key = k THEN pending[i][k] + 1 ELSE pending[i][k]
    BY <1>1, <2>1, <2>2
  <2>4. UpdateAt(k, {"rcDelete"}) => UpdateAt(k, {"rcDelete"})'
    BY <1>1, <2>1 DEF UpdateAt
  <2>5. call[r].key # k => (UpdateAt(k, UpdatePCs) => UpdateAt(k, UpdatePCs)')
    BY <1>1 DEF UpdateAt
  <2>6. RcDoomed(k)'
    BY <1>1, <1>2, <2>1, <2>4 DEF RcDoomed
  <2>7. LcDoomed(k, i)'
    <3>1. CASE call[r].key = k
      BY <2>2, <2>3, <3>1 DEF LcDoomed
    <3>2. CASE call[r].key # k
      BY <1>1, <1>2, <2>1, <2>3, <2>5, <3>2 DEF LcDoomed
    <3> QED BY <3>1, <3>2
  <2> QED BY <2>6, <2>7
<1> QED BY <1>5, <1>6, <1>7, <1>8, <1>9, <1>10, <1>11, <1>12, <1>13 DEF Step

LEMMA DoomNext ==
  ASSUME DoomInv, Faults \cap {"redis", "db", "loss", "crash"} = {}, [Next]_vars
  PROVE  DoomInv'
<1>1. TypeOK /\ TypeOK' /\ NotAhead' /\ NotFoundUncached'
  BY NextType, NotAheadNext, NotFoundNext DEF DoomInv
<1>2. SUFFICES ASSUME NEW k \in InfoKeys \ late', NEW i
               PROVE  RcDoomed(k)' /\ (i \in Instances => LcDoomed(k, i)')
  <2>1. \A k \in InfoKeys \ late' :
          RcDoomed(k)' /\ \A i \in Instances : LcDoomed(k, i)'
    BY <1>2
  <2> QED BY <1>1, <2>1 DEF DoomInv, StaleIsDoomed, RcDoomed, LcDoomed
<1>3. k \in Keys /\ k \in InfoKeys
  BY DEF Keys
<1>4. k \notin late => RcDoomed(k) /\ (i \in Instances => LcDoomed(k, i))
  BY DEF DoomInv, StaleIsDoomed, RcDoomed, LcDoomed
<1>5. CASE \E r \in Requests : Step(r)
  BY <1>5, StepDoomed, ConstantsOK
<1>6. CASE \E r \in Requests : CreateCustomer(r)
  <2>1. db[k] = 0 /\ UNCHANGED <<rc, lc>>
    BY <1>3, <1>6 DEF CreateCustomer
  <2>2. Copies(k) = {}
    <3>1. Copies(k) \subseteq Nat /\ \A c \in Copies(k) : c <= 0 /\ c # 0
      BY <1>1, <1>3, <2>1, CopiesType DEF DoomInv, NotAhead, NotFoundUncached, Version
    <3> QED BY <3>1
  <2>3. rc[k] = Nil /\ (i \in Instances => lc[i][k] = Nil)
    BY <1>3, <2>2, CopiesMember
  <2> QED BY <2>1, <2>3 DEF RcDoomed, LcDoomed
<1>7. ASSUME NEW r \in Requests, NEW j \in Keys, Get(r, j)
      PROVE  RcDoomed(k)' /\ (i \in Instances => LcDoomed(k, i)')
  <2>1. UNCHANGED <<db, rc, lc, pending, late>>
    BY <1>7 DEF Get
  <2>2. ASSUME NEW pcs \in SUBSET UpdatePCs, UpdateAt(k, pcs)
        PROVE  UpdateAt(k, pcs)'
    BY <1>1, <1>7, <2>2 DEF UpdateAt, Get, TypeOK, Idle, UpdatePCs
  <2> QED BY <1>4, <2>1, <2>2 DEF RcDoomed, LcDoomed, UpdatePCs
<1>8. ASSUME NEW r \in Requests, NEW j \in InfoKeys, Update(r, j)
      PROVE  RcDoomed(k)' /\ (i \in Instances => LcDoomed(k, i)')
  <2>1. /\ UNCHANGED <<rc, lc, pending, late>>
        /\ call' = [call EXCEPT ![r] = [pc |-> "rcDelete", key |-> j, val |-> Nil]]
        /\ call[r] = Idle
    BY <1>8 DEF Update
  <2>2. CASE k = j
    <3>1. UpdateAt(k, {"rcDelete"})' /\ UpdateAt(k, UpdatePCs)'
      BY <1>1, <2>1, <2>2 DEF UpdateAt, TypeOK, UpdatePCs
    <3> QED BY <3>1 DEF RcDoomed, LcDoomed
  <2>3. CASE k # j
    <3>1. db'[k] = db[k]
      BY <1>3, <1>8, <2>3, ConstantsOK DEF Update
    <3>2. ASSUME NEW pcs \in SUBSET UpdatePCs, UpdateAt(k, pcs)
          PROVE  UpdateAt(k, pcs)'
      BY <1>1, <2>1, <3>2 DEF UpdateAt, TypeOK, Idle, UpdatePCs
    <3> QED BY <1>4, <2>1, <3>1, <3>2 DEF RcDoomed, LcDoomed, UpdatePCs
  <2> QED BY <2>2, <2>3
<1>9. ASSUME NEW j \in Keys, RcExpire(j) \/ LockExpire(j) \/ Replicate(j)
      PROVE  RcDoomed(k)' /\ (i \in Instances => LcDoomed(k, i)')
  <2>1. rc'[k] \in {rc[k], Nil} /\ UNCHANGED <<db, lc, pending, call, late>>
    BY <1>1, <1>3, <1>9 DEF RcExpire, LockExpire, Replicate, WriteRedis, TypeOK
  <2> QED BY <1>4, <2>1 DEF RcDoomed, LcDoomed, UpdateAt
<1>10. ASSUME NEW j \in Instances, NEW h \in Keys, Clean(j, h) \/ LcExpire(j, h)
       PROVE  RcDoomed(k)' /\ (i \in Instances => LcDoomed(k, i)')
  <2>1. UNCHANGED <<db, rc, call, late>>
    BY <1>1, <1>10, DropEffect
  <2>2. i \in Instances =>
          \/ lc'[i][k] = Nil
          \/ lc'[i][k] = lc[i][k] /\ pending'[i][k] = pending[i][k]
    BY <1>1, <1>3, <1>10, DropEffect
  <2>3. \A pcs : UpdateAt(k, pcs)' <=> UpdateAt(k, pcs)
    BY <2>1 DEF UpdateAt
  <2> QED BY <1>4, <2>1, <2>2, <2>3 DEF RcDoomed, LcDoomed
<1>11. CASE UNCHANGED vars
  BY <1>4, <1>11 DEF vars, RcDoomed, LcDoomed, UpdateAt
<1>12. \A j \in Instances : ~Crash(j)
  BY DEF Crash
<1>13. ASSUME NEW r \in Requests, Resend(r)
       PROVE  RcDoomed(k)' /\ (i \in Instances => LcDoomed(k, i)')
  <2>1. /\ UNCHANGED <<db, lc, call>> /\ k \notin late
        /\ \A j \in Instances : pending'[j][k] >= pending[j][k]
    BY <1>1, <1>3, <1>13, ResendEffect
  <2>2. i \in Instances => LcDoomed(k, i)'
    <3>1. i \in Instances => pending[i][k] \in Nat /\ pending'[i][k] \in Nat
      BY <1>1, <1>3 DEF TypeOK
    <3> QED BY <1>4, <2>1, <3>1 DEF LcDoomed, UpdateAt
  <2>3. CASE rc'[k] \in {rc[k], Nil}
    BY <1>4, <2>1, <2>2, <2>3 DEF RcDoomed, UpdateAt
  <2>4. CASE rc'[k] \notin {rc[k], Nil}
    <3>1. /\ call[r].key = k /\ rc'[k] = call[r].val
          /\ NoteStore(k, call[r].val, NoDeleteToCome(k))
      <4>1. /\ rc \in [Keys -> Entry] /\ call[r].key \in Keys
            /\ \/ UNCHANGED <<rc, replica, newest>>
               \/ WriteRedis(call[r].key, Nil)
               \/ /\ WriteRedis(call[r].key, call[r].val)
                  /\ NoteStore(call[r].key, call[r].val, NoDeleteToCome(call[r].key))
        BY <1>1, <1>13, ResendEffect DEF TypeOK
      <4> QED BY <1>3, <2>4, <4>1 DEF WriteRedis
    <3>2. call[r].val = db[k] \/ UpdateAt(k, {"rcDelete"})
      BY <1>3, <3>1 DEF NoteStore, NoDeleteToCome
    <3> QED BY <2>1, <2>2, <3>1, <3>2 DEF RcDoomed, UpdateAt
  <2> QED BY <2>3, <2>4
<1> QED BY <1>5, <1>6, <1>7, <1>8, <1>9, <1>10, <1>11, <1>12, <1>13 DEF Next

\* If no call fails, no message is lost and no instance dies: an outdated entry
\* of Redis or of a local cache is one that a delete or a clean task under way
\* will remove, or belongs to a key of which a getter stored an outdated answer
\* behind the last invalidation.  Reads may lag and mutexes expire.
THEOREM OutdatedIsDoomed ==
  ASSUME Faults \cap {"redis", "db", "loss", "crash"} = {}
  PROVE  Spec => []StaleIsDoomed
<1>1. Init => DoomInv
  <2> SUFFICES ASSUME Init PROVE DoomInv
    OBVIOUS
  <2>1. NotAhead /\ NotFoundUncached
    BY InitCopies DEF NotAhead, NotFoundUncached, Keys
  <2>2. StaleIsDoomed
    BY DEF Init, StaleIsDoomed, Keys
  <2> QED BY <2>1, <2>2, InitType DEF DoomInv
<1>2. DoomInv => StaleIsDoomed
  BY DEF DoomInv
<1> QED BY <1>1, <1>2, DoomNext, PTL DEF Spec
=============================================================================
