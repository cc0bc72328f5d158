-------------------------- MODULE CopyCirculation --------------------------
(***************************************************************************)
(* What a cache in front of a repository promises about the versions of an *)
(* answer that are in circulation, however many caches and requests there  *)
(* are: a copy is made of what the store answers now or of another copy,   *)
(* so a version of which the last copy is gone never comes back; and of a  *)
(* key that may not be cached before it exists there is no copy of the     *)
(* version 0.                                                              *)
(***************************************************************************)
EXTENDS Integers

CONSTANTS
  InfoKeys,   \* keys whose answer is cached only once the customer exists
  AuthKeys    \* keys of which "no such customer" is an answer as well

VARIABLES
  store,      \* store[k]: the version of the repository's answer for k
  copies      \* copies[k]: the versions some cache or request holds

Keys == InfoKeys \cup AuthKeys

Init == /\ store \in [Keys -> {0, 1}]
        /\ copies = [k \in Keys |-> {}]

\* A transaction commits and changes some of the answers.
Commit == /\ \E S \in SUBSET Keys :
               store' = [k \in Keys |-> IF k \in S THEN store[k] + 1 ELSE store[k]]
          /\ UNCHANGED copies

\* The answer for k is read from the store.
Load(k) == /\ k \in AuthKeys \/ store[k] > 0
           /\ copies' = [copies EXCEPT ![k] = @ \cup {store[k]}]
           /\ UNCHANGED store

\* Copies are dropped: entries deleted, expired, overwritten or lost.
Forget == /\ copies' \in [Keys -> SUBSET UNION {copies[k] : k \in Keys}]
          /\ \A k \in Keys : copies'[k] \subseteq copies[k]
          /\ UNCHANGED store

Next == Commit \/ Forget \/ \E k \in Keys : Load(k)

Spec == Init /\ [][Next]_<<store, copies>>
=============================================================================
