------------------------- MODULE LocalInvalidation -------------------------
(***************************************************************************)
(* What an instance does with the invalidations that reach it, as the      *)
(* callers of its cache see it: an invalidation that has been received     *)
(* stays outstanding until the entry is deleted, once, and none is given   *)
(* up while the instance is up.  This is what CacheProxy takes the cleaner *)
(* for (pending, Publish, Clean).                                          *)
(***************************************************************************)
CONSTANTS
  Messages,     \* messages, each of which names a key
  KeyOf,        \* KeyOf[m] is the key
  Keys

VARIABLES
  lc,           \* the keys the local cache has an entry of
  outstanding,  \* the messages received and not yet applied
  up            \* the instance has not begun to shut down

Init == /\ lc = {}
        /\ outstanding = {}
        /\ up = TRUE

Store(k) == /\ lc' = lc \cup {k}
            /\ UNCHANGED <<outstanding, up>>

Expire(k) == /\ lc' = lc \ {k}
             /\ UNCHANGED <<outstanding, up>>

Receive(m) == /\ outstanding' = outstanding \cup {m}
              /\ UNCHANGED <<lc, up>>

Clean(m) == /\ m \in outstanding
            /\ lc' = lc \ {KeyOf[m]}
            /\ outstanding' = outstanding \ {m}
            /\ UNCHANGED up

GoDown == /\ up' = FALSE
          /\ UNCHANGED <<lc, outstanding>>

GiveUp(m) == /\ ~up
             /\ outstanding' = outstanding \ {m}
             /\ UNCHANGED <<lc, up>>

Next == \/ GoDown
        \/ \E k \in Keys : Store(k) \/ Expire(k)
        \/ \E m \in Messages : Receive(m) \/ Clean(m) \/ GiveUp(m)

Spec == Init /\ [][Next]_<<lc, outstanding, up>>
=============================================================================
