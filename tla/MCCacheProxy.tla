---------------------------- MODULE MCCacheProxy ----------------------------
(***************************************************************************)
(* Values for the constants of CacheProxy: one or two instances of the     *)
(* service and up to three requests, each served by a fixed instance.      *)
(***************************************************************************)
EXTENDS CacheProxy, TLC

CONSTANTS i1, i2, r1, r2, r3, info, auth

\* One request on the first instance, the others on the second.
SplitHosts == [r \in Requests |-> IF r = r1 THEN i1 ELSE i2]

OneHost == [r \in Requests |-> i1]

\* An update of the profile may change what the auth keys answer.
AllAuth == [k \in InfoKeys |-> AuthKeys]

\* The requests of i2 are interchangeable under SplitHosts.
PeerSymmetry == Permutations({r2, r3})
=============================================================================
