--------------------------- MODULE MCCacheCleaner ---------------------------
(***************************************************************************)
(* Values for the constants of CacheCleaner: of three messages two are     *)
(* about one key.                                                          *)
(***************************************************************************)
EXTENDS CacheCleaner, TLC

CONSTANTS m1, m2, m3, k1, k2

TwoOfOneKey == [m \in Tasks |-> IF m = m3 THEN k2 ELSE k1]
=============================================================================
