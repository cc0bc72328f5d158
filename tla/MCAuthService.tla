--------------------------- MODULE MCAuthService ---------------------------
(***************************************************************************)
(* The symmetry of AuthService: requests and passwords are only compared. *)
(***************************************************************************)
EXTENDS AuthService, TLC

Symmetry == Permutations(Requests) \cup Permutations(Passwords)
=============================================================================
