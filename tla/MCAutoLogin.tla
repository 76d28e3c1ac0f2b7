---------------------------- MODULE MCAutoLogin ----------------------------
(***************************************************************************)
(* An instance of AutoLogin for TLC: two users, one of whom types her      *)
(* password.                                                               *)
(***************************************************************************)
EXTENDS AutoLogin, TLC

CONSTANTS u1, u2, l1

OneLogin == (l1 :> u1)
=============================================================================
