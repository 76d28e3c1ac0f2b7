---------------------------- MODULE MCLoginSecret ----------------------------
(***************************************************************************)
(* An instance of LoginSecret for TLC.                                     *)
(***************************************************************************)
EXTENDS LoginSecret, TLC

CONSTANTS u1, u2, l1

\* One login of one of two users
OneLogin == (l1 :> u1)
=============================================================================
