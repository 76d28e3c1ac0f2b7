------------------------------ MODULE MCPasskeys ------------------------------
(***************************************************************************)
(* Instances of Passkeys for TLC.                                          *)
(***************************************************************************)
EXTENDS Passkeys, TLC

CONSTANTS web, test

\* Two accounts of one website and the command line's own
Three == 1..3
AccountOfThree == (1 :> <<web, 1>>) @@ (2 :> <<web, 2>>) @@ (3 :> <<test, 1>>)
CountOfThree == (1 :> 2) @@ (2 :> 2) @@ (3 :> 1)
SiteOfThree == (1 :> web) @@ (2 :> web) @@ (3 :> test)
=============================================================================
