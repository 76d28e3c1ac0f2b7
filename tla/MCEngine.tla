------------------------------ MODULE MCEngine ------------------------------
(* Three levels of brightness, four of darkness; the stamps in every order. *)
EXTENDS Engine

Stamp(name, failsafe) == [stamp |-> name, failsafe |-> failsafe]
MCRuleSets ==
    {<<>>, <<Stamp("nod", TRUE)>>, <<Stamp("unknown", TRUE), Stamp("hotkey", FALSE)>>,
     <<Stamp("hotkey", TRUE), Stamp("nod", FALSE)>>}
=============================================================================
