----------------------------- MODULE MCEmitter -----------------------------
(* The service and the command line, a camera with two vendor controls     *)
(* of one byte (v1 is at its limit), with and without the Microsoft one.   *)
EXTENDS Emitter

MCVendor == <<"v1", "v2">>
V(n) == [i \in 1..1 |-> n]
MCOriginal == [c \in {"face", "v1", "v2"} |-> V(IF c = "face" THEN 1 ELSE IF c = "v1" THEN 4 ELSE 0)]
MCMaximum == [c \in {"v1", "v2"} |-> V(IF c = "v1" THEN 4 ELSE 1)]
MCSupported == [i \in 1..1 |-> {4}]
MCDatabases == {<<>>, <<[control |-> "v1", value |-> V(3)], [control |-> "v2", value |-> V(1)]>>}

\* The shipped database needs no entry for a camera with Microsoft's control
MCInit == EmitterInit /\ (msxu => database = <<>>)

MCSpec == MCInit /\ [][EmitterNext]_emitter_vars /\ Fairness
=============================================================================
