----------------------------- MODULE PasskeyStore -----------------------------
(***************************************************************************)
(* What the credential store of the passkeys promises: one table of sign   *)
(* counters that registrations, assertions, removals and resets change one *)
(* after the other, whichever process asks for them and wherever one of    *)
(* them dies.  Module Passkeys shows that the file does that.              *)
(***************************************************************************)
EXTENDS Integers

CONSTANTS
  Credential,     \* credential ids
  Account         \* credential -> its website and user handle

VARIABLE store    \* credential -> its sign counter, or Absent

Absent == -1

\* A credential of the same website and user handle is replaced
Added(table, c) ==
  [d \in Credential |->
     IF d = c THEN 0 ELSE IF Account[d] = Account[c] THEN Absent ELSE table[d]]

Init == store \in [Credential -> {Absent}]

Add(c) ==
  /\ store[c] = Absent
  /\ store' = Added(store, c)

Increment(c) ==
  /\ store[c] # Absent
  /\ store' = [store EXCEPT ![c] = store[c] + 1]

Remove(c) ==
  /\ store[c] # Absent
  /\ store' = [store EXCEPT ![c] = Absent]

DestroyAll == store' = [c \in Credential |-> Absent]

Next ==
  \/ \E c \in Credential : Add(c) \/ Increment(c) \/ Remove(c)
  \/ DestroyAll

Spec == Init /\ [][Next]_store
=============================================================================
