------------------------------- MODULE Passkeys -------------------------------
(***************************************************************************)
(* The passkeys of a user: Authenticator of webauthn/authenticator.py,     *)
(* CredentialStore of webauthn/store.py and the commands of                *)
(* cli/webauthn.py that change the store.                                  *)
(*                                                                         *)
(* Two processes work on one file: the daemon, which handles one command   *)
(* at a time (OneCommand of module CtapHid) and keeps its copy of the file *)
(* between commands, and the command line, which reads the file anew each  *)
(* time.  Both change it under an flock.  Either may die at any moment.    *)
(*                                                                         *)
(* The command line registers and asserts for a website of its own, under  *)
(* the reserved domain .test, which no browser asks for.                   *)
(*                                                                         *)
(* Left out, as they change nothing that is kept: getInfo, selection,      *)
(* silent assertions, excluded registrations and malformed requests.  A    *)
(* list of allowed or discoverable credentials is any set of them.         *)
(***************************************************************************)
EXTENDS Integers, Sequences

CONSTANTS
  Credential,     \* credential ids, in the order of created_at
  Account,        \* credential -> its website and user handle
  Site,           \* websites
  SiteOf,         \* credential -> its website
  TEST_SITE,      \* linuxhello.test
  MAX_COUNT       \* credential -> its last sign counter, a bound of the model

Absent == -1
Process == {"daemon", "cli"}
Nobody == "nobody"

ASSUME PasskeyAssumption ==
  /\ Credential \subseteq Nat
  /\ SiteOf \in [Credential -> Site]
  /\ TEST_SITE \in Site
  /\ \A c, d \in Credential : Account[c] = Account[d] => SiteOf[c] = SiteOf[d]
  /\ MAX_COUNT \in [Credential -> Nat]

VARIABLES
  disk,           \* the file: credential -> sign_count, or Absent
  lock,           \* the process that holds the flock
  memory,         \* process -> _credentials, like the file
  pc,             \* process -> where its command is
  op,             \* process -> what the command does
  todo,           \* process -> the credentials it still has to write
  made,           \* process -> the assertions it has made, newest first
  queue,          \* _next_assertions of the daemon
  reset_open,     \* RESET_WINDOW has not passed since the daemon started
  used,           \* credential ids that exist or existed
  \* history, read by the properties only
  released        \* credential -> the counter its website has seen last

file_vars == <<disk, lock>>
command_vars == <<pc, op, todo, made>>
vars == <<file_vars, memory, command_vars, queue, reset_open, used, released>>

Table == [Credential -> Nat \cup {Absent}]
Assertion == [credential : Credential, count : Nat]

TypeOK ==
  /\ disk \in Table
  /\ lock \in Process \cup {Nobody}
  /\ memory \in [Process -> Table]
  /\ pc \in [Process -> {"idle", "verifying", "waiting", "locked", "replying"}]
  /\ op \in [Process -> {"none", "make", "assert", "reset", "remove"}]
  /\ todo \in [Process -> SUBSET Credential]
  /\ made \in [Process -> Seq(Assertion)]
  /\ queue \in Seq(Assertion)
  /\ reset_open \in BOOLEAN
  /\ used \subseteq Credential
  /\ released \in [Credential -> Nat]

Empty == [c \in Credential |-> Absent]
Stored(table) == {c \in Credential : table[c] # Absent}

Init ==
  /\ disk = Empty
  /\ lock = Nobody
  /\ memory = [p \in Process |-> Empty]
  /\ pc = [p \in Process |-> "idle"]
  /\ op = [p \in Process |-> "none"]
  /\ todo = [p \in Process |-> {}]
  /\ made = [p \in Process |-> <<>>]
  /\ queue = <<>>
  /\ reset_open = TRUE
  /\ used = {}
  /\ released = [c \in Credential |-> 0]

-----------------------------------------------------------------------------
(***************************************************************************)
(* A command begins.                                                       *)
(***************************************************************************)

\* The websites a process is asked for
Sites(p) == IF p = "cli" THEN {TEST_SITE} ELSE Site \ {TEST_SITE}

\* What a command finds in memory: the command line has just read the file
Known(p) == IF p = "cli" THEN disk ELSE memory[p]

Begin(p, what, credentials, at) ==
  /\ pc[p] = "idle"
  /\ pc' = [pc EXCEPT ![p] = at]
  /\ op' = [op EXCEPT ![p] = what]
  /\ todo' = [todo EXCEPT ![p] = credentials]
  /\ memory' = [memory EXCEPT ![p] = Known(p)]
  /\ UNCHANGED <<file_vars, made, queue, reset_open, used, released>>

\* make_credential, `webauthn register'
MakeCredential(p) ==
  \E c \in Credential \ used :
    SiteOf[c] \in Sites(p) /\ Begin(p, "make", {c}, "verifying")

\* find_for_rp
FindForRp(p, site, allowed) ==
  {c \in Stored(Known(p)) : SiteOf[c] = site /\ c \in allowed}

\* get_assertion, `webauthn authenticate'
GetAssertion(p) ==
  \E site \in Sites(p), allowed \in SUBSET Credential :
    LET credentials == FindForRp(p, site, allowed)
    IN credentials # {} /\ Begin(p, "assert", credentials, "verifying")

\* reset
Reset == reset_open /\ Begin("daemon", "reset", {}, "verifying")

\* `webauthn remove' with an ID of the list
Remove ==
  \E c \in Stored(disk) : Begin("cli", "remove", {c}, "waiting")

\* The command ends, with its answer or without.  The daemon goes on with its
\* copy, the process of the command line is gone
Ended(p, copy) ==
  /\ memory' = [memory EXCEPT ![p] = IF p = "cli" THEN Empty ELSE copy]
  /\ pc' = [pc EXCEPT ![p] = "idle"]
  /\ op' = [op EXCEPT ![p] = "none"]
  /\ todo' = [todo EXCEPT ![p] = {}]
  /\ made' = [made EXCEPT ![p] = <<>>]

\* _verify_user
VerifyUser(p) ==
  /\ pc[p] = "verifying"
  /\ \/ /\ pc' = [pc EXCEPT ![p] = "waiting"]
        /\ UNCHANGED <<memory, op, todo, made>>
     \/ Ended(p, memory[p])
  /\ UNCHANGED <<file_vars, queue, reset_open, used, released>>

-----------------------------------------------------------------------------
(***************************************************************************)
(* The store's operations: under the flock the file is read, changed and   *)
(* renamed into place.                                                     *)
(***************************************************************************)

\* Fault: the copy in memory is taken for the file
Trusted(p) == memory[p]

\* self.load(); destroy_all does without
Loaded(p) == IF op[p] = "reset" THEN memory[p] ELSE disk

\* self._locked() and self.load()
Lock(p) ==
  /\ pc[p] = "waiting"
  /\ lock = Nobody
  /\ lock' = p
  /\ memory' = [memory EXCEPT ![p] = Loaded(p)]
  /\ pc' = [pc EXCEPT ![p] = "locked"]
  /\ UNCHANGED <<disk, op, todo, made, queue, reset_open, used, released>>

\* A credential of the same website and user handle is replaced
Added(table, c) ==
  [d \in Credential |->
     IF d = c THEN 0 ELSE IF Account[d] = Account[c] THEN Absent ELSE table[d]]

\* The next credential of a command; find_for_rp sorts the newest first
Newest(p, c) == c \in todo[p] /\ \A d \in todo[p] : d <= c

\* The credential an assertion or a removal is about is there
Found(p, c) == op[p] = "make" \/ memory[p][c] # Absent

\* What an operation makes of the copy it has read
Changed(p, c) ==
  CASE op[p] = "make"   -> Added(memory[p], c)
    [] op[p] = "assert" -> [memory[p] EXCEPT ![c] = memory[p][c] + 1]
    [] op[p] = "remove" -> [memory[p] EXCEPT ![c] = Absent]

\* _save, and the lock is free again
Save(p, table) ==
  /\ disk' = table
  /\ lock' = Nobody

\* store.add of a new credential
Add(p, c) ==
  /\ pc[p] = "locked"
  /\ op[p] = "make"
  /\ Newest(p, c)
  /\ Save(p, Changed(p, c))
  /\ Ended(p, Changed(p, c))
  /\ used' = used \cup {c}
  /\ UNCHANGED <<queue, reset_open, released>>

\* store.increment_counter, and the assertion with the new counter
IncrementCounter(p, c) ==
  /\ pc[p] = "locked"
  /\ op[p] = "assert"
  /\ Newest(p, c)
  /\ Found(p, c)
  /\ memory[p][c] < MAX_COUNT[c]
  /\ Save(p, Changed(p, c))
  /\ memory' = [memory EXCEPT ![p] = Changed(p, c)]
  /\ made' = [made EXCEPT ![p] =
                Append(made[p], [credential |-> c, count |-> memory[p][c] + 1])]
  /\ todo' = [todo EXCEPT ![p] = todo[p] \ {c}]
  /\ pc' = [pc EXCEPT ![p] = IF todo[p] = {c} THEN "replying" ELSE "waiting"]
  /\ UNCHANGED <<op, queue, reset_open, used, released>>

\* store.remove
RemoveCredential(p, c) ==
  /\ pc[p] = "locked"
  /\ op[p] = "remove"
  /\ Newest(p, c)
  /\ Found(p, c)
  /\ Save(p, Changed(p, c))
  /\ Ended(p, Changed(p, c))
  /\ UNCHANGED <<queue, reset_open, used, released>>

\* The credential is gone: "Unknown credential", or nothing to remove
NotFound(p, c) ==
  /\ pc[p] = "locked"
  /\ Newest(p, c)
  /\ ~Found(p, c)
  /\ lock' = Nobody
  /\ Ended(p, memory[p])
  /\ UNCHANGED <<disk, queue, reset_open, used, released>>

\* _save raises: the file is as before, the copy in memory is not
SaveFails(p, c) ==
  /\ pc[p] = "locked"
  /\ Newest(p, c)
  /\ Found(p, c)
  /\ op[p] = "assert" => memory[p][c] < MAX_COUNT[c]
  /\ lock' = Nobody
  /\ Ended(p, Changed(p, c))
  /\ used' = IF op[p] = "make" THEN used \cup {c} ELSE used
  /\ UNCHANGED <<disk, queue, reset_open, released>>

\* store.destroy_all, of reset
DestroyAll(p) ==
  /\ pc[p] = "locked"
  /\ op[p] = "reset"
  /\ Save(p, Empty)
  /\ Ended(p, Empty)
  /\ UNCHANGED <<queue, reset_open, used, released>>

\* ... whose os.remove raises: the daemon's copy is empty, the file as before
DestroyFails(p) ==
  /\ pc[p] = "locked"
  /\ op[p] = "reset"
  /\ lock' = Nobody
  /\ Ended(p, Empty)
  /\ UNCHANGED <<disk, queue, reset_open, used, released>>

\* The keystore fails to sign
SignFails(p) ==
  /\ made[p] # <<>>
  /\ pc[p] \in {"waiting", "replying"}
  /\ Ended(p, memory[p])
  /\ UNCHANGED <<file_vars, queue, reset_open, used, released>>

-----------------------------------------------------------------------------
(***************************************************************************)
(* Assertions leave the authenticator.                                     *)
(***************************************************************************)

Release(assertion) ==
  released' = [released EXCEPT ![assertion.credential] = assertion.count]

\* Fault: an assertion for one credential leaves the queue as it is
QueueOfMany(assertions) == IF Len(assertions) = 1 THEN queue ELSE Tail(assertions)

\* self._next_assertions = responses[1:]
QueueOfRest(assertions) == Tail(assertions)

\* get_assertion returns the first one; the queue of the command line ends
\* with it
AnswerAssertion(p) ==
  /\ pc[p] = "replying"
  /\ Release(Head(made[p]))
  /\ queue' = IF p = "daemon" THEN QueueOfRest(made[p]) ELSE queue
  /\ Ended(p, memory[p])
  /\ UNCHANGED <<file_vars, reset_open, used>>

\* get_next_assertion
GetNextAssertion ==
  /\ pc["daemon"] = "idle"
  /\ queue # <<>>
  /\ Release(Head(queue))
  /\ queue' = Tail(queue)
  /\ UNCHANGED <<file_vars, memory, command_vars, reset_open, used>>

\* NEXT_ASSERTION_WINDOW passes: get_next_assertion will empty the queue
\* unless get_assertion has replaced it before
NextWindowEnds ==
  /\ queue # <<>>
  /\ queue' = <<>>
  /\ UNCHANGED <<file_vars, memory, command_vars, reset_open, used, released>>

ResetWindowEnds ==
  /\ reset_open
  /\ reset_open' = FALSE
  /\ UNCHANGED <<file_vars, memory, command_vars, queue, used, released>>

-----------------------------------------------------------------------------
\* A process dies and the kernel gives its flock back.  The daemon is started
\* again and reads the file
Crash(p) ==
  /\ lock' = IF lock = p THEN Nobody ELSE lock
  /\ Ended(p, disk)
  /\ IF p = "daemon" THEN queue' = <<>> /\ reset_open' = TRUE
     ELSE UNCHANGED <<queue, reset_open>>
  /\ UNCHANGED <<disk, used, released>>

-----------------------------------------------------------------------------
Request(p) == MakeCredential(p) \/ GetAssertion(p)

Step(p) ==
  \/ VerifyUser(p) \/ Lock(p)
  \/ \E c \in Credential :
       \/ Add(p, c) \/ IncrementCounter(p, c) \/ RemoveCredential(p, c)
       \/ NotFound(p, c) \/ SaveFails(p, c)
  \/ DestroyAll(p) \/ DestroyFails(p) \/ SignFails(p) \/ AnswerAssertion(p)

Next ==
  \/ Reset \/ Remove
  \/ GetNextAssertion \/ NextWindowEnds \/ ResetWindowEnds
  \/ \E p \in Process : Request(p) \/ Step(p) \/ Crash(p)

Spec == Init /\ [][Next]_vars

-----------------------------------------------------------------------------
(***************************************************************************)
(* The file is one table that the two processes change one after the       *)
(* other: no step loses a registration, takes a counter back or brings a   *)
(* removed credential back, though each process writes the whole file from *)
(* the copy it holds.                                                      *)
(***************************************************************************)
Store == INSTANCE PasskeyStore WITH store <- disk

StoreIsAtomic == Store!Spec

(***************************************************************************)
(* "a crash can skip counter values but never repeat one": the assertion   *)
(* that leaves next has a higher counter than any its website has seen for *)
(* that credential, whether it is an answer or waits in the queue while    *)
(* other assertions are made.                                              *)
(***************************************************************************)
CounterGrows ==
  /\ \A i \in 1..Len(queue) : queue[i].count > released[queue[i].credential]
  /\ \A p \in Process :
       pc[p] = "replying"
         => Head(made[p]).count > released[Head(made[p]).credential]

=============================================================================
