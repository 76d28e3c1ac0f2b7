---------------------------- MODULE PasskeysProofs ----------------------------
(***************************************************************************)
(* Proofs about module Passkeys: for any credentials, accounts and         *)
(* websites, the file is an atomic store and the sign counters grow.       *)
(***************************************************************************)
EXTENDS Passkeys, TLAPS

(***************************************************************************)
(* The inductive invariant.                                                *)
(***************************************************************************)

\* The copy a process changes is the file, as long as it holds the lock
Holder ==
  \A p \in Process :
    pc[p] = "locked" => lock = p /\ (op[p] # "reset" => memory[p] = disk)

\* What a command may still write, and what it has made
Command(p) ==
  /\ pc[p] = "idle" <=> op[p] = "none"
  /\ op[p] = "reset" => todo[p] = {}
  /\ op[p] = "make" => \A c \in todo[p] : c \notin used /\ SiteOf[c] \in Sites(p)
  /\ op[p] = "assert" => \A c \in todo[p] : c \in used /\ SiteOf[c] \in Sites(p)
  /\ op[p] # "assert" => made[p] = <<>>
  /\ pc[p] = "replying" => made[p] # <<>>
  /\ \A i \in 1..Len(made[p]) : made[p][i].credential \notin todo[p]

Commands == \A p \in Process : Command(p)

\* Nothing is stored, in the file or in a copy, that was not registered
Copies ==
  /\ Stored(disk) \subseteq used
  /\ \A p \in Process : Stored(memory[p]) \subseteq used

\* No website has seen a counter the file has not reached
Counters ==
  \A c \in Credential :
    /\ disk[c] # Absent => released[c] <= disk[c]
    /\ c \notin used => released[c] = 0

\* One assertion each of registered credentials of process p, newer than what
\* the website has seen and not newer than the file
Sound(s, p, table, seen, known) ==
  \A i \in 1..Len(s) :
    /\ SiteOf[s[i].credential] \in Sites(p)
    /\ s[i].credential \in known
    /\ s[i].count > seen[s[i].credential]
    /\ table[s[i].credential] # Absent => s[i].count <= table[s[i].credential]
    /\ \A j \in 1..Len(s) : i # j => s[i].credential # s[j].credential

Outgoing ==
  /\ Sound(queue, "daemon", disk, released, used)
  /\ \A p \in Process : Sound(made[p], p, disk, released, used)

IInv ==
  /\ TypeOK
  /\ Holder
  /\ Commands
  /\ Copies
  /\ Counters
  /\ Outgoing

-----------------------------------------------------------------------------
(***************************************************************************)
(* Lemmas on sequences of assertions.                                      *)
(***************************************************************************)

\* The empty sequence is sound
LEMMA SoundEmpty ==
  ASSUME NEW p, NEW table, NEW seen, NEW known
  PROVE  Sound(<<>>, p, table, seen, known)
BY DEF Sound

\* A sequence stays sound when the file loses credentials, or its counters or
\* the known credentials grow
LEMMA SoundKept ==
  ASSUME NEW s \in Seq(Assertion), NEW p, NEW table \in Table, NEW table2 \in Table,
         NEW seen \in [Credential -> Nat], NEW known, NEW known2,
         Sound(s, p, table, seen, known),
         known \subseteq known2,
         \A c \in known : table2[c] # Absent => table[c] # Absent /\ table[c] <= table2[c]
  PROVE  Sound(s, p, table2, seen, known2)
<1>1. ASSUME NEW i \in 1..Len(s)
      PROVE  s[i] \in Assertion
  OBVIOUS
<1> QED
  BY <1>1 DEF Sound, Assertion, Table, Absent

\* A sequence stays sound when another credential's assertion leaves
LEMMA SoundReleased ==
  ASSUME NEW s \in Seq(Assertion), NEW p, NEW table, NEW known,
         NEW seen \in [Credential -> Nat], NEW x \in Credential, NEW n \in Nat,
         Sound(s, p, table, seen, known),
         \A i \in 1..Len(s) : s[i].credential # x
  PROVE  Sound(s, p, table, [seen EXCEPT ![x] = n], known)
<1>1. ASSUME NEW i \in 1..Len(s)
      PROVE  s[i].credential \in Credential
  <2>1. s[i] \in Assertion
    OBVIOUS
  <2> QED
    BY <2>1 DEF Assertion
<1> QED
  BY <1>1 DEF Sound

\* The rest of a sound sequence is sound and is about other credentials
LEMMA SoundTail ==
  ASSUME NEW s \in Seq(Assertion), s # <<>>, NEW p, NEW table, NEW seen, NEW known,
         Sound(s, p, table, seen, known)
  PROVE  /\ Head(s) \in Assertion
         /\ Tail(s) \in Seq(Assertion)
         /\ Sound(Tail(s), p, table, seen, known)
         /\ \A i \in 1..Len(Tail(s)) : Tail(s)[i].credential # Head(s).credential
         /\ SiteOf[Head(s).credential] \in Sites(p)
         /\ Head(s).credential \in known
         /\ Head(s).count > seen[Head(s).credential]
         /\ table[Head(s).credential] # Absent
              => Head(s).count <= table[Head(s).credential]
<1>1. Head(s) = s[1] /\ 1 \in 1..Len(s) /\ Head(s) \in Assertion
  OBVIOUS
<1>2. Len(Tail(s)) = Len(s) - 1 /\ \A i \in 1..Len(Tail(s)) : Tail(s)[i] = s[i + 1]
  OBVIOUS
<1>3. \A i \in 1..Len(Tail(s)) : i + 1 \in 1..Len(s) /\ i + 1 # 1
  BY <1>2
<1>4. Sound(Tail(s), p, table, seen, known)
  BY <1>2, <1>3 DEF Sound
<1>5. \A i \in 1..Len(Tail(s)) : Tail(s)[i].credential # Head(s).credential
  BY <1>1, <1>2, <1>3 DEF Sound
<1> QED
  BY <1>1, <1>4, <1>5 DEF Sound

\* An assertion of another credential can be added to a sound sequence
LEMMA SoundAppend ==
  ASSUME NEW s \in Seq(Assertion), NEW a \in Assertion, NEW p, NEW table, NEW seen, NEW known,
         Sound(s, p, table, seen, known),
         SiteOf[a.credential] \in Sites(p),
         a.credential \in known,
         a.count > seen[a.credential],
         table[a.credential] # Absent => a.count <= table[a.credential],
         \A i \in 1..Len(s) : s[i].credential # a.credential
  PROVE  Sound(Append(s, a), p, table, seen, known)
<1>1. /\ Len(Append(s, a)) = Len(s) + 1
      /\ Append(s, a)[Len(s) + 1] = a
      /\ \A i \in 1..Len(s) : Append(s, a)[i] = s[i]
  OBVIOUS
<1>2. \A i \in 1..Len(Append(s, a)) : i \in 1..Len(s) \/ i = Len(s) + 1
  BY <1>1
<1>3. Len(s) + 1 \notin 1..Len(s)
  OBVIOUS
<1> QED
  BY <1>1, <1>2, <1>3 DEF Sound

-----------------------------------------------------------------------------
(***************************************************************************)
(* Lemmas on the commands.                                                 *)
(***************************************************************************)

\* What the end of a command leaves of it, and of the others
LEMMA EndedFacts ==
  ASSUME TypeOK, NEW p \in Process, NEW copy \in Table, Ended(p, copy)
  PROVE  /\ memory' \in [Process -> Table]
         /\ pc' \in [Process -> {"idle", "verifying", "waiting", "locked", "replying"}]
         /\ op' \in [Process -> {"none", "make", "assert", "reset", "remove"}]
         /\ todo' \in [Process -> SUBSET Credential]
         /\ made' \in [Process -> Seq(Assertion)]
         /\ pc'[p] = "idle" /\ op'[p] = "none" /\ todo'[p] = {} /\ made'[p] = <<>>
         /\ memory'[p] \in {Empty, copy}
         /\ \A q \in Process \ {p} :
              /\ memory'[q] = memory[q] /\ pc'[q] = pc[q] /\ op'[q] = op[q]
              /\ todo'[q] = todo[q] /\ made'[q] = made[q]
<1>1. Empty \in Table
  BY DEF Empty, Table
<1>2. <<>> \in Seq(Assertion)
  OBVIOUS
<1> QED
  BY <1>1, <1>2 DEF Ended, TypeOK

\* The end of a command keeps the invariant if the file is written by its
\* holder only and no counter in it is taken back
LEMMA EndKeeps ==
  ASSUME IInv, NEW p \in Process, NEW copy \in Table, Ended(p, copy),
         disk' \in Table, lock' \in Process \cup {Nobody}, reset_open' \in BOOLEAN,
         used \subseteq used', used' \subseteq Credential,
         released' = released, queue' = queue \/ queue' = <<>>,
         Stored(copy) \subseteq used', Stored(disk') \subseteq used',
         \A q \in Process \ {p} : pc[q] = "locked" => disk' = disk /\ lock' = q,
         \A q \in Process \ {p} : op[q] = "make" => \A c \in todo[q] : c \notin used',
         \A c \in used : disk'[c] # Absent => disk[c] # Absent /\ disk[c] <= disk'[c]
  PROVE  IInv'
<1> USE DEF IInv
<1>1. TypeOK'
  BY EndedFacts DEF TypeOK
<1>2. Holder'
  BY EndedFacts DEF Holder
<1>3. Commands'
  <2> SUFFICES ASSUME NEW q \in Process PROVE Command(q)'
    BY DEF Commands
  <2>1. CASE q = p
    BY <2>1, EndedFacts DEF Command
  <2>2. CASE q # p
    BY <2>2, EndedFacts, ZenonT(40) DEF Commands, Command, Sites
  <2> QED
    BY <2>1, <2>2
<1>4. Copies'
  <2>1. Stored(Empty) = {}
    BY DEF Stored, Empty
  <2>2. Stored(memory'[p]) \subseteq used'
    <3>1. memory'[p] = Empty \/ memory'[p] = copy
      BY EndedFacts
    <3> QED
      BY <2>1, <3>1
  <2>3. ASSUME NEW q \in Process \ {p} PROVE Stored(memory'[q]) \subseteq used'
    <3>1. memory'[q] = memory[q]
      BY EndedFacts
    <3> QED
      BY <3>1 DEF Copies
  <2> QED
    BY <2>2, <2>3 DEF Copies, Stored
<1>5. Counters'
  BY DEF Counters, TypeOK, Table, Absent
<1>6. Outgoing'
  <2>1. ASSUME NEW s \in Seq(Assertion), NEW q, Sound(s, q, disk, released, used)
        PROVE  Sound(s, q, disk', released', used')
    BY <2>1, SoundKept DEF TypeOK
  <2>2. Sound(queue', "daemon", disk', released', used')
    BY <2>1, SoundEmpty DEF Outgoing, TypeOK
  <2>3. ASSUME NEW q \in Process
        PROVE  Sound(made'[q], q, disk', released', used')
    <3>1. CASE q = p
      BY <3>1, SoundEmpty, EndedFacts
    <3>2. CASE q # p
      <4>1. made'[q] = made[q] /\ made[q] \in Seq(Assertion)
        BY <3>2, EndedFacts DEF TypeOK
      <4>2. Sound(made[q], q, disk, released, used)
        BY DEF Outgoing
      <4> QED
        BY <2>1, <4>1, <4>2
    <3> QED
      BY <3>1, <3>2
  <2> QED
    BY <2>2, <2>3 DEF Outgoing
<1> QED
  BY <1>1, <1>2, <1>3, <1>4, <1>5, <1>6

\* The operations write tables, of registered credentials
LEMMA ChangedFacts ==
  ASSUME IInv, NEW p \in Process, NEW c \in Credential,
         pc[p] = "locked", Newest(p, c), Found(p, c)
  PROVE  /\ lock = p
         /\ op[p] \in {"make", "assert", "remove"}
         /\ memory[p] = disk
         /\ Changed(p, c) \in Table
         /\ Stored(Changed(p, c)) \subseteq used \cup {c}
         /\ op[p] # "make" => Stored(Changed(p, c)) \subseteq used
         /\ op[p] = "make" => c \notin used
         /\ \A d \in used : Changed(p, c)[d] # Absent
              => disk[d] # Absent /\ disk[d] <= Changed(p, c)[d]
<1> USE DEF IInv
<1>1. /\ lock = p
      /\ op[p] \in {"make", "assert", "remove"}
      /\ memory[p] = disk
      /\ op[p] = "make" => c \notin used
  <2>1. Command(p) /\ c \in todo[p]
    BY DEF Commands, Newest
  <2>2. op[p] \in {"make", "assert", "remove"}
    BY <2>1 DEF Command, TypeOK
  <2> QED
    BY <2>1, <2>2 DEF Holder, Command
<1>2. disk \in Table /\ Stored(disk) \subseteq used /\ used \subseteq Credential
  BY DEF TypeOK, Copies
<1>3. CASE op[p] = "make"
  <2>1. Changed(p, c) = Added(disk, c)
    BY <1>1, <1>3 DEF Changed
  <2>2. Added(disk, c) \in Table
    BY <1>2 DEF Added, Table
  <2>3. \A d \in Credential : d # c => Added(disk, c)[d] \in {Absent, disk[d]}
    BY DEF Added
  <2>4. Stored(Added(disk, c)) \subseteq used \cup {c}
    BY <1>2, <2>3 DEF Stored
  <2>5. \A d \in used : Added(disk, c)[d] # Absent
              => disk[d] # Absent /\ disk[d] <= Added(disk, c)[d]
    BY <1>1, <1>2, <1>3, <2>3 DEF Table, Absent
  <2> QED
    BY <1>1, <1>3, <2>1, <2>2, <2>4, <2>5
<1>4. CASE op[p] = "assert"
  BY <1>1, <1>2, <1>4 DEF Changed, Found, Table, Absent, Stored
<1>5. CASE op[p] = "remove"
  BY <1>1, <1>2, <1>5 DEF Changed, Found, Table, Absent, Stored
<1> QED
  BY <1>1, <1>3, <1>4, <1>5

\* Another process neither holds the lock nor registers the same credential
LEMMA OthersOut ==
  ASSUME IInv, NEW p \in Process, NEW q \in Process \ {p}
  PROVE  /\ lock = p => pc[q] # "locked"
         /\ op[p] = "make" /\ op[q] = "make" =>
              \A c \in todo[p] : c \notin todo[q]
         /\ op[q] = "make" => \A c \in todo[q] : c \notin used
<1> QED
  BY DEF IInv, Holder, Commands, Command, Sites, Process

-----------------------------------------------------------------------------
(***************************************************************************)
(* Every step keeps the invariant.                                         *)
(***************************************************************************)

\* The end of a command that writes nothing
LEMMA EndUnwritten ==
  ASSUME IInv, NEW p \in Process, NEW copy \in Table, Ended(p, copy),
         Stored(copy) \subseteq used, disk' = disk, used' = used, released' = released,
         lock' = lock \/ (lock = p /\ lock' = Nobody),
         queue' = queue \/ queue' = <<>>, reset_open' \in BOOLEAN
  PROVE  IInv'
<1>1. disk \in Table /\ lock' \in Process \cup {Nobody} /\ used \subseteq Credential
  BY DEF IInv, TypeOK
<1>2. Stored(disk) \subseteq used
  BY DEF IInv, Copies
<1>3. \A q \in Process \ {p} : pc[q] = "locked" => lock = q
  BY DEF IInv, Holder
<1>4. \A q \in Process \ {p} : op[q] = "make" => \A c \in todo[q] : c \notin used
  BY OthersOut
<1>5. \A c \in used : disk[c] # Absent => disk[c] <= disk[c]
  BY <1>1 DEF Table, Absent
<1> QED
  BY <1>1, <1>2, <1>3, <1>4, <1>5, EndKeeps

\* MakeCredential, GetAssertion, Reset and Remove begin a command
LEMMA BeginKeeps ==
  ASSUME IInv, NEW p \in Process, NEW credentials \in SUBSET Credential,
         NEW what \in {"make", "assert", "reset", "remove"},
         NEW at \in {"verifying", "waiting"},
         Begin(p, what, credentials, at),
         what = "reset" => credentials = {},
         what = "make" => \A c \in credentials : c \notin used /\ SiteOf[c] \in Sites(p),
         what = "assert" => \A c \in credentials : c \in used /\ SiteOf[c] \in Sites(p)
  PROVE  IInv'
<1> USE DEF IInv, Begin
<1>1. Known(p) \in Table /\ Stored(Known(p)) \subseteq used
  BY DEF Known, TypeOK, Copies
<1>2. TypeOK'
  BY <1>1 DEF TypeOK, file_vars
<1>3. Holder'
  BY DEF Holder, TypeOK, file_vars
<1>4. Commands'
  <2> SUFFICES ASSUME NEW q \in Process PROVE Command(q)'
    BY DEF Commands
  <2>1. Command(q)
    BY DEF Commands
  <2>2. CASE q = p
    <3>1. made[p] = <<>> /\ made' = made
      BY <2>1, <2>2 DEF Command
    <3>2. pc'[p] = at /\ op'[p] = what /\ todo'[p] = credentials /\ used' = used
      BY DEF TypeOK
    <3> QED
      BY <2>2, <3>1, <3>2 DEF Command, Sites
  <2>3. CASE q # p
    <3>1. pc'[q] = pc[q] /\ op'[q] = op[q] /\ todo'[q] = todo[q] /\ made' = made
      BY <2>3 DEF TypeOK
    <3> QED
      BY <2>1, <3>1 DEF Command, Sites
  <2> QED
    BY <2>2, <2>3
<1>5. Copies'
  BY <1>1 DEF Copies, Stored, TypeOK, file_vars
<1>6. Counters'
  BY DEF Counters, file_vars
<1>7. Outgoing'
  BY DEF Outgoing, file_vars
<1> QED
  BY <1>2, <1>3, <1>4, <1>5, <1>6, <1>7

\* The face is recognised
LEMMA VerifiedKeeps ==
  ASSUME IInv, NEW p \in Process, VerifyUser(p)
  PROVE  IInv'
<1>1. CASE Ended(p, memory[p])
  <2>1. memory[p] \in Table /\ Stored(memory[p]) \subseteq used /\ reset_open \in BOOLEAN
    BY DEF IInv, TypeOK, Copies
  <2> QED
    BY <1>1, <2>1, EndUnwritten DEF VerifyUser, file_vars
<1>2. CASE pc' = [pc EXCEPT ![p] = "waiting"] /\ UNCHANGED <<memory, op, todo, made>>
  <2> USE <1>2 DEF IInv, VerifyUser, file_vars
  <2>1. TypeOK'
    BY DEF TypeOK
  <2>2. Holder'
    BY DEF Holder, TypeOK
  <2>3. Commands'
    <3> SUFFICES ASSUME NEW q \in Process PROVE Command(q)'
      BY DEF Commands
    <3>1. Command(q)
      BY DEF Commands
    <3>2. pc'[q] = pc[q] \/ (q = p /\ pc[q] = "verifying" /\ pc'[q] = "waiting")
      BY DEF TypeOK
    <3> QED
      BY <3>1, <3>2 DEF Command, Sites
  <2>4. Copies' /\ Counters' /\ Outgoing'
    BY DEF Copies, Counters, Outgoing, Stored
  <2> QED
    BY <2>1, <2>2, <2>3, <2>4
<1> QED
  BY <1>1, <1>2 DEF VerifyUser

\* A process gets the lock and reads the file
LEMMA LockKeeps ==
  ASSUME IInv, NEW p \in Process, Lock(p)
  PROVE  IInv'
<1> USE DEF IInv, Lock
<1>1. Loaded(p) \in Table /\ Stored(Loaded(p)) \subseteq used
  BY DEF Loaded, TypeOK, Copies
<1>2. TypeOK'
  BY <1>1 DEF TypeOK
<1>3. Holder'
  BY DEF Holder, TypeOK, Loaded, Process, Nobody
<1>4. Commands'
  <2> SUFFICES ASSUME NEW q \in Process PROVE Command(q)'
    BY DEF Commands
  <2>1. Command(q)
    BY DEF Commands
  <2>2. pc'[q] = pc[q] \/ (q = p /\ pc[q] = "waiting" /\ pc'[q] = "locked")
    BY DEF TypeOK
  <2> QED
    BY <2>1, <2>2 DEF Command, Sites
<1>5. Copies'
  BY <1>1 DEF Copies, Stored, TypeOK
<1>6. Counters' /\ Outgoing'
  BY DEF Counters, Outgoing
<1> QED
  BY <1>2, <1>3, <1>4, <1>5, <1>6

\* Add, RemoveCredential, NotFound, SaveFails, DestroyAll, DestroyFails, SignFails
\* and Crash end a command
LEMMA EndingKeeps ==
  ASSUME IInv, NEW p \in Process,
         \/ \E c \in Credential :
              Add(p, c) \/ RemoveCredential(p, c) \/ NotFound(p, c) \/ SaveFails(p, c)
         \/ DestroyAll(p) \/ DestroyFails(p) \/ SignFails(p) \/ Crash(p)
  PROVE  IInv'
<1>1. /\ memory[p] \in Table /\ Stored(memory[p]) \subseteq used
      /\ disk \in Table /\ Stored(disk) \subseteq used
      /\ used \subseteq Credential /\ reset_open \in BOOLEAN
      /\ Empty \in Table /\ Stored(Empty) = {}
  BY DEF IInv, TypeOK, Copies, Empty, Table, Stored
<1>2. pc[p] = "locked" => lock = p
  BY DEF IInv, Holder
<1>3. ASSUME NEW c \in Credential, Add(p, c) PROVE IInv'
  <2>1. pc[p] = "locked" /\ op[p] = "make" /\ Newest(p, c) /\ Found(p, c)
    BY <1>3 DEF Add, Found
  <2>2. /\ Ended(p, Changed(p, c)) /\ disk' = Changed(p, c) /\ lock' = Nobody
        /\ used' = used \cup {c} /\ queue' = queue /\ reset_open' = reset_open
        /\ released' = released
    BY <1>3 DEF Add, Save
  <2>3. \A q \in Process \ {p} : pc[q] # "locked"
    BY <1>2, <2>1, OthersOut
  <2>4. \A q \in Process \ {p} : op[q] = "make" => \A d \in todo[q] : d \notin used'
    BY <2>1, <2>2, OthersOut DEF Newest
  <2> QED
    BY <1>1, <2>1, <2>2, <2>3, <2>4, ChangedFacts, EndKeeps
<1>4. ASSUME NEW c \in Credential, RemoveCredential(p, c) PROVE IInv'
  <2>1. pc[p] = "locked" /\ op[p] = "remove" /\ Newest(p, c) /\ Found(p, c)
    BY <1>4 DEF RemoveCredential
  <2>2. /\ Ended(p, Changed(p, c)) /\ disk' = Changed(p, c) /\ lock' = Nobody
        /\ used' = used /\ queue' = queue /\ reset_open' = reset_open
        /\ released' = released
    BY <1>4 DEF RemoveCredential, Save
  <2>3. \A q \in Process \ {p} : pc[q] # "locked"
    BY <1>2, <2>1, OthersOut
  <2>4. \A q \in Process \ {p} : op[q] = "make" => \A d \in todo[q] : d \notin used'
    BY <2>2, OthersOut
  <2> QED
    BY <1>1, <2>1, <2>2, <2>3, <2>4, ChangedFacts, EndKeeps
<1>5. ASSUME NEW c \in Credential, NotFound(p, c) PROVE IInv'
  BY <1>1, <1>2, <1>5, EndUnwritten DEF NotFound
<1>6. ASSUME NEW c \in Credential, SaveFails(p, c) PROVE IInv'
  <2>1. pc[p] = "locked" /\ Newest(p, c) /\ Found(p, c)
    BY <1>6 DEF SaveFails
  <2>2. /\ Ended(p, Changed(p, c)) /\ disk' = disk /\ lock' = Nobody
        /\ used' = IF op[p] = "make" THEN used \cup {c} ELSE used
        /\ queue' = queue /\ reset_open' = reset_open /\ released' = released
    BY <1>6 DEF SaveFails
  <2>3. \A q \in Process \ {p} : pc[q] # "locked"
    BY <1>2, <2>1, OthersOut
  <2>4. \A q \in Process \ {p} : op[q] = "make" => \A d \in todo[q] : d \notin used'
    BY <2>1, <2>2, OthersOut DEF Newest
  <2>5. Stored(Changed(p, c)) \subseteq used' /\ Stored(disk) \subseteq used'
    BY <1>1, <2>1, <2>2, ChangedFacts
  <2>6. \A d \in used : disk[d] # Absent => disk[d] <= disk[d]
    BY <1>1 DEF Table, Absent
  <2>7. Changed(p, c) \in Table
    BY <2>1, ChangedFacts
  <2>8. used \subseteq used' /\ used' \subseteq Credential
    BY <1>1, <2>2
  <2> QED
    BY <1>1, <2>2, <2>3, <2>4, <2>5, <2>6, <2>7, <2>8, EndKeeps
<1>7. CASE DestroyAll(p)
  <2>1. /\ pc[p] = "locked" /\ Ended(p, Empty) /\ disk' = Empty /\ lock' = Nobody
        /\ used' = used /\ queue' = queue /\ reset_open' = reset_open
        /\ released' = released
    BY <1>7 DEF DestroyAll, Save
  <2>2. \A q \in Process \ {p} : pc[q] # "locked"
    BY <1>2, <2>1, OthersOut
  <2>3. \A q \in Process \ {p} : op[q] = "make" => \A d \in todo[q] : d \notin used'
    BY <2>1, OthersOut
  <2>4. \A d \in used : Empty[d] = Absent
    BY <1>1 DEF Empty
  <2> QED
    BY <1>1, <2>1, <2>2, <2>3, <2>4, EndKeeps
<1>8. CASE SignFails(p)
  BY <1>1, <1>8, EndUnwritten DEF SignFails, file_vars
<1>9. CASE Crash(p)
  BY <1>1, <1>9, EndUnwritten DEF Crash
<1>10. CASE DestroyFails(p)
  BY <1>1, <1>2, <1>10, EndUnwritten DEF DestroyFails
<1> QED
  BY <1>3, <1>4, <1>5, <1>6, <1>7, <1>8, <1>9, <1>10

\* A counter is written and an assertion made with it
LEMMA IncrementKeeps ==
  ASSUME IInv, NEW p \in Process, NEW c \in Credential, IncrementCounter(p, c)
  PROVE  IInv'
<1> DEFINE a == [credential |-> c, count |-> memory[p][c] + 1]
<1>1. /\ pc[p] = "locked" /\ op[p] = "assert" /\ Newest(p, c) /\ Found(p, c)
      /\ disk' = Changed(p, c) /\ lock' = Nobody
      /\ memory' = [memory EXCEPT ![p] = Changed(p, c)]
      /\ made' = [made EXCEPT ![p] = Append(made[p], a)]
      /\ todo' = [todo EXCEPT ![p] = todo[p] \ {c}]
      /\ pc' = [pc EXCEPT ![p] = IF todo[p] = {c} THEN "replying" ELSE "waiting"]
      /\ op' = op /\ queue' = queue /\ reset_open' = reset_open
      /\ used' = used /\ released' = released
  BY DEF IncrementCounter, Save
<1>2. /\ lock = p /\ memory[p] = disk
      /\ Changed(p, c) \in Table /\ Stored(Changed(p, c)) \subseteq used
      /\ \A d \in used : Changed(p, c)[d] # Absent
              => disk[d] # Absent /\ disk[d] <= Changed(p, c)[d]
  BY <1>1, ChangedFacts
<1>3. /\ disk \in Table /\ released \in [Credential -> Nat] /\ used \subseteq Credential
      /\ made[p] \in Seq(Assertion) /\ queue \in Seq(Assertion)
      /\ Command(p) /\ c \in todo[p] /\ disk[c] # Absent /\ disk[c] \in Nat
  BY <1>1, <1>2 DEF IInv, TypeOK, Commands, Newest, Found, Table, Absent
<1>4. a \in Assertion /\ a.count = disk[c] + 1 /\ a.credential = c
  BY <1>2, <1>3 DEF Assertion
<1>5. disk'[c] = disk[c] + 1
  BY <1>1, <1>2, <1>3 DEF Changed, Table
<1>6. \A q \in Process \ {p} : pc[q] # "locked"
  BY <1>2, OthersOut
<1>7. TypeOK'
  <2>1. Append(made[p], a) \in Seq(Assertion)
    BY <1>3, <1>4
  <2> QED
    BY <1>1, <1>2, <2>1 DEF IInv, TypeOK
<1>8. Holder'
  BY <1>1, <1>6 DEF IInv, TypeOK, Holder
<1>9. Commands'
  <2> SUFFICES ASSUME NEW q \in Process PROVE Command(q)'
    BY DEF Commands
  <2>1. CASE q = p
    <3>1. /\ made'[p] = Append(made[p], a) /\ todo'[p] = todo[p] \ {c}
          /\ pc'[p] \in {"replying", "waiting"} /\ op'[p] = "assert"
      BY <1>1 DEF IInv, TypeOK
    <3>2. Append(made[p], a) # <<>>
      BY <1>3, <1>4
    <3>3. \A i \in 1..Len(Append(made[p], a)) :
             Append(made[p], a)[i].credential \notin todo[p] \ {c}
      <4>1. /\ Len(Append(made[p], a)) = Len(made[p]) + 1
            /\ Append(made[p], a)[Len(made[p]) + 1] = a
            /\ \A i \in 1..Len(made[p]) : Append(made[p], a)[i] = made[p][i]
        BY <1>3, <1>4
      <4>2. \A i \in 1..Len(made[p]) : made[p][i].credential \notin todo[p]
        BY <1>3 DEF Command
      <4> QED
        BY <1>3, <1>4, <4>1, <4>2
    <3> QED
      BY <1>1, <1>3, <2>1, <3>1, <3>2, <3>3 DEF Command, Sites
  <2>2. CASE q # p
    <3>1. /\ made'[q] = made[q] /\ todo'[q] = todo[q] /\ pc'[q] = pc[q]
          /\ op'[q] = op[q] /\ used' = used
      BY <1>1, <2>2 DEF IInv, TypeOK
    <3>2. Command(q)
      BY DEF IInv, Commands
    <3> QED
      BY <3>1, <3>2 DEF Command, Sites
  <2> QED
    BY <2>1, <2>2
<1>10. Copies'
  BY <1>1, <1>2 DEF IInv, TypeOK, Copies, Stored
<1>11. Counters'
  BY <1>1, <1>2, <1>3, <1>7 DEF IInv, Counters, Copies, Stored, TypeOK, Table, Absent
<1>12. Outgoing'
  <2>1. ASSUME NEW s \in Seq(Assertion), NEW q, Sound(s, q, disk, released, used)
        PROVE  Sound(s, q, disk', released', used')
    <3>1. disk' \in Table /\ released' = released /\ used' = used
      BY <1>1, <1>2
    <3> QED
      BY <1>1, <1>2, <1>3, <2>1, <3>1, SoundKept
  <2>2. Sound(queue', "daemon", disk', released', used')
    BY <1>1, <1>3, <2>1 DEF IInv, Outgoing
  <2>3. ASSUME NEW q \in Process \ {p} PROVE Sound(made'[q], q, disk', released', used')
    <3>1. made'[q] = made[q] /\ made[q] \in Seq(Assertion)
      BY <1>1 DEF IInv, TypeOK
    <3> QED
      BY <2>1, <3>1 DEF IInv, Outgoing
  <2>4. Sound(Append(made[p], a), p, disk', released', used')
    <3>1. Sound(made[p], p, disk', released', used')
      BY <1>3, <2>1 DEF IInv, Outgoing
    <3>2. SiteOf[c] \in Sites(p) /\ c \in used
      BY <1>1, <1>3 DEF Command
    <3>3. released[c] <= disk[c]
      BY <1>3 DEF IInv, Counters
    <3>4. a.count > released'[a.credential]
      BY <1>1, <1>3, <1>4, <3>3
    <3>5. a.count <= disk'[a.credential]
      BY <1>3, <1>4, <1>5
    <3>6. \A i \in 1..Len(made[p]) : made[p][i].credential # a.credential
      BY <1>3, <1>4 DEF Command
    <3> HIDE DEF a
    <3> QED
      BY <1>1, <1>3, <1>4, <3>1, <3>2, <3>4, <3>5, <3>6, SoundAppend
  <2>5. made'[p] = Append(made[p], a)
    BY <1>1 DEF IInv, TypeOK
  <2> QED
    BY <2>2, <2>3, <2>4, <2>5 DEF Outgoing
<1> QED
  BY <1>7, <1>8, <1>9, <1>10, <1>11, <1>12 DEF IInv

\* An assertion that leaves is not newer than the file
LEMMA ReleaseKeepsCounters ==
  ASSUME IInv, NEW x \in Assertion, x.credential \in used,
         disk[x.credential] # Absent => x.count <= disk[x.credential],
         Release(x), disk' = disk, used' = used
  PROVE  Counters' /\ released' \in [Credential -> Nat]
<1>1. x.credential \in Credential /\ x.count \in Nat
  BY DEF Assertion
<1>2. released \in [Credential -> Nat]
  BY DEF IInv, TypeOK
<1>3. released' = [released EXCEPT ![x.credential] = x.count]
  BY DEF Release
<1> QED
  BY <1>1, <1>2, <1>3 DEF IInv, Counters

\* get_next_assertion
LEMMA NextAssertionKeeps ==
  ASSUME IInv, GetNextAssertion
  PROVE  IInv'
<1>1. /\ pc["daemon"] = "idle" /\ queue # <<>> /\ Release(Head(queue))
      /\ queue' = Tail(queue) /\ disk' = disk /\ lock' = lock /\ memory' = memory
      /\ pc' = pc /\ op' = op /\ todo' = todo /\ made' = made
      /\ reset_open' = reset_open /\ used' = used
  BY DEF GetNextAssertion, file_vars, command_vars
<1> DEFINE x == Head(queue)
<1>2. /\ x \in Assertion /\ Tail(queue) \in Seq(Assertion)
      /\ Sound(Tail(queue), "daemon", disk, released, used)
      /\ \A i \in 1..Len(Tail(queue)) : Tail(queue)[i].credential # x.credential
      /\ SiteOf[x.credential] \in Sites("daemon") /\ x.credential \in used
      /\ disk[x.credential] # Absent => x.count <= disk[x.credential]
  BY <1>1, SoundTail DEF IInv, TypeOK, Outgoing
<1>3. Counters' /\ released' \in [Credential -> Nat]
  BY <1>1, <1>2, ReleaseKeepsCounters
<1>4. /\ released' = [released EXCEPT ![x.credential] = x.count]
      /\ released \in [Credential -> Nat] /\ x.credential \in Credential /\ x.count \in Nat
  BY <1>1, <1>2 DEF Release, IInv, TypeOK, Assertion
<1> HIDE DEF x
<1>5. TypeOK' /\ Holder' /\ Copies'
  BY <1>1, <1>2, <1>3 DEF IInv, TypeOK, Holder, Copies, Stored
<1>6. Commands'
  BY <1>1 DEF IInv, Commands, Command, Sites
<1>7. Outgoing'
  <2>1. Sound(queue', "daemon", disk', released', used')
    BY <1>1, <1>2, <1>4, SoundReleased
  <2>2. Sound(made'["daemon"], "daemon", disk', released', used')
    <3>1. made["daemon"] = <<>>
      BY <1>1 DEF IInv, Commands, Command, Process
    <3> QED
      BY <1>1, <3>1, SoundEmpty
  <2>3. Sound(made'["cli"], "cli", disk', released', used')
    <3>1. made["cli"] \in Seq(Assertion) /\ Sound(made["cli"], "cli", disk, released, used)
      BY DEF IInv, TypeOK, Outgoing, Process
    <3>2. \A i \in 1..Len(made["cli"]) : made["cli"][i].credential # x.credential
      BY <1>2, <3>1 DEF Sound, Sites
    <3> QED
      BY <1>1, <1>4, <3>1, <3>2, SoundReleased
  <2> QED
    BY <2>1, <2>2, <2>3 DEF Outgoing, Process
<1> QED
  BY <1>3, <1>5, <1>6, <1>7 DEF IInv

\* get_assertion answers with the first assertion and queues the others
LEMMA AnswerKeeps ==
  ASSUME IInv, NEW p \in Process, AnswerAssertion(p)
  PROVE  IInv'
<1> DEFINE s == made[p]
           x == Head(s)
<1>1. /\ pc[p] = "replying" /\ Release(x) /\ Ended(p, memory[p])
      /\ queue' = (IF p = "daemon" THEN Tail(s) ELSE queue)
      /\ disk' = disk /\ lock' = lock /\ reset_open' = reset_open /\ used' = used
  BY DEF AnswerAssertion, QueueOfRest, file_vars
<1>2. /\ memory[p] \in Table /\ Stored(memory[p]) \subseteq used
      /\ TypeOK /\ s \in Seq(Assertion) /\ s # <<>>
      /\ Sound(s, p, disk, released, used)
  BY <1>1 DEF IInv, TypeOK, Copies, Commands, Command, Outgoing
<1>3. /\ x \in Assertion /\ Tail(s) \in Seq(Assertion)
      /\ Sound(Tail(s), p, disk, released, used)
      /\ \A i \in 1..Len(Tail(s)) : Tail(s)[i].credential # x.credential
      /\ SiteOf[x.credential] \in Sites(p) /\ x.credential \in used
      /\ disk[x.credential] # Absent => x.count <= disk[x.credential]
  BY <1>2, SoundTail
<1>4. Counters' /\ released' \in [Credential -> Nat]
  BY <1>1, <1>3, ReleaseKeepsCounters
<1>5. /\ released' = [released EXCEPT ![x.credential] = x.count]
      /\ released \in [Credential -> Nat] /\ x.credential \in Credential /\ x.count \in Nat
  BY <1>1, <1>2, <1>3 DEF Release, TypeOK, Assertion
<1> HIDE DEF s, x
<1>6. /\ pc'[p] = "idle" /\ op'[p] = "none" /\ todo'[p] = {} /\ made'[p] = <<>>
      /\ memory'[p] \in {Empty, memory[p]}
      /\ \A q \in Process \ {p} :
           /\ memory'[q] = memory[q] /\ pc'[q] = pc[q] /\ op'[q] = op[q]
           /\ todo'[q] = todo[q] /\ made'[q] = made[q]
  BY <1>1, <1>2, EndedFacts
<1>7. TypeOK'
  <2>1. queue' \in Seq(Assertion)
    BY <1>1, <1>2, <1>3 DEF TypeOK
  <2> QED
    BY <1>1, <1>2, <1>4, <2>1, EndedFacts DEF TypeOK
<1>8. Holder'
  BY <1>1, <1>6 DEF IInv, Holder
<1>9. Commands'
  <2> SUFFICES ASSUME NEW q \in Process PROVE Command(q)'
    BY DEF Commands
  <2>1. CASE q = p
    BY <1>6, <2>1 DEF Command
  <2>2. CASE q # p
    BY <1>1, <1>6, <2>2 DEF IInv, Commands, Command, Sites
  <2> QED
    BY <2>1, <2>2
<1>10. Copies'
  <2>1. Stored(Empty) = {}
    BY DEF Stored, Empty
  <2>2. Stored(memory'[p]) \subseteq used
    <3>1. memory'[p] = Empty \/ memory'[p] = memory[p]
      BY <1>6
    <3> QED
      BY <1>2, <2>1, <3>1
  <2>3. \A q \in Process \ {p} : Stored(memory'[q]) \subseteq used
    BY <1>6 DEF IInv, Copies
  <2> QED
    BY <1>1, <2>2, <2>3 DEF IInv, Copies, Stored
<1>11. Outgoing'
  \* A sequence of the other process is about other websites
  <2>1. ASSUME NEW t \in Seq(Assertion), NEW q \in Process \ {p},
               Sound(t, q, disk, released, used)
        PROVE  Sound(t, q, disk', released', used')
    <3>1. \A i \in 1..Len(t) : t[i].credential # x.credential
      BY <1>3, <2>1 DEF Sound, Sites, Process
    <3> QED
      BY <1>1, <1>5, <2>1, <3>1, SoundReleased
  <2>2. Sound(queue', "daemon", disk', released', used')
    <3>1. CASE p = "daemon"
      BY <1>1, <1>3, <1>5, <3>1, SoundReleased
    <3>2. CASE p # "daemon"
      BY <1>1, <1>2, <2>1, <3>2 DEF IInv, TypeOK, Outgoing, Process
    <3> QED
      BY <3>1, <3>2
  <2>3. ASSUME NEW q \in Process PROVE Sound(made'[q], q, disk', released', used')
    <3>1. CASE q = p
      BY <1>6, <3>1, SoundEmpty
    <3>2. CASE q # p
      <4>1. made'[q] = made[q] /\ made[q] \in Seq(Assertion)
        BY <1>2, <1>6, <3>2 DEF TypeOK
      <4>2. Sound(made[q], q, disk, released, used)
        BY DEF IInv, Outgoing
      <4> QED
        BY <2>1, <3>2, <4>1, <4>2
    <3> QED
      BY <3>1, <3>2
  <2> QED
    BY <2>2, <2>3 DEF Outgoing
<1> QED
  BY <1>4, <1>7, <1>8, <1>9, <1>10, <1>11 DEF IInv

\* A window passes
LEMMA WindowKeeps ==
  ASSUME IInv, NextWindowEnds \/ ResetWindowEnds
  PROVE  IInv'
<1>1. /\ queue' = queue \/ queue' = <<>>
      /\ reset_open' \in BOOLEAN
      /\ UNCHANGED <<disk, lock, memory, pc, op, todo, made, used, released>>
  BY DEF NextWindowEnds, ResetWindowEnds, file_vars, command_vars, IInv, TypeOK
<1>2. Sound(queue', "daemon", disk, released, used)
  BY <1>1, SoundEmpty DEF IInv, Outgoing
<1>3. TypeOK'
  <2>1. queue \in Seq(Assertion) /\ <<>> \in Seq(Assertion)
    BY DEF IInv, TypeOK
  <2>2. queue' \in Seq(Assertion)
    BY <1>1, <2>1
  <2> QED
    BY <1>1, <2>2 DEF IInv, TypeOK
<1>4. Holder' /\ Copies' /\ Counters'
  BY <1>1 DEF IInv, Holder, Copies, Stored, Counters
<1>5. Outgoing'
  BY <1>1, <1>2 DEF IInv, Outgoing
<1>6. Commands'
  BY <1>1 DEF IInv, Commands, Command, Sites
<1> QED
  BY <1>3, <1>4, <1>5, <1>6 DEF IInv

\* A command begins
LEMMA RequestKeeps ==
  ASSUME IInv, NEW p \in Process,
         MakeCredential(p) \/ GetAssertion(p) \/ Reset \/ Remove
  PROVE  IInv'
<1>1. Known(p) \in Table /\ Stored(Known(p)) \subseteq used
  BY DEF IInv, TypeOK, Copies, Known
<1>2. CASE MakeCredential(p)
  <2>1. PICK c \in Credential \ used :
          SiteOf[c] \in Sites(p) /\ Begin(p, "make", {c}, "verifying")
    BY <1>2 DEF MakeCredential
  <2> QED
    BY <2>1, BeginKeeps
<1>3. CASE GetAssertion(p)
  <2>1. PICK site \in Sites(p), allowed \in SUBSET Credential :
          Begin(p, "assert", FindForRp(p, site, allowed), "verifying")
    BY <1>3 DEF GetAssertion
  <2>2. /\ FindForRp(p, site, allowed) \in SUBSET Credential
        /\ \A c \in FindForRp(p, site, allowed) : c \in used /\ SiteOf[c] \in Sites(p)
    BY <1>1 DEF FindForRp, Stored
  <2> QED
    BY <2>1, <2>2, BeginKeeps
<1>4. CASE Reset
  <2>1. Begin("daemon", "reset", {}, "verifying") /\ "daemon" \in Process
    BY <1>4 DEF Reset, Process
  <2> QED
    BY <2>1, BeginKeeps
<1>5. CASE Remove
  <2>1. PICK c \in Credential : Begin("cli", "remove", {c}, "waiting")
    BY <1>5 DEF Remove, Stored
  <2>2. "cli" \in Process
    BY DEF Process
  <2> QED
    BY <2>1, <2>2, BeginKeeps
<1> QED
  BY <1>2, <1>3, <1>4, <1>5

-----------------------------------------------------------------------------
(***************************************************************************)
(* The theorems.                                                           *)
(***************************************************************************)

\* The invariant holds in every state of every behaviour
THEOREM Invariance == Spec => []IInv
<1>1. Init => IInv
  <2> SUFFICES ASSUME Init PROVE IInv
    OBVIOUS
  <2>1. TypeOK /\ Holder /\ Copies /\ Counters
    BY DEF Init, TypeOK, Holder, Copies, Counters, Empty, Table, Stored, Nobody
  <2>2. Commands
    BY DEF Init, Commands, Command
  <2>3. Outgoing
    BY SoundEmpty DEF Init, Outgoing
  <2> QED
    BY <2>1, <2>2, <2>3 DEF IInv
<1>2. IInv /\ [Next]_vars => IInv'
  <2> SUFFICES ASSUME IInv, [Next]_vars PROVE IInv'
    OBVIOUS
  <2>1. CASE UNCHANGED vars
    <3>1. UNCHANGED <<disk, lock, memory, pc, op, todo, made, queue, reset_open, used, released>>
      BY <2>1 DEF vars, file_vars, command_vars
    <3> QED
      BY <3>1 DEF IInv, TypeOK, Holder, Commands, Command, Sites, Copies, Stored,
                  Counters, Outgoing
  <2>2. CASE Reset \/ Remove
    BY <2>2, RequestKeeps DEF Process
  <2>3. CASE GetNextAssertion
    BY <2>3, NextAssertionKeeps
  <2>4. CASE NextWindowEnds \/ ResetWindowEnds
    BY <2>4, WindowKeeps
  <2>5. ASSUME NEW p \in Process, Request(p) \/ Step(p) \/ Crash(p) PROVE IInv'
    BY <2>5, RequestKeeps, VerifiedKeeps, LockKeeps, EndingKeeps, IncrementKeeps, AnswerKeeps
       DEF Request, Step
  <2> QED
    BY <2>1, <2>2, <2>3, <2>4, <2>5 DEF Next
<1> QED
  BY <1>1, <1>2, PTL DEF Spec

(***************************************************************************)
(* The counter a website sees for a credential grows with each assertion   *)
(* that leaves the authenticator, for any number of credentials: the       *)
(* promise of increment_counter and get_next_assertion, with crashes of    *)
(* both processes, failing writes and removals anywhere.                   *)
(***************************************************************************)
THEOREM CountersGrow == Spec => []CounterGrows
<1>1. IInv => CounterGrows
  <2> SUFFICES ASSUME IInv PROVE CounterGrows
    OBVIOUS
  <2>1. \A i \in 1..Len(queue) : queue[i].count > released[queue[i].credential]
    BY DEF IInv, Outgoing, Sound
  <2>2. ASSUME NEW p \in Process, pc[p] = "replying"
        PROVE  Head(made[p]).count > released[Head(made[p]).credential]
    <3>1. /\ made[p] \in Seq(Assertion) /\ made[p] # <<>>
          /\ Sound(made[p], p, disk, released, used)
      BY <2>2 DEF IInv, TypeOK, Commands, Command, Outgoing
    <3> QED
      BY <3>1, SoundTail
  <2> QED
    BY <2>1, <2>2 DEF CounterGrows
<1> QED
  BY <1>1, Invariance, PTL

(***************************************************************************)
(* CredentialStore implements PasskeyStore: under the flock, and because   *)
(* every operation reads the file again, each write of the whole file is   *)
(* one registration, one increment, one removal or a reset of the table.   *)
(***************************************************************************)
THEOREM StoreImplemented == Spec => StoreIsAtomic
<1>1. Init => Store!Init
  BY DEF Init, Empty, Absent, Store!Init, Store!Absent
<1>2. IInv /\ [Next]_vars => [Store!Next]_disk
  <2> SUFFICES ASSUME IInv, [Next]_vars PROVE [Store!Next]_disk
    OBVIOUS
  <2>1. ASSUME NEW p \in Process, NEW c \in Credential, Add(p, c) PROVE Store!Add(c)
    <3>1. pc[p] = "locked" /\ op[p] = "make" /\ Newest(p, c) /\ Found(p, c)
      BY <2>1 DEF Add, Found
    <3>2. memory[p] = disk /\ c \notin used
      BY <3>1, ChangedFacts
    <3>3. disk[c] = Absent
      BY <3>2 DEF IInv, Copies, Stored
    <3>4. disk' = Added(disk, c)
      BY <2>1, <3>1, <3>2 DEF Add, Save, Changed
    <3> QED
      BY <3>3, <3>4 DEF Store!Add, Store!Added, Added, Store!Absent, Absent
  <2>2. ASSUME NEW p \in Process, NEW c \in Credential, IncrementCounter(p, c)
        PROVE  Store!Increment(c)
    <3>1. pc[p] = "locked" /\ op[p] = "assert" /\ Newest(p, c) /\ Found(p, c)
      BY <2>2 DEF IncrementCounter
    <3>2. memory[p] = disk
      BY <3>1, ChangedFacts
    <3> QED
      BY <2>2, <3>1, <3>2
         DEF IncrementCounter, Save, Changed, Found, Store!Increment, Store!Absent, Absent
  <2>3. ASSUME NEW p \in Process, NEW c \in Credential, RemoveCredential(p, c)
        PROVE  Store!Remove(c)
    <3>1. pc[p] = "locked" /\ op[p] = "remove" /\ Newest(p, c) /\ Found(p, c)
      BY <2>3 DEF RemoveCredential
    <3>2. memory[p] = disk
      BY <3>1, ChangedFacts
    <3> QED
      BY <2>3, <3>1, <3>2
         DEF RemoveCredential, Save, Changed, Found, Store!Remove, Store!Absent, Absent
  <2>4. ASSUME NEW p \in Process, DestroyAll(p) PROVE Store!DestroyAll
    BY <2>4 DEF DestroyAll, Save, Empty, Absent, Store!DestroyAll, Store!Absent
  <2>5. ASSUME NEW p \in Process,
               \/ Request(p) \/ VerifyUser(p) \/ Lock(p) \/ SignFails(p) \/ DestroyFails(p)
               \/ AnswerAssertion(p) \/ Crash(p)
               \/ \E c \in Credential : NotFound(p, c) \/ SaveFails(p, c)
        PROVE  UNCHANGED disk
    BY <2>5 DEF Request, MakeCredential, GetAssertion, Begin, VerifyUser, Lock, SignFails,
                AnswerAssertion, Crash, NotFound, SaveFails, DestroyFails, file_vars
  <2>6. CASE Reset \/ Remove \/ GetNextAssertion \/ NextWindowEnds \/ ResetWindowEnds
    <3>1. UNCHANGED disk
      BY <2>6 DEF Reset, Remove, Begin, GetNextAssertion, NextWindowEnds, ResetWindowEnds,
                  file_vars
    <3> QED
      BY <3>1
  <2>7. CASE UNCHANGED vars
    BY <2>7 DEF vars, file_vars
  <2>8. ASSUME NEW p \in Process, Request(p) \/ Step(p) \/ Crash(p)
        PROVE  Store!Next \/ UNCHANGED disk
    BY <2>1, <2>2, <2>3, <2>4, <2>5, <2>8 DEF Step, Store!Next
  <2> QED
    BY <2>6, <2>7, <2>8 DEF Next
<1> QED
  BY <1>1, <1>2, Invariance, PTL DEF Spec, StoreIsAtomic, Store!Spec
=============================================================================
