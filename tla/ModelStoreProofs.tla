--------------------------- MODULE ModelStoreProofs ---------------------------
(***************************************************************************)
(* Proofs about ModelStore, for any number of callers and enrolments and   *)
(* for any files the two directories hold at first.                        *)
(***************************************************************************)
EXTENDS ModelStore, FiniteSetTheorems, WellFoundedInduction, TLAPS

(***************************************************************************)
(* The inductive invariant.                                                *)
(***************************************************************************)

\* What a file holds, at any time: its models can be told apart by their ids
Sound(f) == f \in SUBSET Model /\ IsFiniteSet(f) /\ OneEach(f)

\* No model is numbered higher than the last one enrolled
Files ==
    /\ Sound(file) /\ Sound(legacy) /\ Sound(data)
    /\ enrolled \in Nat
    /\ \A m \in file \cup legacy \cup data : m.number <= enrolled

\* Unless the old file got in the way, what counts is what was enrolled and
\* not removed
Agreed == ~excused => InForce = kept

\* A copy that root's command has written is still there, or the old file is
\* of no account
Copying ==
    /\ step = "read" => data # {}
    /\ step = "written" /\ ~excused => file # {} \/ legacy = {}

\* A model chosen before the dialog is the one its id names, or that one was
\* removed and the id given to a model enrolled since
Chosen ==
    /\ pc \in [Clients -> {"idle", "scan", "dialog"}]
    /\ looked \in [Clients -> Nat] /\ \A c \in Clients : looked[c] <= enrolled
    /\ todo \in [Clients -> SUBSET Model]
    /\ ~excused =>
         \A c \in Clients : \A t \in todo[c], m \in InForce :
           m.id = t.id => m = t \/ m.number > looked[c]

\* Whatever the old file does, only its models can come back, and only the
\* overwritten ones are lost
OldFile ==
    /\ legacy \subseteq old /\ data \subseteq old
    /\ kept \ (old \cup overwritten) \subseteq file
    /\ file \subseteq kept \cup old

IInv ==
    /\ Files
    /\ Copying
    /\ Chosen
    /\ Agreed
    /\ ~excused => ~wrong

-----------------------------------------------------------------------------
(***************************************************************************)
(* The id of a new model.                                                  *)
(***************************************************************************)

\* A set of numbers that is not empty has a least one.
LEMMA Least ==
  ASSUME NEW T \in SUBSET Nat, T # {}
  PROVE  \E x \in T : \A y \in T : x <= y
<1>1. \E x \in T : \A y \in T : ~(<<y, x>> \in OpToRel(<, Nat))
  BY WFMin, NatLessThanWellFounded
<1>2. \A x, y \in Nat : ~(<<y, x>> \in OpToRel(<, Nat)) => x <= y
  BY DEF OpToRel
<1> QED
  BY <1>1, <1>2

\* The ids of a file have a bound, one model after the other.
LEMMA IdsBounded ==
  ASSUME NEW f \in SUBSET Model, IsFiniteSet(f)
  PROVE  \E b \in Nat : \A m \in f : m.id <= b
<1> DEFINE n == Cardinality(f)
<1>1. n \in Nat /\ ExistsBijection(1..n, f)
  BY FS_CardinalityType
<1>2. PICK g \in [1..n -> f] : \A m \in f : \E i \in 1..n : g[i] = m
  BY <1>1 DEF ExistsBijection, Bijection, Surjection
<1> HIDE DEF n
<1> DEFINE Bounds(k) == \E b \in Nat : \A i \in 1..k : i <= n => g[i].id <= b
           T == {k \in Nat : ~Bounds(k)}
<1>3. T = {}
  <2> SUFFICES ASSUME T # {} PROVE FALSE
    OBVIOUS
  <2>1. PICK k \in T : \A y \in T : k <= y
    BY Least
  <2>2. k # 0
    <3>1. \A i \in 1..0 : i <= n => g[i].id <= 0
      OBVIOUS
    <3>2. Bounds(0)
      BY <3>1
    <3> QED
      BY <3>2
  <2>3. k - 1 \in Nat /\ Bounds(k - 1)
    <3>1. k \in Nat /\ k - 1 \in Nat /\ ~(k <= k - 1)
      BY <2>2
    <3>2. k - 1 \notin T
      BY <2>1, <3>1
    <3> QED
      BY <3>1, <3>2
  <2>4. PICK b \in Nat : \A i \in 1..(k - 1) : i <= n => g[i].id <= b
    BY <2>3
  <2>5. CASE k <= n
    <3>1. g[k].id \in Nat
      BY <1>1, <2>2, <2>5 DEF Model
    <3> DEFINE x == g[k].id
               d == IF b <= x THEN x ELSE b
    <3>2. d \in Nat /\ b <= d /\ x <= d
      <4>1. x \in Nat
        BY <3>1
      <4> HIDE DEF x
      <4> QED
        BY <4>1
    <3>3. \A i \in 1..k : i <= n => g[i].id \in Nat
      BY <1>1 DEF Model
    <3>4. \A i \in 1..k : i \in 1..(k - 1) \/ i = k
      BY <2>2
    <3> HIDE DEF d
    <3>5. ASSUME NEW i \in 1..k, i <= n PROVE g[i].id <= d
      <4>1. CASE i = k
        BY <3>2, <4>1
      <4>2. CASE i \in 1..(k - 1)
        <5> DEFINE y == g[i].id
        <5>1. y <= b /\ y \in Nat
          BY <2>4, <3>3, <3>5, <4>2
        <5>2. b <= d /\ d \in Nat
          BY <3>2
        <5> HIDE DEF y
        <5>3. y <= d
          BY <5>1, <5>2
        <5> QED
          BY <5>3 DEF y
      <4> QED
        BY <3>4, <4>1, <4>2
    <3> QED
      BY <3>2, <3>5
  <2>6. CASE ~(k <= n)
    <3>1. \A i \in 1..k : i <= n => i \in 1..(k - 1)
      BY <1>1, <2>6
    <3>2. Bounds(k)
      BY <2>4, <3>1
    <3> QED
      BY <3>2
  <2> QED
    BY <2>5, <2>6
<1>4. Bounds(n)
  BY <1>1, <1>3
<1>5. PICK b \in Nat : \A i \in 1..n : i <= n => g[i].id <= b
  BY <1>4
<1>6. \A m \in f : m.id <= b
  BY <1>1, <1>2, <1>5
<1> QED
  BY <1>6

\* add() gives an id that no model of the file has.
LEMMA NewIdIsNew ==
  ASSUME NEW f, Sound(f)
  PROVE  new_id(f) \in Nat /\ \A m \in f : m.id # new_id(f)
<1>1. CASE f = {}
  BY <1>1 DEF new_id
<1>2. CASE f # {}
  <2> DEFINE S == {m.id : m \in f}
             U == {b \in Nat : \A x \in S : x <= b}
  <2>1. S \in SUBSET Nat /\ S # {}
    BY <1>2 DEF Sound, Model
  <2>2. U # {}
    BY IdsBounded DEF Sound
  <2>3. PICK b \in U : \A y \in U : b <= y
    BY <2>2, Least
  <2>4. b \in S
    <3> SUFFICES ASSUME b \notin S PROVE FALSE
      OBVIOUS
    <3>1. PICK x \in S : x \in Nat
      BY <2>1
    <3>2. b - 1 \in Nat
      BY <3>1
    <3>3. \A y \in S : y \in Nat /\ y <= b /\ y # b
      BY <2>1
    <3>4. b - 1 \in U
      BY <3>2, <3>3
    <3> QED
      BY <2>3, <3>4
  <2>5. \A y \in S : b >= y
    BY <2>1
  <2> HIDE DEF S
  <2>6. Max(S) \in S /\ \A y \in S : Max(S) >= y
    BY <2>4, <2>5 DEF Max
  <2>7. Max(S) \in Nat /\ \A y \in S : y # Max(S) + 1
    <3> DEFINE top == Max(S)
    <3>1. top \in S /\ \A y \in S : top >= y
      BY <2>6
    <3> HIDE DEF top
    <3>2. top \in Nat /\ \A y \in S : y # top + 1
      BY <2>1, <3>1
    <3> QED
      BY <3>2 DEF top
  <2>8. new_id(f) = Max(S) + 1
    BY <1>2 DEF new_id, S
  <2>9. \A m \in f : m.id \in S
    BY DEF S
  <2> QED
    BY <2>7, <2>8, <2>9
<1> QED
  BY <1>1, <1>2

-----------------------------------------------------------------------------
(***************************************************************************)
(* Every step keeps the invariant.                                         *)
(***************************************************************************)

\* No file
LEMMA SoundEmpty == Sound({})
BY FS_EmptySet DEF Sound, OneEach

\* Every part of a file is as sound.
LEMMA SoundPart ==
  ASSUME NEW f, Sound(f), NEW g \in SUBSET f
  PROVE  Sound(g)
BY FS_Subset DEF Sound, OneEach

\* What a load finds: the models in force are the same, wherever they are
\* (migrate_legacy never overwrites).
LEMMA Migrated ==
  ASSUME IInv, NEW s \in migrations
  PROVE  /\ Sound(s.file) /\ Sound(s.legacy)
         /\ \A m \in s.file \cup s.legacy : m.number <= enrolled
         /\ (IF s.file # {} THEN s.file ELSE s.legacy) = InForce
         /\ step = "written" /\ ~excused => s.file # {} \/ s.legacy = {}
<1>1. \/ s.file = file /\ s.legacy = legacy
      \/ file = {} /\ s.file = legacy /\ s.legacy = {}
      \/ file = {} /\ s.file = legacy /\ s.legacy = legacy
  BY DEF migrations
<1>2. Sound(file) /\ Sound(legacy) /\ Sound({})
  BY SoundEmpty DEF IInv, Files
<1>3. \A m \in file \cup legacy : m.number <= enrolled
  BY DEF IInv, Files
<1>4. Sound(s.file) /\ Sound(s.legacy) /\ \A m \in s.file \cup s.legacy : m.number <= enrolled
  BY <1>1, <1>2, <1>3
<1>5. (IF s.file # {} THEN s.file ELSE s.legacy) = InForce
  BY <1>1 DEF InForce
<1>6. step = "written" /\ ~excused => s.file # {} \/ s.legacy = {}
  BY <1>1 DEF IInv, Copying
<1> QED
  BY <1>4, <1>5, <1>6

\* A load, with nothing else done to the files
LEMMA LoadKeeps ==
  ASSUME IInv, NEW s \in migrations, Saved(s.file, s.legacy), UNCHANGED <<ghosts, copy>>
  PROVE  /\ Files' /\ Copying' /\ Agreed' /\ (~excused' => ~wrong')
         /\ InForce' = InForce
<1>1. /\ file' = s.file /\ legacy' = s.legacy
      /\ UNCHANGED <<enrolled, kept, excused, wrong, step, data>>
  BY DEF Saved, ghosts, copy
<1>2. InForce' = InForce
  BY <1>1, Migrated DEF InForce
<1>3. Files'
  BY <1>1, Migrated DEF IInv, Files, Sound
<1>4. Copying'
  BY <1>1, Migrated DEF IInv, Copying
<1>5. Agreed' /\ (~excused' => ~wrong')
  BY <1>1, <1>2 DEF IInv, Agreed
<1> QED
  BY <1>2, <1>3, <1>4, <1>5

\* Doing nothing is one of the ways a load ends.
LEMMA StayIsMigration ==
  \E s \in migrations : s.file = file /\ s.legacy = legacy
BY DEF migrations

\* A choice stays what it was while no model of an older number comes in
\* force.
LEMMA ChosenKept ==
  ASSUME IInv, Files',
         pc' \in [Clients -> {"idle", "scan", "dialog"}],
         looked' \in [Clients -> Nat], todo' \in [Clients -> SUBSET Model],
         enrolled <= enrolled', ~excused' => ~excused,
         \A c \in Clients : \/ looked'[c] = looked[c] /\ todo'[c] \subseteq todo[c]
                            \/ looked'[c] = 0 /\ todo'[c] = {},
         ~excused' => \A m \in InForce' : m \in InForce \/ m.number > enrolled
  PROVE  Chosen'
<1>1. enrolled \in Nat /\ looked \in [Clients -> Nat] /\ \A c \in Clients : looked[c] <= enrolled
  BY DEF IInv, Files, Chosen
<1>2. \A c \in Clients : looked'[c] <= enrolled'
  <2>1. enrolled' \in Nat
    BY DEF Files
  <2> QED
    BY <1>1, <2>1
<1>3. ASSUME ~excused', NEW c \in Clients, NEW t \in todo'[c], NEW m \in InForce', m.id = t.id
      PROVE  m = t \/ m.number > looked'[c]
  <2>1. t \in todo[c] /\ looked'[c] = looked[c]
    BY <1>3
  <2>2. CASE m \in InForce
    BY <1>3, <2>1, <2>2 DEF IInv, Chosen
  <2>3. CASE m.number > enrolled
    <3>1. m.number \in Int
      BY DEF Files, Sound, InForce, Model
    <3>2. looked[c] \in Nat /\ looked[c] <= enrolled
      BY <1>1
    <3> QED
      BY <1>1, <2>1, <2>3, <3>1, <3>2
  <2> QED
    BY <1>3, <2>2, <2>3
<1> QED
  BY <1>2, <1>3 DEF Chosen

\* A request starts, fails, is refused or ends with the service.
LEMMA RequestKeeps ==
  ASSUME IInv,
         \/ \E c \in Clients : EnrollStarts(c) \/ EnrollFails(c) \/ Refused(c)
         \/ Restart \/ LegacyMoved \/ UNCHANGED vars
  PROVE  IInv'
<1>1. PICK s \in migrations : Saved(s.file, s.legacy)
  <2>1. CASE UNCHANGED files
    BY <2>1, StayIsMigration DEF files, Saved
  <2>2. CASE LegacyMoved
    <3>1. [file |-> legacy, legacy |-> {}] \in migrations
      BY <2>2 DEF LegacyMoved, migrations
    <3> QED
      BY <2>2, <3>1 DEF LegacyMoved, Saved
  <2> QED
    BY <2>1, <2>2 DEF EnrollStarts, EnrollFails, Refused, Restart, vars
<1>2. UNCHANGED <<ghosts, copy>>
  BY DEF EnrollStarts, EnrollFails, Refused, Restart, LegacyMoved, vars
<1>3. /\ Files' /\ Copying' /\ Agreed' /\ (~excused' => ~wrong')
      /\ InForce' = InForce
  BY <1>1, <1>2, LoadKeeps
<1>4. enrolled' = enrolled /\ excused' = excused /\ enrolled \in Nat
  BY <1>2 DEF ghosts, IInv, Files
<1>5. /\ pc \in [Clients -> {"idle", "scan", "dialog"}]
      /\ looked \in [Clients -> Nat]
      /\ todo \in [Clients -> SUBSET Model]
  BY DEF IInv, Chosen
<1>6. pc' \in [Clients -> {"idle", "scan", "dialog"}]
  BY <1>5 DEF EnrollStarts, EnrollFails, Refused, Idle, Restart, LegacyMoved, vars, requests
<1>7. /\ looked' \in [Clients -> Nat] /\ todo' \in [Clients -> SUBSET Model]
      /\ \A c \in Clients : \/ looked'[c] = looked[c] /\ todo'[c] \subseteq todo[c]
                            \/ looked'[c] = 0 /\ todo'[c] = {}
  BY <1>5 DEF EnrollStarts, EnrollFails, Refused, Idle, Restart, LegacyMoved, vars, requests
<1>8. Chosen'
  BY <1>3, <1>4, <1>6, <1>7, ChosenKept
<1> QED
  BY <1>3, <1>8 DEF IInv

\* The caller looks at the models and chooses (list_models): what she sees is
\* what is in force.
LEMMA ListKeeps ==
  ASSUME IInv, NEW c \in Clients, List(c)
  PROVE  IInv'
<1>1. PICK s \in migrations, o \in Cleanups :
        /\ Saved(s.file, s.legacy) /\ s.file # {}
        /\ IF o = "clear" THEN todo' = [todo EXCEPT ![c] = s.file]
           ELSE \E m \in s.file : todo' = [todo EXCEPT ![c] = {m}]
  BY DEF List
<1>2. /\ UNCHANGED <<ghosts, copy>>
      /\ looked' = [looked EXCEPT ![c] = enrolled] /\ pc' = [pc EXCEPT ![c] = "dialog"]
  BY DEF List
<1>3. /\ Files' /\ Copying' /\ Agreed' /\ (~excused' => ~wrong')
      /\ InForce' = InForce
  BY <1>1, <1>2, LoadKeeps
<1>4. s.file = InForce /\ Sound(s.file)
  BY <1>1, Migrated
<1>5. /\ pc \in [Clients -> {"idle", "scan", "dialog"}]
      /\ looked \in [Clients -> Nat] /\ \A b \in Clients : looked[b] <= enrolled
      /\ todo \in [Clients -> SUBSET Model] /\ enrolled \in Nat
      /\ enrolled' = enrolled /\ excused' = excused
  BY <1>2 DEF ghosts, IInv, Files, Chosen
<1>6. PICK T \in SUBSET s.file : todo' = [todo EXCEPT ![c] = T]
  BY <1>1
<1>7. T \in SUBSET Model
  BY <1>4 DEF Sound
<1>8. /\ pc' \in [Clients -> {"idle", "scan", "dialog"}]
      /\ looked' \in [Clients -> Nat] /\ \A b \in Clients : looked'[b] <= enrolled'
      /\ todo' \in [Clients -> SUBSET Model]
  BY <1>2, <1>5, <1>6, <1>7
<1>9. ASSUME ~excused', NEW b \in Clients, NEW t \in todo'[b], NEW m \in InForce', m.id = t.id
      PROVE  m = t \/ m.number > looked'[b]
  <2>1. CASE b = c
    <3>1. t \in s.file /\ m \in s.file
      BY <1>3, <1>4, <1>5, <1>6, <1>9, <2>1
    <3> QED
      BY <1>4, <1>9, <3>1 DEF Sound, OneEach
  <2>2. CASE b # c
    <3>1. t \in todo[b] /\ looked'[b] = looked[b] /\ m \in InForce
      BY <1>2, <1>3, <1>5, <1>6, <1>9, <2>2
    <3> QED
      BY <1>5, <1>9, <3>1 DEF IInv, Chosen
  <2> QED
    BY <2>1, <2>2
<1>10. Chosen'
  BY <1>8, <1>9 DEF Chosen
<1> QED
  BY <1>3, <1>10 DEF IInv

\* The scan is over: add() loads again, so that the models of now are saved
\* with the new one, under an id that none of them has.
LEMMA EnrolledKeeps ==
  ASSUME IInv, NEW c \in Clients, Enrolled(c)
  PROVE  IInv'
<1>1. PICK s \in migrations : Added(c, s.file, s.legacy)
  BY DEF Enrolled
<1> DEFINE new == [id |-> new_id(s.file), number |-> enrolled + 1]
<1>2. /\ file' = s.file \cup {new} /\ legacy' = s.legacy
      /\ enrolled' = enrolled + 1 /\ kept' = kept \cup {new}
      /\ excused' = (excused \/ (s.file = {} /\ s.legacy # {}))
  BY <1>1 DEF Added, Saved
<1>3. /\ Sound(s.file) /\ Sound(s.legacy)
      /\ \A m \in s.file \cup s.legacy : m.number <= enrolled
      /\ (IF s.file # {} THEN s.file ELSE s.legacy) = InForce
  BY Migrated
<1>4. /\ UNCHANGED <<wrong, todo, looked, step, data>>
      /\ pc' = [pc EXCEPT ![c] = "idle"]
  BY DEF Enrolled, copy
<1>5. enrolled \in Nat /\ Sound(data) /\ \A m \in data : m.number <= enrolled
  BY DEF IInv, Files
<1>6. new_id(s.file) \in Nat /\ \A m \in s.file : m.id # new_id(s.file)
  BY <1>3, NewIdIsNew
<1>7. /\ new \in Model /\ new.number = enrolled + 1
      /\ \A m \in s.file : m.id # new.id
  BY <1>5, <1>6 DEF Model
<1> HIDE DEF new
<1>8. Sound(s.file \cup {new})
  BY <1>3, <1>7, FS_AddElement DEF Sound, OneEach
<1>9. Files'
  <2>1. \A m \in file' \cup legacy' \cup data' : m.number <= enrolled'
    <3> SUFFICES ASSUME NEW m \in s.file \cup {new} \cup s.legacy \cup data
                 PROVE  m.number <= enrolled + 1
      BY <1>2, <1>4
    <3>1. CASE m = new
      BY <1>5, <1>7, <3>1
    <3>2. CASE m \in s.file \cup s.legacy \cup data
      <4>1. m.number \in Int /\ m.number <= enrolled
        BY <1>3, <1>5, <3>2 DEF Sound, Model
      <4> QED
        BY <1>5, <4>1
    <3> QED
      BY <3>1, <3>2
  <2> QED
    BY <1>2, <1>3, <1>4, <1>5, <1>8, <2>1 DEF Files
<1>10. Copying'
  BY <1>2, <1>4 DEF IInv, Copying
<1>11. InForce' = s.file \cup {new}
  BY <1>2 DEF InForce
<1>12. ~excused' => ~excused /\ s.file = InForce
  BY <1>2, <1>3
<1>13. Agreed'
  BY <1>2, <1>11, <1>12 DEF IInv, Agreed
<1>14. Chosen'
  <2>1. /\ pc' \in [Clients -> {"idle", "scan", "dialog"}]
        /\ looked' \in [Clients -> Nat] /\ todo' \in [Clients -> SUBSET Model]
    BY <1>4 DEF IInv, Chosen
  <2>2. enrolled <= enrolled' /\ new.number > enrolled
    BY <1>2, <1>5, <1>7
  <2>3. ~excused' => \A m \in InForce' : m \in InForce \/ m.number > enrolled
    BY <1>11, <1>12, <2>2
  <2> QED
    BY <1>4, <1>9, <1>12, <2>1, <2>2, <2>3, ChosenKept
<1>15. ~excused' => ~wrong'
  BY <1>4, <1>12 DEF IInv
<1> QED
  BY <1>9, <1>10, <1>13, <1>14, <1>15 DEF IInv

\* The dialog was answered: the model that has the id now is changed or
\* removed (rename_model, delete_model).
LEMMA ChangesKeeps ==
  ASSUME IInv, NEW c \in Clients, Changes(c)
  PROVE  IInv'
<1>1. PICK meant \in Meant(c), s \in migrations :
        LET rest == without(s.file, meant.id)
            hit == s.file \ rest
        IN  /\ wrong' = (wrong \/ \E m \in hit : m # meant /\ m.number <= looked[c])
            /\ IF hit # {} /\ op[c] # "rename"
               THEN /\ Saved(rest, s.legacy)
                    /\ kept' = kept \ hit
                    /\ excused' = (excused \/ (rest = {} /\ s.legacy # {}))
               ELSE Saved(s.file, s.legacy) /\ UNCHANGED <<kept, excused>>
            /\ IF hit # {} /\ todo[c] # {meant}
               THEN todo' = [todo EXCEPT ![c] = @ \ {meant}] /\ UNCHANGED <<pc, op, looked>>
               ELSE Idle(c)
  BY DEF Changes
<1> DEFINE rest == without(s.file, meant.id)
           hit == s.file \ rest
<1>2. /\ rest \in SUBSET s.file
      /\ \A m \in hit : m \in s.file /\ m.id = meant.id
  BY DEF without
<1>3. /\ Sound(s.file) /\ Sound(s.legacy)
      /\ \A m \in s.file \cup s.legacy : m.number <= enrolled
      /\ (IF s.file # {} THEN s.file ELSE s.legacy) = InForce
      /\ step = "written" /\ ~excused => s.file # {} \/ s.legacy = {}
  BY Migrated
<1>4. UNCHANGED <<enrolled, step, data>> /\ meant \in todo[c]
  BY DEF Changes, copy, Meant
<1>5. /\ wrong' = (wrong \/ \E m \in hit : m # meant /\ m.number <= looked[c])
      /\ \/ /\ file' = rest /\ legacy' = s.legacy /\ hit # {}
            /\ kept' = kept \ hit
            /\ excused' = (excused \/ (rest = {} /\ s.legacy # {}))
         \/ file' = s.file /\ legacy' = s.legacy /\ UNCHANGED <<kept, excused>>
      /\ \/ todo' = [todo EXCEPT ![c] = todo[c] \ {meant}] /\ UNCHANGED <<pc, looked>>
         \/ Idle(c)
  BY <1>1 DEF Saved
<1> HIDE DEF rest, hit
<1>6. Sound(rest)
  BY <1>2, <1>3, SoundPart
<1>7. enrolled \in Nat /\ Sound(data) /\ \A m \in data : m.number <= enrolled
  BY DEF IInv, Files
<1>8. Files'
  BY <1>2, <1>3, <1>4, <1>5, <1>6, <1>7 DEF Files
<1>9. ~excused' => ~excused
  BY <1>5
<1>10. hit # {} => s.file # {}
  BY <1>2
<1>11. ~excused' => InForce' = InForce \/ (InForce' = InForce \ hit /\ kept' = kept \ hit)
  <2> SUFFICES ASSUME ~excused' PROVE InForce' = InForce \/ (InForce' = InForce \ hit /\ kept' = kept \ hit)
    OBVIOUS
  <2>1. CASE file' = s.file /\ legacy' = s.legacy
    BY <1>3, <2>1 DEF InForce
  <2>2. CASE /\ file' = rest /\ legacy' = s.legacy /\ hit # {}
             /\ kept' = kept \ hit
             /\ excused' = (excused \/ (rest = {} /\ s.legacy # {}))
    <3>1. InForce = s.file /\ InForce' = rest
      BY <1>3, <1>10, <2>2 DEF InForce
    <3>2. rest = s.file \ hit
      BY <1>2 DEF hit
    <3> QED
      BY <2>2, <3>1, <3>2
  <2> QED
    BY <1>5, <2>1, <2>2
<1>12. Agreed'
  <2> SUFFICES ASSUME ~excused' PROVE InForce' = kept'
    BY DEF Agreed
  <2>1. InForce = kept
    BY <1>9 DEF IInv, Agreed
  <2>2. CASE file' = s.file /\ legacy' = s.legacy /\ UNCHANGED <<kept, excused>>
    BY <1>3, <2>1, <2>2 DEF InForce
  <2>3. CASE /\ file' = rest /\ legacy' = s.legacy /\ hit # {}
             /\ kept' = kept \ hit
             /\ excused' = (excused \/ (rest = {} /\ s.legacy # {}))
    <3>1. InForce = s.file /\ InForce' = rest
      BY <1>3, <1>10, <2>3 DEF InForce
    <3>2. rest = s.file \ hit
      BY <1>2 DEF hit
    <3> QED
      BY <2>1, <2>3, <3>1, <3>2
  <2> QED
    BY <1>5, <2>2, <2>3
<1>13. Copying'
  <2>1. step' = step /\ (step' = "read" => data' # {})
    BY <1>4 DEF IInv, Copying
  <2> SUFFICES ASSUME step = "written", ~excused' PROVE file' # {} \/ legacy' = {}
    BY <2>1 DEF Copying
  <2>2. s.file # {} \/ s.legacy = {}
    BY <1>3, <1>9
  <2>3. CASE file' = s.file /\ legacy' = s.legacy
    BY <2>2, <2>3
  <2>4. CASE /\ file' = rest /\ legacy' = s.legacy
             /\ excused' = (excused \/ (rest = {} /\ s.legacy # {}))
    BY <2>4
  <2> QED
    BY <1>5, <2>3, <2>4
<1>14. Chosen'
  <2>1. /\ pc \in [Clients -> {"idle", "scan", "dialog"}]
        /\ looked \in [Clients -> Nat] /\ todo \in [Clients -> SUBSET Model]
    BY DEF IInv, Chosen
  <2>2. /\ pc' \in [Clients -> {"idle", "scan", "dialog"}]
        /\ looked' \in [Clients -> Nat] /\ todo' \in [Clients -> SUBSET Model]
        /\ \A b \in Clients : \/ looked'[b] = looked[b] /\ todo'[b] \subseteq todo[b]
                              \/ looked'[b] = 0 /\ todo'[b] = {}
    <3>1. CASE Idle(c)
      BY <2>1, <3>1 DEF Idle
    <3>2. CASE todo' = [todo EXCEPT ![c] = todo[c] \ {meant}] /\ UNCHANGED <<pc, looked>>
      BY <2>1, <3>2
    <3> QED
      BY <1>5, <3>1, <3>2
  <2>3. ~excused' => \A m \in InForce' : m \in InForce
    BY <1>11
  <2>4. enrolled <= enrolled'
    BY <1>4, <1>7
  <2> QED
    BY <1>8, <1>9, <2>2, <2>3, <2>4, ChosenKept
<1>15. ~excused' => ~wrong'
  <2> SUFFICES ASSUME ~excused', NEW m \in hit, m # meant, m.number <= looked[c] PROVE FALSE
    BY <1>5, <1>9 DEF IInv
  <2>1. m \in InForce /\ m.id = meant.id
    BY <1>2, <1>3, <1>10
  <2>2. m.number > looked[c]
    BY <1>4, <1>9, <2>1 DEF IInv, Chosen
  <2>3. m.number \in Int /\ looked[c] \in Nat
    BY <1>2, <1>3 DEF Sound, Model, IInv, Chosen
  <2> QED
    BY <2>2, <2>3
<1> QED
  BY <1>8, <1>12, <1>13, <1>14, <1>15 DEF IInv

\* Root's command copies the old file beside the service (_copy_then_remove).
LEMMA CopyKeeps ==
  ASSUME IInv, LegacyRead \/ LegacyCopied \/ LegacyRemoved
  PROVE  IInv'
<1>1. /\ Sound(file) /\ Sound(legacy) /\ Sound(data) /\ Sound({}) /\ enrolled \in Nat
      /\ \A m \in file \cup legacy \cup data : m.number <= enrolled
  BY SoundEmpty DEF IInv, Files
<1>2. UNCHANGED <<enrolled, kept, wrong, pc, looked, todo>> /\ (~excused' => ~excused)
  <2>1. CASE LegacyRead
    BY <2>1 DEF LegacyRead, ghosts, requests
  <2>2. CASE LegacyCopied
    <3>1. UNCHANGED <<enrolled, kept, wrong, pc, looked, todo>>
      BY <2>2 DEF LegacyCopied, requests
    <3>2. excused' = (excused \/ file # {} \/ legacy # data)
      BY <2>2 DEF LegacyCopied
    <3> QED
      BY <3>1, <3>2
  <2>3. CASE LegacyRemoved
    BY <2>3 DEF LegacyRemoved, ghosts, requests
  <2> QED
    BY <2>1, <2>2, <2>3
<1>3. Files'
  BY <1>1, <1>2 DEF LegacyRead, LegacyCopied, LegacyRemoved, files, Files
<1>4. Copying'
  BY DEF IInv, Copying, LegacyRead, LegacyCopied, LegacyRemoved, files, ghosts
<1>5. ~excused' => InForce' = InForce
  BY DEF IInv, Copying, LegacyRead, LegacyCopied, LegacyRemoved, files, ghosts, InForce
<1>6. Agreed' /\ (~excused' => ~wrong')
  BY <1>2, <1>5 DEF IInv, Agreed
<1>7. Chosen'
  <2>1. /\ pc' \in [Clients -> {"idle", "scan", "dialog"}]
        /\ looked' \in [Clients -> Nat] /\ todo' \in [Clients -> SUBSET Model]
    BY <1>2 DEF IInv, Chosen
  <2>2. enrolled <= enrolled'
    BY <1>1, <1>2
  <2> QED
    BY <1>2, <1>3, <1>5, <2>1, <2>2, ChosenKept
<1> QED
  BY <1>3, <1>4, <1>6, <1>7 DEF IInv

-----------------------------------------------------------------------------
(***************************************************************************)
(* The theorems.                                                           *)
(***************************************************************************)

\* IInv holds in every reachable state.
LEMMA Invariance == Spec => []IInv
<1>1. Init => IInv
  <2> SUFFICES ASSUME Init PROVE IInv
    OBVIOUS
  <2>1. ASSUME NEW f \in FirstFiles \cup FirstLegacies
        PROVE  Sound(f) /\ \A m \in f : m.number <= 0
    BY StoreAssumption DEF Sound
  <2>2. Files
    <3>1. Sound({}) /\ enrolled = 0 /\ data = {}
      BY SoundEmpty DEF Init
    <3> QED
      BY <2>1, <3>1 DEF Init, Files
  <2>3. Copying
    BY DEF Init, Copying
  <2>4. Chosen
    BY DEF Init, Chosen
  <2>5. Agreed /\ (~excused => ~wrong)
    BY DEF Init, Agreed, InForce
  <2> QED
    BY <2>2, <2>3, <2>4, <2>5 DEF IInv
<1>2. IInv /\ [Next]_vars => IInv'
  <2> SUFFICES ASSUME IInv, [Next]_vars PROVE IInv'
    OBVIOUS
  <2> QED
    BY RequestKeeps, ListKeeps, EnrolledKeeps, ChangesKeeps, CopyKeeps DEF Next
<1> QED
  BY <1>1, <1>2, PTL DEF Spec

\* OldFile holds in every reachable state: a load moves models between the two
\* files, and the copy of the old one is noted where it overwrites.
LEMMA OldFileInvariance == Spec => []OldFile
<1>1. Init => OldFile
  BY DEF Init, OldFile, InForce
<1>2. OldFile /\ [Next]_vars => OldFile'
  <2> SUFFICES ASSUME OldFile, [Next]_vars PROVE OldFile'
    OBVIOUS
  <2>1. \A s \in migrations :
          /\ s.legacy \subseteq old /\ s.file \subseteq kept \cup old
          /\ kept \ (old \cup overwritten) \subseteq s.file
    <3>1. \A s \in migrations :
            \/ s.file = file /\ s.legacy = legacy
            \/ file = {} /\ s.file = legacy /\ s.legacy \subseteq legacy
      BY DEF migrations
    <3> QED
      BY <3>1 DEF OldFile
  <2>2. ASSUME NEW s \in migrations, Saved(s.file, s.legacy), UNCHANGED <<ghosts, data>>
        PROVE  OldFile'
    BY <2>1, <2>2 DEF Saved, ghosts, OldFile
  <2>3. ASSUME NEW c \in Clients, EnrollStarts(c) \/ List(c) PROVE OldFile'
    BY <2>2, <2>3 DEF EnrollStarts, List, copy
  <2>4. ASSUME NEW c \in Clients, Enrolled(c) PROVE OldFile'
    <3>1. PICK s \in migrations : Added(c, s.file, s.legacy)
      BY <2>4 DEF Enrolled
    <3>2. PICK new : file' = s.file \cup {new} /\ legacy' = s.legacy /\ kept' = kept \cup {new}
      BY <3>1 DEF Added, Saved
    <3>3. UNCHANGED <<old, overwritten, data>>
      BY <2>4 DEF Enrolled, copy
    <3> QED
      BY <2>1, <3>2, <3>3 DEF OldFile
  <2>5. ASSUME NEW c \in Clients, Changes(c) PROVE OldFile'
    <3>1. PICK meant \in Meant(c), s \in migrations :
            \/ /\ Saved(without(s.file, meant.id), s.legacy)
               /\ kept' = kept \ (s.file \ without(s.file, meant.id))
            \/ Saved(s.file, s.legacy) /\ kept' = kept
      BY <2>5 DEF Changes
    <3>2. without(s.file, meant.id) \subseteq s.file
      BY DEF without
    <3>3. UNCHANGED <<old, overwritten, data>>
      BY <2>5 DEF Changes, copy
    <3> QED
      BY <2>1, <3>1, <3>2, <3>3 DEF OldFile, Saved
  <2>6. ASSUME NEW c \in Clients, EnrollFails(c) \/ Refused(c) PROVE OldFile'
    BY <2>6 DEF EnrollFails, Refused, files, ghosts, copy, OldFile
  <2>7. CASE Restart \/ LegacyRead \/ LegacyRemoved \/ UNCHANGED vars
    BY <2>7 DEF Restart, LegacyRead, LegacyRemoved, vars, files, ghosts, copy, OldFile
  <2>8. CASE LegacyMoved \/ LegacyCopied
    BY <2>8 DEF LegacyMoved, LegacyCopied, ghosts, copy, OldFile
  <2> QED
    BY <2>3, <2>4, <2>5, <2>6, <2>7, <2>8 DEF Next
<1> QED
  BY <1>1, <1>2, PTL DEF Spec

\* However requests, scans, dialogs and the move of the old file overlap: an
\* enrolled model is in the file until it is removed, unless root's late copy
\* of the old file took its place; only models of the old file come back once
\* removed; and the models in force are exactly those enrolled and not removed
\* unless an old file that was left behind counted again, was passed over or
\* was copied late (add, remove, migrate_legacy).
THEOREM ModelsAreKept == Spec => []NothingLostNothingBack
<1>1. IInv /\ OldFile => NothingLostNothingBack
  BY DEF IInv, OldFile, Agreed, InForce, NothingLostNothingBack
<1> QED
  BY <1>1, Invariance, OldFileInvariance, PTL

\* An id names one model, and the one a caller chose before a dialog or one
\* enrolled since is what the request changes (add, remove, rename).
THEOREM IdsMeanTheirModel == Spec => []MeantModel
<1>1. IInv => MeantModel
  BY DEF IInv, Files, Sound, MeantModel
<1> QED
  BY <1>1, Invariance, PTL
===============================================================================
