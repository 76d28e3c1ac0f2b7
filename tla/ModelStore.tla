----------------------------- MODULE ModelStore -----------------------------
(***************************************************************************)
(* The face models of one user (models.py) and the requests that change    *)
(* them (Manager.enroll, rename_model, delete_model; the command line's    *)
(* remove, rename and clear).  The service changes the file between two    *)
(* awaits, so a request is a few atomic steps with a permission dialog or  *)
(* a scan between them, in which other requests go on.  Every load moves   *)
(* the file of an older version first, and so does a load of a command     *)
(* that root runs in a process of its own (cli/test.py, cli/webauthn.py).  *)
(*                                                                         *)
(* A model is its id and a number that tells enrolments apart; labels and  *)
(* encodings are left out.  A file is the set of its models: a new one is  *)
(* appended with an id above all others, so that the list is in the order  *)
(* of the ids.  Files are replaced by a rename, so a crash leaves the old  *)
(* or the new one.                                                         *)
(***************************************************************************)
EXTENDS Integers, FiniteSets, FiniteSetsExt

CONSTANTS
    Clients,         \* callers on the bus
    MaxEnrolments,   \* bound on enrolments
    Cleanups,        \* what a client may ask for: subset of remove, rename, clear
    FirstFiles,      \* what the two directories may hold when the service
    FirstLegacies    \* of this version starts first; {} for no file

Model == [id : Nat, number : Int]

\* An id names one model
OneEach(models) == \A m, n \in models : m.id = n.id => m = n

ASSUME StoreAssumption ==
    /\ MaxEnrolments \in Nat /\ Cleanups \subseteq {"remove", "rename", "clear"}
    /\ \A f \in FirstFiles \cup FirstLegacies :
         /\ IsFiniteSet(f) /\ OneEach(f)
         /\ \A m \in f : m \in Model /\ m.number <= 0

VARIABLES
    same_device,     \* the old and the new directory are on one device
    file, legacy,    \* the models in the two directories; empty for no file
    enrolled,        \* (ghost) number of enrolments so far
    kept,            \* (ghost) the models enrolled and not removed
    excused,         \* (ghost) the old file got in the way, see below
    old,             \* (ghost) the models of the old file at first
    overwritten,     \* (ghost) the models that root's copy of it took the place of
    wrong,           \* (ghost) a request hit a model its caller did not mean
    pc, op, todo, existing,  \* client: where it is, its command, the models
                             \* still to be changed, enroll's first load
    looked,          \* (ghost) client: enrolments when it chose a model
    step, data       \* root's command: where _copy_then_remove is, and what
                     \* it has read

files == <<file, legacy>>
ghosts == <<enrolled, kept, excused, wrong, old, overwritten>>
requests == <<pc, op, todo, existing, looked>>
copy == <<step, data>>
vars == <<same_device, files, ghosts, requests, copy>>

\* The models a load would give when nothing fails
InForce == IF file # {} THEN file ELSE legacy

Init ==
    /\ same_device \in BOOLEAN
    /\ file \in FirstFiles /\ legacy \in FirstLegacies
    /\ enrolled = 0 /\ kept = InForce
    /\ excused = FALSE /\ wrong = FALSE
    /\ old = legacy /\ overwritten = {}
    /\ pc = [c \in Clients |-> "idle"]
    /\ op = [c \in Clients |-> "none"]
    /\ todo = [c \in Clients |-> {}]
    /\ existing = [c \in Clients |-> {}]
    /\ looked = [c \in Clients |-> 0]
    /\ step = "none" /\ data = {}

-----------------------------------------------------------------------------
(* models.py *)

\* migrate_legacy: never overwrites.  An OSError leaves everything as it is, or
\* the copy made and the old file still there
migrations ==
    LET stay == [file |-> file, legacy |-> legacy]
        moved == [file |-> legacy, legacy |-> {}]
        copied == [file |-> legacy, legacy |-> legacy]
    IN  IF legacy = {} \/ file # {} THEN {stay}
        ELSE IF same_device THEN {stay, moved}
        ELSE {stay, moved, copied}

\* add: the id after the largest one in use
new_id(models) == IF models = {} THEN 0 ELSE Max({m.id : m \in models}) + 1

\* save; an empty list removes the file
Saved(f, l) == file' = f /\ legacy' = l

-----------------------------------------------------------------------------
(* Requests *)

\* enroll: the dialog was answered, and the models are loaded for their size
EnrollStarts(c) ==
    /\ pc[c] = "idle" /\ enrolled < MaxEnrolments
    /\ \E s \in migrations :
         /\ Saved(s.file, s.legacy)
         /\ existing' = [existing EXCEPT ![c] = s.file]
    /\ pc' = [pc EXCEPT ![c] = "scan"]
    /\ UNCHANGED <<same_device, ghosts, op, todo, looked, copy>>

\* The scan fails or is cancelled, or the save fails
EnrollFails(c) ==
    /\ pc[c] = "scan"
    /\ pc' = [pc EXCEPT ![c] = "idle"]
    /\ existing' = [existing EXCEPT ![c] = {}]
    /\ UNCHANGED <<same_device, files, ghosts, op, todo, looked, copy>>

\* Excused: the old file could not be moved, and its models are passed over
\* from now on
Added(c, models, l) ==
    LET new == [id |-> new_id(models), number |-> enrolled + 1] IN
    /\ Saved(models \cup {new}, l)
    /\ enrolled' = enrolled + 1
    /\ kept' = kept \cup {new}
    /\ excused' = (excused \/ (models = {} /\ l # {}))

\* A faulty Enrolled: the models loaded before the scan are saved with it
EnrolledStale(c) ==
    /\ pc[c] = "scan" /\ enrolled < MaxEnrolments
    /\ Added(c, existing[c], legacy)
    /\ pc' = [pc EXCEPT ![c] = "idle"]
    /\ existing' = [existing EXCEPT ![c] = {}]
    /\ UNCHANGED <<same_device, wrong, old, overwritten, op, todo, looked, copy>>

\* enroll: add() loads again, and saves the models of now with the new one
Enrolled(c) ==
    /\ pc[c] = "scan" /\ enrolled < MaxEnrolments
    /\ \E s \in migrations : Added(c, s.file, s.legacy)
    /\ pc' = [pc EXCEPT ![c] = "idle"]
    /\ existing' = [existing EXCEPT ![c] = {}]
    /\ UNCHANGED <<same_device, wrong, old, overwritten, op, todo, looked, copy>>

\* list_models: the caller chooses a model, or all of them
List(c) ==
    /\ pc[c] = "idle"
    /\ \E s \in migrations, o \in Cleanups :
         /\ Saved(s.file, s.legacy) /\ s.file # {}
         /\ op' = [op EXCEPT ![c] = o]
         /\ IF o = "clear"
            THEN todo' = [todo EXCEPT ![c] = s.file]
            ELSE \E m \in s.file : todo' = [todo EXCEPT ![c] = {m}]
    /\ looked' = [looked EXCEPT ![c] = enrolled]
    /\ pc' = [pc EXCEPT ![c] = "dialog"]
    /\ UNCHANGED <<same_device, ghosts, existing, copy>>

Idle(c) ==
    /\ pc' = [pc EXCEPT ![c] = "idle"] /\ op' = [op EXCEPT ![c] = "none"]
    /\ todo' = [todo EXCEPT ![c] = {}] /\ looked' = [looked EXCEPT ![c] = 0]

\* The dialog is refused or closed, or the caller leaves: clear ends half way
Refused(c) ==
    /\ pc[c] = "dialog"
    /\ Idle(c)
    /\ UNCHANGED <<same_device, files, ghosts, existing, copy>>

\* The model asked for; clear asks for one after the other
Meant(c) == {m \in todo[c] : \A n \in todo[c] : m.id <= n.id}

\* A faulty without: the id is taken for the place in the list
without_place(models, id) ==
    {m \in models : Cardinality({n \in models : n.id < m.id}) # id}

without(models, id) == {m \in models : m.id # id}

\* rename_model and delete_model, once allowed: the model with the id, or
\* NotFound, which also ends clear.  Wrong is a model that is neither the one
\* meant nor enrolled after the caller looked.  Excused: with the last model
\* gone, an old file that was left behind counts again
Changes(c) ==
    /\ pc[c] = "dialog"
    /\ \E meant \in Meant(c), s \in migrations :
         LET rest == without(s.file, meant.id)
             hit == s.file \ rest
         IN  /\ wrong' = (wrong \/ \E m \in hit : m # meant /\ m.number <= looked[c])
             /\ IF hit # {} /\ op[c] # "rename"
                THEN /\ Saved(rest, s.legacy)
                     /\ kept' = kept \ hit
                     /\ excused' = (excused \/ (rest = {} /\ s.legacy # {}))
                ELSE Saved(s.file, s.legacy) /\ UNCHANGED <<kept, excused>>
             /\ IF hit # {} /\ todo[c] # {meant}
                THEN todo' = [todo EXCEPT ![c] = @ \ {meant}] /\ UNCHANGED <<pc, op, looked>>
                ELSE Idle(c)
    /\ UNCHANGED <<same_device, enrolled, old, overwritten, existing, copy>>

\* The service exits or dies: its requests end, the files stay
Restart ==
    /\ \E c \in Clients : pc[c] # "idle"
    /\ pc' = [c \in Clients |-> "idle"] /\ op' = [c \in Clients |-> "none"]
    /\ todo' = [c \in Clients |-> {}] /\ existing' = [c \in Clients |-> {}]
    /\ looked' = [c \in Clients |-> 0]
    /\ UNCHANGED <<same_device, files, ghosts, copy>>

-----------------------------------------------------------------------------
(* A command of root, which loads and so migrates beside the service *)

\* One device: os.replace moves the file in one step
LegacyMoved ==
    /\ step = "none" /\ legacy # {} /\ same_device /\ file = {}
    /\ file' = legacy /\ legacy' = {}
    /\ UNCHANGED <<same_device, ghosts, requests, copy>>

\* Two devices: it looks for a new file and reads the old one, ...
LegacyRead ==
    /\ step = "none" /\ legacy # {} /\ ~same_device /\ file = {}
    /\ step' = "read" /\ data' = legacy
    /\ UNCHANGED <<same_device, files, ghosts, requests>>

\* ... writes the copy, whatever has become of the two files meanwhile
\* (excused: the service was faster, and what it saved is overwritten or
\* models it removed are back), ...
LegacyCopied ==
    /\ step = "read"
    /\ excused' = (excused \/ file # {} \/ legacy # data)
    /\ overwritten' = overwritten \cup (file \ data)
    /\ file' = data /\ step' = "written"
    /\ UNCHANGED <<same_device, legacy, data, enrolled, kept, wrong, old, requests>>

\* ... and removes the old one, unless it dies or the directory is read-only
LegacyRemoved ==
    /\ step = "written"
    /\ legacy' \in {{}, legacy}
    /\ step' = "none" /\ data' = {}
    /\ UNCHANGED <<same_device, file, ghosts, requests>>

Next ==
    \/ \E c \in Clients :
         \/ EnrollStarts(c) \/ EnrollFails(c) \/ Enrolled(c)
         \/ List(c) \/ Refused(c) \/ Changes(c)
    \/ Restart \/ LegacyMoved \/ LegacyRead \/ LegacyCopied \/ LegacyRemoved

Spec == Init /\ [][Next]_vars

-----------------------------------------------------------------------------
(* Properties *)

\* However enrolments, deletions and a clear overlap, and whatever becomes of
\* the old file meanwhile:
\*  - an enrolled model is in the file until it is removed: none is lost with
\*    a save of what was loaded before the scan.  Only root's command, which
\*    looks for a new file and writes its copy of the old one later, loses
\*    models (_copy_then_remove), although migrate_legacy "never overwrites";
\*  - no model comes back once it is removed, but for those of an old file;
\*  - those do, or stay out of force, in three cases only (excused): the last
\*    model is removed while an old file is left behind, which then counts
\*    again (load); a model is added while the old file cannot be moved; and
\*    root's late copy.
NothingLostNothingBack ==
    /\ kept \ (old \cup overwritten) \subseteq file
    /\ InForce \subseteq kept \cup old
    /\ ~excused => InForce = kept

\* An id names one model, and chosen before the dialog it still means the same
\* model after it, or one enrolled meanwhile (the ids of removed models are used
\* again): remove() and rename() go by nothing else.
MeantModel ==
    /\ OneEach(file)
    /\ ~excused => ~wrong
=============================================================================
