------------------------------- MODULE Emitter -------------------------------
(***************************************************************************)
(* The infrared emitter of the camera: the sessions that switch it on for  *)
(* one capture and hand the camera back as it was (emitter.py activate and *)
(* Session.close, recorders/video_capture.py), and the command line's      *)
(* test, search and forget (cli/emitter.py), which run beside the service. *)
(*                                                                         *)
(* Every query of a control is an ioctl of its own and there is no lock:   *)
(* two processes may have the camera open and interleave at every query.   *)
(* Only streaming is exclusive, which is the kernel's doing (external).    *)
(*                                                                         *)
(* A value is one number per byte.  For the face authentication control a  *)
(* byte is the mode of one streaming interface.  Which frames flash and    *)
(* what the person at the keyboard answers is left open.                   *)
(***************************************************************************)
EXTENDS Integers, Sequences

CONSTANTS
    Scanners,    \* processes that scan until a timeout: the service
    Cli,         \* the process of linux-hello-cli emitter: test, search, forget
    FaceAuth,    \* Microsoft's face authentication control
    Vendor,      \* the sequence of the camera's writable vendor controls
    Last,        \* the number of bytes (interfaces) of a value
    MaxByte,     \* the largest value of a byte
    Original,    \* the values of a camera that was just powered up
    Maximum,     \* GET_MAX of the controls
    Supported,   \* GET_MAX of the face authentication control: modes by byte
    Databases,   \* what the shipped database may hold for this camera
    PerByte      \* candidate_values tries so many steps of a byte (5)

Procs == Scanners \cup {Cli}
VendorSet == {Vendor[i] : i \in DOMAIN Vendor}
Controls == {FaceAuth} \cup VendorSet
Bytes == 1..Last
Value == [Bytes -> 0..MaxByte]
Write == [control : Controls, value : Value]

ASSUME EmitterAssumption ==
    /\ Cli \notin Scanners
    /\ FaceAuth \notin VendorSet
    /\ Vendor \in Seq(VendorSet)
    /\ \A i, j \in DOMAIN Vendor : Vendor[i] = Vendor[j] => i = j
    /\ MaxByte \in Nat /\ MaxByte >= 4
    /\ Original \in [Controls -> Value]
    /\ Maximum \in [VendorSet -> Value]
    /\ Supported \in [Bytes -> SUBSET {2, 4}]
    /\ \A d \in Databases : d \in Seq([control : VendorSet, value : Value])
    /\ \A d \in Databases : \A i, j \in DOMAIN d : d[i].control = d[j].control => i = j
    /\ Last \in Nat \ {0} /\ PerByte \in Nat \ {0}

VARIABLES
    msxu,        \* the camera has the Microsoft control
    database,    \* the shipped database's controls for this camera
    state,       \* emitter.json: controls found here, and the blacklist
    cur,         \* the value of each control in the camera
    handle,      \* the processes with the video node open for queries
    stream,      \* the processes that stream (one at most)
    place,       \* where each process is
    todo,        \* the rest of the plan's writes of each process
    previous,    \* what activate read before its next write
    restore,     \* Session._restore
    search,      \* the command line's search
    excused      \* (ghost) controls of which nothing is promised: the camera
                 \* refused a query, a process was killed, or forget ran while
                 \* the camera was in use

emitter_vars == <<msxu, database, state, cur, handle, stream, place, todo, previous,
                  restore, search, excused>>
\* What a scan or a session never changes
files == <<msxu, database, state, search>>

-----------------------------------------------------------------------------
(* Plans *)

ALTERNATIVE_FRAME_ILLUMINATION == 2
BACKGROUND_SUBTRACTION == 4

\* The mode chosen for one interface; an interface without one keeps its flags
mode_of(i, flags) ==
    IF ALTERNATIVE_FRAME_ILLUMINATION \in Supported[i] THEN ALTERNATIVE_FRAME_ILLUMINATION
    ELSE IF BACKGROUND_SUBTRACTION \in Supported[i] THEN BACKGROUND_SUBTRACTION
    ELSE flags

face_auth_target(current) == [i \in Bytes |-> mode_of(i, current[i])]

\* Some interface supports a mode: otherwise face_auth_target returns None
face_auth_known == msxu /\ \E i \in Bytes : Supported[i] # {}

\* Found on this machine first, then shipped
stored_controls == IF state.controls # <<>> THEN state.controls ELSE database

face_auth_plan ==
    <<[control |-> FaceAuth, value |-> face_auth_target(cur[FaceAuth])]>>

\* plan(): face authentication, unless the camera lacks it or refuses a query
plans ==
    (IF face_auth_known THEN {face_auth_plan} ELSE {}) \cup {stored_controls}

\* What a session still has to put back
Held(p) == {restore[p][i].control : i \in DOMAIN restore[p]}

\* candidate_values: each byte in turn is raised step by step, never past
\* GET_MAX, while the others keep their value.  The n-th candidate:
step(n) == ((n - 1) % PerByte) + 1
byte(n) == ((n - 1) \div PerByte) + 1
raised(now, n) == [now EXCEPT ![byte(n)] = @ + step(n)]

fits(c, now, n) ==
    now[byte(n)] + step(n) <=
        (IF Maximum[c][byte(n)] < MaxByte THEN Maximum[c][byte(n)] ELSE MaxByte)

\* The candidate after the n-th, if there is one
next_value(c, now, n) ==
    {m \in (n + 1)..(PerByte * Last) :
        fits(c, now, m) /\ \A k \in (n + 1)..(m - 1) : ~fits(c, now, k)}

\* candidate_controls: the control after the i-th that is not blacklisted
next_control(i) ==
    {j \in DOMAIN Vendor :
        /\ j > i /\ Vendor[j] \notin state.blacklist
        /\ \A k \in (i + 1)..(j - 1) : Vendor[k] \in state.blacklist}

NoSearch == [at |-> 0, tried |-> 0, saved |-> Original, ended |-> FALSE]

EmitterInit ==
    /\ msxu \in BOOLEAN
    /\ database \in Databases
    /\ state = [controls |-> <<>>, blacklist |-> {}]
    /\ cur = Original
    /\ handle = {} /\ stream = {}
    /\ place = [p \in Procs |-> "idle"]
    /\ todo = [p \in Procs |-> <<>>]
    /\ previous = [p \in Procs |-> Original[FaceAuth]]
    /\ restore = [p \in Procs |-> <<>>]
    /\ search = NoSearch
    /\ excused = {}

-----------------------------------------------------------------------------
(* A capture: VideoCapture, and the second half of cmd_test *)

\* activate: open the node. A camera that cannot be opened is used as it is
Activate(p) ==
    /\ place[p] = "idle"
    /\ \/ handle' = handle \cup {p} /\ place' = [place EXCEPT ![p] = "plan"]
       \/ handle' = handle /\ place' = [place EXCEPT ![p] = "ready"]
    /\ UNCHANGED <<files, cur, stream, todo, previous, restore, excused>>

\* plan: nothing is known for this camera when there is nothing to write
Plan(p) ==
    /\ place[p] = "plan"
    /\ \E writes \in plans :
         /\ todo' = [todo EXCEPT ![p] = writes]
         /\ place' = [place EXCEPT ![p] = IF writes = <<>> THEN "ready" ELSE "get"]
         /\ handle' = IF writes = <<>> THEN handle \ {p} ELSE handle
    /\ UNCHANGED <<files, cur, stream, previous, restore, excused>>

\* A faulty GetPrevious: a control is written whatever its value is
GetPreviousAlways(p) ==
    /\ place[p] = "get" /\ todo[p] # <<>>
    /\ previous' = [previous EXCEPT ![p] = cur[Head(todo[p]).control]]
    /\ place' = [place EXCEPT ![p] = "set"]
    /\ UNCHANGED <<files, cur, handle, stream, todo, restore, excused>>

\* activate's loop: a control that has the value already is left alone
GetPrevious(p) ==
    /\ place[p] = "get" /\ todo[p] # <<>>
    /\ LET w == Head(todo[p]) IN
         IF cur[w.control] # w.value
         THEN /\ previous' = [previous EXCEPT ![p] = cur[w.control]]
              /\ place' = [place EXCEPT ![p] = "set"]
              /\ todo' = todo
         ELSE /\ todo' = [todo EXCEPT ![p] = Tail(@)]
              /\ UNCHANGED <<previous, place>>
    /\ UNCHANGED <<files, cur, handle, stream, restore, excused>>

SetOn(p) ==
    /\ place[p] = "set"
    /\ LET w == Head(todo[p]) IN
         /\ cur' = [cur EXCEPT ![w.control] = w.value]
         /\ restore' = [restore EXCEPT ![p] =
                          Append(@, [control |-> w.control, value |-> previous[p]])]
         /\ todo' = [todo EXCEPT ![p] = Tail(@)]
         /\ place' = [place EXCEPT ![p] = "get"]
    /\ previous' = [previous EXCEPT ![p] = Original[FaceAuth]]
    /\ UNCHANGED <<files, handle, stream, excused>>

\* The camera refuses one of the queries: the handle is closed and what was
\* written so far stays
ActivateFails(p) ==
    /\ place[p] \in {"get", "set"} /\ todo[p] # <<>>
    /\ excused' = excused \cup Held(p)
    /\ restore' = [restore EXCEPT ![p] = <<>>]
    /\ todo' = [todo EXCEPT ![p] = <<>>]
    /\ handle' = handle \ {p}
    /\ place' = [place EXCEPT ![p] = "ready"]
    /\ previous' = [previous EXCEPT ![p] = Original[FaceAuth]]
    /\ UNCHANGED <<files, cur, stream>>

Activated(p) ==
    /\ place[p] = "get" /\ todo[p] = <<>>
    /\ place' = [place EXCEPT ![p] = "ready"]
    /\ UNCHANGED <<files, cur, handle, stream, todo, previous, restore, excused>>

\* A faulty StartReader: it waits for a camera that streams already
StartReaderWaits(p) ==
    /\ place[p] = "ready" /\ stream = {}
    /\ stream' = {p} /\ place' = [place EXCEPT ![p] = "stream"]
    /\ UNCHANGED <<files, cur, handle, todo, previous, restore, excused>>

\* The reader; a camera that streams already gives no frames, and the capture
\* is released
StartReader(p) ==
    /\ place[p] = "ready"
    /\ IF stream = {}
       THEN stream' = {p} /\ place' = [place EXCEPT ![p] = "stream"]
       ELSE stream' = stream /\ place' = [place EXCEPT ![p] = "closing"]
    /\ UNCHANGED <<files, cur, handle, todo, previous, restore, excused>>

\* release() and cmd_test's finally: the reader first, then the session
StopReader(p) ==
    /\ place[p] = "stream"
    /\ stream' = stream \ {p}
    /\ place' = [place EXCEPT ![p] = "closing"]
    /\ UNCHANGED <<files, cur, handle, todo, previous, restore, excused>>

\* Session.close: the previous values in reverse order; one that the camera
\* refuses is passed over
Restore(p) ==
    /\ place[p] = "closing" /\ restore[p] # <<>>
    /\ LET w == restore[p][Len(restore[p])] IN
         \/ cur' = [cur EXCEPT ![w.control] = w.value] /\ UNCHANGED excused
         \/ UNCHANGED cur /\ excused' = excused \cup {w.control}
    /\ restore' = [restore EXCEPT ![p] = SubSeq(@, 1, Len(@) - 1)]
    /\ UNCHANGED <<files, handle, stream, place, todo, previous>>

Closed(p) ==
    /\ place[p] = "closing" /\ restore[p] = <<>>
    /\ handle' = handle \ {p}
    /\ place' = [place EXCEPT ![p] = "idle"]
    /\ UNCHANGED <<files, cur, stream, todo, previous, restore, excused>>

-----------------------------------------------------------------------------
(* linux-hello-cli emitter search and forget *)

\* status: without a way to drive the emitter the search may start, once the
\* person has agreed.  A query the camera refuses looks the same
Status ==
    /\ place[Cli] = "idle"
    /\ place' = [place EXCEPT ![Cli] = "asked"]
    /\ UNCHANGED <<files, cur, handle, stream, todo, previous, restore, excused>>

\* Not agreed, or the reader cannot be opened
NoReader ==
    /\ place[Cli] = "asked"
    /\ place' = [place EXCEPT ![Cli] = "idle"]
    /\ UNCHANGED <<files, cur, handle, stream, todo, previous, restore, excused>>

StartSearch ==
    /\ place[Cli] = "asked" /\ stream = {}
    /\ stream' = {Cli} /\ handle' = handle \cup {Cli}
    /\ search' = [at |-> 0, tried |-> 0, saved |-> cur, ended |-> FALSE]
    /\ place' = [place EXCEPT ![Cli] = "next"]
    /\ excused' = IF stored_controls = <<>> THEN excused ELSE Controls
    /\ UNCHANGED <<msxu, database, state, cur, todo, previous, restore>>

Current == Vendor[search.at]

\* The next control, or the end of the search
NextControl ==
    /\ place[Cli] = "next"
    /\ IF search.ended \/ next_control(search.at) = {}
       THEN place' = [place EXCEPT ![Cli] = "end"] /\ UNCHANGED search
       ELSE /\ \E j \in next_control(search.at) :
                 search' = [search EXCEPT !.at = j, !.tried = 0]
            /\ place' = [place EXCEPT ![Cli] = "try"]
    /\ UNCHANGED <<msxu, database, state, cur, handle, stream, todo, previous, restore, excused>>

\* The next value is written, and then the frames are looked at
TryNext ==
    /\ place[Cli] = "try"
    /\ \E n \in next_value(Current, search.saved[Current], search.tried) :
         /\ cur' = [cur EXCEPT ![Current] = raised(search.saved[Current], n)]
         /\ search' = [search EXCEPT !.tried = n]
    /\ place' = [place EXCEPT ![Cli] = "look"]
    /\ UNCHANGED <<msxu, database, state, handle, stream, todo, previous, restore, excused>>

\* No value is left, or the camera refuses one
NoMoreValues ==
    /\ place[Cli] = "try"
    /\ place' = [place EXCEPT ![Cli] = "undo"]
    /\ UNCHANGED <<files, cur, handle, stream, todo, previous, restore, excused>>

\* No flash, or the person says no
NotLit ==
    /\ place[Cli] = "look"
    /\ place' = [place EXCEPT ![Cli] = "try"]
    /\ UNCHANGED <<files, cur, handle, stream, todo, previous, restore, excused>>

\* remember: this machine's file now says how to drive the camera
Remember ==
    /\ place[Cli] = "look"
    /\ state' = [state EXCEPT !.controls =
                   <<[control |-> Current, value |-> cur[Current]]>>]
    /\ search' = [search EXCEPT !.ended = TRUE]
    /\ place' = [place EXCEPT ![Cli] = "undo"]
    /\ UNCHANGED <<msxu, database, cur, handle, stream, todo, previous, restore, excused>>

\* Ctrl+C, or the file cannot be written: the finally clauses run
Interrupt ==
    /\ place[Cli] \in {"try", "look"}
    /\ search' = [search EXCEPT !.ended = TRUE]
    /\ place' = [place EXCEPT ![Cli] = "undo"]
    /\ UNCHANGED <<msxu, database, state, cur, handle, stream, todo, previous, restore, excused>>

\* finally: the control gets its value back before the next one is tried, or
\* is blacklisted and the search ends
Undo ==
    /\ place[Cli] = "undo"
    /\ place' = [place EXCEPT ![Cli] = "next"]
    /\ \/ /\ cur' = [cur EXCEPT ![Current] = search.saved[Current]]
          /\ UNCHANGED <<state, excused, search>>
       \/ /\ state' = [state EXCEPT !.blacklist = @ \cup {Current}]
          /\ excused' = excused \cup {Current}
          /\ search' = [search EXCEPT !.ended = TRUE]
          /\ UNCHANGED cur
    /\ UNCHANGED <<msxu, database, handle, stream, todo, previous, restore>>

\* The device and then the reader are closed
SearchEnds ==
    /\ place[Cli] = "end"
    /\ handle' = handle \ {Cli} /\ stream' = stream \ {Cli}
    /\ search' = NoSearch
    /\ place' = [place EXCEPT ![Cli] = "idle"]
    /\ UNCHANGED <<msxu, database, state, cur, todo, previous, restore, excused>>

\* forget: the whole entry goes, the blacklist too
Forget ==
    /\ place[Cli] = "idle"
    /\ state # [controls |-> <<>>, blacklist |-> {}]
    /\ state' = [controls |-> <<>>, blacklist |-> {}]
    /\ excused' = IF handle = {} THEN excused ELSE Controls
    /\ UNCHANGED <<msxu, database, cur, handle, stream, place, todo, previous, restore, search>>

-----------------------------------------------------------------------------
(* Faults *)

\* A process dies: no finally clause runs
Kill(p) ==
    /\ place[p] # "idle"
    /\ excused' = excused \cup Held(p)
         \cup (IF place[p] \in {"try", "look", "undo"} THEN {Current} ELSE {})
    /\ restore' = [restore EXCEPT ![p] = <<>>]
    /\ todo' = [todo EXCEPT ![p] = <<>>]
    /\ handle' = handle \ {p} /\ stream' = stream \ {p}
    /\ search' = IF p = Cli THEN NoSearch ELSE search
    /\ previous' = [previous EXCEPT ![p] = Original[FaceAuth]]
    /\ place' = [place EXCEPT ![p] = "idle"]
    /\ UNCHANGED <<msxu, database, state, cur>>

\* External: a camera nobody uses powers down and forgets its values
PowerDown ==
    /\ handle = {} /\ stream = {}
    /\ cur # Original
    /\ cur' = Original /\ excused' = {}
    /\ UNCHANGED <<files, handle, stream, place, todo, previous, restore>>

Capture(p) ==
    \/ Plan(p) \/ GetPrevious(p) \/ SetOn(p) \/ ActivateFails(p)
    \/ Activated(p) \/ StartReader(p) \/ StopReader(p) \/ Restore(p) \/ Closed(p)

Search ==
    \/ Status \/ NoReader \/ StartSearch \/ NextControl \/ TryNext \/ NoMoreValues \/ NotLit \/ Remember
    \/ Interrupt \/ Undo \/ SearchEnds \/ Forget

EmitterNext ==
    \/ \E p \in Procs : Activate(p) \/ Capture(p) \/ Kill(p)
    \/ Search
    \/ PowerDown

\* Queries return, and a scan of the service ends at its timeout: a capture goes
\* on.  A test does not while it streams: FrameReader reads until it has its
\* frames, and has no timeout for a camera that gives none.  Nobody has to start
\* a capture, and the person at the search need not answer
Fairness ==
    /\ \A p \in Scanners : WF_emitter_vars(Capture(p))
    /\ WF_emitter_vars(Capture(Cli) /\ place[Cli] # "stream")

EmitterSpec == EmitterInit /\ [][EmitterNext]_emitter_vars /\ Fairness

-----------------------------------------------------------------------------
(* Properties *)

SearchAt == [at : 0..Len(Vendor), tried : Nat, saved : [Controls -> Value], ended : BOOLEAN]

\* The types of the variables; restore lists hold writes of known controls.
EmitterTypeOK ==
    /\ msxu \in BOOLEAN /\ database \in Databases
    /\ state \in [controls : Seq([control : VendorSet, value : Value]), blacklist : SUBSET VendorSet]
    /\ cur \in [Controls -> Value]
    /\ handle \subseteq Procs /\ stream \subseteq Procs
    /\ place \in [Procs -> {"idle", "plan", "get", "set", "ready", "stream", "closing",
                            "asked", "next", "try", "look", "undo", "end"}]
    /\ todo \in [Procs -> Seq(Write)] /\ restore \in [Procs -> Seq(Write)]
    /\ previous \in [Procs -> Value]
    /\ search \in SearchAt
    /\ excused \subseteq Controls

Searching(c) == place[Cli] \in {"try", "look", "undo"} /\ Current = c

\* emitter.py:16 "Values are set when a capture starts and restored when it
\* ends": a control differs from what the camera had only while a session or
\* the search still has to put it back, however captures of several processes,
\* a test and a search interleave; the exceptions are the ones of excused.
HandedBack ==
    \A c \in Controls :
        \/ cur[c] = Original[c]
        \/ c \in excused
        \/ Searching(c)
        \/ \E p \in Procs : c \in Held(p)

\* A scan that switched the emitter on ends and puts everything back: the light
\* does not stay on because two captures met, and not because a test waits for
\* frames for ever.  The test itself does so once it no longer streams.
LightGoesOut ==
    /\ \A p \in Scanners : restore[p] # <<>> ~> restore[p] = <<>>
    /\ restore[Cli] # <<>> ~> (restore[Cli] = <<>> \/ place[Cli] = "stream")
=============================================================================
