---------------------------- MODULE CameraRequests ----------------------------
(***************************************************************************)
(* The requests that share the camera: Manager.verify, verify_now, enroll  *)
(* and list_cameras with Manager._camera, the lock screen's pause          *)
(* (_streak, _wait_for_activity), Manager.cancel, and what serve() of      *)
(* linux_hello_daemon.py does when a caller leaves the bus or the service  *)
(* stops.  verify_confirmed is in module Elevation.                        *)
(*                                                                         *)
(* A request is one method call; several may come from one bus connection. *)
(* The coroutines share one event loop, so what one does between two       *)
(* awaits is one action.  The pause and the camera work run in threads of  *)
(* their own, which read the request's cancel event whenever they like.    *)
(*                                                                         *)
(* Every request is about one user: `failures' has an entry for each user  *)
(* and entries of different users do not meet.                             *)
(***************************************************************************)
EXTENDS Integers, Sequences, FiniteSets

CONSTANTS
  Request,       \* method calls that can be under way at a time
  Sender,        \* bus connections
  NoRequest,
  Connection,    \* the connection a request is made on
  Kinds,         \* the methods a request may call, see below
  PAUSE_AFTER

(***************************************************************************)
(* unlock: Verify by the user, the lock screen; verify: Verify by root, or *)
(* VerifyNow; enroll: Enroll; probe: ListCameras.                          *)
(***************************************************************************)
AllKinds == {"unlock", "verify", "enroll", "probe"}

ASSUME CameraAssumption ==
  /\ NoRequest \notin Request
  /\ Connection \in [Request -> Sender]
  /\ Kinds \in [Request -> SUBSET AllKinds]
  /\ PAUSE_AFTER \in Nat \ {0}

VARIABLES
  \* the coroutine of a request
  pc,          \* where it waits: "idle" before the call and after the answer
  kind,        \* its method
  cancel,      \* its current threading.Event is set
  \* the thread working for it
  thread,      \* "off", "pausing", "check", "frame", or what it returned
  \* the manager
  running,     \* sender -> the request whose event is registered, or NoRequest
  camera,      \* the request inside `async with camera_lock', or NoRequest
  queue,       \* the waiters of camera_lock, first come first
  failures,    \* of the user: failed scans in a row, 0 for no entry
  recent,      \* the last of them was at most STREAK_SECONDS ago
  \* the bus and the service
  connected,   \* the senders on the bus
  stopping,    \* serve() has left its loop and waits for the tasks
  \* history, read by the properties only
  withdrawn,   \* requests whose caller left or cancelled them while they waited for
               \* the camera or used it
  unattended,  \* failed lock screen scans in a row, no input between them
  bumped       \* requests whose entry in running another request of the same
               \* connection took over, or took away when it ended

coroutine_vars == <<pc, kind, cancel, thread>>
lock_vars == <<running, camera, queue, bumped>>
streak_vars == <<failures, recent, unattended>>
service_vars == <<connected, stopping>>
vars == <<coroutine_vars, lock_vars, streak_vars, service_vars, withdrawn>>

\* TIMEOUT_REACHED and TOO_DARK are FAILED, every other failure is ERROR
Result == {"SUCCESS", "FAILED", "ERROR", "CANCELLED"}
\* What wait_for_activity returns
Wakeup == {"RESUMED", "AWAY"}

TypeOK ==
  /\ pc \in [Request -> {"idle", "access", "pausing", "queued", "scanning"}]
  /\ kind \in [Request -> AllKinds]
  /\ cancel \in [Request -> BOOLEAN]
  /\ thread \in [Request ->
                   {"off", "pausing", "check", "frame"} \cup Result \cup Wakeup]
  /\ running \in [Sender -> Request \cup {NoRequest}]
  /\ camera \in Request \cup {NoRequest}
  /\ queue \in Seq(Request)
  /\ failures \in Nat
  /\ recent \in BOOLEAN
  /\ connected \subseteq Sender
  /\ stopping \in BOOLEAN
  /\ withdrawn \subseteq Request
  /\ unattended \in Nat
  /\ bumped \subseteq Request

Init ==
  /\ pc = [r \in Request |-> "idle"]
  /\ kind = [r \in Request |-> "verify"]
  /\ cancel = [r \in Request |-> FALSE]
  /\ thread = [r \in Request |-> "off"]
  /\ running = [s \in Sender |-> NoRequest]
  /\ camera = NoRequest
  /\ queue = <<>>
  /\ failures = 0
  /\ recent = FALSE
  /\ connected = Sender
  /\ stopping = FALSE
  /\ withdrawn = {}
  /\ unattended = 0
  /\ bumped = {}

-----------------------------------------------------------------------------
(***************************************************************************)
(* Helpers of the coroutines.                                              *)
(***************************************************************************)

\* Manager._streak
Streak == IF recent THEN failures ELSE 0

\* The requests under way on a connection
Active(s) == {r \in Request : Connection[r] = s /\ pc[r] # "idle"}

\* The requests other than r that lose the entry of r's connection
Bumped(r) == {q \in Request \ {r} : running[Connection[r]] = q}

\* Fault: the event is registered only once the camera is free
RegisterLate(r) ==
  /\ running' = IF camera = NoRequest
                THEN [running EXCEPT ![Connection[r]] = r] ELSE running
  /\ cancel' = [cancel EXCEPT ![r] = FALSE]
  /\ bumped' = (bumped \cup Bumped(r)) \ {r}

\* self.running[caller.sender] = cancel, a new event
Register(r) ==
  /\ running' = [running EXCEPT ![Connection[r]] = r]
  /\ cancel' = [cancel EXCEPT ![r] = FALSE]
  /\ bumped' = (bumped \cup Bumped(r)) \ {r}

\* self.running.pop(caller.sender, None)
Pop(r) ==
  /\ running' = [running EXCEPT ![Connection[r]] = NoRequest]
  /\ bumped' = (bumped \cup Bumped(r)) \ {r}

\* Camera work: `verify' and `enroll' look at the event at every frame,
\* list_cameras never does
FirstStep(r) == IF kind[r] = "probe" THEN "frame" ELSE "check"

\* Fault: the lock screen takes the camera although others hold it
EnterCameraBarging(r) ==
  IF camera \notin Request \/ kind[r] = "unlock"
  THEN /\ camera' = r
       /\ pc' = [pc EXCEPT ![r] = "scanning"]
       /\ thread' = [thread EXCEPT ![r] = FirstStep(r)]
       /\ UNCHANGED queue
  ELSE /\ queue' = Append(queue, r)
       /\ pc' = [pc EXCEPT ![r] = "queued"]
       /\ thread' = [thread EXCEPT ![r] = "off"]
       /\ UNCHANGED camera

(***************************************************************************)
(* Manager._camera up to its first real await: the event is registered,    *)
(* then the lock taken (and the work started) when it is free and nobody   *)
(* waits for it.                                                           *)
(***************************************************************************)
EnterCamera(r) ==
  IF camera = NoRequest /\ queue = <<>>
  THEN /\ camera' = r
       /\ pc' = [pc EXCEPT ![r] = "scanning"]
       /\ thread' = [thread EXCEPT ![r] = FirstStep(r)]
       /\ UNCHANGED queue
  ELSE /\ queue' = Append(queue, r)
       /\ pc' = [pc EXCEPT ![r] = "queued"]
       /\ thread' = [thread EXCEPT ![r] = "off"]
       /\ UNCHANGED camera

\* The coroutine returns or raises: the task ends, its event goes and the caller
\* is answered
Answered(r) ==
  /\ pc' = [pc EXCEPT ![r] = "idle"]
  /\ thread' = [thread EXCEPT ![r] = "off"]
  /\ cancel' = [cancel EXCEPT ![r] = FALSE]
  /\ withdrawn' = withdrawn \ {r}

-----------------------------------------------------------------------------
(***************************************************************************)
(* The coroutines.                                                         *)
(***************************************************************************)

\* A method call arrives; Dispatcher makes a task of it, which asks the bus
\* and polkit who the caller is and what it may do
Call(r, k) ==
  /\ pc[r] = "idle"
  /\ Connection[r] \in connected
  /\ pc' = [pc EXCEPT ![r] = "access"]
  /\ kind' = [kind EXCEPT ![r] = k]
  /\ UNCHANGED <<cancel, thread, lock_vars, streak_vars, service_vars, withdrawn>>

\* Not permitted, no such user, no face model
Refuse(r) ==
  /\ pc[r] = "access"
  /\ Answered(r)
  /\ UNCHANGED <<kind, lock_vars, streak_vars, service_vars>>

\* The lock screen has failed too often: wait with the camera off
StartPause(r) ==
  /\ pc[r] = "access"
  /\ kind[r] = "unlock"
  /\ Streak >= PAUSE_AFTER
  /\ Register(r)
  /\ pc' = [pc EXCEPT ![r] = "pausing"]
  /\ thread' = [thread EXCEPT ![r] = "pausing"]
  /\ UNCHANGED <<kind, camera, queue, streak_vars, service_vars, withdrawn>>

Start(r) ==
  /\ pc[r] = "access"
  /\ kind[r] = "unlock" => Streak < PAUSE_AFTER
  /\ Register(r)
  /\ EnterCamera(r)
  /\ UNCHANGED <<kind, streak_vars, service_vars, withdrawn>>

(***************************************************************************)
(* After _wait_for_activity's thread: input clears the streak and the      *)
(* request goes on to the camera with a new event; otherwise it is         *)
(* answered, and the streak kept alive unless it was cancelled.            *)
(***************************************************************************)
PauseOver(r) ==
  /\ pc[r] = "pausing"
  /\ thread[r] = "RESUMED"
  /\ Register(r)
  /\ EnterCamera(r)
  /\ failures' = 0
  /\ recent' = FALSE
  /\ unattended' = 0
  /\ UNCHANGED <<kind, service_vars, withdrawn>>

\* Fault: the streak starts over after waiting in vain
StillAwayForgets(r) ==
  /\ pc[r] = "pausing"
  /\ thread[r] = "AWAY"
  /\ Answered(r)
  /\ Pop(r)
  /\ failures' = 0
  /\ recent' = FALSE
  /\ UNCHANGED unattended
  /\ UNCHANGED <<kind, camera, queue, service_vars>>

StillAway(r) ==
  /\ pc[r] = "pausing"
  /\ thread[r] = "AWAY"
  /\ Answered(r)
  /\ Pop(r)
  /\ IF cancel[r]
     THEN UNCHANGED streak_vars
     ELSE /\ failures' = IF failures = 0 THEN PAUSE_AFTER ELSE failures
          /\ recent' = TRUE
          /\ UNCHANGED unattended
  /\ UNCHANGED <<kind, camera, queue, service_vars>>

\* camera_lock wakes its first waiter, which starts its work
Grant(r) ==
  /\ camera = NoRequest
  /\ queue # <<>>
  /\ r = Head(queue)
  /\ ~cancel[r]
  /\ queue' = Tail(queue)
  /\ camera' = r
  /\ pc' = [pc EXCEPT ![r] = "scanning"]
  /\ thread' = [thread EXCEPT ![r] = FirstStep(r)]
  /\ UNCHANGED <<kind, cancel, running, bumped, streak_vars, service_vars, withdrawn>>

\* ... or raises Failed("Cancelled") and passes the lock on
GrantCancelled(r) ==
  /\ camera = NoRequest
  /\ queue # <<>>
  /\ r = Head(queue)
  /\ cancel[r]
  /\ queue' = Tail(queue)
  /\ Answered(r)
  /\ Pop(r)
  /\ UNCHANGED <<kind, camera, streak_vars, service_vars>>

\* What the lock screen's scan does to the streak
CountScan(r) ==
  IF kind[r] = "unlock" /\ thread[r] \in {"SUCCESS", "FAILED"}
  THEN /\ failures' = IF thread[r] = "SUCCESS" THEN 0 ELSE Streak + 1
       /\ recent' = (thread[r] = "FAILED")
       /\ unattended' = IF thread[r] = "SUCCESS" THEN 0 ELSE unattended + 1
  ELSE UNCHANGED streak_vars

\* The thread has returned: release the lock, forget the event, count the
\* scan or save the enrolled model, and answer
Finish(r) ==
  /\ pc[r] = "scanning"
  /\ thread[r] \in Result
  /\ Answered(r)
  /\ camera' = NoRequest
  /\ Pop(r)
  /\ CountScan(r)
  /\ UNCHANGED <<kind, queue, service_vars>>

-----------------------------------------------------------------------------
(***************************************************************************)
(* The threads.                                                            *)
(***************************************************************************)

ThreadGoesTo(r, to) ==
  /\ thread' = [thread EXCEPT ![r] = to]
  /\ UNCHANGED <<pc, kind, cancel, lock_vars, streak_vars, service_vars, withdrawn>>

\* presence.wait_for_activity.  Input may arrive in the select() that follows
\* a look at the event, so cancelled or not
InputActivity(r) == thread[r] = "pausing" /\ ThreadGoesTo(r, "RESUMED")

\* PAUSE_SECONDS have passed, or the event is set
PauseTimeout(r) == thread[r] = "pausing" /\ ThreadGoesTo(r, "AWAY")

\* The top of the frame loop of Engine.verify and Engine.enroll
ScanCancelled(r) ==
  /\ thread[r] = "check"
  /\ cancel[r]
  /\ ThreadGoesTo(r, "CANCELLED")

\* Fault: enroll never looks at the clock
ScanTimeoutOfVerify(r) ==
  /\ thread[r] = "check"
  /\ ~cancel[r]
  /\ kind[r] # "enroll"
  /\ ThreadGoesTo(r, "FAILED")

ScanTimeout(r) ==
  /\ thread[r] = "check"
  /\ ~cancel[r]
  /\ ThreadGoesTo(r, "FAILED")

LookAtFrame(r) ==
  /\ thread[r] = "check"
  /\ ~cancel[r]
  /\ ThreadGoesTo(r, "frame")

\* The rest of the loop, without another look at the event: no match yet, the
\* match or the last sample; or the whole of discover_cameras
NextFrame(r) ==
  /\ thread[r] = "frame"
  /\ kind[r] # "probe"
  /\ ThreadGoesTo(r, "check")

ScanSucceeds(r) == thread[r] = "frame" /\ ThreadGoesTo(r, "SUCCESS")

\* CameraError, a failed rubber stamp or an exception, cancelled or not
ScanError(r) ==
  /\ thread[r] \in {"check", "frame"}
  /\ ThreadGoesTo(r, "ERROR")

-----------------------------------------------------------------------------
(***************************************************************************)
(* Callers, time and the service.                                          *)
(***************************************************************************)

\* The requests of s that wait for the camera or use it are withdrawn
Withdraw(s) ==
  withdrawn' = withdrawn \cup {r \in Active(s) : pc[r] \in {"queued", "scanning"}}

\* event.set() on the entry of s, if there is one
SetEvent(s) ==
  cancel' = IF running[s] \in Request
            THEN [cancel EXCEPT ![running[s]] = TRUE] ELSE cancel

\* Manager.cancel.  With several requests under way, which of them the caller
\* means is for the caller to know: none counts as withdrawn then
CancelCall(s) ==
  /\ s \in connected
  /\ SetEvent(s)
  /\ IF Cardinality(Active(s)) = 1 THEN Withdraw(s) ELSE UNCHANGED withdrawn
  /\ UNCHANGED <<pc, kind, thread, lock_vars, streak_vars, service_vars>>

\* NameOwnerChanged without a new owner, caller_gone
CallerGone(s) ==
  /\ s \in connected
  /\ connected' = connected \ {s}
  /\ SetEvent(s)
  /\ Withdraw(s)
  /\ UNCHANGED <<pc, kind, thread, lock_vars, streak_vars, stopping>>

\* A new connection; the bus never gives out a name twice
Connect(s) ==
  /\ s \notin connected
  /\ Active(s) = {}
  /\ connected' = connected \cup {s}
  /\ UNCHANGED <<coroutine_vars, lock_vars, streak_vars, stopping, withdrawn>>

\* STREAK_SECONDS pass after the last failure
StreakExpires ==
  /\ recent
  /\ recent' = FALSE
  /\ unattended' = 0
  /\ UNCHANGED <<coroutine_vars, lock_vars, failures, service_vars, withdrawn>>

\* A signal: serve() leaves its loop and sets every registered event.  Calls
\* are still taken until the name is released
Stop ==
  /\ ~stopping
  /\ stopping' = TRUE
  /\ cancel' = [r \in Request |->
                  cancel[r] \/ \E s \in Sender : running[s] = r]
  /\ UNCHANGED <<pc, kind, thread, lock_vars, streak_vars, connected, withdrawn>>

\* All tasks have ended or ten seconds are over.  The next call starts the
\* service again, with nothing remembered
Exit ==
  /\ stopping
  /\ stopping' = FALSE
  /\ pc' = [r \in Request |-> "idle"]
  /\ thread' = [r \in Request |-> "off"]
  /\ cancel' = [r \in Request |-> FALSE]
  /\ running' = [s \in Sender |-> NoRequest]
  /\ camera' = NoRequest
  /\ queue' = <<>>
  /\ bumped' = {}
  /\ failures' = 0
  /\ recent' = FALSE
  /\ unattended' = 0
  /\ withdrawn' = {}
  /\ UNCHANGED <<kind, connected>>

-----------------------------------------------------------------------------
Coroutine(r) ==
  \/ Refuse(r)
  \/ StartPause(r)
  \/ Start(r)
  \/ PauseOver(r)
  \/ StillAway(r)
  \/ Grant(r)
  \/ GrantCancelled(r)
  \/ Finish(r)

Thread(r) ==
  \/ InputActivity(r)
  \/ PauseTimeout(r)
  \/ ScanCancelled(r)
  \/ ScanTimeout(r)
  \/ LookAtFrame(r)
  \/ NextFrame(r)
  \/ ScanSucceeds(r)
  \/ ScanError(r)

Environment ==
  \/ \E s \in Sender : CallerGone(s) \/ CancelCall(s) \/ Connect(s)
  \/ StreakExpires
  \/ Stop
  \/ Exit

Next ==
  \/ \E r \in Request :
       (\E k \in Kinds[r] : Call(r, k)) \/ Coroutine(r) \/ Thread(r)
  \/ Environment

Spec == Init /\ [][Next]_vars

(***************************************************************************)
(* The event loop runs every coroutine that can go on; polkit and the bus  *)
(* answer.  A pause ends within PAUSE_SECONDS, a frame within the camera's *)
(* read timeout and a scan at the first look at the clock after its        *)
(* timeout, which the strong fairness of ScanTimeout stands for.  Nobody   *)
(* has to cancel, to leave, or to press a key.                             *)
(***************************************************************************)
Fairness ==
  \A r \in Request :
    /\ WF_vars(Coroutine(r))
    /\ WF_vars(Thread(r))
    /\ SF_vars(ScanTimeout(r) \/ ScanCancelled(r))

FairSpec == Spec /\ Fairness

-----------------------------------------------------------------------------
(***************************************************************************)
(* Properties.                                                             *)
(***************************************************************************)

\* The camera is open for at most one request at a time, and for the one that
\* holds camera_lock
OneCamera ==
  /\ \A r \in Request : pc[r] = "scanning" <=> camera = r
  /\ \A r \in Request : thread[r] \in {"check", "frame"} => camera = r

\* A request whose caller left the bus or cancelled it while it waited for
\* the camera or used it has its event set until it ends: the event that
\* Manager.running held at that moment was the request's own.  Manager.running
\* has one entry for a connection (manager.py:117), so the code does not reach a
\* request whose entry a later request of the connection took over, or an
\* earlier one took away when it ended; it fails no other request
CancelReachesScan ==
  \A r \in withdrawn : cancel[r] \/ r \in bumped

\* The lock screen never scans more than PAUSE_AFTER times in a row without a
\* match or input activity in between
CameraStaysOff == unattended <= PAUSE_AFTER

\* Every request is answered: the queue for the camera moves on whatever the
\* requests ahead did, and a pause ends by itself
EveryRequestAnswered == \A r \in Request : pc[r] # "idle" ~> pc[r] = "idle"
=============================================================================
