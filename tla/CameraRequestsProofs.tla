-------------------------- MODULE CameraRequestsProofs --------------------------
(***************************************************************************)
(* Proofs about module CameraRequests, for any number of requests and      *)
(* connections and any PAUSE_AFTER.                                        *)
(***************************************************************************)
EXTENDS CameraRequests, TLAPS

(***************************************************************************)
(* What the clients do, where a property depends on it.                    *)
(***************************************************************************)

\* The user has one lock screen, which makes one call at a time
OneLockScreen ==
  \A q, r \in Request : "unlock" \in Kinds[q] /\ "unlock" \in Kinds[r] => q = r

(***************************************************************************)
(* The inductive invariant, in three parts.                                *)
(***************************************************************************)

\* The thread of a request belongs to what its coroutine waits for
ThreadMatches ==
  \A r \in Request :
    /\ pc[r] \in {"idle", "access", "queued"} => thread[r] = "off"
    /\ pc[r] = "pausing" => thread[r] \in {"pausing"} \cup Wakeup
    /\ pc[r] = "scanning" => thread[r] \in {"check", "frame"} \cup Result

\* camera_lock's waiters are waiting, each of them once
Line ==
  /\ \A i \in 1..Len(queue) : pc[queue[i]] = "queued"
  /\ \A i, j \in 1..Len(queue) : queue[i] = queue[j] => i = j

LockInv == TypeOK /\ OneCamera /\ ThreadMatches /\ Line

\* Manager.running holds the event of a request that waits or scans, unless
\* another request of its connection took the entry
Registered ==
  \A r \in Request :
    pc[r] \in {"pausing", "queued", "scanning"} => running[Connection[r]] = r \/ r \in bumped

\* A request that has not come to the camera was not withdrawn there
NotYet == \A r \in withdrawn : pc[r] \in {"queued", "scanning"}

CancelPart == Registered /\ NotYet /\ CancelReachesScan

\* The unattended scans are part of the streak, a request calls a method of
\* its own, and a lock screen let through to the camera has a scan left
Counted ==
  /\ unattended <= Streak
  /\ \A r \in Request : pc[r] # "idle" => kind[r] \in Kinds[r]
  /\ \A r \in Request :
       kind[r] = "unlock" /\ pc[r] \in {"queued", "scanning"} => unattended < PAUSE_AFTER

StreakPart == Counted /\ CameraStaysOff

-----------------------------------------------------------------------------
(***************************************************************************)
(* The lock: TypeOK and OneCamera.                                         *)
(***************************************************************************)

\* With no request under way the lock is free and nobody waits
LEMMA IdleLock ==
  ASSUME pc = [r \in Request |-> "idle"], thread = [r \in Request |-> "off"],
         camera = NoRequest, queue = <<>>
  PROVE  OneCamera /\ ThreadMatches /\ Line
<1>1. OneCamera /\ ThreadMatches
  BY CameraAssumption DEF OneCamera, ThreadMatches
<1>2. Line
  BY DEF Line
<1> QED
  BY <1>1, <1>2

LEMMA InitLock == Init => LockInv
<1> SUFFICES ASSUME Init PROVE LockInv
  OBVIOUS
<1>1. TypeOK
  <2>1. cancel \in [Request -> BOOLEAN] /\ recent \in BOOLEAN /\ stopping \in BOOLEAN
    BY Zenon DEF Init
  <2>2. queue \in Seq(Request)
    BY DEF Init
  <2> QED
    BY <2>1, <2>2 DEF Init, TypeOK, AllKinds
<1> QED
  BY <1>1, IdleLock DEF Init, LockInv

\* A request that neither waits nor scans goes to the camera
LEMMA EnterKeeps ==
  ASSUME LockInv, NEW r \in Request, pc[r] \in {"access", "pausing"}, EnterCamera(r)
  PROVE  /\ pc' \in [Request -> {"idle", "access", "pausing", "queued", "scanning"}]
         /\ thread' \in [Request ->
                {"off", "pausing", "check", "frame"} \cup Result \cup Wakeup]
         /\ camera' \in Request \cup {NoRequest}
         /\ queue' \in Seq(Request)
         /\ OneCamera' /\ ThreadMatches' /\ Line'
         /\ pc'[r] \in {"queued", "scanning"}
         /\ \A q \in Request \ {r} : pc'[q] = pc[q]
<1> USE DEF LockInv, TypeOK
<1>1. CASE camera = NoRequest /\ queue = <<>>
  <2>1. /\ camera' = r /\ queue' = <<>>
        /\ pc' = [pc EXCEPT ![r] = "scanning"]
        /\ thread' = [thread EXCEPT ![r] = FirstStep(r)]
    BY <1>1 DEF EnterCamera
  <2>2. FirstStep(r) \in {"check", "frame"}
    BY DEF FirstStep
  <2>3. OneCamera' /\ ThreadMatches'
    BY <1>1, <2>1, <2>2, CameraAssumption DEF OneCamera, ThreadMatches
  <2> QED
    BY <2>1, <2>2, <2>3 DEF Line
<1>2. CASE ~(camera = NoRequest /\ queue = <<>>)
  <2>1. /\ camera' = camera /\ queue' = Append(queue, r)
        /\ pc' = [pc EXCEPT ![r] = "queued"]
        /\ thread' = [thread EXCEPT ![r] = "off"]
    BY <1>2 DEF EnterCamera
  <2>2. OneCamera' /\ ThreadMatches'
    BY <2>1 DEF OneCamera, ThreadMatches
  <2>3. /\ Len(queue') = Len(queue) + 1
        /\ queue'[Len(queue) + 1] = r
        /\ \A i \in 1..Len(queue) : queue'[i] = queue[i] /\ queue[i] # r
    BY <2>1 DEF Line
  <2>4. Line'
    BY <2>1, <2>3 DEF Line
  <2> QED
    BY <2>1, <2>2, <2>4
<1> QED
  BY <1>1, <1>2

\* A request that is not scanning and not in the queue is answered
LEMMA AnsweredKeeps ==
  ASSUME LockInv, NEW r \in Request, pc[r] \in {"access", "pausing"}, Answered(r),
         UNCHANGED <<camera, queue>>
  PROVE  /\ pc' \in [Request -> {"idle", "access", "pausing", "queued", "scanning"}]
         /\ thread' \in [Request ->
                {"off", "pausing", "check", "frame"} \cup Result \cup Wakeup]
         /\ cancel' \in [Request -> BOOLEAN] /\ withdrawn' \subseteq Request
         /\ OneCamera' /\ ThreadMatches' /\ Line'
BY DEF LockInv, TypeOK, Answered, OneCamera, ThreadMatches, Line

\* The first waiter leaves the queue
LEMMA LeaveQueue ==
  ASSUME LockInv, NEW r \in Request, queue # <<>>, r = Head(queue), queue' = Tail(queue),
         NEW to, pc' = [pc EXCEPT ![r] = to]
  PROVE  /\ pc[r] = "queued"
         /\ queue' \in Seq(Request)
         /\ Line'
<1> USE DEF LockInv, TypeOK
<1>1. /\ Len(queue) \in Nat \ {0} /\ queue[1] = r
      /\ queue' \in Seq(Request)
      /\ Len(queue') = Len(queue) - 1
      /\ \A i \in 1..Len(queue') : queue'[i] = queue[i + 1]
  OBVIOUS
<1>2. pc[r] = "queued"
  BY <1>1 DEF Line
<1>3. \A i \in 1..Len(queue') : i + 1 \in 1..Len(queue) /\ queue'[i] # r
  BY <1>1 DEF Line
<1>4. Line'
  BY <1>1, <1>3 DEF Line
<1> QED
  BY <1>1, <1>2, <1>4

\* A thread goes on within what its coroutine waits for
LEMMA ThreadKeepsLock ==
  ASSUME LockInv, NEW r \in Request, Thread(r)
  PROVE  LockInv'
<1> USE DEF LockInv, TypeOK, OneCamera, ThreadMatches, Line, Result, Wakeup,
            ThreadGoesTo, lock_vars, streak_vars, service_vars
<1>1. CASE InputActivity(r) \/ PauseTimeout(r)
  BY <1>1 DEF InputActivity, PauseTimeout
<1>2. CASE ScanCancelled(r) \/ ScanTimeout(r) \/ ScanError(r)
  BY <1>2 DEF ScanCancelled, ScanTimeout, ScanError
<1>3. CASE LookAtFrame(r)
  BY <1>3 DEF LookAtFrame
<1>4. CASE NextFrame(r)
  BY <1>4 DEF NextFrame
<1>5. CASE ScanSucceeds(r)
  BY <1>5 DEF ScanSucceeds
<1> QED
  BY <1>1, <1>2, <1>3, <1>4, <1>5 DEF Thread

\* What a step does to the streak and to the events stays in its type
LEMMA RegisterType ==
  ASSUME TypeOK, NEW r \in Request
  PROVE  /\ Register(r) => /\ running' \in [Sender -> Request \cup {NoRequest}]
                           /\ cancel' \in [Request -> BOOLEAN]
                           /\ bumped' \subseteq Request
         /\ Pop(r) => /\ running' \in [Sender -> Request \cup {NoRequest}]
                      /\ bumped' \subseteq Request
<1>1. (bumped \cup Bumped(r)) \ {r} \subseteq Request
  BY DEF TypeOK, Bumped
<1>2. ASSUME NEW v \in Request \cup {NoRequest}
      PROVE  [running EXCEPT ![Connection[r]] = v] \in [Sender -> Request \cup {NoRequest}]
  BY DEF TypeOK
<1>3. [cancel EXCEPT ![r] = FALSE] \in [Request -> BOOLEAN]
  BY DEF TypeOK
<1>4. ASSUME Register(r)
      PROVE  /\ running' \in [Sender -> Request \cup {NoRequest}]
             /\ cancel' \in [Request -> BOOLEAN] /\ bumped' \subseteq Request
  <2>1. running' \in [Sender -> Request \cup {NoRequest}]
    BY <1>2, <1>4 DEF Register
  <2> QED
    BY <1>1, <1>3, <1>4, <2>1 DEF Register
<1>5. ASSUME Pop(r)
      PROVE  running' \in [Sender -> Request \cup {NoRequest}] /\ bumped' \subseteq Request
  <2>1. NoRequest \in Request \cup {NoRequest}
    OBVIOUS
  <2>2. running' \in [Sender -> Request \cup {NoRequest}]
    BY <1>2, <1>5, <2>1 DEF Pop
  <2> QED
    BY <1>1, <1>5, <2>2 DEF Pop
<1> QED
  BY <1>4, <1>5, Zenon

LEMMA CoroutineKeepsLock ==
  ASSUME LockInv, NEW r \in Request, Coroutine(r)
  PROVE  LockInv'
<1> USE DEF LockInv, streak_vars, service_vars, lock_vars
<1>0. Streak \in Nat /\ PAUSE_AFTER \in Nat
  BY CameraAssumption DEF TypeOK, Streak
<1>1. CASE Refuse(r)
  BY <1>1, AnsweredKeeps DEF Refuse, TypeOK
<1>2. CASE StartPause(r)
  BY <1>2, RegisterType DEF StartPause, TypeOK, OneCamera, ThreadMatches, Line
<1>3. CASE Start(r)
  BY <1>3, EnterKeeps, RegisterType DEF Start, TypeOK
<1>4. CASE PauseOver(r)
  BY <1>4, EnterKeeps, RegisterType DEF PauseOver, TypeOK
<1>5. CASE StillAway(r)
  <2>1. failures' \in Nat /\ recent' \in BOOLEAN /\ unattended' \in Nat
    BY <1>0, <1>5 DEF StillAway, TypeOK
  <2> QED
    BY <1>5, <2>1, AnsweredKeeps, RegisterType DEF StillAway, TypeOK
<1>6. CASE Grant(r)
  <2>1. queue' \in Seq(Request) /\ Line' /\ pc[r] = "queued"
    BY <1>6, LeaveQueue DEF Grant
  <2>2. FirstStep(r) \in {"check", "frame"}
    BY DEF FirstStep
  <2>3. OneCamera' /\ ThreadMatches'
    BY <1>6, <2>2, CameraAssumption DEF Grant, TypeOK, OneCamera, ThreadMatches
  <2> QED
    BY <1>6, <2>1, <2>2, <2>3 DEF Grant, TypeOK
<1>7. CASE GrantCancelled(r)
  <2>1. queue' \in Seq(Request) /\ Line' /\ pc[r] = "queued"
    BY <1>7, LeaveQueue DEF GrantCancelled, Answered
  <2>2. OneCamera' /\ ThreadMatches'
    BY <1>7, <2>1 DEF GrantCancelled, Answered, TypeOK, OneCamera, ThreadMatches
  <2> QED
    BY <1>7, <2>1, <2>2, RegisterType DEF GrantCancelled, Answered, TypeOK
<1>8. CASE Finish(r)
  <2>1. failures' \in Nat /\ recent' \in BOOLEAN /\ unattended' \in Nat
    <3>1. CASE kind[r] = "unlock" /\ thread[r] \in {"SUCCESS", "FAILED"}
      <4>1. (thread[r] = "FAILED") \in BOOLEAN
        OBVIOUS
      <4>2. /\ failures' = IF thread[r] = "SUCCESS" THEN 0 ELSE Streak + 1
            /\ recent' = (thread[r] = "FAILED")
            /\ unattended' = IF thread[r] = "SUCCESS" THEN 0 ELSE unattended + 1
        BY <1>8, <3>1 DEF Finish, CountScan
      <4>3. failures' \in Nat /\ unattended' \in Nat
        BY <1>0, <4>2 DEF TypeOK
      <4> QED
        BY <4>1, <4>2, <4>3
    <3>2. CASE ~(kind[r] = "unlock" /\ thread[r] \in {"SUCCESS", "FAILED"})
      BY <1>8, <3>2 DEF Finish, CountScan, TypeOK
    <3> QED
      BY <3>1, <3>2
  <2>2. OneCamera' /\ ThreadMatches'
    BY <1>8, CameraAssumption DEF Finish, Answered, TypeOK, OneCamera, ThreadMatches
  <2>3. Line'
    BY <1>8 DEF Finish, Answered, TypeOK, Line
  <2> QED
    BY <1>8, <2>1, <2>2, <2>3, RegisterType DEF Finish, Answered, TypeOK
<1> QED
  BY <1>1, <1>2, <1>3, <1>4, <1>5, <1>6, <1>7, <1>8 DEF Coroutine

LEMMA CallKeepsLock ==
  ASSUME LockInv, NEW r \in Request, NEW k \in Kinds[r], Call(r, k)
  PROVE  LockInv'
<1>1. k \in AllKinds
  BY CameraAssumption
<1> QED
  BY <1>1 DEF LockInv, Call, TypeOK, OneCamera, ThreadMatches, Line, AllKinds,
              lock_vars, streak_vars, service_vars

\* The callers touch the events only
LEMMA EventType ==
  ASSUME TypeOK, NEW s \in Sender
  PROVE  /\ SetEvent(s) => cancel' \in [Request -> BOOLEAN]
         /\ Withdraw(s) => withdrawn' \subseteq Request
BY DEF TypeOK, SetEvent, Withdraw, Active

LEMMA EnvironmentKeepsLock ==
  ASSUME LockInv, Environment
  PROVE  LockInv'
<1> USE DEF LockInv, streak_vars, service_vars, lock_vars, coroutine_vars
<1>1. ASSUME NEW s \in Sender, CallerGone(s) PROVE LockInv'
  BY <1>1, EventType DEF CallerGone, TypeOK, OneCamera, ThreadMatches, Line
<1>2. ASSUME NEW s \in Sender, CancelCall(s) PROVE LockInv'
  <2>1. withdrawn' \subseteq Request
    BY <1>2, EventType DEF CancelCall, TypeOK
  <2> QED
    BY <1>2, <2>1, EventType DEF CancelCall, TypeOK, OneCamera, ThreadMatches, Line
<1>3. ASSUME NEW s \in Sender, Connect(s) PROVE LockInv'
  BY <1>3 DEF Connect, TypeOK, OneCamera, ThreadMatches, Line
<1>4. CASE StreakExpires
  BY <1>4 DEF StreakExpires, TypeOK, OneCamera, ThreadMatches, Line
<1>5. CASE Stop
  <2>1. cancel' \in [Request -> BOOLEAN]
    BY <1>5 DEF Stop, TypeOK
  <2> QED
    BY <1>5, <2>1 DEF Stop, TypeOK, OneCamera, ThreadMatches, Line
<1>6. CASE Exit
  <2>1. (OneCamera /\ ThreadMatches /\ Line)'
    <3>1. OneCamera' /\ ThreadMatches'
      BY <1>6, CameraAssumption DEF Exit, OneCamera, ThreadMatches
    <3>2. Line'
      BY <1>6 DEF Exit, Line
    <3> QED
      BY <3>1, <3>2
  <2>2. TypeOK'
    <3>1. cancel' \in [Request -> BOOLEAN] /\ recent' \in BOOLEAN /\ stopping' \in BOOLEAN
      BY <1>6, Zenon DEF Exit
    <3>2. queue' \in Seq(Request)
      BY <1>6 DEF Exit
    <3> QED
      BY <1>6, <3>1, <3>2 DEF Exit, TypeOK
  <2> QED
    BY <2>1, <2>2
<1> QED
  BY <1>1, <1>2, <1>3, <1>4, <1>5, <1>6 DEF Environment

LEMMA StutterKeepsLock ==
  ASSUME LockInv, UNCHANGED vars
  PROVE  LockInv'
BY DEF LockInv, vars, coroutine_vars, lock_vars, streak_vars, service_vars,
       TypeOK, OneCamera, ThreadMatches, Line

LEMMA LockInductive == LockInv /\ [Next]_vars => LockInv'
BY CoroutineKeepsLock, CallKeepsLock, ThreadKeepsLock, EnvironmentKeepsLock,
   StutterKeepsLock DEF Next

LEMMA LockInvariance == Spec => []LockInv
BY InitLock, LockInductive, PTL DEF Spec

\* The coroutines, the threads, camera_lock's queue, the streak and the
\* history keep their types
THEOREM TypeCorrect == Spec => []TypeOK
<1>1. LockInv => TypeOK
  BY DEF LockInv
<1> QED
  BY <1>1, LockInvariance, PTL

\* Manager._camera: whatever requests come, leave, are cancelled or are cut
\* off by the service's end, the camera is open for one request at a time,
\* the one that holds camera_lock
THEOREM CameraIsExclusive == Spec => []OneCamera
<1>1. LockInv => OneCamera
  BY DEF LockInv
<1> QED
  BY <1>1, LockInvariance, PTL

-----------------------------------------------------------------------------
(***************************************************************************)
(* The cancellations: CancelReachesScan.                                   *)
(***************************************************************************)

\* A request registers an event of its own; whoever had the entry is bumped
LEMMA RegisterKeeps ==
  ASSUME LockInv, CancelPart, NEW r \in Request, pc[r] \in {"access", "pausing"}, Register(r),
         \A q \in Request \ {r} : pc'[q] = pc[q], withdrawn' = withdrawn
  PROVE  CancelPart'
<1> USE DEF CancelPart
<1>1. r \notin withdrawn
  BY DEF NotYet
<1>2. \A q \in Request \ {r} : cancel'[q] = cancel[q] /\ (q \in bumped => q \in bumped')
  BY DEF Register, LockInv, TypeOK
<1>3. /\ running'[Connection[r]] = r
      /\ \A q \in Request \ {r} :
           running[Connection[q]] = q => running'[Connection[q]] = q \/ q \in bumped'
  BY CameraAssumption DEF Register, Bumped, LockInv, TypeOK
<1>4. Registered'
  BY <1>2, <1>3 DEF Registered
<1>5. NotYet' /\ CancelReachesScan'
  BY <1>1, <1>2 DEF NotYet, CancelReachesScan, LockInv, TypeOK
<1> QED
  BY <1>4, <1>5

\* A request is answered; it may take the entry of another with it
LEMMA AnsweredKeepsCancel ==
  ASSUME LockInv, CancelPart, NEW r \in Request, Answered(r),
         UNCHANGED <<running, bumped>> \/ Pop(r)
  PROVE  CancelPart'
<1> USE DEF CancelPart
<1>1. /\ pc'[r] = "idle" /\ withdrawn' = withdrawn \ {r}
      /\ \A q \in Request \ {r} : pc'[q] = pc[q] /\ cancel'[q] = cancel[q]
  BY DEF Answered, LockInv, TypeOK
<1>2. \A q \in Request \ {r} :
        /\ q \in bumped => q \in bumped'
        /\ running[Connection[q]] = q => running'[Connection[q]] = q \/ q \in bumped'
  BY CameraAssumption DEF Pop, Bumped, LockInv, TypeOK
<1>3. Registered'
  BY <1>1, <1>2 DEF Registered
<1>4. NotYet' /\ CancelReachesScan'
  BY <1>1, <1>2 DEF NotYet, CancelReachesScan, LockInv, TypeOK
<1> QED
  BY <1>3, <1>4

LEMMA CoroutineKeepsCancel ==
  ASSUME LockInv, CancelPart, NEW r \in Request, Coroutine(r)
  PROVE  CancelPart'
<1> USE DEF lock_vars
<1>1. CASE Refuse(r)
  BY <1>1, AnsweredKeepsCancel DEF Refuse
<1>2. CASE StartPause(r)
  <2>1. \A q \in Request \ {r} : pc'[q] = pc[q]
    BY <1>2 DEF StartPause, LockInv, TypeOK
  <2> QED
    BY <1>2, <2>1, RegisterKeeps DEF StartPause
<1>3. CASE Start(r)
  BY <1>3, EnterKeeps, RegisterKeeps DEF Start
<1>4. CASE PauseOver(r)
  BY <1>4, EnterKeeps, RegisterKeeps DEF PauseOver
<1>5. CASE StillAway(r)
  BY <1>5, AnsweredKeepsCancel DEF StillAway
<1>6. CASE Grant(r)
  <2>1. /\ pc[r] = "queued" /\ pc'[r] = "scanning"
        /\ \A q \in Request \ {r} : pc'[q] = pc[q]
        /\ UNCHANGED <<cancel, running, bumped, withdrawn>>
    BY <1>6, LeaveQueue DEF Grant, LockInv, TypeOK
  <2> QED
    BY <2>1 DEF CancelPart, Registered, NotYet, CancelReachesScan, LockInv, TypeOK
<1>7. CASE GrantCancelled(r)
  BY <1>7, AnsweredKeepsCancel DEF GrantCancelled
<1>8. CASE Finish(r)
  BY <1>8, AnsweredKeepsCancel DEF Finish
<1> QED
  BY <1>1, <1>2, <1>3, <1>4, <1>5, <1>6, <1>7, <1>8 DEF Coroutine

\* Setting the event of a connection reaches the request that is withdrawn
LEMMA WithdrawReaches ==
  ASSUME LockInv, CancelPart, NEW s \in Sender, SetEvent(s),
         Withdraw(s) \/ withdrawn' = withdrawn, UNCHANGED <<pc, running, bumped>>
  PROVE  CancelPart'
<1> USE DEF CancelPart
<1>1. \A q \in Request : cancel[q] => cancel'[q]
  BY DEF SetEvent, LockInv, TypeOK
<1>2. ASSUME NEW q \in Request, q \in Active(s), pc[q] \in {"queued", "scanning"}
      PROVE  cancel'[q] \/ q \in bumped
  <2>1. running[s] = q \/ q \in bumped
    BY <1>2 DEF Active, Registered
  <2> QED
    BY <2>1 DEF SetEvent, LockInv, TypeOK
<1>3. \A q \in withdrawn' :
        q \in withdrawn \/ (q \in Active(s) /\ pc[q] \in {"queued", "scanning"})
  BY DEF Withdraw
<1>4. Registered'
  BY DEF Registered
<1>5. NotYet'
  BY <1>3 DEF NotYet
<1>6. CancelReachesScan'
  BY <1>1, <1>2, <1>3 DEF CancelReachesScan, Active, LockInv, TypeOK
<1> QED
  BY <1>4, <1>5, <1>6

LEMMA RestKeepsCancel ==
  ASSUME LockInv, CancelPart,
         Environment \/ UNCHANGED vars
         \/ \E r \in Request : Thread(r) \/ \E k \in Kinds[r] : Call(r, k)
  PROVE  CancelPart'
<1> USE DEF lock_vars, coroutine_vars
<1>1. ASSUME UNCHANGED <<pc, running, bumped, withdrawn>>,
             \A q \in Request : cancel[q] => cancel'[q]
      PROVE  CancelPart'
  BY <1>1 DEF CancelPart, Registered, NotYet, CancelReachesScan, LockInv, TypeOK
<1>2. ASSUME NEW r \in Request, Thread(r) PROVE CancelPart'
  BY <1>1, <1>2 DEF Thread, InputActivity, PauseTimeout, ScanCancelled, ScanTimeout, ScanError,
                    LookAtFrame, NextFrame, ScanSucceeds, ThreadGoesTo
<1>3. ASSUME NEW r \in Request, NEW k \in Kinds[r], Call(r, k) PROVE CancelPart'
  <2>1. /\ pc[r] = "idle" /\ pc'[r] = "access"
        /\ \A q \in Request \ {r} : pc'[q] = pc[q]
        /\ UNCHANGED <<cancel, running, bumped, withdrawn>>
    BY <1>3 DEF Call, LockInv, TypeOK
  <2> QED
    BY <2>1 DEF CancelPart, Registered, NotYet, CancelReachesScan, LockInv, TypeOK
<1>4. ASSUME NEW s \in Sender, CallerGone(s) PROVE CancelPart'
  BY <1>4, WithdrawReaches DEF CallerGone
<1>5. ASSUME NEW s \in Sender, CancelCall(s) PROVE CancelPart'
  BY <1>5, WithdrawReaches DEF CancelCall
<1>6. ASSUME NEW s \in Sender, Connect(s) PROVE CancelPart'
  BY <1>1, <1>6 DEF Connect
<1>7. CASE StreakExpires
  BY <1>1, <1>7 DEF StreakExpires
<1>8. CASE Stop
  BY <1>1, <1>8 DEF Stop, LockInv, TypeOK
<1>9. CASE Exit
  BY <1>9 DEF Exit, CancelPart, Registered, NotYet, CancelReachesScan
<1>10. CASE UNCHANGED vars
  BY <1>1, <1>10 DEF vars
<1> QED
  BY <1>2, <1>3, <1>4, <1>5, <1>6, <1>7, <1>8, <1>9, <1>10 DEF Environment

\* Manager.cancel and caller_gone: a request that is cancelled, or whose
\* caller leaves the bus, while it waits for the camera or uses it has its
\* own event set from then to its end.  However many requests share a
\* connection, the only ones the event does not reach are those whose entry in
\* Manager.running another request of the connection took over or took away
THEOREM CancelReaches == Spec => []CancelReachesScan
<1>1. Init => LockInv /\ CancelPart
  BY InitLock DEF Init, CancelPart, Registered, NotYet, CancelReachesScan
<1>2. LockInv /\ CancelPart /\ [Next]_vars => (LockInv /\ CancelPart)'
  BY LockInductive, CoroutineKeepsCancel, RestKeepsCancel DEF Next
<1>3. LockInv /\ CancelPart => CancelReachesScan
  BY DEF CancelPart
<1> QED
  BY <1>1, <1>2, <1>3, PTL DEF Spec

-----------------------------------------------------------------------------
(***************************************************************************)
(* The lock screen's pause: CameraStaysOff.                                *)
(***************************************************************************)

\* Steps that leave the streak alone and let no lock screen through
LEMMA StreakUntouched ==
  ASSUME StreakPart, UNCHANGED <<failures, recent, unattended, kind>>,
         \A r \in Request :
           /\ pc'[r] # "idle" => pc[r] # "idle"
           /\ pc'[r] \in {"queued", "scanning"}
                => \/ pc[r] \in {"queued", "scanning"}
                   \/ kind[r] # "unlock"
                   \/ unattended < PAUSE_AFTER
  PROVE  StreakPart'
BY DEF StreakPart, Counted, CameraStaysOff, Streak

\* A lock screen's scan ends: it had one scan left, and no other lock screen
\* is on its way to the camera
LEMMA FinishCounts ==
  ASSUME OneLockScreen, LockInv, StreakPart, NEW r \in Request, Finish(r)
  PROVE  StreakPart'
<1>0. /\ unattended \in Nat /\ failures \in Nat /\ PAUSE_AFTER \in Nat \ {0}
      /\ recent \in BOOLEAN
  BY CameraAssumption DEF LockInv, TypeOK
<1>1. /\ pc'[r] = "idle" /\ pc[r] = "scanning" /\ kind' = kind
      /\ \A q \in Request \ {r} : pc'[q] = pc[q]
  BY DEF Finish, Answered, LockInv, TypeOK
<1>2. CASE kind[r] = "unlock" /\ thread[r] \in {"SUCCESS", "FAILED"}
  <2>1. /\ failures' = IF thread[r] = "SUCCESS" THEN 0 ELSE Streak + 1
        /\ recent' = (thread[r] = "FAILED")
        /\ unattended' = IF thread[r] = "SUCCESS" THEN 0 ELSE unattended + 1
    BY <1>2 DEF Finish, CountScan
  <2>2. unattended < PAUSE_AFTER /\ unattended <= Streak /\ Streak \in Nat
    BY <1>0, <1>1, <1>2 DEF StreakPart, Counted, Streak
  <2>3. unattended' <= PAUSE_AFTER
    BY <1>0, <2>1, <2>2
  <2>4. unattended' <= Streak'
    <3>1. CASE thread[r] = "SUCCESS"
      BY <2>1, <3>1 DEF Streak
    <3>2. CASE thread[r] = "FAILED"
      <4>0. recent' = TRUE
        <5>1. recent' = (thread[r] = "FAILED")
          BY <2>1
        <5> QED
          BY <3>2, <5>1
      <4>1. failures' = Streak + 1 /\ unattended' = unattended + 1
        BY <2>1, <3>2
      <4>2. Streak' = Streak + 1
        BY <4>0, <4>1 DEF Streak
      <4> QED
        BY <1>0, <2>2, <4>1, <4>2
    <3> QED
      BY <1>2, <3>1, <3>2
  <2>5. \A q \in Request : pc'[q] # "idle" => kind'[q] \in Kinds[q] /\ q # r
    BY <1>1 DEF StreakPart, Counted
  <2>6. "unlock" \in Kinds[r]
    BY <1>1, <1>2 DEF StreakPart, Counted
  <2>7. \A q \in Request : pc'[q] # "idle" => kind'[q] # "unlock"
    BY <2>5, <2>6 DEF OneLockScreen
  <2> QED
    BY <2>3, <2>4, <2>5, <2>7 DEF StreakPart, Counted, CameraStaysOff
<1>3. CASE ~(kind[r] = "unlock" /\ thread[r] \in {"SUCCESS", "FAILED"})
  <2>1. UNCHANGED <<failures, recent, unattended>>
    BY <1>3 DEF Finish, CountScan, streak_vars
  <2> QED
    BY <1>1, <2>1, StreakUntouched
<1> QED
  BY <1>2, <1>3

LEMMA CoroutineKeepsStreak ==
  ASSUME OneLockScreen, LockInv, StreakPart, NEW r \in Request, Coroutine(r)
  PROVE  StreakPart'
<1> USE DEF streak_vars
<1>0. /\ unattended \in Nat /\ failures \in Nat /\ PAUSE_AFTER \in Nat \ {0}
      /\ recent \in BOOLEAN /\ Streak \in Nat
  BY CameraAssumption DEF LockInv, TypeOK, Streak
<1>1. CASE Refuse(r)
  BY <1>1, StreakUntouched DEF Refuse, Answered, LockInv, TypeOK
<1>2. CASE StartPause(r)
  BY <1>2, StreakUntouched DEF StartPause, LockInv, TypeOK
<1>3. CASE Start(r)
  <2>1. /\ pc'[r] \in {"queued", "scanning"} /\ pc[r] = "access"
        /\ \A q \in Request \ {r} : pc'[q] = pc[q]
    BY <1>3, EnterKeeps DEF Start
  <2>2. kind[r] = "unlock" => unattended < PAUSE_AFTER
    BY <1>0, <1>3 DEF Start, StreakPart, Counted
  <2> QED
    BY <1>3, <2>1, <2>2, StreakUntouched DEF Start
<1>4. CASE PauseOver(r)
  <2>1. /\ pc'[r] \in {"queued", "scanning"} /\ pc[r] = "pausing" /\ kind' = kind
        /\ \A q \in Request \ {r} : pc'[q] = pc[q]
    BY <1>4, EnterKeeps DEF PauseOver
  <2>2. failures' = 0 /\ unattended' = 0 /\ Streak' = 0
    BY <1>4 DEF PauseOver, Streak
  <2> QED
    BY <1>0, <2>1, <2>2 DEF StreakPart, Counted, CameraStaysOff
<1>5. CASE StillAway(r)
  <2>1. /\ pc'[r] = "idle" /\ kind' = kind /\ unattended' = unattended
        /\ \A q \in Request \ {r} : pc'[q] = pc[q]
    BY <1>5 DEF StillAway, Answered, LockInv, TypeOK
  <2>2. unattended <= Streak'
    <3>1. CASE cancel[r]
      BY <1>5, <3>1 DEF StillAway, StreakPart, Counted, Streak
    <3>2. CASE ~cancel[r]
      <4>1. recent' /\ failures' = IF failures = 0 THEN PAUSE_AFTER ELSE failures
        BY <1>5, <3>2 DEF StillAway
      <4>2. unattended <= failures /\ Streak' = failures'
        BY <1>0, <4>1 DEF StreakPart, Counted, Streak
      <4> QED
        BY <1>0, <4>1, <4>2
    <3> QED
      BY <3>1, <3>2
  <2> QED
    BY <2>1, <2>2 DEF StreakPart, Counted, CameraStaysOff
<1>6. CASE Grant(r)
  BY <1>6, StreakUntouched, LeaveQueue DEF Grant, LockInv, TypeOK
<1>7. CASE GrantCancelled(r)
  BY <1>7, StreakUntouched DEF GrantCancelled, Answered, LockInv, TypeOK
<1>8. CASE Finish(r)
  BY <1>8, FinishCounts
<1> QED
  BY <1>1, <1>2, <1>3, <1>4, <1>5, <1>6, <1>7, <1>8 DEF Coroutine

LEMMA RestKeepsStreak ==
  ASSUME LockInv, StreakPart,
         Environment \/ UNCHANGED vars
         \/ \E r \in Request : Thread(r) \/ \E k \in Kinds[r] : Call(r, k)
  PROVE  StreakPart'
<1> USE DEF streak_vars, coroutine_vars
<1>0. unattended \in Nat /\ PAUSE_AFTER \in Nat \ {0} /\ failures \in Nat
  BY CameraAssumption DEF LockInv, TypeOK
<1>1. ASSUME UNCHANGED <<pc, kind, failures, recent, unattended>> PROVE StreakPart'
  BY <1>1, StreakUntouched
<1>2. ASSUME NEW r \in Request, Thread(r) PROVE StreakPart'
  BY <1>1, <1>2 DEF Thread, InputActivity, PauseTimeout, ScanCancelled, ScanTimeout, ScanError,
                    LookAtFrame, NextFrame, ScanSucceeds, ThreadGoesTo
<1>3. ASSUME NEW r \in Request, NEW k \in Kinds[r], Call(r, k) PROVE StreakPart'
  <2>1. /\ pc'[r] = "access" /\ kind'[r] = k
        /\ \A q \in Request \ {r} : pc'[q] = pc[q] /\ kind'[q] = kind[q]
        /\ UNCHANGED <<failures, recent, unattended>>
    BY <1>3 DEF Call, LockInv, TypeOK
  <2> QED
    BY <2>1 DEF StreakPart, Counted, CameraStaysOff, Streak
<1>4. ASSUME NEW s \in Sender, CallerGone(s) \/ CancelCall(s) \/ Connect(s)
      PROVE  StreakPart'
  BY <1>1, <1>4 DEF CallerGone, CancelCall, Connect
<1>5. CASE StreakExpires
  BY <1>0, <1>5 DEF StreakExpires, StreakPart, Counted, CameraStaysOff, Streak
<1>6. CASE Stop
  BY <1>1, <1>6 DEF Stop
<1>7. CASE Exit
  BY <1>0, <1>7 DEF Exit, StreakPart, Counted, CameraStaysOff, Streak
<1>8. CASE UNCHANGED vars
  BY <1>1, <1>8 DEF vars
<1> QED
  BY <1>2, <1>3, <1>4, <1>5, <1>6, <1>7, <1>8 DEF Environment

\* Manager.verify with _streak and _wait_for_activity: whatever other
\* requests come between, the lock screen scans at most PAUSE_AFTER times in a
\* row without a match or input activity.  Two lock screens of one user could
\* both pass the check before either has failed, hence the hypothesis
THEOREM CameraStaysOffWhileAway ==
  ASSUME OneLockScreen
  PROVE  Spec => []CameraStaysOff
<1>1. Init => LockInv /\ StreakPart
  <2> SUFFICES ASSUME Init PROVE StreakPart
    BY InitLock
  <2> QED
    BY CameraAssumption DEF Init, StreakPart, Counted, CameraStaysOff, Streak
<1>2. LockInv /\ StreakPart /\ [Next]_vars => (LockInv /\ StreakPart)'
  BY LockInductive, CoroutineKeepsStreak, RestKeepsStreak DEF Next
<1>3. LockInv /\ StreakPart => CameraStaysOff
  BY DEF StreakPart
<1> QED
  BY <1>1, <1>2, <1>3, PTL DEF Spec
=============================================================================
