------------------------------ MODULE Elevation ------------------------------
(***************************************************************************)
(* Face verification for admin prompts, sudo and passkeys:                 *)
(* Manager.verify_confirmed and Manager._confirm_missed of                 *)
(* daemon/manager.py, the worker thread of wait_for_enter in               *)
(* daemon/confirm.py, and the idle exit of linux_hello_daemon.serve, which *)
(* forgets the manager's memory.                                           *)
(*                                                                         *)
(* A request is one VerifyConfirmed call on a bus connection of its own    *)
(* (the PAM module and FaceVerifier open one connection per request).  The *)
(* coroutines of all requests run on one event loop, so what a coroutine   *)
(* does between two awaits is one action; the thread that reads the        *)
(* keyboards runs beside the loop.                                         *)
(***************************************************************************)
EXTENDS Integers, FiniteSets

CONSTANTS
  User,                       \* users with a face model
  Request,                    \* bus connections that ask for a verification
  NoRequest,                  \* confirm_window is None
  CONFIRM_MISSES,
  CONFIRM_PAUSE_SECONDS,
  CONFIRM_PAUSE_MAX_SECONDS,
  WINDOW_SECONDS,
  OTHER_KEYS_ALLOWED,
  IDLE_TIMEOUT,               \* --idle-timeout, 0 for never
  MaxTime,                    \* bound: no request is made from this time on
  MaxEnters                   \* bound: Enter is pressed at most this often

ASSUME ConstantsAssumption ==
  /\ NoRequest \notin Request
  /\ CONFIRM_MISSES \in Nat \ {0}
  /\ CONFIRM_PAUSE_SECONDS \in Nat \ {0}
  /\ CONFIRM_PAUSE_MAX_SECONDS \in Nat
  /\ CONFIRM_PAUSE_SECONDS <= CONFIRM_PAUSE_MAX_SECONDS
  /\ WINDOW_SECONDS \in Nat \ {0}
  /\ OTHER_KEYS_ALLOWED \in Nat
  /\ IDLE_TIMEOUT \in Nat
  /\ MaxTime \in Nat
  /\ MaxEnters \in Nat

VARIABLES
  now,             \* time.monotonic()
  \* the coroutine of a request
  pc,              \* where it waits
  user,            \* whom it wants to verify
  cancel,          \* its entry of Manager.running is set
  overlapped,      \* window["overlapped"]
  \* the thread that waits for Enter on its behalf
  pressed,         \* what wait_for_enter returned, WAITING before that
  other_keys,
  deadline,
  \* the manager
  confirm_window,
  confirm_misses,  \* times of recent misses; numbered, two may be at one time
  confirm_paused,
  confirm_pauses,
  last_activity,   \* of serve()
  \* history, read by the properties only
  contested,       \* another request was made while this one's window was open
  presses,         \* how often Enter was pressed
  enter,           \* the press of Enter a request's window saw, 0 for none
  scans,           \* how many scans each press of Enter led to
  promised,        \* until when face was declared paused, whatever is forgotten
  declared,        \* when that pause was declared
  forgotten,       \* users whose pause an idle exit of the service cut short
  lapsed           \* recent windows without Enter or Esc since the last Enter

request_vars == <<pc, user, cancel, overlapped>>
thread_vars == <<pressed, other_keys, deadline>>
pause_vars == <<promised, declared, forgotten>>
miss_vars == <<confirm_misses, confirm_paused, confirm_pauses, pause_vars>>
enter_vars == <<presses, enter, scans, contested>>
vars == <<now, request_vars, thread_vars, confirm_window, miss_vars,
          last_activity, enter_vars, lapsed>>

Miss == [at : Nat, nr : Nat]

TypeOK ==
  /\ now \in Nat
  /\ pc \in [Request -> {"idle", "asked", "window", "scanning"}]
  /\ user \in [Request -> User]
  /\ cancel \in [Request -> BOOLEAN]
  /\ overlapped \in [Request -> BOOLEAN]
  /\ pressed \in [Request -> {"WAITING", "ENTER", "SKIP", "TYPING", "NOTHING"}]
  /\ other_keys \in [Request -> Nat]
  /\ deadline \in [Request -> Nat]
  /\ confirm_window \in Request \cup {NoRequest}
  /\ confirm_misses \in [User -> SUBSET Miss]
  /\ confirm_paused \in [User -> Int]
  /\ confirm_pauses \in [User -> Nat]
  /\ last_activity \in Nat
  /\ contested \in [Request -> BOOLEAN]
  /\ presses \in 0..MaxEnters
  /\ enter \in [Request -> 0..MaxEnters]
  /\ scans \in [1..MaxEnters -> Nat]
  /\ promised \in [User -> Int]
  /\ declared \in [User -> Nat]
  /\ forgotten \in SUBSET User
  /\ lapsed \in [User -> SUBSET Miss]

Init ==
  /\ now = 0
  /\ pc = [r \in Request |-> "idle"]
  /\ user \in [Request -> User]
  /\ cancel = [r \in Request |-> FALSE]
  /\ overlapped = [r \in Request |-> FALSE]
  /\ pressed = [r \in Request |-> "WAITING"]
  /\ other_keys = [r \in Request |-> 0]
  /\ deadline = [r \in Request |-> 0]
  /\ confirm_window = NoRequest
  /\ confirm_misses = [u \in User |-> {}]
  /\ confirm_paused = [u \in User |-> 0]
  /\ confirm_pauses = [u \in User |-> 0]
  /\ last_activity = 0
  /\ contested = [r \in Request |-> FALSE]
  /\ presses = 0
  /\ enter = [r \in Request |-> 0]
  /\ scans = [p \in 1..MaxEnters |-> 0]
  /\ promised = [u \in User |-> 0]
  /\ declared = [u \in User |-> 0]
  /\ forgotten = {}
  /\ lapsed = [u \in User |-> {}]
-----------------------------------------------------------------------------
(* Counting requests that ran out without Enter *)

Recent(misses) == {m \in misses : now - m.at < CONFIRM_PAUSE_SECONDS}

\* Add a miss at this moment; its number tells it from the others of this time
WithMissNow(misses) ==
  misses \cup {[at |-> now, nr |-> Cardinality({m \in misses : m.at = now})]}

PauseSeconds(pauses) ==
  LET seconds == CONFIRM_PAUSE_SECONDS * 2 ^ pauses
  IN  IF seconds < CONFIRM_PAUSE_MAX_SECONDS THEN seconds
                                             ELSE CONFIRM_PAUSE_MAX_SECONDS

\* Fault: one more miss than CONFIRM_MISSES before the pause
TooManyOffByOne(misses) == Cardinality(misses) > CONFIRM_MISSES

TooMany(misses) == Cardinality(misses) >= CONFIRM_MISSES

Missed(u) ==
  LET misses == WithMissNow(Recent(confirm_misses[u])) IN
  \/ /\ ~TooMany(misses)
     /\ confirm_misses' = [confirm_misses EXCEPT ![u] = misses]
     /\ UNCHANGED <<confirm_pauses, confirm_paused, pause_vars>>
  \/ /\ TooMany(misses)
     /\ confirm_misses' = [confirm_misses EXCEPT ![u] = {}]
     /\ confirm_pauses' = [confirm_pauses EXCEPT ![u] = @ + 1]
     /\ confirm_paused' =
          [confirm_paused EXCEPT ![u] = now + PauseSeconds(confirm_pauses[u])]
     /\ promised' =
          [promised EXCEPT ![u] = now + PauseSeconds(confirm_pauses[u])]
     /\ declared' = [declared EXCEPT ![u] = now]
     /\ forgotten' = forgotten \ {u}

\* Fault: the last second of a pause is not honoured
PausedOffByOne(u) == confirm_paused[u] - now > 1

Paused(u) == confirm_paused[u] - now > 0
-----------------------------------------------------------------------------
(* A request until its window *)

\* The answer is sent (its code is named by the action it ends): coroutine and
\* thread are gone, and what they knew with them
Answer(r) ==
  /\ pc' = [pc EXCEPT ![r] = "idle"]
  /\ cancel' = [cancel EXCEPT ![r] = FALSE]
  /\ pressed' = [pressed EXCEPT ![r] = "WAITING"]
  /\ other_keys' = [other_keys EXCEPT ![r] = 0]
  /\ deadline' = [deadline EXCEPT ![r] = 0]
  /\ enter' = [enter EXCEPT ![r] = 0]
  /\ last_activity' = now

\* The call arrives; the caller's uid and session are looked up on the bus
VerifyConfirmed(r, u) ==
  /\ pc[r] = "idle"
  /\ now < MaxTime
  /\ pc' = [pc EXCEPT ![r] = "asked"]
  /\ user' = [user EXCEPT ![r] = u]
  /\ last_activity' = now
  /\ UNCHANGED <<now, cancel, overlapped, thread_vars, confirm_window,
                 miss_vars, enter_vars, lapsed>>

\* Not root, no such user, another user's process, not at this computer, no
\* face model
Refuse(r) ==
  /\ pc[r] = "asked"
  /\ Answer(r)
  /\ UNCHANGED <<now, user, overlapped, confirm_window, miss_vars, presses,
                 scans, contested, lapsed>>

AnswerPaused(r) ==
  /\ pc[r] = "asked"
  /\ Paused(user[r])
  /\ Answer(r)  \* CONFIRM_PAUSED
  /\ UNCHANGED <<now, user, overlapped, confirm_window, miss_vars, presses,
                 scans, contested, lapsed>>

\* Fault: a window opens next to another one
NoWindowUnchecked == TRUE

NoWindow == confirm_window = NoRequest

\* Fault: only the newcomer is refused
OverlapUnmarked == UNCHANGED overlapped

Overlap == overlapped' = [overlapped EXCEPT ![confirm_window] = TRUE]

\* Another request's window is open: refused, and so is the other one
Conflict(r) ==
  /\ pc[r] = "asked"
  /\ ~Paused(user[r])
  /\ ~NoWindow
  /\ Overlap
  /\ contested' = [contested EXCEPT ![confirm_window] = TRUE]
  /\ Missed(user[r])
  /\ Answer(r)  \* CONFIRM_CONFLICT
  /\ UNCHANGED <<now, user, confirm_window, presses, scans, lapsed>>

Deadline(r) == deadline' = [deadline EXCEPT ![r] = now + WINDOW_SECONDS]

OpenWindow(r) ==
  /\ pc[r] = "asked"
  /\ ~Paused(user[r])
  /\ NoWindow
  /\ confirm_window' = r
  /\ overlapped' = [overlapped EXCEPT ![r] = FALSE]
  /\ contested' = [contested EXCEPT ![r] = FALSE]
  /\ pc' = [pc EXCEPT ![r] = "window"]
  /\ Deadline(r)
  /\ UNCHANGED <<now, user, cancel, pressed, other_keys, miss_vars, last_activity,
                 presses, enter, scans, lapsed>>
-----------------------------------------------------------------------------
(* The keyboards.  Every open descriptor of a keyboard gets every key, so  *)
(* a key reaches all threads that still read.                              *)

Reading == {r \in Request : pc[r] = "window" /\ pressed[r] = "WAITING"}

Seen(S, what) == [r \in Request |-> IF r \in S THEN what ELSE pressed[r]]

PressEnter ==
  /\ Reading # {}
  /\ presses < MaxEnters
  /\ presses' = presses + 1
  /\ pressed' = Seen(Reading, "ENTER")
  /\ enter' = [r \in Request |-> IF r \in Reading THEN presses' ELSE enter[r]]
  /\ UNCHANGED <<now, request_vars, other_keys, deadline, confirm_window,
                 miss_vars, last_activity, scans, contested, lapsed>>

PressEsc ==
  /\ Reading # {}
  /\ pressed' = Seen(Reading, "SKIP")
  /\ UNCHANGED <<now, request_vars, other_keys, deadline, confirm_window,
                 miss_vars, last_activity, enter_vars, lapsed>>

PressOther ==
  /\ Reading # {}
  /\ other_keys' =
       [r \in Request |-> other_keys[r] + (IF r \in Reading THEN 1 ELSE 0)]
  /\ pressed' =
       Seen({r \in Reading : other_keys[r] + 1 > OTHER_KEYS_ALLOWED}, "TYPING")
  /\ UNCHANGED <<now, request_vars, deadline, confirm_window, miss_vars,
                 last_activity, enter_vars, lapsed>>

\* Fault: only the caller ends the wait
WaitWithoutEnd(r) == cancel[r]

WaitIsOver(r) == now >= deadline[r] \/ cancel[r]

\* The end of the window, or the caller left
WaitEnds(r) ==
  /\ r \in Reading
  /\ WaitIsOver(r)
  /\ pressed' = [pressed EXCEPT ![r] = "NOTHING"]
  /\ UNCHANGED <<now, request_vars, other_keys, deadline, confirm_window,
                 miss_vars, last_activity, enter_vars, lapsed>>

\* No physical keyboard can be opened
NoKeyboards(r) ==
  /\ r \in Reading
  /\ now + WINDOW_SECONDS = deadline[r]
  /\ other_keys[r] = 0
  /\ pressed' = [pressed EXCEPT ![r] = "NOTHING"]
  /\ UNCHANGED <<now, request_vars, other_keys, deadline, confirm_window,
                 miss_vars, last_activity, enter_vars, lapsed>>
-----------------------------------------------------------------------------
(* A request after its window: the coroutine goes on once the thread has   *)
(* returned.                                                               *)

Closing(r) ==
  /\ pc[r] = "window"
  /\ pressed[r] # "WAITING"
  /\ confirm_window' = NoRequest

\* History: one more window went by without Enter or Esc
Lapse(u) == lapsed' = [lapsed EXCEPT ![u] = WithMissNow(@)]

CloseConflict(r) ==
  /\ Closing(r)
  /\ overlapped[r]
  /\ Missed(user[r])
  /\ Lapse(user[r])
  /\ Answer(r)  \* CONFIRM_CONFLICT
  /\ UNCHANGED <<now, user, overlapped, presses, scans, contested>>

CloseSkipped(r) ==
  /\ Closing(r)
  /\ ~overlapped[r]
  /\ pressed[r] = "SKIP"
  /\ Answer(r)  \* SKIPPED
  /\ UNCHANGED <<now, user, overlapped, miss_vars, presses, scans, contested, lapsed>>

CloseUnconfirmed(r) ==
  /\ Closing(r)
  /\ ~overlapped[r]
  /\ pressed[r] \in {"TYPING", "NOTHING"}
  /\ Missed(user[r])
  /\ Lapse(user[r])
  /\ Answer(r)  \* NOT_CONFIRMED
  /\ UNCHANGED <<now, user, overlapped, presses, scans, contested>>

CloseCancelled(r) ==
  /\ Closing(r)
  /\ ~overlapped[r]
  /\ pressed[r] = "ENTER"
  /\ cancel[r]
  /\ Answer(r)  \* CANCELLED
  /\ UNCHANGED <<now, user, overlapped, miss_vars, presses, scans, contested, lapsed>>

\* Enter: the counts start over, and verify() goes on to the camera
CloseConfirmed(r) ==
  /\ Closing(r)
  /\ ~overlapped[r]
  /\ pressed[r] = "ENTER"
  /\ ~cancel[r]
  /\ confirm_misses' = [confirm_misses EXCEPT ![user[r]] = {}]
  /\ confirm_pauses' = [confirm_pauses EXCEPT ![user[r]] = 0]
  /\ pc' = [pc EXCEPT ![r] = "scanning"]
  /\ scans' = [scans EXCEPT ![enter[r]] = @ + 1]
  /\ lapsed' = [lapsed EXCEPT ![user[r]] = {}]
  /\ UNCHANGED <<now, user, cancel, overlapped, thread_vars, confirm_paused,
                 pause_vars, last_activity, presses, enter, contested>>

\* verify() and the camera, in module CameraRequests: here only that it ends
VerifyEnds(r) ==
  /\ pc[r] = "scanning"
  /\ Answer(r)
  /\ UNCHANGED <<now, user, overlapped, confirm_window, miss_vars, presses,
                 scans, contested, lapsed>>

\* Manager.cancel, or the caller left the bus: both set the event that
\* Manager.running holds while the request waits for Enter or for the camera
Cancel(r) ==
  /\ pc[r] \in {"window", "scanning"}
  /\ ~cancel[r]
  /\ cancel' = [cancel EXCEPT ![r] = TRUE]
  /\ UNCHANGED <<now, pc, user, overlapped, thread_vars, confirm_window,
                 miss_vars, last_activity, enter_vars, lapsed>>
-----------------------------------------------------------------------------
Tick ==
  /\ now < MaxTime \/ \E r \in Reading : now < deadline[r]
  /\ now' = now + 1
  /\ lapsed' = [u \in User |->
                  {m \in lapsed[u] : now' - m.at < CONFIRM_PAUSE_SECONDS}]
  /\ UNCHANGED <<request_vars, thread_vars, confirm_window, miss_vars,
                 last_activity, enter_vars>>

\* serve() ends when nothing happened for long; the next call starts the
\* service anew, with an empty memory
IdleExit ==
  /\ IDLE_TIMEOUT # 0
  /\ now - last_activity > IDLE_TIMEOUT
  /\ \A r \in Request : pc[r] = "idle"
  /\ confirm_misses' = [u \in User |-> {}]
  /\ confirm_paused' = [u \in User |-> 0]
  /\ confirm_pauses' = [u \in User |-> 0]
  /\ last_activity' = now
  /\ forgotten' = forgotten \cup {u \in User : now < promised[u]}
  /\ UNCHANGED <<now, request_vars, thread_vars, confirm_window, enter_vars,
                 promised, declared, lapsed>>

Coroutine(r) ==
  \/ Refuse(r)
  \/ AnswerPaused(r)
  \/ Conflict(r)
  \/ OpenWindow(r)
  \/ CloseConflict(r)
  \/ CloseSkipped(r)
  \/ CloseUnconfirmed(r)
  \/ CloseCancelled(r)
  \/ CloseConfirmed(r)
  \/ VerifyEnds(r)

Next ==
  \/ \E r \in Request, u \in User : VerifyConfirmed(r, u)
  \/ \E r \in Request : Coroutine(r)
  \/ \E r \in Request : WaitEnds(r)
  \/ \E r \in Request : NoKeyboards(r)
  \/ \E r \in Request : Cancel(r)
  \/ PressEnter
  \/ PressEsc
  \/ PressOther
  \/ Tick
  \/ IdleExit

Spec == Init /\ [][Next]_vars

(* The event loop runs every coroutine that can go on (login1, the camera  *)
(* and the engine answer within their time limits), the thread looks at    *)
(* the clock and at its event four times a second, and time passes.        *)
FairSpec ==
  /\ Spec
  /\ \A r \in Request : WF_vars(Coroutine(r)) /\ WF_vars(WaitEnds(r))
  /\ WF_vars(Tick)
-----------------------------------------------------------------------------
(* Properties *)

\* "One Enter must not approve a second request started next to the real one":
\* no press of Enter leads to more than one scan, although a key reaches every
\* thread that reads the keyboards (verify_confirmed).
OneScanPerEnter == \A p \in 1..MaxEnters : scans[p] <= 1

\* "Two elevation requests at once, refusing both": a request that another one
\* met while it waited for Enter, even between the press of Enter and the
\* coroutine's going on, never gets to the camera (verify_confirmed).
OverlappedIsRefused ==
  \A r \in Request : pc[r] = "scanning" => ~contested[r]

\* Without an Enter in between, no more than CONFIRM_MISSES windows run out
\* within any CONFIRM_PAUSE_SECONDS for one user: what the pause is for
\* (_confirm_missed).
RateLimited ==
  \A u \in User : Cardinality(lapsed[u]) <= CONFIRM_MISSES

\* The pause of u that was declared last is over, or the service was stopped
\* for want of anything to do after it was declared, and forgot it
PauseIsOver(u) ==
  \/ now >= promised[u]
  \/ u \in forgotten /\ now > declared[u] + IDLE_TIMEOUT

\* While face is paused for a user, no window opens for that user and no
\* request of theirs that waits for Enter gets a scan: a pause that begins
\* while a window is open is due to that window being overlapped.  The one
\* thing that ends a pause before its time is an idle exit of the service,
\* which forgets it, and not before IDLE_TIMEOUT has gone by since it was
\* declared: "a program that keeps trying gets a few windows an hour"
\* (CONFIRM_PAUSE_MAX_SECONDS) holds up to that (verify_confirmed,
\* _confirm_missed, serve).
PauseHonoured ==
  [][\A r \in Request :
       pc[r] # pc'[r] /\ pc'[r] \in {"window", "scanning"}
         => PauseIsOver(user[r])]_vars

\* Every request is answered: the window closes, whatever happens to the
\* keyboards and the caller, and so does not block later requests.
EveryRequestAnswered ==
  \A r \in Request : pc[r] # "idle" ~> pc[r] = "idle"
-----------------------------------------------------------------------------
(* The inductive invariant behind the safety properties *)

FiniteInv ==
  \A u \in User : IsFiniteSet(confirm_misses[u]) /\ IsFiniteSet(lapsed[u])

\* confirm_window is the one request that waits for Enter
WindowInv ==
  /\ \A r \in Request : confirm_window = r <=> pc[r] = "window"
  /\ \A r \in Request : pressed[r] # "WAITING" => pc[r] \in {"window", "scanning"}

\* A press of Enter that a waiting request saw has not led to a scan
EnterInv ==
  /\ \A p \in 1..MaxEnters : p > presses => scans[p] = 0
  /\ \A r \in Request :
       pc[r] = "window" /\ pressed[r] = "ENTER"
         => enter[r] \in 1..presses /\ scans[enter[r]] = 0

OverlapInv ==
  \A r \in Request : pc[r] = "window" /\ contested[r] => overlapped[r]

\* A pause is remembered until it is over, unless an idle exit forgot it, and
\* no window that may still lead to a scan is open meanwhile
PauseInv ==
  /\ last_activity <= now
  /\ \A u \in User : declared[u] <= last_activity
  /\ \A u \in forgotten : now > declared[u] + IDLE_TIMEOUT
  /\ \A u \in User \ forgotten :
       now < promised[u] => confirm_paused[u] = promised[u]
  /\ \A r \in Request :
       pc[r] = "window" /\ ~overlapped[r] => PauseIsOver(user[r])

\* Misses of one time have different numbers, and more of them a higher one
Numbered(S) ==
  \A m \in S : m.nr < Cardinality({k \in S : k.at = m.at})

Since(S, t) == {m \in S : m.at >= t}

LastTimes == (now - CONFIRM_PAUSE_SECONDS + 1)..now

\* After the last pause began, every window of the last CONFIRM_PAUSE_SECONDS
\* that ran out counts as a miss
CountedSince(u) ==
  \A t \in LastTimes :
    t > confirm_paused[u] - CONFIRM_PAUSE_SECONDS
      => Cardinality(Since(lapsed[u], t)) <= Cardinality(Since(confirm_misses[u], t))

\* A window is open only while one more may run out
RateInv ==
  /\ last_activity <= now
  /\ \A u \in User : \A m \in lapsed[u] :
       m.at <= last_activity /\ now - m.at < CONFIRM_PAUSE_SECONDS
  /\ \A u \in User : Numbered(confirm_misses[u])
  /\ \A u \in User : Cardinality(confirm_misses[u]) < CONFIRM_MISSES
  /\ \A u \in User : CountedSince(u)
  /\ \A r \in Request :
       pc[r] = "window" => Cardinality(lapsed[user[r]]) < CONFIRM_MISSES

IInv ==
  TypeOK /\ FiniteInv /\ WindowInv /\ EnterInv /\ OneScanPerEnter
         /\ OverlapInv /\ OverlappedIsRefused
=============================================================================
