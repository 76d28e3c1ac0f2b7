# Linux Hello in TLA+

Linux Hello unlocks a Linux desktop with the face: a D-Bus service owns the
camera and the face models, a PAM module asks it from the lock screen, the
login screen, sudo and polkit, a virtual FIDO2 device asks it for passkeys, and
a settings page and a command line manage it. This directory models the parts
in which requests, threads, keys, pauses and files meet, checks them with TLC
and proves the most important results with TLAPS. Paths below are relative to
`linux-hello/src/` of the repository.

## Inventory

| Component | State | Operations | Hard because | Correct when |
|---|---|---|---|---|
| Confirmed verification (`daemon/manager.py`, `daemon/confirm.py`) | the open window, misses, pauses per user | `VerifyConfirmed`, keys, cancel, idle exit | several requests on one event loop, a thread that reads keyboards, time, restarts | one Enter approves one request, overlapping requests are both refused, pauses hold |
| Camera requests (`daemon/manager.py`, `daemon/presence.py`, `linux_hello_daemon.py`) | camera lock and its queue, cancel events per connection, failure streaks | `Verify`, `VerifyNow`, `Enroll`, `ListCameras`, `Cancel`, callers leaving, shutdown | state read before an await and used after it, threads that poll an event | one user of the camera, cancellation reaches the request, nobody waits for ever, camera off while nobody is there |
| PAM module (`pam/`) | two threads, who was first, the request's status and result | `pam_sm_authenticate`, session hooks | races of password and face, thread cancellation, emulated keys | grants only on a match, a typed password keeps working |
| Login secret (`daemon/secrets.py`, `daemon/manager.py`) | the auto-login drop-in, the kept password, a temporary file | set target, remember, store, forget, reset | a thread beside the settings, power loss, two processes | kept only while auto-login is on, never torn |
| PAM files (`integration/pam.py`) | service files, manifest, KDE and login manager configuration | enable, disable, refresh, reset | several files, rollback, crashes, edits by the administrator | what was enabled can be reverted, no stack without authentication |
| WebAuthn transport (`webauthn/ctaphid.py`, `uhid.py`) | channels, partial messages, the active transaction | INIT, MSG, CBOR, CANCEL | a worker and a keepalive thread beside the reader | one response per request, none for a reset one |
| WebAuthn credentials (`webauthn/authenticator.py`, `store.py`, `keystore*.py`) | credentials, counters, pending assertions | make, get, next, reset, CLI removal | a file shared with the CLI, counters that must grow | counters never repeat, removed credentials do not return |
| Verification clients (`verification.py`, `client.py`) | the running request | verify, cancel | cancel from another thread, a bus that never answers | a cancelled verification ends |
| Face engine (`engine.py`, `recorders/video_capture.py`) | the opener's thread, the capture and its light, the ambient frame, the history of darkness, samples | verify, enroll | the camera opens while the backend loads; cameras that flicker with their emitter | camera and light handed back on every path, dark scans said to be dark, every scan ends |
| Rubber stamps (`rubberstamps/`) | the rule that runs, recorded movements, the last key | execute, nod, hotkey | failures of four kinds between match and grant | every configured stamp is passed, each on its own account |
| Face models (`models.py`) | one file per user, the file of an older version | add, rename, remove, clear, migrate | ids across permission dialogs, lists loaded before a scan, a second process that migrates | nothing lost, nothing back, an id means one model |
| Access (`daemon/access.py`) | none | polkit, logind and bus queries | answers arrive late | - |
| Lock guard (`session/linux-hello-lock-guard`) | `LockOnStart` and its marker in the user's file | lock, poll, terminate | runs at boot beside Plasma; two writes; the user's own setting | an automatic login is locked or ended, the user's setting survives |
| Lock screen preference (`integration/kscreenlocker.py`, `../../kcm/lockscreen.cpp`) | a key in users' files | set, read, reset | the option may go while a user chooses it | no greeter starts with a missing option |
| Emitter (`emitter.py`, `cli/emitter.py`) | the camera's controls, what to restore, `emitter.json` | activate, close, test, search, forget | two processes, no lock, refused queries, kills | every control gets its value back |
| Cameras, recognition | devices, networks | read, detect, encode | device I/O | - |
| Settings page (`../../kcm`), command line | what the service answered | calls of the service | several calls on one connection | - |

The components meet in four places: D-Bus calls to the service (every method
call is a task of one event loop), `NameOwnerChanged` signals that cancel
requests, threads that report to the event loop, and files (service files,
drop-in, secrets, models, the lock screen's settings) that other processes read
and write.

`PROJECT.json` lists the hazards at their lines.

## Plan

1. *Done*: `Elevation`, `CameraRequests`, `PamIdentify`, `LoginSecret`,
   `CtapHid` (with `FaceVerifier`) and `Passkeys` over its abstract
   specification `PasskeyStore`, with their runs; proofs about `Elevation`,
   `PamIdentify`, `CtapHid` and `Passkeys`.
2. *Done*: `PamText` and `PamFiles` (PAM files, lock screen preference),
   `Emitter`, `Engine` (with the rubber stamps), `ModelStore`, and `AutoLogin`,
   which composes `LoginSecret` with the session side of the PAM module and the
   lock guard.
3. *Done*: theorems for the safety properties of `CameraRequests`,
   `LoginSecret`, `AutoLogin`, `Engine`, `ModelStore` and `Emitter`, for
   `RateLimited`, `CancelWakes` and `DroppedOnlyAfterReset`, and for two of the
   five properties of `PamFiles`.
4. An abstract `ElevationGate` ("a scan consumes an Enter of its own") that
   `Elevation` implements, and `Elevation` composed with `CameraRequests`, so
   that a confirmed request queues for the real camera.

## Modules

### Elevation

`Manager.verify_confirmed`, `_confirm_missed`, `wait_for_enter` and the idle
exit. A request's coroutine is `pc` (`asked` while the bus and logind are
queried, `window` while the keyboard thread waits, `scanning` inside
`verify()`); what happens between two awaits is one action, so each of
`AnswerPaused`, `Conflict`, `OpenWindow`, `CloseConflict`, `CloseSkipped`,
`CloseUnconfirmed`, `CloseCancelled` and `CloseConfirmed` is one path through
the handler. The thread is `pressed`, `other_keys` and `deadline`; a key reaches
every thread that reads, because every open descriptor of an input device gets
every event. `Tick` advances the clock; an idle exit empties the manager's
memory. `contested`, `enter`, `scans`, `promised`, `declared`, `forgotten` and
`lapsed` are history: no action reads them. The first two of the pauses' three
say until when and since when a user's last pause was declared, the third of
whom an idle exit forgot it. A caller's cancellation counts from when the request is
registered in `Manager.running`, as in the code.

### CameraRequests

`verify`, `verify_now`, `enroll` and `list_cameras` around `_camera`.
`asyncio.Lock` is a first-come-first-served queue: `EnterCamera` takes it when
it is free and nobody waits, `Grant` wakes the first waiter. The cancel event of
a request is `cancel`, and `running` maps a connection to the request whose
event it holds, as `Manager.running` does; two requests of one connection take
and pop each other's entry (`Register`, `Pop`), and `bumped`, history, says
whose was lost that way. The camera thread alternates between
`check` (the top of the frame loop, where the event and the clock are looked
at) and `frame` (the rest); `list_cameras` ignores the event. The pause thread
may see input even when its event is set, since `select` follows the look at the
event. `Stop` and `Exit` are the end of `serve()`: every registered event is
set, and after at most ten seconds everything is gone. One user is modelled:
`failures` has an entry per user and entries do not meet.

### PamIdentify

One call of `identify()`. `pc` is the main thread, `verify` the thread in
`VerifyRequest::run`, `pass` the one in `pam_get_authtok`. The four values of
`stack` are the four ways `integration/pam.py` writes the module's line, and
`StackDoes` evaluates that line's control values. Result codes that the module
treats alike are one value (`ABORT`). `result` starts as `SUCCESS`, as
`result_{0}` does.

### LoginSecret

`set_target` for auto-login, `remember_login_secret` with `store()` step by step
in its thread, `forget()`, `reset-system` in a process of its own, and power
loss. `fd` says under which name the file a thread has open is known now, so
that writing to a file that was renamed or unlinked meanwhile does what POSIX
does. `After` describes two writers of one file at offset 0.

### CtapHid

`CtapHidDevice` and the `FaceVerifier` its command waits in. `reader` is what
the reader thread has left to do of the report it handles (`_cancel_active` and
the answer to INIT go on after `_lock` is released), `worker` where a worker
thread is in `_run_cbor`, `handle_cbor` and `verify`, `keepalive` where its
keepalive thread is. `active_cid`, `cancelled` and `cancel_reply` are the
device's fields under `_lock`, `running`, `verify_cancelled` and `bus` the
verifier's `_running`. `cancel()` is two actions, `CancelVerify` and `Wake`,
because `verify` sets the bus and looks at the mark without the lock between
them; the lock `cancel()` holds is why `EndVerify` waits. A channel is the
number of frames its CBOR message still lacks: what the frames contain is not
modelled, and PING, WINK, LOCK, MSG, unknown commands and empty CBOR messages
are `OtherFrame`, which only discards what was assembled. Frames for unknown
channels and a busy device get an error report and change nothing, so they are
no action. A message to the host is one step, as `_send_lock` makes it. `reset`
and `cut` are history.

### Passkeys and PasskeyStore

`PasskeyStore` is a table of sign counters with four atomic operations.
`Passkeys` is the file behind it: two processes, the daemon and the command
line, each with its `memory` (`_credentials`) and one command (`pc`, `op`,
`todo`, `made`). `Lock` is `_locked()` with the `load()` that follows, and the
actions that leave `locked` are the store's operations with `_save`, which
either renames the new file into place or fails and leaves the daemon with a
copy that differs from the file. The lock is released between the credentials
of one getAssertion, as in the code. `queue` is `_next_assertions`; `Crash` ends
a process, and the daemon's successor reads the file; `DestroyFails` is a reset
whose `os.remove` raises. `released`, the last
counter a website has seen, is history. The command line asks for
`linuxhello.test` only, and a browser never does, since `.test` is reserved;
without that, two processes could send two assertions for one website in either
order. Which of the credentials a request allows is any subset.

### PamText and PamFiles

`PamText` is what `integration/pam.py` and `integration/kscreenlocker.py` do to
text: a text is a sequence of lines as `splitlines` yields them, a line a record
of the words the code looks at, with its newline (`insert_block`,
`remove_block`, `build_own_stack`, the walk through includes that `_gates`
makes, and the INI keys of `set_choice`). Three of the seven checks of `GATES`
stand for all of them: one that needs an argument and two that do not. A loop
over lines is a recursive function of the number of lines done (`Removal`,
`OwnBody`, `GateCopies`), and the walk through includes one of the levels left
(`Walks`), each level a function of the one below. `WORD` is what a word of a
line may be; the code's own words are among them (`WordAssumption`).

`PamFiles` is the state around it: `etc` (the files of `/etc`), `main`
(`plasmalogin.conf`), `manifest`, and the operation in progress, `op`, with the
steps it still has to take. `enable` makes its `plan` once, takes one step per
file and rolls back from `before` in the order of the plan when one raises,
before its file is replaced or after (`EnableFails`: `_write` still syncs the
directory and restores the context once the new file stands), `disable` and `reset` take theirs in the code's order,
and the manifest is saved in a step of its own at the end. `Abort` breaks an
operation off between any two steps. `AdminEdit` is an administrator with an
editor, `LoginSettings` Plasma's own page that writes `plasmalogin.conf`. `cli`
is where a user's command line or settings page is between looking at the option
and writing the user's choice (`LookUpOption`, `PreferFace`). `own` (what the
vendor and the administrator wrote), `edits`, `aborted`, `stuck` and `botched`
(an enable failed after it wrote the drop-in) are history.

### Emitter

Processes that scan and the command line's `emitter` share one camera without a
lock; each XU query is an action (`GetPrevious`, `SetOn`, `Restore`). A query may
be refused, a process may be killed, and the camera forgets its values when the
last handle closes (`PowerDown`). `excused` names the controls of which the code
promises nothing any more after such a thing. Only streaming is exclusive,
which is the kernel's doing. `search` walks `candidate_controls` and
`candidate_values` one value at a time.

### Engine

One request of the engine. `opener` is the thread that opens the camera while
the backend loads, `emitter` and `reader` what it has switched on. A frame is a
level of brightness and a darkness; `lit` is `AmbientPairing.lit` with the age of
the ambient frame, `accept` and `remembered` are `DarkFilter` with its median.
`pc` then goes from `read` to `check` (cancelled, out of time), `look` and, for a
match, the rubber stamps, each of which answers, times out or raises. Time
counts in frames. `seen` is history: what the detector saw, and what every stamp
said (`seen.word`).

### AutoLogin

Extends `LoginSecret` by the session that starts without a password: the PAM
module asks for the kept password (`Asked`, `Load`) while the drop-in and the
copy may change, Plasma starts, and the guard looks, writes `LockOnStart` and its
marker one after the other, polls the lock screen and ends the session when it
never locks. The guard may die anywhere (`GuardDies`), get no answer from
`loginctl` or `kreadconfig6` (`GuardLooks`) or fail to end the session
(`GraceFails`); users change `LockOnStart` in the System Settings at any moment
(`UserSets`). `was_locked`, `unguarded`, `own` (who turned the lock on), `claimed`
(of these, whom the guard could not know of) and `left` (whose marker may stand
alone; `CutShort`) are history.

### ModelStore

The models of one user as the file and the file of an older version, two callers
whose requests are cut where the code awaits (a scan, a permission dialog), and
a second process that moves the old file beside the service, step by step when
the two directories are on different devices. A file is the set of its models:
`add` appends with an id above all others, so the list is in the order of the
ids and `Meant` takes the least one first. What the directories hold when this
version starts is a parameter (`FirstFiles`, `FirstLegacies`). `kept`, `looked`,
`wrong`, `old` (the models of the old file at first), `overwritten` (what root's
copy took the place of) and `excused` are history.

## Runs

| Run | Bounds | Shows |
|---|---|---|
| `elevation` | 1 user, 2 requests, 6 time units, pauses of 2 then 4, an idle exit after 2 | one Enter, one scan; overlapping requests are refused; no more than `CONFIRM_MISSES` windows lapse in any `CONFIRM_PAUSE_SECONDS`; only an idle exit, `IDLE_TIMEOUT` after its declaration, cuts a pause short; every request is answered |
| `camera_queue` | a lock screen, and an enrolment and a list of cameras on one connection; `PAUSE_AFTER` = 2 | one camera user; cancellation arrives unless the other request of the connection took the entry; the camera stays off after `PAUSE_AFTER` failures; every request is answered |
| `pam_race` | `MAX_RETRIES` = 5, as in the code; every stack, workaround and setting | a grant has a match behind it, a typed password goes on, no thread is left; `identify()` returns by itself where no prompt waits for a person |
| `auto_login` | 2 users, one of whom changes `LockOnStart`, one login with a password, `GRACE` of 2 polls, both disk settings | turning off forgets; what is kept is whole and reaches its user's wallet only, also after power loss; an automatic session is locked or ended while its guard lives and `loginctl` answers; a user's own `LockOnStart` survives where the guard could know of it, and a marker stands alone only in two cases |
| `secret_handover` | two users | *violation*: the previous user's password stays |
| `pam_files` | 5 kinds of system, 1 user, 3 edits of any files, copies too, or operations broken off, in any mixture | what the administrator wrote stays unless the manifest mistakes her file for a copy, what is turned off is gone, rollback restores, the drop-in never stands alone but after a botched enable, the stack's checks are in front of the installed face line, the lock screen's choice and option stay in step |
| `pam_edits` | 1 system, 1 edit of a copied file | *violation*: turning off the last target deletes the copy with her line |
| `emitter` | a service and the command line, a camera with 2 vendor controls of one byte, with and without Microsoft's, with and without a database entry | every control gets its value back; every scan's session ends, and the test's once it no longer streams |
| `engine` | 3 levels of brightness, 4 of darkness, 4 frames of up to 2 units, 2 samples, 4 lists of stamps; history of 3, learning 2, patience 2 | camera and light handed back; dark scans said so; neighbours paired; pairing gives up; a match is accepted only after every stamp was passed; every scan ends |
| `models` | 2 callers, 3 enrolments, no or one model at first, no or two in an old file, both kinds of directories | no model lost but to root's late copy, none back but the old file's, in three cases; ids unique; an id means the model its caller chose |
| `ctap_hid` | 2 channels, 2 worker threads, messages of up to 2 frames | one command at a time; a cancelled verification fails and is woken; responses are dropped only after a re-sync of their own request; no keepalive after the response; every command ends |
| `passkeys` | 2 accounts of a website and the test website's, counters up to 2 and 1 | the file implements `PasskeyStore`; the assertion that leaves next has a higher counter than any before |

Most modules state a type invariant, `TypeOK`. It is proved for `Elevation`,
`PamIdentify`, `CtapHid`, `Passkeys`, `CameraRequests`, `LoginSecret` and
`Engine`, and as `EmitterTypeOK` for `Emitter`, and is left out of the runs,
which spend their time on the properties above. The types `PamFiles` needs are
part of `WalletInv` and `LockInv` in `PamProofs`.

Bounds that are not constants of the code: `MaxTime` and `MaxEnters` of
`Elevation`, `MAX_CHANNELS` and `MAX_FRAMES` of `CtapHid`, `MAX_COUNT` of
`Passkeys`, `MaxEnrolments` of `ModelStore` and the small values of `Engine` and
`Emitter`, `MaxEvents` of `PamFiles` and `Choosers` of `AutoLogin`. The theorems hold for
every value of these.

- *Elevation*: users meet in `confirm_window` only (misses and pauses are per
  user), and a request cannot tell whose window it met; two users do not finish
  within the run's time, and the theorems on its safety properties hold for any
  number. As in the defaults (60 s, 600 s, 3600 s) an idle exit comes before the
  longest pause is over; six units are enough for two pauses in a row and an idle
  exit within the second.
- *CtapHid*: two channels are a busy one and one that is refused, two workers one
  that still has its response to send while the next command runs, and a message
  of two frames is one that can be interrupted.
- *Passkeys*: two credentials of one website are needed for an assertion to wait
  in the queue, and two values of a counter for a stale one to follow.
- *CameraRequests* has finitely many states for finite sets of requests apart
  from `failures`, which `CameraStaysOff` bounds. Three requests are one that
  holds the camera and two that wait; two of them are on the settings page's one
  connection, which is what two requests need to meet in `running`. It is checked
  with one lock
  screen, as a seat has: two requests of one user that both passed the check
  before either failed may exceed the count by one.
- *PamFiles*: the systems are a Plasma login manager whose stack includes
  another, which includes itself; a lock screen with and one without a
  fingerprint stack; sudo and sudo-i over one common stack; and an older system
  with a file that has no auth line, so that `enable` fails half way. Each is
  checked from its first state over every sequence of operations. One operation
  broken off leaves a manifest and its files that disagree; the second is needed
  for an entry that outlives its file to meet a file the administrator made
  meanwhile, which is the third event.
- *Emitter*: one vendor control is at its limit and one has a value to try, so
  that a search walks past the first; two processes are two sessions that each
  read what the other wrote.
- *Engine*: four time units allow learning, a full history and giving up in one
  scan; the stamps' lists hold each stamp first and last, and an unknown one.
- *AutoLogin*: users meet in the drop-in and at the screen; `LockOnStart` and its
  marker are per user, so that one who changes hers beside one who never does is
  enough. The guard tells a poll that finds the screen locked, one that locks it
  and the last one apart, which two polls have.
- *ModelStore*: three enrolments are one to remove, one that gets its id again
  and one that follows; two models in the old file are one that a clear has
  removed and one that it still has to.

Deadlock is checked for `CameraRequests`, `CtapHid`, `Passkeys`, `PamFiles`,
`Emitter` and `AutoLogin`. `Elevation` stops at `MaxTime`, `identify()` and a
scan when they returned, `ModelStore` at `MaxEnrolments`, and `LoginSecret` has
no step it must take, so their configurations switch the check off.

### Deviations and gaps that were seen

Two findings have a run (`secret_handover`, `pam_edits`). TLC showed the
following as well. Where a property is about such a case, it names the case as an
exception, as narrow as it can be, and the run reaches it: without the exception
TLC finds the property violated. The hazards in `PROJECT.json` name most of them.

- The idle exit (600 s) forgets a declared pause, which may last 3600 s, so that
  the next activation opens a window too early (`linux_hello_daemon.py:105`).
  The comment at `daemon/manager.py:50-53`, "a program that keeps trying gets a
  few windows an hour", does not hold then. `PauseHonoured` lets an idle exit, and nothing else,
  end a pause early.
- Two requests on one bus connection, as the settings page makes them, share one
  entry of `Manager.running`: the second takes it and the first to end pops the
  other's, and a caller that leaves then is not cancelled
  (`daemon/manager.py:117`). `CancelReachesScan` names the requests that lost
  their entry (`bumped`).
- The lock guard deletes `LockOnStart` and its marker in two commands
  (`session/linux-hello-lock-guard:34-35`). Cut short between them it leaves the
  marker alone; a user who then turns the lock on herself loses it to the next
  guard, although the setting is "Left alone when the user turned it on
  themselves" (line 29). So does one who turns it off and on again under the
  marker, one who does so while the guard writes, and one whose setting
  `kreadconfig6` does not read. `OwnLockKept` names these users (`claimed`,
  `left`).
- Without an answer from `loginctl` the guard takes an automatic session for one
  with a password and ends (lines 42-56); it also leaves the session open when it
  is killed, as its unit has no `Restart=`, or when `terminate-session` fails.
  `LockedOrEnded` names them (`unguarded`).
- The command line's `emitter test` waits for frames without a time limit
  (`cli/emitter.py:53-59`), with the light on and the session open.
  `LightGoesOut` promises nothing of it while it streams.
- A `store()` that is under way when auto-login is turned off brings the
  password back (`daemon/manager.py:465`), and two logins of one user at the
  same time write one temporary file (`daemon/secrets.py:69`).
- A CTAPHID_CANCEL that arrives before `verify()` has set `_running` is lost
  (`verification.py:130`); an INIT between the release of `_active_cid` and the
  response lets the response follow the answer to INIT
  (`webauthn/ctaphid.py:241`).
- A cancellation between the end of the lock screen's pause and the coroutine's
  going on is lost, because `_camera` makes a new event
  (`daemon/manager.py:184`), and an enrolment whose caller leaves during the
  last frame is saved (`daemon/manager.py:361`).
- An edit of a copied file, whose hash is then recorded again
  (`integration/pam.py:846`; the run `pam_edits`), and two operations broken off,
  after which the manifest may say "copied" of a file that the administrator made
  later (`integration/pam.py:762`), both end in the deletion of her file.
  `BaseStays` allows this deletion and says that there is no third way to it.
- When the drop-in's `_write` fails after its rename (`integration/pam.py:367-373`:
  the directory's fsync, restorecon), enable rolls back in the order of the plan
  (line 559): KWallet's blocks go first and the drop-in last, against the order
  that `_plan` is made for (line 447); broken off in between, the drop-in stays
  without them. `DropInHasWallet` names it (`botched`). A user who
  chose Face between the option's write and such a failure keeps the choice
  without the option (`stuck`).
- A check that the administrator adds to a stack is not in front of the face line
  of a block that is installed already, until the next enable or refresh
  (`integration/pam.py:474`). `StacksStayGuarded` promises all checks when these
  are done with the file, and the vendor's at any time.
- A block whose END line was removed by hand is
  closed by the END of the next block, and the lines between them go with it
  (`integration/pam.py:243`).
- An activation of the emitter that fails half way leaves the control it was
  refused at unrestored, and `forget` also erases the blacklist
  (`emitter.py:265`, `emitter.py:150`).
- A rubber stamp that raises is passed over although the code says "Make the
  stamp fail by default" (`rubberstamps/__init__.py:155`), and an abort pressed
  during the last 0.1 s of `hotkey` is not looked at (`rubberstamps/hotkey.py:62`). `EveryStampPassed` counts a stamp
  that raised among those passed.
- The id of the last model is given again after it is removed, so an id chosen
  before a dialog may mean a model enrolled meanwhile (`MeantModel`).
- An old file that is left behind counts again once the last model is removed, so
  that removed models come back (`models.py:58`; `tests/test_models.py:86` has it
  left for the administrator). Root's command looks for a new file and writes its
  copy of the old one later: it overwrites what the service saved meanwhile
  (`models.py:80`), although migration "never overwrites" (`models.py:38`).
  `NothingLostNothingBack` names both and bounds them: only models of the old file
  come back, and only overwritten ones are lost.
- `webauthn/store.py:109` does not fsync the directory after its rename, and a
  reset destroys the keystore all users share (`webauthn/authenticator.py:368`);
  both are outside `Passkeys`.

### Fairness

Liveness is checked under weak fairness of every coroutine (the event loop runs
what can go on, and the bus, polkit and logind answer or fail within their time
limits), of every thread (threads are scheduled), and of time. In
`CameraRequests` a scan that keeps looking at frames meets its timeout: strong
fairness of the step that looks at the clock stands for the clock advancing.
Nobody is required to press a key, to cancel or to leave. In `CtapHid` a worker
that waits for the verifier's lock to end its verification gets it in the end
although the host cancels again and again (strong fairness of `EndVerify`: the
reader holds the lock for a few instructions and then has to read the next
report); a call to the service ends with its timeout at the latest, which is one
of the worker's steps. Nothing is required of the host.

In `Engine` the threads go on: a camera gives a frame or an error, loading ends
or fails. In `Emitter` a scan that has begun a capture goes on, because every query returns
and a scan has its timeout. The command line's test goes on too, except while it
streams: it has no timeout, and only its person ends it. The person at the search
need not answer. In `AutoLogin` the login that has begun goes on and so does the guard,
which systemd starts with the session and which polls a fixed number of times,
unless it is killed.
`PamFiles` and `ModelStore` have no liveness property.

## Proofs

Eight modules, each named after the one it is about, hold the proofs;
`AutoLoginProofs` is about `LoginSecret` too, which `AutoLogin` extends,
`EngineProofs` extends `Emitter` beside `Engine`, and `PamProofs` extends
`PamIdentify` and `PamFiles`, which is why `Emitter` and `PamFiles` have names of
their own for state and specification (`place`, `EmitterSpec`, `FilesSpec`). The
theorems hold for every value of the constants that satisfies the modules'
assumptions. Some hold of what the rest of the system does and the component
does not see to itself, and say so as a hypothesis:

| Hypothesis | Theorems | Why |
|---|---|---|
| `IdleOutlastsCount`: no idle exit, or not within `CONFIRM_PAUSE_SECONDS` | `RateIsLimited` | a restart forgets the misses; the defaults (600 s, 60 s) satisfy it |
| `OneLockScreen`: one request at most comes from a lock screen | `CameraStaysOffWhileAway` | two could pass the check before either fails |
| `StoresApart`: no two `store()` of one user at a time | `KeptWhole`, `WalletIsOwn` | both would write `<user>.new` |
| `StrobeShows`: the brightest frame is clearly brighter than the darkest, and `PATIENCE` is at least 2 | `PairingIsSound` | an emitter whose light does not show cannot be told from one that is off |

All but `StoresApart` are about constants, and the runs' configurations satisfy
them. `StoresApart` is about the states: the theorems speak of the behaviours in
which it always holds, and with one login of each user it holds in all of them.

*Elevation.* The inductive invariant `IInv` is the type invariant, finiteness of
the sets of misses, and four facts: `WindowInv` (`confirm_window` is the one
request that waits for Enter, so at most one thread reads the keyboards),
`EnterInv` (a press seen by a waiting request has not led to a scan, and later
presses have led to none), `OverlapInv` (a contested window is marked) and the
two properties themselves. `WindowInv` is what makes `OneScanPerEnter` true
although a key reaches every reader: there is never a second one.
`PauseIsHonoured` adds `PauseInv`, and holds whatever `IDLE_TIMEOUT` is: a pause is
remembered until it is over unless an idle exit forgot it, and since every
declaration counts as activity (`declared` is not after `last_activity`) that is
`IDLE_TIMEOUT` later at the earliest. It also
needs that a window that may still lead to a scan is not open while its user is
paused: a pause that begins during a window comes from a conflict, and the
conflict has marked that window.
`RateIsLimited` adds `RateInv`. Two counts are related there: the windows that
ran out (`lapsed`, history) and the misses the code remembers. A pause empties
the misses, and so the second count is at least the first (`CountedSince`) only
from the last pause on; the code keeps fewer misses than `CONFIRM_MISSES`
(`_confirm_missed` turns the last one into a pause), and a window opens only
when the pause is over and with it every window before it is old enough. Misses
of the same time are told apart by a number, and `Numbered` says that a new one
is not taken for an old one.

*PamIdentify.* `IInv` is the type invariant, `PlaceInv` (where the main thread
is tells which threads exist and which branch was taken), `AnswerInv` (an
answered request with result 0 was answered `SUCCESS`; every other status is
translated), `TypedInv` (a typed password is what `pam_get_authtok` returned)
and the three properties.

*CtapHid.* `IInv` is the type invariant, `Active` (`_active_cid` is the channel
of the one worker between `_start_cbor` and the locked end of `_run_cbor`),
`Running` (`_running` belongs to the worker that verifies, whose bus is set
before the call), `Cut` (what follows from a `cancel()` that met a verification,
by where the worker is) and `KeepaliveBeforeResponse`. `Active` gives
`OneCommand`: the test in `_start_cbor` is enough because `_active_cid` is given
back only after `handle_cbor` has returned. `Cut` says of every place between
the connection and the result that the mark is still set, which is what makes
the test after the call and the test before it sufficient together.
`CancelSignsNothing` and `CancelIsHeard` are its two halves. `OnlyResetDrops`
adds `ResetSaid`: while a command runs, `_cancelled` without a reply was said of
that command, because `_start_cbor` clears `_cancelled` before the thread starts
and what sets it again sets `_cancel_reply` with it.

*CameraRequests.* `LockInv` is the type invariant, `OneCamera`, `ThreadMatches`
(the thread of a request belongs to what its coroutine waits for) and `Line`
(`camera_lock`'s waiters wait, each once). `CancelPart` adds `Registered`: the
entry of `Manager.running` is the event of the request that waits or scans, unless
another request of its connection took it (`bumped`).
`StreakPart` adds `Counted`: the unattended scans are part of the streak, so that
a lock screen let through to the camera has a scan left.

*LoginSecret and AutoLogin.* `Forgotten` says that nothing can bring a password
back once auto-login is off with no `store()` under way. `TemporaryOwned` says
where the descriptor of a `store()` points and what is in the temporary file,
which is what makes the rename put a whole password in place; `OwnSecret` that
it is one of its user. `AutoLogin` implements `LoginSecret`
(`SessionsKeepSecretSpec`), so that these hold there too. For the guard, `Course`
says that it deletes `LockOnStart` only under its marker, `OwnLockSafe` that a
user's own setting has none and is not in the guard's hands unless the guard could
not know of it, and `MarkerSafe` that a marker which stands, or is about to, goes
with `LockOnStart`.

*Engine.* `IInv` is the types and a part for each property: `OwnCamera` (the
opener's thread has ended before the scan goes on), `Bright` (the counts of
`DarkFilter` tell whether a frame passed), `Stamped` (the rules before the one that
runs are passed, and what was said of a rule stays said) and `Paired` (the ambient
frame is from the last read). `PairingIsSound` adds `InStep`: while the emitter
strobes, the dark frame of a pair is remembered when the lit one comes, and at
most a lit frame at the start and the dark one after it go unpaired. The
assumption on the constants asks for a least and a greatest brightness, as the
levels of a picture have.

*Emitter.* `EmitterInv` is the types, `Places` (where a process is tells what it
has open, to write and to restore; a stored control is stored once) and, of
every control that is not excused, `Writes`, `Searched` and `Lit`. The danger is
a session that reads what another one has written as the value to restore.
`Writes` says it does not: what a plan may write to a control is one value
(`On`), a control that has it already is left alone, so a value worth writing
over is the camera's own. That needs `face_auth_target` to choose the same modes
whatever it finds (`TargetIs`), and that the search tries a control only while
nothing is stored for this camera, so that no session is on that control
(`Searched`). `Lit` is `HandedBack` with what a control may have meanwhile.

*ModelStore.* `IInv` is `Files` (finite, an id names one model, no number above
that of the last enrolment), `Copying` (a copy that root's command wrote is
still there, or the old file is of no account), `Chosen` (a model chosen before
the dialog is the one its id names, or that id was given to a model enrolled
since) and `Agreed` (what counts is what was enrolled and not removed, unless the
old file got in the way); `OldFile`, an invariant next to it, needs no such
exception: the old file and the copy hold its first models only, and a file lacks
no kept model but theirs and the overwritten ones. `Chosen` is what makes
`MeantModel` true over a removal and an enrolment during the dialog: `new_id` is above every id in use,
so an id that is in use never changes its model. That a finite set of ids has a
bound and a greatest member is proved by least counterexamples (`WFMin` of the
library's `WellFoundedInduction`), where an induction would take an operator.

*Passkeys.* `IInv` is the type invariant, `Holder` (a process inside the lock
holds the file in memory), `Commands` (what a command may still write, by its
operation), `Copies` (nothing is stored that was not registered), `Counters`
(no website has seen a counter the file has not reached) and `Outgoing` (the
assertions that wait, in a command or in the queue, are for different
credentials of the process's own websites, newer than what the website has seen
and not newer than the file). `Holder` gives the step simulation of
`StoreImplemented`; `CounterGrows` needs all of `Outgoing`: that no two waiting
assertions are for one credential is why one leaving does not make another
stale, and that a new getAssertion replaces the whole queue is why an older
assertion never follows a newer one.

*PamFiles.* The theorems hold for every installation, set of users, line of the
administrator's and bound, from these assumptions on the constants:

| Assumption | Why |
|---|---|
| `SystemsAssumption`: what a vendor installs are PAM service files, without our markers and kde-face's header | a package does not ship what this program writes |
| `AdminLinesAssumption`: neither does the administrator write those lines | the markers say that they are ours; with an END taken out by hand the text is not the program's any more (see the deviations) |
| `ChoiceAssumption`: a user's `kscreenlockerrc` has one `[Greeter]` and at most one choice in it, and nobody starts with Face at first | KConfig writes one group of a name and one entry of a key; there is no option yet |
| `UsersAssumption`: the users are finitely many | reset-system makes a list of them |

A recursive function over the lines of a text is what its step says at every
line (`FoldExists`), and an induction over lines is a least counterexample
(`LeastOf`, `UpTo`), because the induction theorems of the library are out of the
prover's reach. On this rest lemmas on what the operators return: `RemoveIs`
(`remove_block` leaves, of a text whose blocks are closed, the lines outside of
the blocks it was asked for, in their order), `SpliceBlocks`, `RemoveLaid`,
`InsertLaid`, `RememberLaid`, and types for the rest, the walk through includes
too.

`WalletKept` is `DropInHasWallet` by `WalletInv`. The property itself is not
inductive. `plasmalogin` may hold two kinds of block at once, face unlock's and
KWallet's, and each of `insert_block`, `insert_wallet_remember`, `remove_block`
and the sweep may run on what any earlier operation left, finished or not; if a
block could be put into another, or one's END were the other's, turning the face
off would take KWallet's lines along. `Laid` is the layout that rules it out: all
blocks are closed, face unlock's has an auth line of the file behind it and
KWallet's have one ahead of them, so that the first auth line is never inside
KWallet's block nor the last one inside face unlock's. The rest of `WalletInv` is
the order of the steps: `Enabling` (the drop-in is last, its two blocks are there
when its turn comes) and `Reverting` (the drop-in goes first); and rollback may
put files back in any order, because the drop-in is there throughout, or not at
all, or was written by the enable that failed (`botched`), which the property
excepts until the drop-in is removed.

`LockScreenSafe` is `LockScreenStarts` by `LockInv` next to `WalletInv`. Of the
option: enable never takes it away, and its rollback takes it only if enable had
written it, when whoever has chosen Face meanwhile is `stuck`; disable takes it only if nobody starts with Face, and
reset only after it has been through all users, and whoever chooses while one of
them is under way is `stuck`. Of the choice: `SetChoiceIs` shows for each of the
four cases of `set_choice` (replace, insert before the next group, append, add
the group) that the file stays as KConfig keeps it, the choice is read back and
the other lines are the same ones in the same order (`PickInserted`).

`FailedEnableRestores` is `RollbackRestores`, the first conjunct of
`AllOrNothing`, by `RollInv` next to `WalletInv`: in enable the files that differ
from `before` are those of the steps already taken, and in its rollback every
file that differs is still to be put back, in the plan that enable made once
(`op.plan`; pam.py:537). A step that fails after its write is covered: its file is
on the list like any other.

Only model-checked:

- liveness (under fairness, which is out of the prover's reach, as is
  `ENABLED`);
- `BaseStays`, `StacksStayGuarded` and the other conjuncts of `AllOrNothing`
  (`OffIsOff`, `ResetIsClean`, `CopiesGo`) of `PamFiles`. `BaseStays` and `CopiesGo`
  compare whole texts before and after, through the manifest, and would need an
  invariant that describes every file and every entry exactly, and what disable
  and reset leave depends on the same entries; `StacksStayGuarded` compares the
  walk with a closure over includes (`StackLines`), for which a bound on the depth
  of includes is not enough.

## Not modelled

- Device I/O: the readers, the discovery of cameras, `/dev/uhid`, UVC
  descriptors. `recorders/v4l2.py` is a transcription of a kernel header (2000
  lines of constants and structures) and has no behaviour.
- Neural network inference and cryptography (TPM, key wrapping): numeric, no
  protocol. That they may fail is part of `Engine`, `Passkeys` and `AutoLogin`.
- The Qt and QML user interface, text and translations, what commands print,
  `diagnose` and the security checklist, which only read.
- `settings.py`: a change reads, changes and replaces one file without an await
  in between, so that two requests of the service cannot meet; an administrator
  with an editor can.
- polkit, logind, plasmalogin, KWin, kscreenlocker and pam_kwallet5 themselves:
  what the code uses of them is a free choice or an action marked external.
