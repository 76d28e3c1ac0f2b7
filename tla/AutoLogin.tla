------------------------------ MODULE AutoLogin ------------------------------
(***************************************************************************)
(* A session of the automatic login, from the boot to the lock screen:     *)
(* plasmalogin starts it for the user of our drop-in (external), the PAM   *)
(* module asks the service for the kept password and hands it to KWallet   *)
(* (pam/main.cc, Manager.login_secret, secrets.load), and the lock guard   *)
(* (session/linux-hello-lock-guard) locks the screen or ends the session.  *)
(* Composed with LoginSecret: the drop-in and the kept password may change *)
(* at every step.                                                          *)
(***************************************************************************)
EXTENDS LoginSecret

CONSTANTS
  Polls,           \* how often the guard looks: GRACE * 4
  Choosers         \* bound: the users who ever change LockOnStart themselves

ASSUME AutoLoginAssumption == Polls \in Nat \ {0} /\ Choosers \subseteq User

VARIABLES
  sess,            \* the session at the screen: "none", "auto" or "password"
  sess_user,
  wallet,          \* what KWallet got: a login's password
  asking,          \* where give_kwallet_password is
  locked,          \* ScreenSaver.GetActive
  guard, steps,    \* where the lock guard is
  lock_on_start,   \* kscreenlockerrc: LockOnStart
  marker,          \* kscreenlockerrc: LinuxHelloLockOnStart
  \* history, read by the properties only
  was_locked,      \* the screen was locked in this session
  unguarded,       \* the guard of this session died, or loginctl failed it
  own,             \* users who turned LockOnStart on themselves
  claimed,         \* of these, those whom the guard could not know of
  left             \* users whose marker may stand although LockOnStart is off

session == <<sess, sess_user, wallet, asking>>
screen == <<locked, was_locked, unguarded>>
owners == <<own, claimed, left>>
choice == <<lock_on_start, marker, owners>>
autovars == <<vars, session, screen, guard, steps, choice>>

AutoInit ==
  /\ Init
  /\ sess = "none" /\ sess_user = NoUser /\ wallet = Nothing /\ asking = "no"
  /\ locked = FALSE /\ was_locked = FALSE /\ unguarded = FALSE
  /\ guard = "none" /\ steps = 0
  /\ lock_on_start = [u \in User |-> FALSE]
  /\ marker = [u \in User |-> FALSE]
  /\ own = {} /\ claimed = {} /\ left = {}

-----------------------------------------------------------------------------
(***************************************************************************)
(* Sessions.                                                               *)
(***************************************************************************)

\* Plasma starts: with LockOnStart behind the lock screen, if that starts
Plasma(u) ==
  /\ locked' \in {FALSE, lock_on_start[u]}
  /\ was_locked' = locked' /\ unguarded' = FALSE
  /\ guard' = "look" /\ steps' = 0
  /\ UNCHANGED choice

\* plasmalogin reads our drop-in; "kwallet" comes first in its auth stack
AutoLoginStarts ==
  /\ sess = "none" /\ autologin_user \in User
  /\ sess' = "auto" /\ sess_user' = autologin_user
  /\ wallet' = Nothing /\ asking' = "asked"
  /\ UNCHANGED <<vars, screen, guard, steps, choice>>

\* login_secret: the service answers only for whom it keeps one
Asked ==
  /\ asking = "asked"
  /\ asking' = IF autologin_user = sess_user /\ allowed THEN "load" ELSE "open"
  /\ UNCHANGED <<vars, sess, sess_user, wallet, screen, guard, steps, choice>>

\* Fault: the file that is being written is loaded
LoadNew ==
  /\ asking = "load"
  /\ wallet' \in {temporary[sess_user], Nothing}
  /\ asking' = "open"
  /\ UNCHANGED <<vars, sess, sess_user, screen, guard, steps, choice>>

\* secrets.load, in a thread; the TPM may refuse what it sealed.  What comes is
\* set as the password, which pam_kwallet5 takes
Load ==
  /\ asking = "load"
  /\ wallet' \in {secret[sess_user], Nothing}
  /\ asking' = "open"
  /\ UNCHANGED <<vars, sess, sess_user, screen, guard, steps, choice>>

\* The session opens, whatever came of it
OpenAuto ==
  /\ asking = "open"
  /\ asking' = "no"
  /\ Plasma(sess_user)
  /\ UNCHANGED <<vars, sess, sess_user, wallet>>

\* hold_password and remember_password: a login with the password hands it to
\* the service when the session opens
PasswordLogin(l) ==
  /\ sess = "none"
  /\ Remember(l)
  /\ sess' = "password" /\ sess_user' = LoginUser[l] /\ wallet' = l
  /\ Plasma(LoginUser[l])
  /\ UNCHANGED asking

\* A login with the face: there is no password to hold
FaceLogin(u) ==
  /\ sess = "none"
  /\ sess' = "password" /\ sess_user' = u /\ wallet' = Nothing
  /\ Plasma(u)
  /\ UNCHANGED <<vars, asking>>

\* A guard that is cut short between its two deletions leaves the marker
CutShort == left' = IF guard = "unmark" THEN left \cup {sess_user} ELSE left

SessionEnds ==
  /\ sess' = "none" /\ sess_user' = NoUser /\ wallet' = Nothing /\ asking' = "no"
  /\ guard' = "none" /\ steps' = 0
  /\ locked' = FALSE /\ was_locked' = FALSE /\ unguarded' = FALSE
  /\ CutShort
  /\ UNCHANGED <<lock_on_start, marker, own, claimed>>

Logout == sess # "none" /\ asking = "no" /\ SessionEnds /\ UNCHANGED vars

\* The person at the screen unlocks it
Unlock ==
  /\ locked /\ locked' = FALSE
  /\ UNCHANGED <<vars, session, was_locked, unguarded, guard, steps, choice>>

\* LockOnStart in the System Settings.  Turned on while the marker says that it
\* is ours, or while the guard makes it so, it is not told apart
UserSets(u) ==
  /\ lock_on_start' = [lock_on_start EXCEPT ![u] = ~@]
  /\ LET taken == sess_user = u /\ guard \in {"write", "mark"} IN
       IF lock_on_start'[u]
       THEN /\ own' = own \cup {u}
            /\ claimed' = IF marker[u] \/ taken THEN claimed \cup {u} ELSE claimed \ {u}
            /\ left' = left \ {u}
       ELSE /\ own' = own \ {u} /\ claimed' = claimed \ {u}
            /\ left' = IF marker[u] \/ taken THEN left \cup {u} ELSE left
  /\ UNCHANGED <<vars, session, screen, guard, steps, marker>>

-----------------------------------------------------------------------------
(***************************************************************************)
(* The lock guard.                                                         *)
(***************************************************************************)

guarding == <<vars, session>>

\* Fault: LockOnStart is taken over although it is on already
GuardLooksTakeOver ==
  /\ guard = "look"
  /\ guard' = CASE sess = "auto" -> "write"
                [] sess # "auto" /\ autologin_user = NoUser /\ marker[sess_user] -> "delete"
                [] OTHER -> "over"
  /\ UNCHANGED <<guarding, screen, steps, choice>>

\* autologin_session, and what set_lock_on_start reads first.  Without an
\* answer from loginctl the session is taken for one with a password; without
\* kwriteconfig6 nothing is written; and what kreadconfig6 cannot read is not
\* "true": a LockOnStart of the user's own is taken over then
GuardLooks ==
  /\ guard = "look"
  /\ \E found \in {sess = "auto", FALSE}, read \in BOOLEAN :
       /\ guard' \in
            IF found
            THEN IF read /\ lock_on_start[sess_user] THEN {"poll"} ELSE {"write", "poll"}
            ELSE IF read /\ autologin_user = NoUser /\ marker[sess_user]
                 THEN {"delete", "over"} ELSE {"over"}
       /\ claimed' = IF guard' = "write" /\ ~read THEN claimed \cup (own \cap {sess_user})
                                                     ELSE claimed
       /\ unguarded' = (sess = "auto" /\ ~found)
  /\ UNCHANGED <<guarding, locked, was_locked, steps, lock_on_start, marker, own, left>>

\* set_lock_on_start on: two writes
WriteLockOnStart ==
  /\ guard = "write" /\ guard' = "mark"
  /\ lock_on_start' = [lock_on_start EXCEPT ![sess_user] = TRUE]
  /\ left' = left \ {sess_user}
  /\ UNCHANGED <<guarding, screen, steps, marker, own, claimed>>

WriteMarker ==
  /\ guard = "mark" /\ guard' = "poll"
  /\ marker' = [marker EXCEPT ![sess_user] = TRUE]
  /\ UNCHANGED <<guarding, screen, steps, lock_on_start, owners>>

\* set_lock_on_start off: two deletions
DeleteLockOnStart ==
  /\ guard = "delete" /\ guard' = "unmark"
  /\ lock_on_start' = [lock_on_start EXCEPT ![sess_user] = FALSE]
  /\ UNCHANGED <<guarding, screen, steps, marker, owners>>

DeleteMarker ==
  /\ guard = "unmark" /\ guard' = "over"
  /\ marker' = [marker EXCEPT ![sess_user] = FALSE]
  /\ left' = left \ {sess_user}
  /\ UNCHANGED <<guarding, screen, steps, lock_on_start, own, claimed>>

\* Is the screen locked? If not, it is told to lock, which it may do or not
Poll ==
  /\ guard = "poll" /\ steps < Polls
  /\ IF locked
     THEN guard' = "over" /\ UNCHANGED <<steps, locked, was_locked>>
     ELSE /\ steps' = steps + 1 /\ guard' = guard
          /\ locked' \in BOOLEAN /\ was_locked' = (was_locked \/ locked')
  /\ UNCHANGED <<guarding, unguarded, choice>>

\* Fault: the guard starts over
GraceAgain ==
  /\ guard = "poll" /\ steps = Polls
  /\ steps' = 0
  /\ UNCHANGED <<guarding, guard, screen, choice>>

\* loginctl terminate-session
Grace ==
  /\ guard = "poll" /\ steps = Polls
  /\ SessionEnds
  /\ UNCHANGED vars

\* ... which may fail
GraceFails ==
  /\ guard = "poll" /\ steps = Polls
  /\ guard' = "over" /\ unguarded' = TRUE
  /\ UNCHANGED <<guarding, locked, was_locked, steps, choice>>

\* The guard's process is killed; its unit is not started again
GuardDies ==
  /\ guard \notin {"none", "over"}
  /\ guard' = "over" /\ unguarded' = (sess = "auto")
  /\ CutShort
  /\ UNCHANGED <<guarding, locked, was_locked, steps, lock_on_start, marker, own, claimed>>

\* Power is lost
AutoCrash ==
  /\ sess # "none"
  /\ SessionEnds
  /\ IF \E l \in Login : pc[l] # "idle" THEN Crash ELSE UNCHANGED vars

-----------------------------------------------------------------------------
Opening == Asked \/ Load \/ OpenAuto
Guard ==
  \/ GuardLooks \/ WriteLockOnStart \/ WriteMarker \/ DeleteLockOnStart \/ DeleteMarker
  \/ Poll \/ Grace \/ GraceFails

Settings ==
  /\ \/ \E u \in User : TurnOn(u)
     \/ TurnOff \/ TurnOffFails \/ ResetSystem \/ SetInsecure
     \/ \E l \in Login : Store(l)
     \/ Crash /\ sess = "none"
  /\ UNCHANGED <<session, screen, guard, steps, choice>>

AutoNext ==
  \/ Settings
  \/ AutoLoginStarts \/ Opening \/ Logout \/ Unlock \/ Guard \/ GuardDies \/ AutoCrash
  \/ \E l \in Login : PasswordLogin(l)
  \/ \E u \in User : FaceLogin(u)
  \/ \E u \in Choosers : UserSets(u)

\* The login goes on and the guard's service runs; nobody has to log in
AutoSpec == AutoInit /\ [][AutoNext]_autovars /\ WF_autovars(Opening) /\ WF_autovars(Guard)

-----------------------------------------------------------------------------
(***************************************************************************)
(* Properties.                                                             *)
(***************************************************************************)

\* KWallet is handed the whole password of one login of its own user, whatever
\* is stored, forgotten or handed over to another user meanwhile
WalletGetsOwn ==
  wallet # Nothing => wallet \in Login /\ LoginUser[wallet] = sess_user

\* "Left alone when the user turned it on themselves": the guard deletes a
\* LockOnStart that the user turned on only where it could not know of it: she
\* did so while the marker stood or was about to be written, or kreadconfig6
\* failed.  And the marker stands alone, ready to have a setting of hers deleted,
\* only where she turned LockOnStart off under it or where a guard was cut short
\* between its two deletions (set_lock_on_start)
OwnLockKept ==
  /\ \A u \in own : lock_on_start[u] \/ u \in claimed
  /\ \A u \in User :
       marker[u] /\ ~lock_on_start[u] => u \in left \/ (sess_user = u /\ guard = "unmark")

\* A session that started without a password is locked or ended, also when the
\* lock screen does not start: unless the guard dies, or loginctl tells it of no
\* session or does not end it
LockedOrEnded == sess = "auto" ~> (was_locked \/ sess # "auto" \/ unguarded)
=============================================================================
