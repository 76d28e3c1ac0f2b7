----------------------------- MODULE LoginSecret -----------------------------
(***************************************************************************)
(* The login password kept for KWallet: Manager.set_target for auto-login, *)
(* Manager.remember_login_secret, store() and forget() of                  *)
(* daemon/secrets.py, what PamIntegration does to the auto-login drop-in,  *)
(* and `linux-hello-cli reset-system', a process of its own.               *)
(*                                                                         *)
(* A login is one RememberLoginSecret call.  store() runs in a thread, so  *)
(* whatever the event loop does may come between its steps; set_target     *)
(* has no await after its permission check and is one step.                *)
(***************************************************************************)
EXTENDS Integers

CONSTANTS
  User,
  NoUser,         \* no drop-in
  Login,          \* sessions opened with a password, one call at a time each
  LoginUser,      \* whose session it is
  Nothing,        \* no such file
  Empty,          \* a file that was just opened for writing
  Torn            \* anything but the password of one login

ASSUME SecretAssumption ==
  /\ NoUser \notin User
  /\ LoginUser \in [Login -> User]
  /\ {Nothing, Empty, Torn} \cap Login = {}
  /\ Nothing # Empty /\ Nothing # Torn /\ Empty # Torn

VARIABLES
  autologin_user,  \* the user our drop-in names
  allowed,         \* _auto_login_allowed: encrypted disk or insecure_auto_login
  secret,          \* user -> what secrets/<user> holds: a login's password
  temporary,       \* user -> the same for secrets/<user>.new
  pc,              \* login -> where its store() is
  fd,              \* login -> the name of the file it has open, "gone" for none
  \* history, read by the properties only
  turned_off       \* user -> turned off through the service since last on:
                   \* "clean", or "racing" when a store() was under way

vars == <<autologin_user, allowed, secret, temporary, pc, fd, turned_off>>

Content == Login \cup {Nothing, Empty, Torn}

TypeOK ==
  /\ autologin_user \in User \cup {NoUser}
  /\ allowed \in BOOLEAN
  /\ secret \in [User -> Content]
  /\ temporary \in [User -> Content]
  /\ pc \in [Login -> {"idle", "sealing", "open", "written"}]
  /\ fd \in [Login -> {"none", "temporary", "secret", "gone"}]
  /\ turned_off \in [User -> {"no", "clean", "racing"}]

Init ==
  /\ autologin_user = NoUser
  /\ allowed \in BOOLEAN
  /\ secret = [u \in User |-> Nothing]
  /\ temporary = [u \in User |-> Nothing]
  /\ pc = [l \in Login |-> "idle"]
  /\ fd = [l \in Login |-> "none"]
  /\ turned_off = [u \in User |-> "no"]

Storing(u) == \E l \in Login : LoginUser[l] = u /\ pc[l] # "idle"

\* The files that were open under one name are now open under another
Renamed(u, from, to) ==
  [l \in Login |-> IF LoginUser[l] = u /\ fd[l] = from THEN to ELSE fd[l]]

-----------------------------------------------------------------------------
(***************************************************************************)
(* Turning auto-login on and off.                                          *)
(***************************************************************************)

\* set_target("auto-login", True) by u: the drop-in names whoever turned it on
TurnOn(u) ==
  /\ allowed
  /\ autologin_user' = u
  /\ turned_off' = [turned_off EXCEPT ![u] = "no"]
  /\ UNCHANGED <<allowed, secret, temporary, pc, fd>>

\* Fault: the drop-in goes first, and with it the name of the user to forget
TurnOffDropInFirst ==
  /\ autologin_user \in User
  /\ autologin_user' = NoUser
  /\ turned_off' = [turned_off EXCEPT ![autologin_user] =
                      IF Storing(autologin_user) THEN "racing" ELSE "clean"]
  /\ UNCHANGED <<allowed, secret, temporary, pc, fd>>

\* set_target("auto-login", False): forget() the user's secret, then the drop-in
TurnOff ==
  /\ autologin_user \in User
  /\ secret' = [secret EXCEPT ![autologin_user] = Nothing]
  /\ fd' = Renamed(autologin_user, "secret", "gone")
  /\ autologin_user' = NoUser
  /\ turned_off' = [turned_off EXCEPT ![autologin_user] =
                      IF Storing(autologin_user) THEN "racing" ELSE "clean"]
  /\ UNCHANGED <<allowed, temporary, pc>>

\* PamIntegration.disable fails: the secret is gone, the drop-in stays
TurnOffFails ==
  /\ autologin_user \in User
  /\ secret' = [secret EXCEPT ![autologin_user] = Nothing]
  /\ fd' = Renamed(autologin_user, "secret", "gone")
  /\ UNCHANGED <<autologin_user, allowed, temporary, pc, turned_off>>

\* reset-system removes the drop-in without the service
ResetSystem ==
  /\ autologin_user \in User
  /\ autologin_user' = NoUser
  /\ UNCHANGED <<allowed, secret, temporary, pc, fd, turned_off>>

\* insecure_auto_login is set or unset
SetInsecure ==
  /\ allowed' = ~allowed
  /\ UNCHANGED <<autologin_user, secret, temporary, pc, fd, turned_off>>

-----------------------------------------------------------------------------
(***************************************************************************)
(* remember_login_secret and store().                                      *)
(***************************************************************************)

\* A session opens: the password is dropped, or store() starts in a thread
Remember(l) ==
  /\ pc[l] = "idle"
  /\ pc' = [pc EXCEPT ![l] =
              IF autologin_user = LoginUser[l] /\ allowed
              THEN "sealing" ELSE "idle"]
  /\ UNCHANGED <<autologin_user, allowed, secret, temporary, fd, turned_off>>

\* Fault: the file itself is opened for writing
OpenInPlace(l) ==
  /\ pc[l] = "sealing"
  /\ pc' = [pc EXCEPT ![l] = "open"]
  /\ fd' = [fd EXCEPT ![l] = "secret"]
  /\ secret' = [secret EXCEPT ![LoginUser[l]] = Empty]
  /\ UNCHANGED <<autologin_user, allowed, temporary, turned_off>>

\* Sealed by the TPM or not: os.open with O_CREAT and O_TRUNC
OpenTemporary(l) ==
  /\ pc[l] = "sealing"
  /\ pc' = [pc EXCEPT ![l] = "open"]
  /\ fd' = [fd EXCEPT ![l] = "temporary"]
  /\ temporary' = [temporary EXCEPT ![LoginUser[l]] = Empty]
  /\ UNCHANGED <<autologin_user, allowed, secret, turned_off>>

\* What a file holds once l has written to its beginning: the end of a longer
\* password that was there stays
After(content, l) == IF content \in {Nothing, Empty, l} THEN {l} ELSE {l, Torn}

\* write, flush and fsync, to the file that was opened whatever its name is now
Write(l) ==
  LET u == LoginUser[l] IN
  /\ pc[l] = "open"
  /\ pc' = [pc EXCEPT ![l] = "written"]
  /\ \/ /\ fd[l] = "temporary"
        /\ \E c \in After(temporary[u], l) :
             temporary' = [temporary EXCEPT ![u] = c]
        /\ UNCHANGED secret
     \/ /\ fd[l] = "secret"
        /\ \E c \in After(secret[u], l) : secret' = [secret EXCEPT ![u] = c]
        /\ UNCHANGED temporary
     \/ /\ fd[l] = "gone"
        /\ UNCHANGED <<secret, temporary>>
  /\ UNCHANGED <<autologin_user, allowed, fd, turned_off>>

\* os.replace; it fails when another thread's has taken the file
Replace(l) ==
  LET u == LoginUser[l] IN
  /\ pc[l] = "written"
  /\ pc' = [pc EXCEPT ![l] = "idle"]
  /\ IF temporary[u] = Nothing
     THEN /\ fd' = [fd EXCEPT ![l] = "none"]
          /\ UNCHANGED <<secret, temporary>>
     ELSE /\ secret' = [secret EXCEPT ![u] = temporary[u]]
          /\ temporary' = [temporary EXCEPT ![u] = Nothing]
          /\ fd' = [k \in Login |->
                      CASE k = l                                    -> "none"
                        [] k # l /\ LoginUser[k] = u /\ fd[k] = "secret"
                                                                    -> "gone"
                        [] k # l /\ LoginUser[k] = u /\ fd[k] = "temporary"
                                                                    -> "secret"
                        [] OTHER                                    -> fd[k]]
  /\ UNCHANGED <<autologin_user, allowed, turned_off>>

\* No password, no disk space, an error of the disk: once it was opened, the
\* file that has the temporary name is unlinked
StoreFails(l) ==
  LET u == LoginUser[l] IN
  /\ pc[l] # "idle"
  /\ pc' = [pc EXCEPT ![l] = "idle"]
  /\ IF pc[l] # "sealing"
     THEN /\ temporary' = [temporary EXCEPT ![u] = Nothing]
          /\ fd' = [Renamed(u, "temporary", "gone") EXCEPT ![l] = "none"]
     ELSE UNCHANGED <<temporary, fd>>
  /\ UNCHANGED <<autologin_user, allowed, secret, turned_off>>

\* Power is lost: a file that was being written may hold anything
Crash ==
  /\ \E l \in Login : pc[l] # "idle"
  /\ pc' = [l \in Login |-> "idle"]
  /\ fd' = [l \in Login |-> "none"]
  /\ LET Lost(name, u) == \E l \in Login : /\ LoginUser[l] = u
                                           /\ pc[l] = "open"
                                           /\ fd[l] = name
     IN /\ temporary' = [u \in User |-> IF Lost("temporary", u) THEN Torn
                                        ELSE temporary[u]]
        /\ secret' = [u \in User |-> IF Lost("secret", u) THEN Torn
                                     ELSE secret[u]]
  /\ turned_off' = [u \in User |-> IF turned_off[u] = "racing" THEN "no"
                                   ELSE turned_off[u]]
  /\ UNCHANGED <<autologin_user, allowed>>

-----------------------------------------------------------------------------
Store(l) ==
  \/ OpenTemporary(l)
  \/ Write(l)
  \/ Replace(l)
  \/ StoreFails(l)

Next ==
  \/ \E u \in User : TurnOn(u)
  \/ TurnOff
  \/ TurnOffFails
  \/ ResetSystem
  \/ SetInsecure
  \/ \E l \in Login : Remember(l) \/ Store(l)
  \/ Crash

Spec == Init /\ [][Next]_vars

-----------------------------------------------------------------------------
(***************************************************************************)
(* Properties.                                                             *)
(***************************************************************************)

\* Turning auto-login off in the settings with no store() under way leaves no
\* password behind, and none comes back until it is turned on again
OffForgets == \A u \in User : turned_off[u] = "clean" => secret[u] = Nothing

\* A password is kept only while auto-login is on for its user, a store() that
\* was under way when it was turned off aside
KeptOnlyWhileOn ==
  \A u \in User :
    secret[u] # Nothing /\ turned_off[u] # "racing" => autologin_user = u

\* What is kept is the whole password of one login, wherever store() was
\* interrupted
KeptIsWhole == \A u \in User : secret[u] \in Login \cup {Nothing}
=============================================================================
