---------------------------- MODULE AutoLoginProofs ----------------------------
(***************************************************************************)
(* Proofs about modules LoginSecret and AutoLogin, for any number of users *)
(* and logins.                                                             *)
(***************************************************************************)
EXTENDS AutoLogin, TLAPS

(***************************************************************************)
(* No two store() calls of one user run at a time.  The code does not see  *)
(* to it: both would write <user>.new.                                     *)
(***************************************************************************)
StoresApart ==
  \A k, l \in Login :
    LoginUser[k] = LoginUser[l] /\ pc[k] # "idle" /\ pc[l] # "idle" => k = l

(***************************************************************************)
(* The inductive invariants of the kept password.                          *)
(***************************************************************************)

\* Turned off with no store() under way, nothing can bring a password back
\* before auto-login is turned on again
Forgotten ==
  \A u \in User :
    turned_off[u] = "clean" => ~Storing(u) /\ autologin_user # u /\ secret[u] = Nothing

\* A store() has <user>.new for itself, and it holds what was written last
TemporaryOwned ==
  \A l \in Login :
    /\ pc[l] \in {"idle", "sealing"} => fd[l] = "none"
    /\ pc[l] \in {"open", "written"} => fd[l] = "temporary"
    /\ pc[l] = "open" => temporary[LoginUser[l]] = Empty
    /\ pc[l] = "written" => temporary[LoginUser[l]] = l

\* The kept password is that of one login of its user
OwnSecret ==
  \A u \in User : secret[u] # Nothing => secret[u] \in Login /\ LoginUser[secret[u]] = u

(***************************************************************************)
(* The inductive invariants of the session and the lock guard.             *)
(***************************************************************************)

\* The guard runs in a session only, and deletes LockOnStart only under the
\* marker
Course ==
  /\ sess_user \in User \cup {NoUser}
  /\ lock_on_start \in [User -> BOOLEAN] /\ marker \in [User -> BOOLEAN]
  /\ own \subseteq User
  /\ sess = "none" => guard = "none" /\ asking = "no"
  /\ sess # "none" => sess_user \in User
  /\ asking # "no" => guard = "none"
  /\ guard \in {"delete", "unmark"} => marker[sess_user]

\* A LockOnStart of the user's own that the guard could know of is on, has no
\* marker and is not in the guard's hands
OwnLockSafe ==
  \A u \in own \ claimed :
    /\ lock_on_start[u] /\ ~marker[u]
    /\ sess_user = u => guard \notin {"write", "mark", "delete", "unmark"}

\* A marker that stands, or is about to, goes with LockOnStart, but for the
\* users noted
MarkerSafe ==
  /\ \A u \in User :
       marker[u] => lock_on_start[u] \/ u \in left \/ (sess_user = u /\ guard = "unmark")
  /\ guard = "mark" => lock_on_start[sess_user] \/ sess_user \in left

-----------------------------------------------------------------------------
(***************************************************************************)
(* Types, and the password that is forgotten.                              *)
(***************************************************************************)

LEMMA InitTyped == Init => TypeOK /\ Forgotten
<1> SUFFICES ASSUME Init PROVE TypeOK /\ Forgotten
  OBVIOUS
<1>1. TypeOK
  BY DEF Init, TypeOK, Content
<1> QED
  BY <1>1 DEF Init, Forgotten

LEMMA SwitchKeepsTyped ==
  ASSUME TypeOK, Forgotten,
         TurnOff \/ TurnOffFails \/ ResetSystem \/ SetInsecure \/ \E u \in User : TurnOn(u)
  PROVE  TypeOK' /\ Forgotten'
<1> USE DEF TypeOK, Content
<1>1. ASSUME NEW u \in User, TurnOn(u) PROVE TypeOK' /\ Forgotten'
  BY <1>1 DEF TurnOn, Forgotten, Storing
<1>2. ASSUME autologin_user \in User PROVE
        Renamed(autologin_user, "secret", "gone")
          \in [Login -> {"none", "temporary", "secret", "gone"}]
  BY DEF Renamed
<1>3. CASE TurnOff
  <2>1. TypeOK'
    BY <1>2, <1>3, SecretAssumption DEF TurnOff
  <2>2. ASSUME NEW u \in User, turned_off'[u] = "clean"
        PROVE  ~Storing(u)' /\ autologin_user' # u /\ secret'[u] = Nothing
    <3>1. CASE u = autologin_user
      BY <1>3, <2>2, <3>1, SecretAssumption DEF TurnOff, Storing
    <3>2. CASE u # autologin_user
      BY <1>3, <2>2, <3>2, SecretAssumption DEF TurnOff, Storing, Forgotten
    <3> QED
      BY <3>1, <3>2
  <2> QED
    BY <2>1, <2>2 DEF Forgotten
<1>4. CASE TurnOffFails
  BY <1>2, <1>4, SecretAssumption DEF TurnOffFails, Forgotten, Storing
<1>5. CASE ResetSystem
  BY <1>5, SecretAssumption DEF ResetSystem, Forgotten, Storing
<1>6. CASE SetInsecure
  BY <1>6 DEF SetInsecure, Forgotten, Storing
<1> QED
  BY <1>1, <1>3, <1>4, <1>5, <1>6

\* store() works for a user for whom it is under way
LEMMA StoreKeepsTyped ==
  ASSUME TypeOK, Forgotten, NEW l \in Login, Remember(l) \/ Store(l)
  PROVE  TypeOK' /\ Forgotten'
<1> USE DEF TypeOK, Content
<1>0. LoginUser[l] \in User
  BY SecretAssumption
<1>1. CASE Remember(l)
  BY <1>0, <1>1 DEF Remember, Forgotten, Storing
<1>2. ASSUME pc[l] # "idle",
             UNCHANGED <<autologin_user, turned_off>>,
             \A k \in Login : pc'[k] # "idle" => pc[k] # "idle",
             \A u \in User \ {LoginUser[l]} : secret'[u] = secret[u]
      PROVE  Forgotten'
  BY <1>2 DEF Forgotten, Storing
<1>3. CASE OpenTemporary(l)
  <2>1. TypeOK'
    BY <1>0, <1>3 DEF OpenTemporary
  <2> QED
    BY <1>2, <1>3, <2>1 DEF OpenTemporary
<1>4. CASE Write(l)
  <2>1. \A c \in Content : After(c, l) \subseteq Content
    BY DEF After
  <2>2. /\ temporary' \in [User -> Content] /\ secret' \in [User -> Content]
        /\ \A u \in User \ {LoginUser[l]} : secret'[u] = secret[u]
    BY <1>0, <1>4, <2>1 DEF Write
  <2>3. TypeOK'
    BY <1>4, <2>2 DEF Write
  <2> QED
    BY <1>2, <1>4, <2>2, <2>3 DEF Write
<1>5. CASE Replace(l)
  <2>1. fd' \in [Login -> {"none", "temporary", "secret", "gone"}]
    BY <1>5 DEF Replace
  <2>2. /\ temporary' \in [User -> Content] /\ secret' \in [User -> Content]
        /\ \A u \in User \ {LoginUser[l]} : secret'[u] = secret[u]
    BY <1>0, <1>5 DEF Replace
  <2>3. TypeOK'
    BY <1>5, <2>1, <2>2 DEF Replace
  <2> QED
    BY <1>2, <1>5, <2>2, <2>3 DEF Replace
<1>6. CASE StoreFails(l)
  <2>1. Renamed(LoginUser[l], "temporary", "gone")
          \in [Login -> {"none", "temporary", "secret", "gone"}]
    BY DEF Renamed
  <2>2. TypeOK'
    BY <1>0, <1>6, <2>1 DEF StoreFails
  <2> QED
    BY <1>2, <1>6, <2>2 DEF StoreFails
<1> QED
  BY <1>1, <1>3, <1>4, <1>5, <1>6 DEF Store

LEMMA CrashKeepsTyped ==
  ASSUME TypeOK, Forgotten, Crash
  PROVE  TypeOK' /\ Forgotten'
<1> USE DEF TypeOK, Content
<1>1. TypeOK'
  BY DEF Crash
<1>2. ASSUME NEW u \in User, turned_off'[u] = "clean"
      PROVE  ~Storing(u)' /\ autologin_user' # u /\ secret'[u] = Nothing
  <2>1. turned_off[u] = "clean"
    BY <1>2 DEF Crash
  <2>2. secret'[u] = secret[u]
    BY <2>1 DEF Crash, Forgotten, Storing
  <2> QED
    BY <2>1, <2>2 DEF Crash, Forgotten, Storing
<1> QED
  BY <1>1, <1>2 DEF Forgotten

LEMMA TypedInductive == TypeOK /\ Forgotten /\ [Next]_vars => (TypeOK /\ Forgotten)'
<1> SUFFICES ASSUME TypeOK, Forgotten, [Next]_vars PROVE TypeOK' /\ Forgotten'
  OBVIOUS
<1>1. CASE UNCHANGED vars
  BY <1>1 DEF vars, TypeOK, Forgotten, Storing
<1> QED
  BY <1>1, SwitchKeepsTyped, StoreKeepsTyped, CrashKeepsTyped DEF Next

LEMMA TypedInvariance == Spec => [](TypeOK /\ Forgotten)
BY InitTyped, TypedInductive, PTL DEF Spec

\* The drop-in, both files and the store() calls keep their types
THEOREM SecretTypeCorrect == Spec => []TypeOK
BY TypedInvariance, PTL

\* set_target and forget(): once auto-login was turned off with no store()
\* under way, no password of the user is kept before it is turned on again,
\* however many other users turn it on and off, log in, or lose power
THEOREM OffMeansForgotten == Spec => []OffForgets
<1>1. Forgotten => OffForgets
  BY DEF Forgotten, OffForgets
<1> QED
  BY <1>1, TypedInvariance, PTL

-----------------------------------------------------------------------------
(***************************************************************************)
(* The password that is kept.                                              *)
(***************************************************************************)

Whole == TypeOK /\ TemporaryOwned /\ OwnSecret

\* Steps that leave store() and its files alone, or remove a kept password
LEMMA SwitchKeepsWhole ==
  ASSUME Whole, TypeOK', UNCHANGED <<pc, temporary, fd>>,
         \A u \in User : secret'[u] \in {secret[u], Nothing}
  PROVE  Whole'
BY DEF Whole, TypeOK, TemporaryOwned, OwnSecret

\* No store() writes to the kept file itself
LEMMA NoneInPlace ==
  ASSUME Whole, NEW u \in User
  PROVE  Renamed(u, "secret", "gone") = fd
<1>1. \A l \in Login : fd[l] # "secret"
  BY DEF Whole, TypeOK, TemporaryOwned
<1> QED
  BY <1>1 DEF Renamed, Whole, TypeOK

LEMMA StoreKeepsWhole ==
  ASSUME Whole, StoresApart, TypeOK', NEW l \in Login, Remember(l) \/ Store(l)
  PROVE  Whole'
<1> DEFINE u == LoginUser[l]
<1>0. u \in User
  BY SecretAssumption
<1> USE DEF Whole, TypeOK
<1>1. CASE Remember(l)
  BY <1>1 DEF Remember, TemporaryOwned, OwnSecret
<1>2. ASSUME pc[l] # "idle", NEW k \in Login \ {l}, pc[k] # "idle" PROVE LoginUser[k] # u
  BY <1>2 DEF StoresApart
<1>3. CASE OpenTemporary(l)
  BY <1>0, <1>2, <1>3 DEF OpenTemporary, TemporaryOwned, OwnSecret
<1>4. CASE Write(l)
  <2>1. fd[l] = "temporary" /\ temporary[u] = Empty
    BY <1>4 DEF Write, TemporaryOwned
  <2>2. After(temporary[u], l) = {l}
    BY <2>1 DEF After
  <2>3. /\ temporary' = [temporary EXCEPT ![u] = l] /\ secret' = secret
        /\ pc' = [pc EXCEPT ![l] = "written"] /\ fd' = fd
    BY <1>4, <2>1, <2>2 DEF Write
  <2> QED
    BY <1>0, <1>2, <1>4, <2>1, <2>3 DEF Write, TemporaryOwned, OwnSecret
<1>5. CASE Replace(l)
  <2>1. temporary[u] = l /\ l # Nothing
    BY <1>5, SecretAssumption DEF Replace, TemporaryOwned
  <2>2. /\ secret' = [secret EXCEPT ![u] = l]
        /\ temporary' = [temporary EXCEPT ![u] = Nothing]
        /\ pc' = [pc EXCEPT ![l] = "idle"]
    BY <1>5, <2>1 DEF Replace
  <2>3. fd'[l] = "none"
    BY <1>5, <2>1 DEF Replace
  <2>4. ASSUME NEW k \in Login \ {l} PROVE fd'[k] = fd[k]
    <3>1. LoginUser[k] = u => fd[k] = "none"
      BY <1>2, <1>5 DEF Replace, TemporaryOwned
    <3> QED
      BY <1>5, <2>1, <3>1 DEF Replace
  <2>5. TemporaryOwned'
    <3>1. ASSUME NEW k \in Login \ {l}, pc'[k] # "idle"
          PROVE  temporary'[LoginUser[k]] = temporary[LoginUser[k]]
      BY <1>2, <1>5, <2>2, <3>1, SecretAssumption DEF Replace
    <3> QED
      BY <2>2, <2>3, <2>4, <3>1 DEF TemporaryOwned
  <2>6. OwnSecret'
    BY <1>0, <2>2 DEF OwnSecret
  <2> QED
    BY <2>5, <2>6
<1>6. CASE StoreFails(l)
  <2>1. pc' = [pc EXCEPT ![l] = "idle"] /\ secret' = secret
    BY <1>6 DEF StoreFails
  <2>2. CASE pc[l] = "sealing"
    BY <1>6, <2>1, <2>2 DEF StoreFails, TemporaryOwned, OwnSecret
  <2>3. CASE pc[l] # "sealing"
    <3>1. /\ temporary' = [temporary EXCEPT ![u] = Nothing]
          /\ fd' = [Renamed(u, "temporary", "gone") EXCEPT ![l] = "none"]
      BY <1>6, <2>3 DEF StoreFails
    <3>2. fd'[l] = "none"
      BY <3>1 DEF Renamed
    <3>3. ASSUME NEW k \in Login \ {l} PROVE fd'[k] = fd[k]
      <4>1. LoginUser[k] = u => fd[k] = "none"
        BY <1>2, <1>6 DEF StoreFails, TemporaryOwned
      <4> QED
        BY <3>1, <4>1 DEF Renamed
    <3>4. ASSUME NEW k \in Login \ {l}, pc'[k] # "idle"
          PROVE  temporary'[LoginUser[k]] = temporary[LoginUser[k]]
      BY <1>2, <1>6, <2>1, <3>1, <3>4, SecretAssumption DEF StoreFails
    <3>5. TemporaryOwned'
      BY <2>1, <3>2, <3>3, <3>4 DEF TemporaryOwned
    <3> QED
      BY <2>1, <3>5 DEF OwnSecret
  <2> QED
    BY <2>2, <2>3
<1> QED
  BY <1>1, <1>3, <1>4, <1>5, <1>6 DEF Store

LEMMA WholeInductive ==
  TypeOK' /\ Whole /\ StoresApart /\ [Next]_vars => Whole'
<1> SUFFICES ASSUME TypeOK', Whole, StoresApart, [Next]_vars PROVE Whole'
  OBVIOUS
<1>0. secret \in [User -> Content]
  BY DEF Whole, TypeOK
<1>1. ASSUME NEW u \in User, TurnOn(u) PROVE Whole'
  BY <1>1, SwitchKeepsWhole DEF TurnOn
<1>2. CASE TurnOff
  BY <1>0, <1>2, NoneInPlace, SwitchKeepsWhole DEF TurnOff
<1>3. CASE TurnOffFails
  BY <1>0, <1>3, NoneInPlace, SwitchKeepsWhole DEF TurnOffFails
<1>4. CASE ResetSystem
  BY <1>4, SwitchKeepsWhole DEF ResetSystem
<1>5. CASE SetInsecure
  BY <1>5, SwitchKeepsWhole DEF SetInsecure
<1>6. ASSUME NEW l \in Login, Remember(l) \/ Store(l) PROVE Whole'
  BY <1>6, StoreKeepsWhole
<1>7. CASE Crash
  <2>1. /\ \A l \in Login : pc'[l] = "idle" /\ fd'[l] = "none"
        /\ \A u \in User : secret'[u] = secret[u]
    BY <1>0, <1>7 DEF Crash, Whole, TypeOK, TemporaryOwned
  <2> QED
    BY <2>1 DEF Whole, TemporaryOwned, OwnSecret
<1>8. CASE UNCHANGED vars
  BY <1>8, SwitchKeepsWhole DEF vars
<1> QED
  BY <1>1, <1>2, <1>3, <1>4, <1>5, <1>6, <1>7, <1>8 DEF Next

LEMMA WholeInvariance == Spec /\ []StoresApart => []Whole
<1>1. Init => Whole
  BY InitTyped DEF Init, Whole, TypeOK, TemporaryOwned, OwnSecret
<1> QED
  BY <1>1, TypedInvariance, WholeInductive, PTL DEF Spec

\* secrets.store: the file is replaced whole.  Where store() is cut short, by
\* an error or a loss of power, what is kept is still one login's password
THEOREM KeptWhole == Spec /\ []StoresApart => []KeptIsWhole
<1>1. Whole => KeptIsWhole
  BY DEF Whole, OwnSecret, KeptIsWhole
<1> QED
  BY <1>1, WholeInvariance, PTL

-----------------------------------------------------------------------------
(***************************************************************************)
(* The session and the lock guard.                                         *)
(***************************************************************************)

\* What happens around a session does to the kept password only what module
\* LoginSecret allows: the composition implements it
THEOREM SessionsKeepSecretSpec == AutoSpec => Spec
<1>1. AutoInit => Init
  BY DEF AutoInit
<1>2. [AutoNext]_autovars => [Next]_vars
  <2> SUFFICES ASSUME [AutoNext]_autovars PROVE [Next]_vars
    OBVIOUS
  <2>1. CASE Settings
    BY <2>1 DEF Settings, Next
  <2>2. CASE AutoCrash
    BY <2>2 DEF AutoCrash, Next
  <2>3. ASSUME NEW l \in Login, PasswordLogin(l) PROVE [Next]_vars
    BY <2>3 DEF PasswordLogin, Next
  <2>4. CASE AutoLoginStarts \/ Opening \/ Logout \/ Unlock \/ UNCHANGED autovars
    BY <2>4 DEF AutoLoginStarts, Opening, Asked, Load, OpenAuto, Logout, Unlock, autovars
  <2>5. CASE Guard
    BY <2>5 DEF Guard, GuardLooks, WriteLockOnStart, WriteMarker, DeleteLockOnStart,
                DeleteMarker, Poll, Grace, GraceFails, guarding
  <2>6. ASSUME NEW u \in User, FaceLogin(u) \/ UserSets(u) PROVE [Next]_vars
    BY <2>6 DEF FaceLogin, UserSets
  <2>7. CASE GuardDies
    BY <2>7 DEF GuardDies, guarding
  <2> QED
    BY <2>1, <2>2, <2>3, <2>4, <2>5, <2>6, <2>7, AutoLoginAssumption DEF AutoNext
<1> QED
  BY <1>1, <1>2, PTL DEF AutoSpec, Spec

GuardInv == Course /\ OwnLockSafe /\ MarkerSafe

LEMMA InitGuard == AutoInit => GuardInv
<1> SUFFICES ASSUME AutoInit PROVE GuardInv
  OBVIOUS
<1>1. lock_on_start \in [User -> BOOLEAN] /\ marker \in [User -> BOOLEAN]
  BY Zenon DEF AutoInit
<1>2. \A u \in User : ~marker[u]
  BY Zenon DEF AutoInit
<1> QED
  BY <1>1, <1>2 DEF AutoInit, GuardInv, Course, OwnLockSafe, MarkerSafe

\* Steps of the settings, the wallet and the screen leave the guard alone
LEMMA GuardUntouched ==
  ASSUME GuardInv, UNCHANGED <<sess, sess_user, guard, choice>>,
         asking' # "no" => asking # "no"
  PROVE  GuardInv'
BY DEF GuardInv, Course, OwnLockSafe, MarkerSafe, choice, owners

\* A session begins, ends or opens, or the guard dies: it is not at work, and
\* a marker it left is noted
LEMMA SessionKeepsGuard ==
  ASSUME GuardInv, UNCHANGED <<lock_on_start, marker, own, claimed>>, CutShort,
         guard' \in {"none", "look", "over"},
         sess' = "none" => guard' = "none" /\ asking' = "no",
         asking' # "no" => guard' = "none",
         sess' # "none" => sess_user' \in User, sess_user' \in User \cup {NoUser}
  PROVE  GuardInv'
<1>1. Course' /\ OwnLockSafe'
  BY DEF GuardInv, Course, OwnLockSafe
<1>2. MarkerSafe'
  BY DEF GuardInv, MarkerSafe, CutShort
<1> QED
  BY <1>1, <1>2 DEF GuardInv

\* A user turns LockOnStart on or off
LEMMA UserKeepsGuard ==
  ASSUME GuardInv, NEW u \in User, UserSets(u)
  PROVE  GuardInv'
<1> DEFINE taken == sess_user = u /\ guard \in {"write", "mark"}
<1>1. /\ lock_on_start' = [lock_on_start EXCEPT ![u] = ~lock_on_start[u]]
      /\ UNCHANGED <<sess, sess_user, asking, guard, marker>>
      /\ \/ /\ lock_on_start'[u]
            /\ own' = own \cup {u}
            /\ claimed' = IF marker[u] \/ taken THEN claimed \cup {u} ELSE claimed \ {u}
            /\ left' = left \ {u}
         \/ /\ own' = own \ {u} /\ claimed' = claimed \ {u}
            /\ left' = IF marker[u] \/ taken THEN left \cup {u} ELSE left
  BY DEF UserSets, session
<1>2. lock_on_start' \in [User -> BOOLEAN]
  BY <1>1 DEF GuardInv, Course
<1>3. \A v \in User \ {u} : lock_on_start'[v] = lock_on_start[v]
  BY <1>1 DEF GuardInv, Course
<1>4. own' \subseteq User
  BY <1>1 DEF GuardInv, Course
<1>5. Course'
  BY <1>1, <1>2, <1>4 DEF GuardInv, Course
<1>6. \A v \in own' \ claimed' : v # u => v \in own \ claimed
  BY <1>1
<1>7. u \in own' \ claimed' => lock_on_start'[u] /\ ~marker[u] /\ ~taken
  BY <1>1
<1>8. u \in own' \ claimed' /\ sess_user = u => guard \notin {"write", "mark", "delete", "unmark"}
  BY <1>7 DEF GuardInv, Course
<1>9. OwnLockSafe'
  BY <1>1, <1>3, <1>4, <1>6, <1>7, <1>8 DEF GuardInv, OwnLockSafe
<1>10. lock_on_start'[u] \/ (marker[u] \/ taken => u \in left')
  BY <1>1
<1>11. \A v \in left : v # u => v \in left'
  BY <1>1
<1>12. sess_user \in User \/ guard # "mark"
  BY DEF GuardInv, Course
<1>13. MarkerSafe'
  BY <1>1, <1>3, <1>10, <1>11, <1>12 DEF GuardInv, MarkerSafe
<1> QED
  BY <1>5, <1>9, <1>13 DEF GuardInv

\* The guard: it takes LockOnStart over only where it is off or cannot be read,
\* and deletes it only where the marker says that it is its own
LEMMA GuardKeepsGuard ==
  ASSUME GuardInv, Guard
  PROVE  GuardInv'
<1> USE DEF guarding, session, owners
<1>0. /\ lock_on_start \in [User -> BOOLEAN] /\ marker \in [User -> BOOLEAN]
      /\ own \subseteq User
      /\ guard # "none" => sess # "none" /\ sess_user \in User
  BY DEF GuardInv, Course
<1>1. CASE GuardLooks
  <2>1. /\ UNCHANGED <<sess, sess_user, asking, lock_on_start, marker, own, left>>
        /\ guard = "look"
    BY <1>1 DEF GuardLooks
  <2>2. /\ guard' \in {"poll", "write", "delete", "over"}
        /\ guard' = "write" => ~lock_on_start[sess_user] \/ sess_user \notin own \/ sess_user \in claimed'
        /\ guard' = "delete" => marker[sess_user]
        /\ claimed \subseteq claimed'
    <3>1. PICK found \in BOOLEAN, read \in BOOLEAN :
            /\ guard' \in
                 IF found
                 THEN IF read /\ lock_on_start[sess_user] THEN {"poll"} ELSE {"write", "poll"}
                 ELSE IF read /\ autologin_user = NoUser /\ marker[sess_user]
                      THEN {"delete", "over"} ELSE {"over"}
            /\ claimed' = IF guard' = "write" /\ ~read THEN claimed \cup (own \cap {sess_user})
                                                       ELSE claimed
      BY <1>1 DEF GuardLooks
    <3>2. CASE found
      BY <3>1, <3>2
    <3>3. CASE ~found
      BY <3>1, <3>3
    <3> QED
      BY <3>2, <3>3
  <2>3. Course'
    BY <1>0, <2>1, <2>2 DEF GuardInv, Course
  <2>4. OwnLockSafe'
    BY <1>0, <2>1, <2>2 DEF GuardInv, OwnLockSafe
  <2>5. MarkerSafe'
    BY <1>0, <2>1, <2>2 DEF GuardInv, MarkerSafe
  <2> QED
    BY <2>3, <2>4, <2>5 DEF GuardInv
<1>2. CASE WriteLockOnStart
  <2>1. /\ lock_on_start' = [lock_on_start EXCEPT ![sess_user] = TRUE]
        /\ guard = "write" /\ guard' = "mark" /\ left' = left \ {sess_user}
        /\ UNCHANGED <<sess, sess_user, asking, marker, own, claimed>>
    BY <1>2 DEF WriteLockOnStart
  <2>2. /\ lock_on_start' \in [User -> BOOLEAN] /\ lock_on_start'[sess_user]
        /\ \A v \in User : lock_on_start[v] => lock_on_start'[v]
    BY <1>0, <2>1
  <2>3. Course' /\ OwnLockSafe'
    BY <1>0, <2>1, <2>2 DEF GuardInv, Course, OwnLockSafe
  <2>4. MarkerSafe'
    BY <1>0, <2>1, <2>2 DEF GuardInv, MarkerSafe
  <2> QED
    BY <2>3, <2>4 DEF GuardInv
<1>3. CASE WriteMarker
  <2>1. /\ marker' = [marker EXCEPT ![sess_user] = TRUE]
        /\ guard = "mark" /\ guard' = "poll" /\ sess_user \notin own \ claimed
        /\ UNCHANGED <<sess, sess_user, asking, lock_on_start, own, claimed, left>>
    BY <1>3 DEF WriteMarker, GuardInv, OwnLockSafe
  <2>2. /\ marker' \in [User -> BOOLEAN]
        /\ \A v \in User : v # sess_user => marker'[v] = marker[v]
    BY <1>0, <2>1
  <2>3. Course' /\ OwnLockSafe'
    BY <1>0, <2>1, <2>2 DEF GuardInv, Course, OwnLockSafe
  <2>4. MarkerSafe'
    BY <1>0, <2>1, <2>2 DEF GuardInv, MarkerSafe
  <2> QED
    BY <2>3, <2>4 DEF GuardInv
<1>4. CASE DeleteLockOnStart
  <2>1. /\ lock_on_start' = [lock_on_start EXCEPT ![sess_user] = FALSE]
        /\ guard = "delete" /\ guard' = "unmark" /\ sess_user \notin own \ claimed
        /\ UNCHANGED <<sess, sess_user, asking, marker, own, claimed, left>>
    BY <1>4 DEF DeleteLockOnStart, GuardInv, OwnLockSafe
  <2>2. /\ lock_on_start' \in [User -> BOOLEAN]
        /\ \A v \in User : v # sess_user => lock_on_start'[v] = lock_on_start[v]
    BY <1>0, <2>1
  <2>3. Course' /\ OwnLockSafe'
    BY <1>0, <2>1, <2>2 DEF GuardInv, Course, OwnLockSafe
  <2>4. MarkerSafe'
    BY <1>0, <2>1, <2>2 DEF GuardInv, MarkerSafe
  <2> QED
    BY <2>3, <2>4 DEF GuardInv
<1>5. CASE DeleteMarker
  <2>1. /\ marker' = [marker EXCEPT ![sess_user] = FALSE]
        /\ guard = "unmark" /\ guard' = "over" /\ left' = left \ {sess_user}
        /\ UNCHANGED <<sess, sess_user, asking, lock_on_start, own, claimed>>
    BY <1>5 DEF DeleteMarker
  <2>2. /\ marker' \in [User -> BOOLEAN] /\ ~marker'[sess_user]
        /\ \A v \in User : marker'[v] => marker[v]
    BY <1>0, <2>1
  <2>3. Course' /\ OwnLockSafe'
    BY <1>0, <2>1, <2>2 DEF GuardInv, Course, OwnLockSafe
  <2>4. MarkerSafe'
    BY <1>0, <2>1, <2>2 DEF GuardInv, MarkerSafe
  <2> QED
    BY <2>3, <2>4 DEF GuardInv
<1>6. CASE Poll
  <2>1. /\ UNCHANGED <<sess, sess_user, asking, lock_on_start, marker, own, claimed, left>>
        /\ guard = "poll" /\ guard' \in {"poll", "over"}
    BY <1>6 DEF Poll, choice
  <2> QED
    BY <1>0, <2>1 DEF GuardInv, Course, OwnLockSafe, MarkerSafe
<1>7. CASE Grace
  BY <1>7, SessionKeepsGuard DEF Grace, SessionEnds
<1>8. CASE GraceFails
  <2>1. /\ UNCHANGED <<sess, sess_user, asking, lock_on_start, marker, own, claimed, left>>
        /\ guard = "poll" /\ guard' = "over"
    BY <1>8 DEF GraceFails, choice
  <2> QED
    BY <1>0, <2>1 DEF GuardInv, Course, OwnLockSafe, MarkerSafe
<1> QED
  BY <1>1, <1>2, <1>3, <1>4, <1>5, <1>6, <1>7, <1>8 DEF Guard

LEMMA GuardInductive == GuardInv /\ [AutoNext]_autovars => GuardInv'
<1> SUFFICES ASSUME GuardInv, [AutoNext]_autovars PROVE GuardInv'
  OBVIOUS
<1> USE DEF session
<1>0. /\ sess_user \in User \cup {NoUser}
      /\ sess = "none" => asking = "no" /\ guard = "none"
      /\ sess # "none" => sess_user \in User
  BY DEF GuardInv, Course
\* No session opens while a guard is at work
<1>12. ASSUME guard # "unmark", UNCHANGED choice
       PROVE  CutShort /\ UNCHANGED <<lock_on_start, marker, own, claimed>>
  BY <1>12 DEF CutShort, choice, owners
<1>1. CASE Settings
  BY <1>0, <1>1, GuardUntouched DEF Settings
<1>2. CASE AutoLoginStarts
  <2>1. /\ guard = "none" /\ guard' = "none" /\ sess' = "auto" /\ sess_user' \in User
        /\ UNCHANGED choice
    BY <1>0, <1>2 DEF AutoLoginStarts
  <2> QED
    BY <1>12, <2>1, SessionKeepsGuard
<1>3. CASE Asked \/ Load
  BY <1>0, <1>3, GuardUntouched DEF Asked, Load
<1>4. CASE OpenAuto
  <2>1. /\ guard' = "look" /\ UNCHANGED <<sess, sess_user, choice>> /\ sess # "none"
        /\ asking' = "no"
        /\ guard = "none"
    BY <1>0, <1>4 DEF OpenAuto, Plasma, GuardInv, Course
  <2> QED
    BY <1>0, <1>12, <2>1, SessionKeepsGuard
<1>5. CASE Logout \/ AutoCrash
  BY <1>5, SessionKeepsGuard DEF Logout, AutoCrash, SessionEnds
<1>6. CASE Unlock
  BY <1>0, <1>6, GuardUntouched DEF Unlock
<1>7. ASSUME NEW u \in User, sess = "none", sess' = "password", sess_user' = u, Plasma(u),
             asking' = asking
      PROVE  GuardInv'
  BY <1>0, <1>7, <1>12, SessionKeepsGuard DEF Plasma
<1>8. ASSUME NEW l \in Login, PasswordLogin(l) PROVE GuardInv'
  BY <1>7, <1>8, SecretAssumption DEF PasswordLogin
<1>9. ASSUME NEW u \in User, FaceLogin(u) PROVE GuardInv'
  BY <1>7, <1>9 DEF FaceLogin
<1>10. ASSUME NEW u \in Choosers, UserSets(u) PROVE GuardInv'
  BY <1>10, UserKeepsGuard, AutoLoginAssumption
<1>11. CASE Guard
  BY <1>11, GuardKeepsGuard
<1>13. CASE GuardDies
  <2>1. /\ guard' = "over" /\ CutShort /\ sess # "none"
        /\ UNCHANGED <<sess, sess_user, asking, lock_on_start, marker, own, claimed>>
        /\ asking = "no"
    BY <1>0, <1>13 DEF GuardDies, guarding, GuardInv, Course
  <2> QED
    BY <1>0, <2>1, SessionKeepsGuard
<1>14. CASE UNCHANGED autovars
  BY <1>0, <1>14, GuardUntouched DEF autovars
<1> QED
  BY <1>1, <1>2, <1>3, <1>4, <1>5, <1>6, <1>8, <1>9, <1>10, <1>11, <1>13, <1>14
     DEF AutoNext, Opening

LEMMA GuardInvariance == AutoSpec => []GuardInv
BY InitGuard, GuardInductive, PTL DEF AutoSpec

\* The lock guard's set_lock_on_start, its two writes and its two deletions
\* with the user's own changes between them, cut short anywhere: it deletes a
\* LockOnStart that the user turned on only if she did so under the marker or
\* while it was being written, or if kreadconfig6 failed, and the marker
\* stands alone only if she turned LockOnStart off under it or the guard was cut
\* short between its deletions
THEOREM OwnLockStays == AutoSpec => []OwnLockKept
<1>1. GuardInv => OwnLockKept
  BY DEF GuardInv, Course, OwnLockSafe, MarkerSafe, OwnLockKept
<1> QED
  BY <1>1, GuardInvariance, PTL

\* Only Load and a login with the password give KWallet anything
LEMMA WalletInductive ==
  Whole /\ GuardInv /\ WalletGetsOwn /\ [AutoNext]_autovars => WalletGetsOwn'
<1> SUFFICES ASSUME Whole, GuardInv, WalletGetsOwn, [AutoNext]_autovars PROVE WalletGetsOwn'
  OBVIOUS
<1> USE DEF session
<1>1. ASSUME UNCHANGED <<wallet, sess_user>> PROVE WalletGetsOwn'
  BY <1>1 DEF WalletGetsOwn
<1>2. ASSUME wallet' = Nothing PROVE WalletGetsOwn'
  BY <1>2 DEF WalletGetsOwn
<1>3. CASE Load
  <2>1. sess_user \in User
    BY <1>3 DEF Load, GuardInv, Course
  <2> QED
    BY <1>3, <2>1 DEF Load, Whole, OwnSecret, WalletGetsOwn
<1>4. ASSUME NEW l \in Login, PasswordLogin(l) PROVE WalletGetsOwn'
  BY <1>4 DEF PasswordLogin, WalletGetsOwn
<1>5. CASE AutoLoginStarts \/ Logout \/ AutoCrash \/ Grace
  BY <1>2, <1>5 DEF AutoLoginStarts, Logout, AutoCrash, Grace, SessionEnds
<1>6. ASSUME NEW u \in User, FaceLogin(u) PROVE WalletGetsOwn'
  BY <1>2, <1>6 DEF FaceLogin
<1>7. CASE Settings \/ Asked \/ OpenAuto \/ Unlock \/ UNCHANGED autovars
  BY <1>1, <1>7 DEF Settings, Asked, OpenAuto, Unlock, autovars
<1>8. CASE GuardLooks \/ WriteLockOnStart \/ WriteMarker \/ DeleteLockOnStart
             \/ DeleteMarker \/ Poll \/ GraceFails \/ GuardDies
  BY <1>1, <1>8 DEF GuardLooks, WriteLockOnStart, WriteMarker, DeleteLockOnStart,
                    DeleteMarker, Poll, GraceFails, GuardDies, guarding
<1>9. ASSUME NEW u \in User, UserSets(u) PROVE WalletGetsOwn'
  BY <1>1, <1>9 DEF UserSets
<1> QED
  BY <1>3, <1>4, <1>5, <1>6, <1>7, <1>8, <1>9, AutoLoginAssumption DEF AutoNext, Opening, Guard

\* login_secret, secrets.load and pam/main.cc: KWallet gets the whole password
\* of a login of the session's user, or none, whoever turns auto-login on or
\* off, logs in or loses power between the question and the answer
THEOREM WalletIsOwn == AutoSpec /\ []StoresApart => []WalletGetsOwn
<1>1. AutoInit => WalletGetsOwn
  BY DEF AutoInit, WalletGetsOwn
<1> QED
  BY <1>1, SessionsKeepSecretSpec, WholeInvariance, GuardInvariance, WalletInductive, PTL
     DEF AutoSpec
=============================================================================
