------------------------------ MODULE PamFiles -------------------------------
(***************************************************************************)
(* integration/pam.py: turning face unlock on and off for a target, the     *)
(* refresh at the service's start and reset-system, over the service files, *)
(* the login manager's and the lock screen's settings and the manifest.     *)
(* Each file is replaced in a step of its own; an operation may end between *)
(* any two steps (power loss, or an exception nothing catches).             *)
(* integration/kscreenlocker.py: the users' choices for the lock screen.    *)
(***************************************************************************)
EXTENDS PamText

CONSTANTS
    Systems,     \* what is installed: vendor files, greeter, login manager, and
                 \* what the users' kscreenlockerrc hold at first
    Users,
    ADMIN_LINES, \* what an administrator may add to a file of /etc
    MaxEvents    \* bound: the administrator's edits and operations broken off, together

\* Names: service files, the lock screen's settings and the drop-in.
RC      == "kscreenlockerrc"
DROPIN  == "linux-hello.conf"
\* The service files in the order of sorted(os.listdir(...)).
Sorted  == <<"kde", "kde-face", "kde-fingerprint", "plasmalogin",
             "plasmalogin-autologin", "polkit-1", "sddm", "sudo", "sudo-i">>
Service == {Sorted[i] : i \in DOMAIN Sorted}
Path    == Service \cup {RC, DROPIN}
Target  == {"lock-screen", "admin", "sudo", "login", "auto-login"}

\* The lines of others: our markers and kde-face's header are in none of them.
Foreign == {l \in LINE : Stripped(l) \notin BEGINS \cup {OWN_HEADER}}

\* What a vendor installs are PAM service files.
ASSUME SystemsAssumption ==
    \A s \in Systems : \A n \in DOMAIN s.vendor : /\ n \notin {RC, DROPIN}
                                                  /\ s.vendor[n] \in Seq(Foreign)

\* A user's file has one [Greeter] and her choice once, as KConfig writes it,
\* and nobody has chosen Face before the lock screen has it.
AtMostOne(S) == \A i, j \in S : i = j
Tidy(lines) ==
    /\ lines \in Seq(INI)
    /\ AtMostOne(Greeters(lines))
    /\ AtMostOne(KeysAt(lines, "Greeter", "Authenticator"))

ASSUME ChoiceAssumption ==
    \A s \in Systems : Tidy(s.choice) /\ read_choice(s.choice) # "Face"
ASSUME UsersAssumption == IsFiniteSet(Users)
ASSUME AdminLinesAssumption == ADMIN_LINES \subseteq Foreign

NoFile  == <<Line("", "", "no file", "")>>
NoUser  == "none"
NoEntry == [action |-> "none", sha |-> NoFile, separator |-> <<>>]
Blank   == Line("ini", "", "", "")
FACE_OPTION == Line("ini", "Authenticators", "Face", "true")
FaceBlock   == Block(BEGIN, <<FACE_OPTION>>)
DropInOf(user) == <<Line("ini", "Autologin", "User", user)>>

VARIABLES system,    \* one of Systems
          etc,       \* the text of each file under /etc, or NoFile
          main,      \* the lines of plasmalogin.conf
          manifest,  \* pam-state.json
          op,        \* the operation in progress
          choice,    \* the lines of each user's kscreenlockerrc
          cli,       \* each user's command line or settings page
          own,       \* what the vendor and the administrator wrote (history)
          edits,     \* the administrator's edits so far
          aborted,   \* operations broken off so far
          stuck,     \* users whose choice nobody could keep in step (history)
          botched    \* the drop-in stands from an enable that failed after it (history)

pam_vars == <<system, etc, main, manifest, op, choice, cli, own, edits, aborted,
              stuck, botched>>
lockVars == <<choice, cli, stuck>>
fileVars == <<system, etc, main, manifest, op, own, edits, aborted, botched>>

Idle == [name |-> "idle", target |-> "", user |-> NoUser, todo |-> <<>>,
         plan |-> <<>>, state |-> [p \in Path |-> NoEntry], before |-> [p \in Path |-> NoFile]]

\* _vendor
Vendor(p) == IF p \in DOMAIN system.vendor THEN system.vendor[p] ELSE NoFile

FilesInit ==
    /\ system \in Systems
    /\ etc = [p \in Path |-> NoFile]
    /\ main = <<>>
    /\ manifest = [p \in Path |-> NoEntry]
    /\ op = Idle
    /\ choice = [u \in Users |-> system.choice]
    /\ cli = [u \in Users |-> "idle"]
    /\ own = [p \in Path |-> Vendor(p)]
    /\ edits = 0 /\ aborted = 0 /\ stuck = {} /\ botched = FALSE

------------------------------------------------------------------------------
\* _find and what PAM reads for a name.
Source(p) == IF p \in Path /\ etc[p] # NoFile THEN etc[p] ELSE Vendor(p)

Found(p) == Source(p) # NoFile

Stacks == [p \in {q \in Service \cup DOMAIN system.vendor : Source(q) # NoFile} |-> Source(p)]

Insert(p) == <<p, "insert">>

plan(target) ==
    CASE target = "lock-screen" ->
           IF system.greeter /\ (Found("kde-fingerprint") \/ Found("kde"))
           THEN <<<<"kde-face", "own">>, <<RC, "kde-config">>>>
           ELSE IF Found("kde") THEN <<Insert("kde")>> ELSE <<>>
      [] target = "admin" -> IF Found("polkit-1") THEN <<Insert("polkit-1")>> ELSE <<>>
      [] target = "sudo" ->
           (IF Found("sudo") THEN <<Insert("sudo")>> ELSE <<>>)
           \o (IF Found("sudo-i") /\ ~(Found("sudo") /\ includes(Source("sudo-i"), "sudo"))
               THEN <<Insert("sudo-i")>> ELSE <<>>)
      [] target = "login" ->
           IF Found("plasmalogin") THEN <<Insert("plasmalogin")>>
           ELSE IF Found("sddm") THEN <<Insert("sddm")>> ELSE <<>>
      [] target = "auto-login" ->
           IF system.login_manager /\ Found("plasmalogin") /\ Found("plasmalogin-autologin")
           THEN << <<"plasmalogin-autologin", "wallet-release">>,
                   <<"plasmalogin", "wallet-remember">>, <<DROPIN, "autologin">> >>
           ELSE <<>>

IsOwn(text) == text # <<>> /\ Head(text) = OWN_HEADER

autologin_user == IF etc[DROPIN] = NoFile THEN NoUser ELSE etc[DROPIN][1].arg

service_enabled(p, kind) ==
    CASE kind = "autologin" -> autologin_user # NoUser
      [] kind = "own" -> IsOwn(etc[p])
      [] kind \in {"wallet-release", "wallet-remember"} -> has_block(etc[p], WALLET_BEGIN)
      [] OTHER -> has_block(etc[p], BEGIN)

\* targets(): a drop-in alone counts, so that it can be turned off.
enabled(target) ==
    \/ /\ plan(target) # <<>>
       /\ \A i \in DOMAIN plan(target) :
             service_enabled(plan(target)[i][1], plan(target)[i][2])
    \/ target = "auto-login" /\ plan(target) # <<>> /\ autologin_user # NoUser

------------------------------------------------------------------------------
\* enable(): what each kind of step writes.
Fingerprint == Found("kde-fingerprint")
OwnSource == IF Fingerprint THEN Source("kde-fingerprint") ELSE Source("kde")

\* The login screens ask for the password first: a face that fails ends them.
insert_line(p) == IF p \in {"plasmalogin", "sddm"} THEN LOGIN_INSERT_LINE ELSE INSERT_LINE

Separator(text) == IF text = <<>> \/ Last(text) = Blank THEN <<>> ELSE <<Blank>>

new_text(p, kind, user) ==
    CASE kind = "insert" ->
           insert_block(remove_block(Source(p), {BEGIN}), gates(Stacks, Source(p)), insert_line(p))
      [] kind = "wallet-release" ->
           insert_wallet_release(remove_block(Source(p), {WALLET_BEGIN}))
      [] kind = "wallet-remember" ->
           insert_wallet_remember(remove_block(Source(p), {WALLET_BEGIN}))
      [] kind = "own" -> build_own_stack(OwnSource, Fingerprint)
      [] kind = "autologin" -> DropInOf(user)
      [] kind = "kde-config" ->
           IF etc[p] = NoFile THEN FaceBlock
           ELSE IF has_block(etc[p], BEGIN) THEN etc[p]
           ELSE etc[p] \o Separator(etc[p]) \o FaceBlock

\* PamError: no auth line, a kde-face of someone else, another user's login.
raises(p, kind, user) ==
    CASE kind = "insert" -> ~CanInsert(remove_block(Source(p), {BEGIN}))
      [] kind \in {"wallet-release", "wallet-remember"} ->
           ~CanInsert(remove_block(Source(p), {WALLET_BEGIN}))
      [] kind = "own" -> \/ etc[p] # NoFile /\ ~IsOwn(etc[p])
                         \/ ~CanBuild(OwnSource, Fingerprint)
      [] kind = "autologin" -> \/ user = NoUser
                               \/ LastValue(main, "Autologin", "User") \notin {"none", user}
      [] OTHER -> FALSE

\* Mutant: the manifest's word counts for a file that is no longer ours.
action_trusting(p, state) ==
    IF state[p] # NoEntry THEN state[p].action
    ELSE IF etc[p] = NoFile THEN "copied" ELSE "inserted"

\* _action: how the file came to be.
action(p, state) ==
    IF state[p] # NoEntry /\ \E b \in BEGINS : has_block(Source(p), b)
    THEN state[p].action
    ELSE IF etc[p] = NoFile THEN "copied" ELSE "inserted"

\* What the step records in the manifest; an unchanged file is not recorded.
recorded(p, kind, user, state) ==
    LET new == new_text(p, kind, user)
        Entry(how, separator) == [action |-> how, sha |-> new, separator |-> separator]
    IN  IF new = Source(p) /\ kind \notin {"own", "autologin"} THEN state
        ELSE [state EXCEPT ![p] =
                CASE kind \in {"own", "autologin"} -> Entry("created", <<>>)
                  [] kind = "kde-config" /\ etc[p] = NoFile -> Entry("created", <<>>)
                  [] kind = "kde-config" /\ etc[p] # NoFile ->
                       Entry("inserted", Separator(etc[p]))
                  [] OTHER -> Entry(action(p, state), <<>>)]

StartEnable(target, user) ==
    /\ op = Idle
    /\ plan(target) # <<>>
    /\ op' = [name |-> "enable", target |-> target, user |-> user, plan |-> plan(target),
              todo |-> plan(target), state |-> manifest, before |-> etc]
    /\ UNCHANGED <<system, etc, main, manifest, own, edits, aborted, botched>> /\ UNCHANGED lockVars

\* set_target(True): auto-login logs in whoever turns it on.
SetTargetOn == \E target \in Target, user \in Users :
    StartEnable(target, IF target = "auto-login" THEN user ELSE NoUser)

\* The service starts: each target that is on is enabled again.
Refresh == \E target \in Target :
    /\ enabled(target)
    /\ StartEnable(target, IF target = "auto-login" THEN autologin_user ELSE NoUser)

users_preferring_face == {u \in Users : read_choice(choice[u]) = "Face"}

EnableStep ==
    /\ op.name = "enable" /\ op.todo # <<>>
    /\ LET p == Head(op.todo)[1]
           kind == Head(op.todo)[2]
       IN  /\ ~raises(p, kind, op.user)
           /\ etc' = [etc EXCEPT ![p] = new_text(p, kind, op.user)]
           /\ op' = [op EXCEPT !.todo = Tail(@),
                               !.state = recorded(p, kind, op.user, @)]
    /\ UNCHANGED <<system, main, manifest, own, edits, aborted, botched>> /\ UNCHANGED lockVars

\* A step raises PamError, or its write raises, before the file is replaced or
\* after it (_sync_dir, _restore_context), also the last one's: put back what
\* was there, in the order of the plan.  Face, chosen by now, loses its option.
EnableFails ==
    /\ op.name = "enable"
    /\ op' = [op EXCEPT !.name = "rollback", !.todo = op.plan]
    /\ botched' = (botched \/ (op.before[DROPIN] = NoFile /\ etc[DROPIN] # NoFile))
    /\ stuck' = IF etc[RC] = op.before[RC] THEN stuck ELSE stuck \cup users_preferring_face
    /\ UNCHANGED <<system, etc, main, manifest, own, edits, aborted, choice, cli>>

\* Mutant: a file that was not there is left behind.
PutBackFound(p) == IF op.before[p] = NoFile THEN etc[p] ELSE op.before[p]

PutBack(p) == op.before[p]

RollbackStep ==
    /\ op.name = "rollback" /\ op.todo # <<>>
    /\ LET p == Head(op.todo)[1]
       IN  etc' = [etc EXCEPT ![p] = PutBack(p)]
    /\ op' = [op EXCEPT !.todo = Tail(@)]
    /\ botched' = (botched /\ etc'[DROPIN] # NoFile)
    /\ UNCHANGED <<system, main, manifest, own, edits, aborted>> /\ UNCHANGED lockVars

------------------------------------------------------------------------------
\* disable() and reset(): what _revert makes of a file and of its entry.
Trimmed(text, separator) ==
    IF separator # <<>> /\ text # <<>> /\ Last(text) = Blank THEN Front(text) ELSE text

IsBlank(text) == \A i \in DOMAIN text : text[i] = Blank

\* Steps of reset and disable that are not a revert of marked blocks.
SWEEP  == {END}
FORGET == {}

whole(p) == p = DROPIN \/ IsOwn(etc[p])

others_stay(p, begins) ==
    \E b \in BEGINS : has_block(remove_block(etc[p], begins), b)

reverted_text(p, begins, entry) ==
    LET text == etc[p]
        cleaned == remove_block(text, begins)
        untouched == entry # NoEntry /\ entry.sha = text
    IN  IF text = NoFile \/ whole(p) THEN NoFile
        ELSE IF others_stay(p, begins) THEN cleaned
        ELSE IF entry.action = "created"
        THEN IF untouched \/ IsBlank(cleaned) THEN NoFile ELSE cleaned
        ELSE IF cleaned = text THEN text
        ELSE IF entry.action = "copied" /\ untouched THEN NoFile
        ELSE Trimmed(cleaned, entry.separator)

reverted_state(p, begins, state) ==
    IF etc[p] # NoFile /\ ~whole(p) /\ others_stay(p, begins)
    THEN LET partly == remove_block(etc[p], begins)
         IN  IF partly = etc[p] \/ state[p] = NoEntry THEN state
             ELSE [state EXCEPT ![p].sha = partly]
    ELSE [state EXCEPT ![p] = NoEntry]

\* Mutant: KWallet's lines go before the drop-in.
disable_plan_reversed(target, keep) ==
    IF target = "auto-login"
    THEN << <<"plasmalogin-autologin", {WALLET_BEGIN}>>,
            <<"plasmalogin", {WALLET_BEGIN}>>, <<DROPIN, FORGET>>, <<DROPIN, {BEGIN}>> >>
    ELSE [i \in DOMAIN plan(target) |-> <<plan(target)[i][1], {BEGIN}>>]

\* Mutant: the lock screen's option goes although someone starts with it.
disable_plan_dropping(target, keep) ==
    IF target = "auto-login"
    THEN << <<DROPIN, FORGET>>, <<DROPIN, {BEGIN}>>,
            <<"plasmalogin-autologin", {WALLET_BEGIN}>>,
            <<"plasmalogin", {WALLET_BEGIN}>> >>
    ELSE [i \in DOMAIN plan(target) |-> <<plan(target)[i][1], {BEGIN}>>]

\* The files of a target in disable's order; a drop-in's user is first taken
\* out of the login manager's main file (FORGET).
disable_plan(target, keep) ==
    IF target = "auto-login"
    THEN << <<DROPIN, FORGET>>, <<DROPIN, {BEGIN}>>,
            <<"plasmalogin-autologin", {WALLET_BEGIN}>>,
            <<"plasmalogin", {WALLET_BEGIN}>> >>
    ELSE LET steps == [i \in DOMAIN plan(target) |-> <<plan(target)[i][1], {BEGIN}>>]
         IN  Pick(steps, {i \in DOMAIN steps : ~(keep /\ steps[i][1] = RC)})

\* set_target(False).
SetTargetOff == \E target \in Target :
    /\ op = Idle
    /\ LET keep == target = "lock-screen" /\ users_preferring_face # {}
       IN  op' = [Idle EXCEPT !.name = "disable", !.target = target, !.state = manifest,
                              !.user = autologin_user, !.todo = disable_plan(target, keep)]
    /\ UNCHANGED <<system, etc, main, manifest, own, edits, aborted, botched>> /\ UNCHANGED lockVars

\* reset-system, once the users' choices are reset (ResetChoice): the drop-in,
\* the files of the manifest, and whatever else holds our lines.
StartReset ==
    /\ op.name = "reset-choices" /\ op.todo = <<>>
    /\ LET paths == Sorted \o <<RC, DROPIN>>
           At(P) == Pick(paths, {i \in DOMAIN paths : paths[i] \in P})
           inManifest == At({p \in Path : manifest[p] # NoEntry})
           swept == At({p \in Path \ {DROPIN} : etc[p] # NoFile})
       IN  op' = [Idle EXCEPT !.name = "reset", !.state = manifest,
                    !.todo = << <<DROPIN, FORGET>>, <<DROPIN, {BEGIN}>> >>
                             \o [i \in DOMAIN inManifest |-> <<inManifest[i], BEGINS>>]
                             \o [i \in DOMAIN swept |-> <<swept[i], SWEEP>>]]
    /\ UNCHANGED <<system, etc, main, manifest, own, edits, aborted, botched>> /\ UNCHANGED lockVars

\* reset(): leftovers, of whatever has no entry in the manifest.
swept_text(p) ==
    LET cleaned == remove_legacy_lines(remove_block(etc[p], BEGINS))
    IN  IF etc[p] = NoFile \/ IsOwn(etc[p]) THEN NoFile
        ELSE IF p # RC /\ ~\E i \in DOMAIN etc[p] : ours(etc[p][i]) THEN etc[p]
        ELSE IF p = RC /\ has_block(etc[p], BEGIN) /\ IsBlank(cleaned) THEN NoFile
        ELSE cleaned

\* _revert, _forget_main_autologin, or the sweep of one file.
RevertStep ==
    /\ op.name \in {"disable", "reset"} /\ op.todo # <<>>
    /\ LET p == Head(op.todo)[1]
           begins == Head(op.todo)[2]
           sweep == begins = SWEEP
           forget == begins = FORGET
       IN  /\ etc' = IF forget THEN etc
                     ELSE [etc EXCEPT ![p] = IF sweep THEN swept_text(p)
                                             ELSE reverted_text(p, begins, op.state[p])]
           /\ main' = IF forget /\ autologin_user # NoUser
                      THEN forget_user(main, autologin_user) ELSE main
           /\ op' = [op EXCEPT !.todo = Tail(@),
                               !.state = IF sweep \/ forget THEN @
                                         ELSE reverted_state(p, begins, @)]
    /\ botched' = (botched /\ etc'[DROPIN] # NoFile)
    /\ UNCHANGED <<system, manifest, own, edits, aborted>> /\ UNCHANGED lockVars

\* The manifest is saved last, after the files.
SaveState ==
    /\ op.name \in {"enable", "disable", "reset", "rollback"} /\ op.todo = <<>>
    /\ manifest' = IF op.name = "rollback" THEN manifest ELSE op.state
    /\ op' = Idle
    /\ UNCHANGED <<system, etc, main, own, edits, aborted, botched>> /\ UNCHANGED lockVars

\* Power is lost, or an error leaves the operation where nothing catches it.
Abort ==
    /\ op # Idle /\ edits + aborted < MaxEvents
    /\ op' = Idle
    /\ aborted' = aborted + 1
    /\ UNCHANGED <<system, etc, main, manifest, own, edits, botched>> /\ UNCHANGED lockVars

------------------------------------------------------------------------------
\* The administrator adds a line to a file of /etc, or makes one of her own
\* from the vendor's; the Login Screen settings save the user they see.
AdminEdit == \E p \in Path \ {DROPIN}, line \in ADMIN_LINES :
    /\ op = Idle /\ edits + aborted < MaxEvents
    /\ (p = RC) = (line.type = "ini")
    /\ Found(p) \/ p = RC
    /\ ~IsOwn(etc[p])
    /\ \lnot (\E i \in DOMAIN Source(p) : Source(p)[i] = line)
    /\ etc' = [etc EXCEPT ![p] = IF Found(p) THEN Append(Source(p), line) ELSE <<line>>]
    /\ own' = [own EXCEPT ![p] = IF own[p] # NoFile THEN Append(own[p], line) ELSE <<line>>]
    /\ edits' = edits + 1
    /\ UNCHANGED <<system, main, manifest, op, aborted, botched>> /\ UNCHANGED lockVars

LoginSettings == \E user \in Users :
    /\ op = Idle
    /\ \/ user = autologin_user                     \* the copy of our value
       \/ etc[DROPIN] = NoFile /\ main = <<>> /\ edits + aborted < MaxEvents  \* her own
    /\ LastValue(main, "Autologin", "User") # user
    /\ main' = <<IniLine("[", "Autologin"), IniLine("User", user)>>
    /\ edits' = IF user = autologin_user THEN edits ELSE edits + 1
    /\ UNCHANGED <<system, etc, manifest, op, own, aborted, botched>> /\ UNCHANGED lockVars

------------------------------------------------------------------------------
\* The lock screen's starting option, in each user's own file.
face_enabled == has_block(etc[RC], FACE_OPTION)

WriteChoice(user, value) ==
    choice' = [choice EXCEPT ![user] = set_choice(@, value)]

\* After turning the target on: the option is looked up, then the choice made.
\* The lock screen itself does the same when it is unlocked with Face.
LookUpOption(user) ==
    /\ cli[user] = "idle" /\ face_enabled
    /\ cli' = [cli EXCEPT ![user] = "prefer"]
    /\ UNCHANGED fileVars /\ UNCHANGED <<choice, stuck>>

\* An operation that takes the option away has already looked at the choices,
\* or never does (a rollback).
OptionMayGo == \/ op.name \in {"reset-choices", "reset"}
               \/ op.name = "disable" /\ op.target = "lock-screen"
               \/ op.name = "rollback" /\ etc[RC] # op.before[RC]

PreferFace(user) ==
    /\ cli[user] = "prefer"
    /\ WriteChoice(user, "Face")
    /\ cli' = [cli EXCEPT ![user] = "idle"]
    /\ stuck' = IF face_enabled /\ ~OptionMayGo THEN stuck ELSE stuck \cup {user}
    /\ UNCHANGED fileVars

\* Before turning it off, and `doctor' when the option is gone.
StopPreferringFace(user) ==
    /\ cli[user] = "idle"
    /\ read_choice(choice[user]) = "Face"
    /\ WriteChoice(user, "Regular")
    /\ stuck' = stuck \ {user}
    /\ UNCHANGED fileVars /\ UNCHANGED cli

\* reset-system, as root: reset_all_users goes first.
ResetSystem ==
    /\ op = Idle
    /\ op' = [Idle EXCEPT !.name = "reset-choices", !.todo = SetToSeq(users_preferring_face)]
    /\ UNCHANGED <<system, etc, main, manifest, own, edits, aborted, botched>> /\ UNCHANGED lockVars

\* One user's choice; the write as that user may fail, which is not looked at.
ResetChoice == \E fails \in BOOLEAN :
    /\ op.name = "reset-choices" /\ op.todo # <<>>
    /\ LET user == Head(op.todo)
       IN  IF fails THEN choice' = choice /\ stuck' = stuck \cup {user}
           ELSE WriteChoice(user, "Regular") /\ stuck' = stuck \ {user}
    /\ op' = [op EXCEPT !.todo = Tail(@)]
    /\ UNCHANGED <<system, etc, main, manifest, own, edits, aborted, botched, cli>>

FilesNext ==
    \/ SetTargetOn \/ Refresh \/ EnableStep \/ EnableFails \/ RollbackStep
    \/ SetTargetOff \/ StartReset \/ RevertStep \/ SaveState \/ Abort
    \/ AdminEdit \/ LoginSettings \/ ResetSystem \/ ResetChoice
    \/ \E user \in Users : LookUpOption(user) \/ PreferFace(user) \/ StopPreferringFace(user)

FilesSpec == FilesInit /\ [][FilesNext]_pam_vars

------------------------------------------------------------------------------
\* What the system reads for a name without us: the vendor's file, or the
\* file of /etc without our blocks and the blank line in front of them.
Plain(p, text) ==
    LET clean == SelectSeq(remove_block(text, BEGINS), LAMBDA l : l # Blank)
    IN  IF text = NoFile \/ IsOwn(text) \/ (p = RC /\ clean = <<>>)
        THEN Vendor(p) ELSE clean

Base(p) == IF p \in Path THEN Plain(p, etc[p]) ELSE Vendor(p)

\* No operation of ours, finished, failed or broken off anywhere, changes what
\* the vendor and the administrator have written: only she does ("Every
\* change is a marked block, or a whole file we created").
BaseKept == \A p \in Path \ {DROPIN} : Base(p) = own[p]

\* The entry an operation goes by: its own copy once it has read the manifest.
Entry(p) == IF op.name \in {"idle", "reset-choices"} THEN manifest[p] ELSE op.state[p]

\* It calls a file with our block and the administrator's lines a copy.
Mistakes(p, entry, text) ==
    /\ entry.action = "copied"
    /\ \E b \in BEGINS : has_block(text, b)
    /\ Plain(p, text) # Vendor(p)

\* No step of any operation, also of one that follows operations broken off
\* anywhere, changes what the vendor and the administrator have written, but
\* for one case: a file she wrote in is deleted where the manifest calls it a
\* copy that nobody edited since.  And the manifest comes to call her file a
\* copy in two ways only: she edits a copy while our block is in it, or an
\* operation is broken off after it wrote our block into a file of her own
\* that stands where a copy stood, and the entry of that copy is still there.
BaseStays ==
    [][\A p \in Path \ {DROPIN} :
         /\ etc'[p] # etc[p] /\ own'[p] = own[p] =>
              \/ Plain(p, etc'[p]) = Plain(p, etc[p])
              \/ Mistakes(p, Entry(p), etc[p]) /\ Entry(p).sha = etc[p]
         /\ Mistakes(p, Entry(p)', etc'[p]) =>
              Mistakes(p, Entry(p), etc[p]) \/ own'[p] # own[p] \/ aborted' # aborted]_pam_vars

\* The drop-in logs in without a password, so it is there only while both of
\* KWallet's blocks are: also between the steps of enable, of its rollback, of
\* disable and of reset, and wherever one of them was broken off.  The one
\* exception: an enable that fails once the drop-in is written takes KWallet's
\* blocks away first, and a drop-in it then leaves stays until it is removed.
DropInHasWallet ==
    etc[DROPIN] # NoFile /\ ~botched =>
      /\ has_block(etc["plasmalogin"], WALLET_BEGIN)
      /\ has_block(etc["plasmalogin-autologin"], WALLET_BEGIN)

\* A failed enable leaves every file as it was ("so a target is never left
\* half on").
RollbackRestores == op.name = "rollback" /\ op.todo = <<>> => etc = op.before

\* A finished disable leaves none of the target's blocks, whatever was broken
\* off before; the automatic login is gone from both of its files.
OffIsOff ==
    op.name = "disable" /\ op.todo = <<>> =>
      IF op.target = "auto-login"
      THEN /\ etc[DROPIN] = NoFile
           /\ op.user # NoUser => LastValue(main, "Autologin", "User") # op.user
           /\ \A p \in Service : ~has_block(etc[p], WALLET_BEGIN)
      ELSE \A i \in DOMAIN plan(op.target) :
             LET p == plan(op.target)[i][1]
             IN  p # RC => ~has_block(etc[p], BEGIN) /\ ~IsOwn(etc[p])

\* A finished reset leaves nothing of ours in any file, with whatever manifest
\* earlier operations left.
ResetIsClean ==
    op.name = "reset" /\ op.todo = <<>> =>
      /\ etc[DROPIN] = NoFile
      /\ \A p \in Path : /\ ~IsOwn(etc[p])
                        /\ \A i \in DOMAIN etc[p] : ~ours(etc[p][i])
                        /\ \A b \in BEGINS : ~has_block(etc[p], b)

\* "When face unlock is turned off again and nobody else changed the copy, it
\* is deleted so the vendor file applies": no copy stays without a block.
CopiesGo ==
    aborted = 0 /\ op = Idle =>
      \A p \in Service : etc[p] = NoFile \/ etc[p] # Vendor(p)

\* An operation of enable, disable or reset that has come to its end has done
\* the whole of what it is for, or, if it failed, nothing.
AllOrNothing == RollbackRestores /\ OffIsOff /\ ResetIsClean /\ CopiesGo

\* kscreenlocker crashes when a user's choice is Face and the option is off:
\* the two stay in step, except for a user who made the choice while the
\* option was being taken away or whose file could not be written.
ChoiceHasOption ==
    \A u \in Users : read_choice(choice[u]) = "Face" /\ u \notin stuck => face_enabled

\* A choice written for the lock screen is the one it reads, whatever its file
\* held; every other line stays, and there is one [Greeter] group.
ChoiceIsKept ==
    \A u \in Users, value \in {"Face", "Regular"} :
      LET new == set_choice(choice[u], value)
          Rest(lines) == Pick(lines, {i \in DOMAIN lines : /\ lines[i][1] # "Authenticator"
                                                          /\ lines[i] # <<"[", "Greeter">>})
      IN  /\ LastValue(new, "Greeter", "Authenticator") = value
          /\ Rest(new) = Rest(choice[u])
          /\ Cardinality({i \in DOMAIN new : new[i] = <<"[", "Greeter">>}) = 1

\* The lock screen starts and asks what the user chose: her choice has its
\* option, and writing a choice has that effect and no other.
LockScreenStarts == ChoiceHasOption /\ ChoiceIsKept

\* The lines of a text and of the files it pulls in, by includes of includes.
Lines(t) == {t[i] : i \in DOMAIN t}

StackLines(files, t) ==
    LET Into(S) == {included(l) : l \in S} \cap DOMAIN files
        Behind(S) == UNION {Lines(files[n]) : n \in Into(S)}
        reach[k \in 0..Cardinality(DOMAIN files)] ==
          IF k = 0 THEN Lines(t) ELSE LET near == reach[k - 1] IN near \cup Behind(near)
    IN  reach[Cardinality(DOMAIN files)]

\* The checks of the whole stack a service file pulls in.
Checks(files, t) == {gate_line(l) : l \in {x \in StackLines(files, t) : is_gate(x)}}

\* A face match ends the stack, so the checks must be ahead of the installed
\* face line.  Nothing else stands there, each check once; a check of the
\* vendor's is there from the step that writes the block until it goes; and
\* when enable or a refresh is done with a file every check of the files as
\* they then are is there.  (One that the administrator adds to a file, or to a
\* file it includes, is not ahead of a block written before, until then.)
GatesKept ==
    LET bare == [n \in DOMAIN Stacks |-> Base(n)]
    IN  \A p \in {q \in Service : has_block(etc[q], BEGIN) /\ ~IsOwn(etc[q])} :
          LET t == etc[p]
              start == Min({i \in DOMAIN t : t[i] = BEGIN})
              at == Min({i \in DOMAIN t : i > start /\ t[i] = insert_line(p)})
              ahead == {t[i] : i \in start+1..at-1}
              checks == Checks(bare, bare[p])
              written == /\ op.name = "enable"
                         /\ Insert(p) \in Lines(op.plan) \ Lines(op.todo)
          IN  /\ ahead \subseteq checks
              /\ Cardinality(ahead) = at - start - 1
              /\ Vendor(p) # NoFile => Checks(system.vendor, Vendor(p)) \subseteq ahead
              /\ written => ahead = checks

\* kde-face asks for the face exactly once, keeps the lines of other types and
\* has neither the fingerprint's line nor a permit; made from kde, it has no
\* other auth line.
OwnStackAsksFace ==
    LET t == etc["kde-face"]
        Other(l) == ~is_auth_line(l) /\ l.type # "#"
    IN  IsOwn(t) =>
          /\ Cardinality({i \in DOMAIN t : t[i] = OWN_STACK_LINE}) = 1
          /\ \A i \in DOMAIN t : t[i].mod \notin OWN_STACK_DROP
          /\ ~Fingerprint => \A i \in DOMAIN t : is_auth_line(t[i]) => ours(t[i])

\* Neither of the two kinds of stack lets a person in past a check or without
\* a face: what grants is our line, behind the stack's own checks.
StacksStayGuarded == GatesKept /\ OwnStackAsksFace
==============================================================================
