----------------------------- MODULE PamIdentify -----------------------------
(***************************************************************************)
(* One authentication by pam_linux_hello.so: identify() of pam/main.cc     *)
(* with its two threads (optional_task.hh), VerifyRequest::run of          *)
(* daemon_client.cc, and what the PAM line that integration/pam.py wrote   *)
(* makes of the result.                                                    *)
(*                                                                         *)
(* The main thread is `pc'.  verify_task waits for the service's answer,   *)
(* pass_task for the password; the first of them to finish decides what    *)
(* the main thread does, and either may still finish while it acts.        *)
(***************************************************************************)
EXTENDS Integers

CONSTANTS
  MAX_RETRIES      \* Enter presses after the first

ASSUME RetriesAssumption == MAX_RETRIES \in Nat

(***************************************************************************)
(* The stacks a target's line is in.  kde: a lock or login screen that     *)
(* asks with PAM; kde-face: the lock screen's own stack, "no_password";    *)
(* sddm: a login screen that reads its form first; sudo: everything that   *)
(* elevates.                                                               *)
(***************************************************************************)
Stack == {"kde", "kde-face", "sddm", "sudo"}
Workaround == {"Off", "Input", "Native"}
Status == {"Answered", "Unavailable", "TimedOut", "Cancelled", "Failed"}

\* Result codes of the service.  Other failures are treated like ABORT
CompareResult ==
  {"SUCCESS", "NO_FACE_MODEL", "INVALID_DEVICE", "TIMEOUT_REACHED", "ABORT",
   "NOT_CONFIRMED", "CONFIRM_PAUSED", "SKIPPED", "NOT_LOCAL",
   "CONFIRM_CONFLICT"}

\* PAM_ERROR: what a failing pam_get_user, pam_get_item or pam_get_authtok
\* returned
PamCode ==
  {"PAM_SUCCESS", "PAM_IGNORE", "PAM_AUTH_ERR", "PAM_AUTHINFO_UNAVAIL",
   "PAM_INCOMPLETE", "PAM_ERROR"}

VARIABLES
  \* the call and the configuration, which do not change
  stack,
  ask_auth_tok,        \* called as an auth module, not as a session module
  confirm_elevation,
  workaround,
  \* the main thread
  pc,
  presses,             \* Enter presses sent to the prompt
  returned,            \* the PAM code, once pc = "returned"
  \* shared by the threads
  confirmation_type,
  cancelled,           \* VerifyRequest::cancelled_
  \* verify_task
  verify,              \* "off", "calling", "over" (run has returned), "ended"
  status,              \* what run returned
  result,              \* VerifyRequest::result_, 0 until an answer arrives
  \* pass_task
  pass,                \* "off", "prompting", "over", "ended"
  pass_res,            \* what pam_get_authtok returned
  kill,                \* pthread_cancel was called
  \* history, read by the properties only
  typed,               \* a person entered a password, in the form or prompt
  verified             \* the method the service answered SUCCESS to, "no" before

call_vars == <<stack, ask_auth_tok, confirm_elevation, workaround>>
main_vars == <<pc, presses, returned>>
verify_vars == <<verify, status, result, verified>>
pass_vars == <<pass, pass_res, typed>>
vars == <<call_vars, main_vars, confirmation_type, cancelled, verify_vars,
          pass_vars, kill>>

FlagsOK ==
  /\ ask_auth_tok \in BOOLEAN
  /\ confirm_elevation \in BOOLEAN
  /\ cancelled \in BOOLEAN
  /\ kill \in BOOLEAN
  /\ typed \in BOOLEAN

TypeOK ==
  /\ FlagsOK
  /\ stack \in Stack
  /\ workaround \in Workaround
  /\ pc \in {"form", "checks", "confirmed", "racing", "dropping", "face",
             "password", "pressing", "joining", "returned"}
  /\ presses \in 0..(MAX_RETRIES + 1)
  /\ returned \in PamCode
  /\ confirmation_type \in {"Unset", "LinuxHello", "Pam"}
  /\ verify \in {"off", "calling", "over", "ended"}
  /\ status \in Status
  /\ result \in CompareResult
  /\ pass \in {"off", "prompting", "over", "ended"}
  /\ pass_res \in {"PAM_SUCCESS", "PAM_ERROR"}
  /\ verified \in {"no", "Verify", "VerifyConfirmed"}

-----------------------------------------------------------------------------
(***************************************************************************)
(* Conditions of identify().                                               *)
(***************************************************************************)

\* The argument of OWN_STACK_LINE
no_password == stack = "kde-face"

password_first == ask_auth_tok /\ stack = "sddm"

needs_confirmation == ~no_password /\ confirm_elevation /\ stack = "sudo"

ask_pass ==
  ask_auth_tok /\ ~no_password /\ ~password_first /\ workaround # "Off"

\* linux_hello_error
linux_hello_error(r) ==
  IF r \in {"NO_FACE_MODEL", "INVALID_DEVICE"}
  THEN "PAM_AUTHINFO_UNAVAIL" ELSE "PAM_AUTH_ERR"

\* linux_hello_status
linux_hello_status(r) ==
  IF r = "SUCCESS" THEN "PAM_SUCCESS" ELSE linux_hello_error(r)

\* Fault: an error leaves the result as it is
ResultOfReply == result

\* What identify() makes of the service's status
ResultOfStatus ==
  CASE status = "Answered" -> result
    [] status = "TimedOut" -> "TIMEOUT_REACHED"
    [] OTHER               -> "ABORT"

\* The switch of identify_confirmed
ConfirmedCode(s, r) ==
  CASE s # "Answered" -> "PAM_AUTHINFO_UNAVAIL"
    [] s = "Answered" /\ r \in {"SKIPPED", "NOT_LOCAL", "CONFIRM_CONFLICT",
                                "NOT_CONFIRMED", "CONFIRM_PAUSED"}
                      -> "PAM_IGNORE"
    [] OTHER          -> linux_hello_status(r)

-----------------------------------------------------------------------------
Init ==
  /\ stack \in Stack
  /\ ask_auth_tok \in BOOLEAN
  /\ confirm_elevation \in BOOLEAN
  /\ workaround \in Workaround
  /\ pc = IF password_first THEN "form" ELSE "checks"
  /\ presses = 0
  /\ returned = "PAM_IGNORE"
  /\ confirmation_type = "Unset"
  /\ cancelled = FALSE
  /\ verify = "off"
  /\ status = "Failed"
  /\ result = "SUCCESS"
  /\ pass = "off"
  /\ pass_res = "PAM_SUCCESS"
  /\ kill = FALSE
  /\ typed = FALSE
  /\ verified = "no"

GoTo(place) ==
  /\ pc' = place
  /\ UNCHANGED <<presses, returned>>

Return(code) ==
  /\ pc' = "returned"
  /\ returned' = code
  /\ UNCHANGED presses

-----------------------------------------------------------------------------
(***************************************************************************)
(* The main thread, before the race.                                       *)
(***************************************************************************)

\* Fault: the form is asked for but not looked at
ReadFormUnseen ==
  /\ pc = "form"
  /\ typed' \in BOOLEAN
  /\ GoTo("checks")
  /\ UNCHANGED <<call_vars, confirmation_type, cancelled, verify_vars, pass,
                 pass_res, kill>>

\* The login screen's form.  A typed password, or one that cannot be had,
\* makes the module step aside; an empty one asks for the face
ReadForm ==
  /\ pc = "form"
  /\ \/ typed' = TRUE /\ Return("PAM_IGNORE")
     \/ typed' = FALSE /\ Return("PAM_IGNORE")       \* got is an error
     \/ typed' = FALSE /\ Return("PAM_INCOMPLETE")   \* PAM_CONV_AGAIN
     \/ typed' = FALSE /\ GoTo("checks")
  /\ UNCHANGED <<call_vars, confirmation_type, cancelled, verify_vars, pass,
                 pass_res, kill>>

\* The configuration cannot be read, no user or conversation from PAM; or
\* check_enabled: disabled, over ssh, lid closed, no face model
NotEnabled ==
  /\ pc = "checks"
  /\ \E code \in {"PAM_AUTHINFO_UNAVAIL", "PAM_ERROR"} : Return(code)
  /\ UNCHANGED <<call_vars, confirmation_type, cancelled, verify_vars,
                 pass_vars, kill>>

\* A session module has no prompt to confirm with
NothingToConfirmWith ==
  /\ pc = "checks"
  /\ needs_confirmation
  /\ ~ask_auth_tok
  /\ Return("PAM_IGNORE")
  /\ UNCHANGED <<call_vars, confirmation_type, cancelled, verify_vars,
                 pass_vars, kill>>

\* identify_confirmed: it cannot be told who asks, or the request is sent,
\* on this thread
UnknownRequester ==
  /\ pc = "checks"
  /\ needs_confirmation
  /\ ask_auth_tok
  /\ Return("PAM_IGNORE")
  /\ UNCHANGED <<call_vars, confirmation_type, cancelled, verify_vars,
                 pass_vars, kill>>

VerifyConfirmed ==
  /\ pc = "checks"
  /\ needs_confirmation
  /\ ask_auth_tok
  /\ GoTo("confirmed")
  /\ verify' = "calling"
  /\ UNCHANGED <<call_vars, confirmation_type, cancelled, status, result,
                 verified, pass_vars, kill>>

ConfirmedAnswer ==
  /\ pc = "confirmed"
  /\ verify = "over"
  /\ verify' = "ended"
  /\ Return(ConfirmedCode(status, result))
  /\ UNCHANGED <<call_vars, confirmation_type, cancelled, status, result,
                 verified, pass_vars, kill>>

\* verify_task.activate(), and pass_task.activate() where a prompt is wanted
StartTasks ==
  /\ pc = "checks"
  /\ ~needs_confirmation
  /\ GoTo("racing")
  /\ verify' = "calling"
  /\ pass' = IF ask_pass THEN "prompting" ELSE "off"
  /\ UNCHANGED <<call_vars, confirmation_type, cancelled, status, result,
                 verified, pass_res, typed, kill>>

-----------------------------------------------------------------------------
(***************************************************************************)
(* The threads.                                                            *)
(***************************************************************************)

\* VerifyRequest::run: the service answers, an error or the timeout does, or
\* the loop sees cancelled_
ServiceAnswers ==
  /\ verify = "calling"
  /\ verify' = "over"
  /\ status' = "Answered"
  /\ result' \in CompareResult
  /\ verified' = IF result' # "SUCCESS" THEN verified
                 ELSE IF pc = "confirmed" THEN "VerifyConfirmed" ELSE "Verify"
  /\ UNCHANGED <<call_vars, main_vars, confirmation_type, cancelled, pass_vars,
                 kill>>

RunFails ==
  /\ verify = "calling"
  /\ verify' = "over"
  /\ status' \in {"Unavailable", "TimedOut", "Failed"}
  /\ UNCHANGED <<call_vars, main_vars, confirmation_type, cancelled, result,
                 verified, pass_vars, kill>>

RunCancelled ==
  /\ verify = "calling"
  /\ cancelled
  /\ verify' = "over"
  /\ status' = "Cancelled"
  /\ UNCHANGED <<call_vars, main_vars, confirmation_type, cancelled, result,
                 verified, pass_vars, kill>>

\* The first task to finish decides, under the mutex
TakeDecision(task) ==
  confirmation_type' = IF confirmation_type = "Unset" THEN task
                       ELSE confirmation_type

VerifyTaskEnds ==
  /\ verify = "over"
  /\ pc # "confirmed"
  /\ TakeDecision("LinuxHello")
  /\ verify' = "ended"
  /\ UNCHANGED <<call_vars, main_vars, cancelled, status, result, verified,
                 pass_vars, kill>>

\* pam_get_authtok returns: a person typed a password, or it failed
PasswordEntered ==
  /\ pass = "prompting"
  /\ pass' = "over"
  /\ pass_res' = "PAM_SUCCESS"
  /\ typed' = TRUE
  /\ UNCHANGED <<call_vars, main_vars, confirmation_type, cancelled,
                 verify_vars, kill>>

PromptFails ==
  /\ pass = "prompting"
  /\ pass' = "over"
  /\ pass_res' = "PAM_ERROR"
  /\ UNCHANGED <<call_vars, main_vars, confirmation_type, cancelled,
                 verify_vars, typed, kill>>

PassTaskEnds ==
  /\ pass = "over"
  /\ TakeDecision("Pam")
  /\ pass' = "ended"
  /\ UNCHANGED <<call_vars, main_vars, cancelled, verify_vars, pass_res, typed,
                 kill>>

\* pthread_cancel takes effect inside pam_get_authtok
PassTaskKilled ==
  /\ kill
  /\ pass = "prompting"
  /\ pass' = "ended"
  /\ UNCHANGED <<call_vars, main_vars, confirmation_type, cancelled,
                 verify_vars, pass_res, typed, kill>>

-----------------------------------------------------------------------------
(***************************************************************************)
(* The main thread, after the race.                                        *)
(***************************************************************************)

\* The password was first: cancel the request, join both threads
PasswordWins ==
  /\ pc = "racing"
  /\ confirmation_type = "Pam"
  /\ cancelled' = TRUE
  /\ GoTo("dropping")
  /\ UNCHANGED <<call_vars, confirmation_type, verify_vars, pass_vars, kill>>

PassResult ==
  IF pass_res = "PAM_SUCCESS" THEN "PAM_IGNORE" ELSE pass_res

\* Fault: the return does not wait for the request to stop
DroppedTooEarly ==
  /\ pc = "dropping"
  /\ pass = "ended"
  /\ Return(PassResult)
  /\ UNCHANGED <<call_vars, confirmation_type, cancelled, verify_vars,
                 pass_vars, kill>>

Dropped ==
  /\ pc = "dropping"
  /\ verify = "ended"
  /\ pass = "ended"
  /\ Return(PassResult)
  /\ UNCHANGED <<call_vars, confirmation_type, cancelled, verify_vars,
                 pass_vars, kill>>

\* The service was first: join verify_task and look at its status
FaceWins ==
  /\ pc = "racing"
  /\ confirmation_type = "LinuxHello"
  /\ verify = "ended"
  /\ GoTo("face")
  /\ UNCHANGED <<call_vars, confirmation_type, cancelled, verify_vars,
                 pass_vars, kill>>

\* Not verified but a prompt is open: the password decides
WaitForPassword ==
  /\ pc = "face"
  /\ ask_pass
  /\ ResultOfStatus # "SUCCESS"
  /\ GoTo("password")
  /\ UNCHANGED <<call_vars, confirmation_type, cancelled, verify_vars,
                 pass_vars, kill>>

PasswordDecides ==
  /\ pc = "password"
  /\ pass = "ended"
  /\ Return(IF pass_res = "PAM_SUCCESS" THEN "PAM_IGNORE"
            ELSE linux_hello_status(ResultOfStatus))
  /\ UNCHANGED <<call_vars, confirmation_type, cancelled, verify_vars,
                 pass_vars, kill>>

\* No prompt to stop
FaceAlone ==
  /\ pc = "face"
  /\ ~ask_pass
  /\ Return(IF status = "Unavailable" THEN "PAM_AUTHINFO_UNAVAIL"
            ELSE linux_hello_status(ResultOfStatus))
  /\ UNCHANGED <<call_vars, confirmation_type, cancelled, verify_vars,
                 pass_vars, kill>>

\* Fault: the prompt is joined without being ended
JoinPrompt ==
  /\ pc = "face"
  /\ ask_pass
  /\ ResultOfStatus = "SUCCESS"
  /\ workaround = "Native"
  /\ GoTo("joining")
  /\ UNCHANGED <<call_vars, confirmation_type, cancelled, verify_vars,
                 pass_vars, kill>>

\* Verified: end the prompt, by pthread_cancel ...
KillPrompt ==
  /\ pc = "face"
  /\ ask_pass
  /\ ResultOfStatus = "SUCCESS"
  /\ workaround = "Native"
  /\ kill' = TRUE
  /\ GoTo("joining")
  /\ UNCHANGED <<call_vars, confirmation_type, cancelled, verify_vars,
                 pass_vars>>

\* ... or with Enter from a virtual keyboard, if one can be made
NoEnterDevice ==
  /\ pc = "face"
  /\ ask_pass
  /\ ResultOfStatus = "SUCCESS"
  /\ workaround = "Input"
  /\ GoTo("joining")
  /\ UNCHANGED <<call_vars, confirmation_type, cancelled, verify_vars,
                 pass_vars, kill>>

\* The press ends the prompt, unless something else has the focus
SendEnter ==
  /\ presses' = presses + 1
  /\ \/ pass = "prompting" /\ pass' = "over" /\ pass_res' = "PAM_SUCCESS"
     \/ UNCHANGED <<pass, pass_res>>
  /\ UNCHANGED <<call_vars, returned, confirmation_type, cancelled,
                 verify_vars, typed, kill>>

FirstEnter ==
  /\ pc = "face"
  /\ ask_pass
  /\ ResultOfStatus = "SUCCESS"
  /\ workaround = "Input"
  /\ pc' = "pressing"
  /\ SendEnter

\* The wait for the task timed out
EnterAgain ==
  /\ pc = "pressing"
  /\ presses <= MAX_RETRIES
  /\ pass # "ended"
  /\ UNCHANGED pc
  /\ SendEnter

\* The task ended, the retries are used up or the device failed
EnoughPresses ==
  /\ pc = "pressing"
  /\ GoTo("joining")
  /\ UNCHANGED <<call_vars, confirmation_type, cancelled, verify_vars,
                 pass_vars, kill>>

\* pass_task.stop joins the thread, however long the prompt stays
PromptOver ==
  /\ pc = "joining"
  /\ pass = "ended"
  /\ Return(linux_hello_status(ResultOfStatus))
  /\ UNCHANGED <<call_vars, confirmation_type, cancelled, verify_vars,
                 pass_vars, kill>>

-----------------------------------------------------------------------------
Main ==
  \/ ReadForm \/ NotEnabled \/ NothingToConfirmWith \/ UnknownRequester
  \/ VerifyConfirmed \/ ConfirmedAnswer \/ StartTasks
  \/ PasswordWins \/ Dropped \/ FaceWins
  \/ WaitForPassword \/ PasswordDecides \/ FaceAlone
  \/ KillPrompt \/ NoEnterDevice \/ FirstEnter \/ EnterAgain
  \/ EnoughPresses \/ PromptOver

VerifyTask == ServiceAnswers \/ RunFails \/ RunCancelled \/ VerifyTaskEnds

Prompt == PasswordEntered \/ PromptFails

PassTask == PassTaskEnds \/ PassTaskKilled

Next == Main \/ VerifyTask \/ Prompt \/ PassTask

Spec == Init /\ [][Next]_vars

(***************************************************************************)
(* Threads run; the bus ends a call at the latest when its timeout is      *)
(* over.  Nobody has to type, so Prompt is not fair.                       *)
(***************************************************************************)
FairSpec == Spec /\ WF_vars(Main) /\ WF_vars(VerifyTask) /\ WF_vars(PassTask)

-----------------------------------------------------------------------------
(***************************************************************************)
(* The PAM line, integration/pam.py: what the stack does with the code.    *)
(* "granted": authenticated; "next": the password's own line comes next;   *)
(* "denied": the stack ends; "again": the application has to call again.   *)
(***************************************************************************)

StackDoes(code) ==
  CASE code = "PAM_INCOMPLETE" -> "again"
    [] code = "PAM_SUCCESS"    -> "granted"
    [] stack = "kde-face" /\ code \notin {"PAM_SUCCESS", "PAM_INCOMPLETE"}
                               -> "denied"
    [] stack = "sddm" /\ code = "PAM_AUTH_ERR"
                               -> "denied"
    [] OTHER                   -> "next"

(***************************************************************************)
(* Properties.                                                             *)
(***************************************************************************)

Over == pc = "returned"

\* identify() succeeds only after the service answered SUCCESS to this very
\* request, and in a stack that elevates only to VerifyConfirmed, which
\* waits for Enter, unless confirm_elevation is off.  An error, a timeout or
\* a cancelled call never counts although VerifyRequest's result is 0 then
FaceBehindGrant ==
  Over /\ StackDoes(returned) = "granted" =>
    /\ verified # "no"
    /\ stack = "sudo" /\ confirm_elevation => verified = "VerifyConfirmed"

\* A password a person typed, in the form or at the prompt, is left to the
\* lines behind ours, whatever the service did and whichever thread was
\* first, unless the face was verified
PasswordGoesOn ==
  Over /\ typed =>
    \/ returned = "PAM_IGNORE" /\ StackDoes(returned) = "next"
    \/ returned = "PAM_SUCCESS" /\ verified # "no"

\* When identify() returns, no thread of it is left that could touch its
\* variables, the conversation or the bus connection
NoThreadLeft == Over => verify \in {"off", "ended"} /\ pass \in {"off", "ended"}

\* identify() ends without a key being pressed where no prompt is open, and
\* where the face was verified and the prompt is ended with pthread_cancel
EndsByItself ==
  /\ ~ask_pass ~> Over
  /\ pc = "joining" /\ workaround = "Native" ~> Over

-----------------------------------------------------------------------------
(***************************************************************************)
(* The inductive invariant behind the safety properties.                   *)
(***************************************************************************)

Racing == {"racing", "dropping", "face", "password", "pressing", "joining"}

\* Where the main thread is tells which way it came and which threads there are
PlaceInv ==
  /\ pc = "form" => password_first
  /\ pc \in {"form", "checks"} =>
       verify = "off" /\ verified = "no" /\ ~typed
  /\ pc = "confirmed" => needs_confirmation
  /\ pc \in Racing => ~needs_confirmation
  /\ pc \in {"form", "checks", "confirmed"} => pass = "off"
  /\ pass # "off" => ask_pass
  /\ confirmation_type = "Pam" => pass = "ended"
  /\ pc \in {"dropping", "password", "pressing", "joining"} => ask_pass
  /\ pc \in {"face", "password", "pressing", "joining"} => verify = "ended"
  /\ pc \notin {"pressing", "joining", "returned"} => presses = 0

\* An answered request with result 0 was answered SUCCESS by the service
AnswerInv ==
  /\ verify \in {"off", "calling"} => status = "Failed" /\ verified = "no"
  /\ status = "Answered" /\ result = "SUCCESS" => verified # "no"
  /\ pc = "confirmed" => verified \in {"no", "VerifyConfirmed"}
  /\ pc \in {"pressing", "joining"} => ResultOfStatus = "SUCCESS"

\* A password typed at the prompt is what pam_get_authtok returned
TypedInv ==
  /\ typed /\ pc # "returned" => pass \in {"over", "ended"}
  /\ typed /\ pass # "off" => pass_res = "PAM_SUCCESS"

IInv ==
  TypeOK /\ PlaceInv /\ AnswerInv /\ TypedInv
  /\ NoThreadLeft /\ FaceBehindGrant /\ PasswordGoesOn
=============================================================================
