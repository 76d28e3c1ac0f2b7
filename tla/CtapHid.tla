------------------------------- MODULE CtapHid -------------------------------
(***************************************************************************)
(* The passkey transport: CtapHidDevice of webauthn/ctaphid.py and the     *)
(* FaceVerifier of verification.py that the command it runs waits in.      *)
(*                                                                         *)
(* One reader thread handles the reports of the host one after the other   *)
(* (run_service).  A CBOR command runs in a worker thread, which has a     *)
(* keepalive thread of its own.  The three meet in the two locks: _lock of *)
(* the device, around _active_cid, _cancelled and _cancel_reply, and _lock *)
(* of the verifier, around _running.  What a thread does between two       *)
(* points where another one can notice is one action.                      *)
(*                                                                         *)
(* The host sends any report at any time.  A channel assembles a CBOR      *)
(* message, of which only the number of continuation frames still to come  *)
(* counts; PING, WINK, LOCK, MSG and unknown commands, which the reader    *)
(* answers itself, only take the place of what was assembled.  Outgoing    *)
(* messages are sent whole, as _send_lock makes them; what a command does  *)
(* besides verifying a face is in module Passkeys.                         *)
(***************************************************************************)
EXTENDS Integers

CONSTANTS
  MAX_CHANNELS,    \* channels the host allocates, a bound of the model
  MAX_FRAMES,      \* continuation frames of a message, a bound of the model
  Worker,          \* worker threads that can be alive at a time
  NoWorker,
  NoChannel

Channel == 1..MAX_CHANNELS

ASSUME CtapAssumption ==
  /\ MAX_CHANNELS \in Nat
  /\ MAX_FRAMES \in Nat
  /\ NoWorker \notin Worker
  /\ NoChannel \notin Channel

VARIABLES
  \* the reader thread
  next_cid,         \* _next_cid: the channels are those below it
  partial,          \* channel -> frames its CBOR message lacks, 0 for none
  reader,           \* what is left of the report it handles, see Reader
  \* the device, under its _lock
  active_cid,       \* _active_cid
  cancelled,        \* _cancelled
  cancel_reply,     \* _cancel_reply
  \* the worker threads
  worker,           \* where _run_cbor is, "off" for no thread
  chan,             \* its cid
  response,         \* what handle_cbor answers: "success" is a signature or
                    \* another answer given for a face, "denied" any other
  keepalive,        \* its keepalive thread
  \* the verifier
  running,          \* the worker that set _running, or NoWorker
  verify_cancelled, \* _running["cancelled"]
  bus,              \* _running["bus"] is set
  dropping,         \* bus.disconnect is scheduled on the loop
  \* history, read by the properties only
  reset,            \* the worker's channel was re-synchronised meanwhile
  cut               \* where the worker was when the verifier was cancelled

reader_vars == <<next_cid, partial, reader>>
device_vars == <<active_cid, cancelled, cancel_reply>>
worker_vars == <<worker, chan, response, keepalive>>
verifier_vars == <<running, verify_cancelled, bus, dropping>>
vars == <<reader_vars, device_vars, worker_vars, verifier_vars, reset, cut>>

\* idle: reads; cancelling: _cancel_active has left _lock; waking: cancel() of
\* the verifier has set "cancelled"; init: the answer to INIT is to be sent
Reader == [at : {"idle", "cancelling", "waking", "init"},
           cid : Channel \cup {NoChannel}, init : BOOLEAN]
Idle == [at |-> "idle", cid |-> NoChannel, init |-> FALSE]

Verifying == {"connecting", "connected", "calling", "replied", "closing"}
\* handle_cbor has been called and has not returned
Handling == {"command"} \cup Verifying

TypeOK ==
  /\ next_cid \in 1..(MAX_CHANNELS + 1)
  /\ partial \in [Channel -> 0..MAX_FRAMES]
  /\ reader \in Reader
  /\ active_cid \in Channel \cup {NoChannel}
  /\ cancelled \in BOOLEAN
  /\ cancel_reply \in BOOLEAN
  /\ worker \in [Worker -> Handling \cup
                   {"off", "starting", "joining", "joined", "sending"}]
  /\ chan \in [Worker -> Channel \cup {NoChannel}]
  /\ response \in [Worker -> {"none", "success", "cancelled", "denied"}]
  /\ keepalive \in [Worker -> {"off", "waiting", "sending"}]
  /\ running \in Worker \cup {NoWorker}
  /\ verify_cancelled \in BOOLEAN
  /\ bus \in BOOLEAN
  /\ dropping \in BOOLEAN
  /\ reset \in [Worker -> BOOLEAN]
  /\ cut \in [Worker -> {"no", "early", "verifying"}]

Init ==
  /\ next_cid = 1
  /\ partial = [c \in Channel |-> 0]
  /\ reader = Idle
  /\ active_cid = NoChannel
  /\ cancelled = FALSE
  /\ cancel_reply = TRUE
  /\ worker = [w \in Worker |-> "off"]
  /\ chan = [w \in Worker |-> NoChannel]
  /\ response = [w \in Worker |-> "none"]
  /\ keepalive = [w \in Worker |-> "off"]
  /\ running = NoWorker
  /\ verify_cancelled = FALSE
  /\ bus = FALSE
  /\ dropping = FALSE
  /\ reset = [w \in Worker |-> FALSE]
  /\ cut = [w \in Worker |-> "no"]

-----------------------------------------------------------------------------
(***************************************************************************)
(* The reader thread.                                                      *)
(***************************************************************************)

\* self.channels
Channels == {c \in Channel : c < next_cid}

\* The workers whose transaction the host believes open on channel c
Open(c) == {w \in Worker : worker[w] # "off" /\ chan[w] = c}

\* INIT on the broadcast channel
Allocate ==
  /\ reader = Idle
  /\ next_cid <= MAX_CHANNELS
  /\ next_cid' = next_cid + 1
  /\ UNCHANGED <<partial, reader, device_vars, worker_vars, verifier_vars, reset, cut>>

\* Fault: one more command may start on the channel that runs one
FreeForOwn(c) == active_cid \in {NoChannel, c}

\* The test of _start_cbor
Free(c) == active_cid = NoChannel

\* Fault: _cancelled keeps the value the last command left
KeptCancelled == cancelled

\* What _start_cbor sets _cancelled to
FreshCancelled == FALSE

\* The threads a command can run in; which one it is makes no difference
Unused == {w \in Worker : worker[w] = "off"}

\* The locked part of _start_cbor; ERR_CHANNEL_BUSY changes nothing
StartCbor(c) ==
  IF Free(c)
  THEN LET w == CHOOSE w \in Unused : TRUE
       IN /\ Unused # {}
          /\ active_cid' = c
          /\ cancelled' = FreshCancelled
          /\ worker' = [worker EXCEPT ![w] = "starting"]
          /\ chan' = [chan EXCEPT ![w] = c]
          /\ UNCHANGED <<cancel_reply, response, keepalive, reset, cut>>
  ELSE UNCHANGED <<device_vars, worker_vars, reset, cut>>

\* A CBOR message is dispatched once no frame is left
Assemble(c, left) ==
  /\ partial' = [partial EXCEPT ![c] = left]
  /\ IF left = 0 THEN StartCbor(c)
     ELSE UNCHANGED <<device_vars, worker_vars, reset, cut>>

\* The first frame of a CBOR message, which replaces what the channel
\* assembled.  Refused while a command of another channel runs
InitFrame(c, left) ==
  /\ reader = Idle
  /\ c \in Channels
  /\ active_cid \in {NoChannel, c}
  /\ Assemble(c, left)
  /\ UNCHANGED <<next_cid, reader, verifier_vars>>

\* The first frame of another message, or an empty CBOR message
OtherFrame(c) ==
  /\ reader = Idle
  /\ c \in Channels
  /\ active_cid \in {NoChannel, c}
  /\ partial' = [partial EXCEPT ![c] = 0]
  /\ UNCHANGED <<next_cid, reader, device_vars, worker_vars, verifier_vars, reset, cut>>

\* The channel assembles a message; other continuation frames are ignored
Assembling(c) == partial[c] > 0

\* The next frame of a message
ContFrame(c) ==
  /\ reader = Idle
  /\ Assembling(c)
  /\ Assemble(c, partial[c] - 1)
  /\ UNCHANGED <<next_cid, reader, verifier_vars>>

\* A frame with another sequence number
WrongSeq(c) ==
  /\ reader = Idle
  /\ Assembling(c)
  /\ partial' = [partial EXCEPT ![c] = 0]
  /\ UNCHANGED <<next_cid, reader, device_vars, worker_vars, verifier_vars, reset, cut>>

\* The locked part of _cancel_active, where channel c runs a command
CancelActive(c, reply) ==
  /\ cancelled' = TRUE
  /\ cancel_reply' = reply
  /\ reader' = [at |-> "cancelling", cid |-> c, init |-> ~reply]
  /\ UNCHANGED active_cid

\* CTAPHID_CANCEL
Cancel(c) ==
  /\ reader = Idle
  /\ c \in Channels
  /\ active_cid = c
  /\ CancelActive(c, TRUE)
  /\ UNCHANGED <<next_cid, partial, worker_vars, verifier_vars, reset, cut>>

\* CTAPHID_INIT on an allocated channel
Resync(c) ==
  /\ reader = Idle
  /\ c \in Channels
  /\ partial' = [partial EXCEPT ![c] = 0]
  /\ IF active_cid = c THEN CancelActive(c, FALSE)
     ELSE /\ reader' = [at |-> "init", cid |-> c, init |-> TRUE]
          /\ UNCHANGED device_vars
  /\ reset' = [w \in Worker |-> reset[w] \/ w \in Open(c)]
  /\ UNCHANGED <<next_cid, worker_vars, verifier_vars, cut>>

\* Where the reader goes once cancel() of the verifier is done
AfterCancel ==
  IF reader.init THEN [reader EXCEPT !.at = "init"] ELSE Idle

\* FaceVerifier.cancel, the first half: a verification that has not begun is
\* not told
CancelVerify ==
  /\ reader.at = "cancelling"
  /\ IF running = NoWorker
     THEN /\ reader' = AfterCancel
          /\ UNCHANGED verify_cancelled
     ELSE /\ reader' = [reader EXCEPT !.at = "waking"]
          /\ verify_cancelled' = TRUE
  /\ cut' = [w \in Worker |->
               CASE w = running /\ worker[w] # "closing" -> "verifying"
                 [] running = NoWorker /\ w \in Open(reader.cid)
                    /\ worker[w] \in {"starting", "command"} -> "early"
                 [] OTHER -> cut[w]]
  /\ UNCHANGED <<next_cid, partial, device_vars, worker_vars, running, bus, dropping, reset>>

\* The second half: the call is woken if the verification has a connection
Wake ==
  /\ reader.at = "waking"
  /\ reader' = AfterCancel
  /\ dropping' = (dropping \/ bus)
  /\ UNCHANGED <<next_cid, partial, device_vars, worker_vars, running,
                 verify_cancelled, bus, reset, cut>>

\* The answer to INIT leaves
SendInit ==
  /\ reader.at = "init"
  /\ reader' = Idle
  /\ UNCHANGED <<next_cid, partial, device_vars, worker_vars, verifier_vars, reset, cut>>

-----------------------------------------------------------------------------
(***************************************************************************)
(* The worker thread and the verification it waits for.                    *)
(***************************************************************************)

Goes(w, from, to) ==
  /\ worker[w] = from
  /\ worker' = [worker EXCEPT ![w] = to]

Answers(w, answer) == response' = [response EXCEPT ![w] = answer]

\* _run_cbor starts the keepalive thread and calls handle_cbor
RunCbor(w) ==
  /\ Goes(w, "starting", "command")
  /\ keepalive' = [keepalive EXCEPT ![w] = "waiting"]
  /\ UNCHANGED <<reader_vars, device_vars, chan, response, verifier_vars, reset, cut>>

\* The command needs no face or is refused without one; stop.set()
NoFaceNeeded(w) ==
  /\ Goes(w, "command", "joining")
  /\ Answers(w, "denied")
  /\ UNCHANGED <<reader_vars, device_vars, chan, keepalive, verifier_vars, reset, cut>>

\* FaceVerifier.verify takes the verifier, or aborts if it is taken
Verify(w) ==
  /\ IF running = NoWorker
     THEN /\ Goes(w, "command", "connecting")
          /\ running' = w
          /\ UNCHANGED <<response, verify_cancelled, bus, dropping>>
     ELSE /\ Goes(w, "command", "joining")
          /\ Answers(w, "denied")
          /\ UNCHANGED verifier_vars
  /\ UNCHANGED <<reader_vars, device_vars, chan, keepalive, reset, cut>>

\* The connection is there: state["bus"] = bus
Connected(w) ==
  /\ Goes(w, "connecting", "connected")
  /\ bus' = TRUE
  /\ UNCHANGED <<reader_vars, device_vars, chan, response, keepalive,
                 running, verify_cancelled, dropping, reset, cut>>

\* No connection
ConnectFails(w) ==
  /\ Goes(w, "connecting", "closing")
  /\ Answers(w, "denied")
  /\ UNCHANGED <<reader_vars, device_vars, chan, keepalive, verifier_vars, reset, cut>>

\* Fault: no test between the connection and the call
CallUnchecked(w) ==
  /\ Goes(w, "connected", "calling")
  /\ UNCHANGED <<reader_vars, device_vars, chan, response, keepalive, verifier_vars, reset, cut>>

\* The test before the call
CallService(w) ==
  /\ IF verify_cancelled
     THEN Goes(w, "connected", "closing") /\ Answers(w, "cancelled")
     ELSE Goes(w, "connected", "calling") /\ UNCHANGED response
  /\ UNCHANGED <<reader_vars, device_vars, chan, keepalive, verifier_vars, reset, cut>>

\* The service answers: the face is there, or not
Reply(w) ==
  /\ Goes(w, "calling", "replied")
  /\ \E answer \in {"success", "denied"} : Answers(w, answer)
  /\ UNCHANGED <<reader_vars, device_vars, chan, keepalive, verifier_vars, reset, cut>>

\* The timeout of wait_for, of [webauthn] verify_timeout
Timeout(w) ==
  /\ Goes(w, "calling", "closing")
  /\ Answers(w, "denied")
  /\ UNCHANGED <<reader_vars, device_vars, chan, keepalive, verifier_vars, reset, cut>>

\* The call fails: cancel() dropped the connection
Dropped(w) ==
  /\ dropping
  /\ Goes(w, "calling", "closing")
  /\ Answers(w, IF verify_cancelled THEN "cancelled" ELSE "denied")
  /\ UNCHANGED <<reader_vars, device_vars, chan, keepalive, verifier_vars, reset, cut>>

\* Fault: the reply counts whatever happened meanwhile
ReplyTaken(w) == response[w]

\* What verify returns for the reply
ReplyChecked(w) == IF verify_cancelled THEN "cancelled" ELSE response[w]

\* The tests after the call
CheckReply(w) ==
  /\ Goes(w, "replied", "closing")
  /\ Answers(w, ReplyChecked(w))
  /\ UNCHANGED <<reader_vars, device_vars, chan, keepalive, verifier_vars, reset, cut>>

\* verify gives the verifier back, which cancel() holds locked until it has
\* read the bus; the command ends and stop is set
EndVerify(w) ==
  /\ reader.at # "waking"
  /\ Goes(w, "closing", "joining")
  /\ running' = NoWorker
  /\ verify_cancelled' = FALSE
  /\ bus' = FALSE
  /\ dropping' = FALSE
  /\ UNCHANGED <<reader_vars, device_vars, chan, response, keepalive, reset, cut>>

\* Fault: the worker does not wait for its keepalive thread
Unjoined(w) == TRUE

\* keepalive.join() returns
KeepaliveGone(w) == keepalive[w] = "off"

Join(w) ==
  /\ KeepaliveGone(w)
  /\ Goes(w, "joining", "joined")
  /\ UNCHANGED <<reader_vars, device_vars, chan, response, keepalive, verifier_vars, reset, cut>>

\* The thread ends, and what is local to it is gone
Ends(w) ==
  /\ worker' = [worker EXCEPT ![w] = "off"]
  /\ chan' = [chan EXCEPT ![w] = NoChannel]
  /\ response' = [response EXCEPT ![w] = "none"]
  /\ reset' = [reset EXCEPT ![w] = FALSE]
  /\ cut' = [cut EXCEPT ![w] = "no"]

\* The locked end of _run_cbor: after a re-sync the response is dropped
Release(w) ==
  /\ worker[w] = "joined"
  /\ active_cid' = NoChannel
  /\ IF cancelled /\ ~cancel_reply THEN Ends(w)
     ELSE /\ Goes(w, "joined", "sending")
          /\ UNCHANGED <<chan, response, reset, cut>>
  /\ UNCHANGED <<reader_vars, cancelled, cancel_reply, keepalive, verifier_vars>>

\* The response leaves and the thread ends
Send(w) ==
  /\ worker[w] = "sending"
  /\ Ends(w)
  /\ UNCHANGED <<reader_vars, device_vars, keepalive, verifier_vars>>

WorkerStep(w) ==
  \/ RunCbor(w) \/ NoFaceNeeded(w) \/ Verify(w)
  \/ Connected(w) \/ ConnectFails(w) \/ CallService(w)
  \/ Reply(w) \/ Timeout(w) \/ Dropped(w) \/ CheckReply(w) \/ EndVerify(w)
  \/ Join(w) \/ Release(w) \/ Send(w)

-----------------------------------------------------------------------------
(***************************************************************************)
(* The keepalive thread.                                                   *)
(***************************************************************************)

\* stop is set
Stopped(w) == worker[w] \notin Handling

\* Fault: the loop asks for the time only
Endless(w) == FALSE

\* stop.wait() says so
SeesStop(w) == Stopped(w)

\* stop.wait() runs into its timeout, or returns because stop is set
KeepaliveWait(w) ==
  /\ keepalive[w] = "waiting"
  /\ keepalive' = [keepalive EXCEPT ![w] = IF SeesStop(w) THEN "off" ELSE "sending"]
  /\ UNCHANGED <<reader_vars, device_vars, worker, chan, response, verifier_vars, reset, cut>>

\* The frame leaves
KeepaliveSend(w) ==
  /\ keepalive[w] = "sending"
  /\ keepalive' = [keepalive EXCEPT ![w] = "waiting"]
  /\ UNCHANGED <<reader_vars, device_vars, worker, chan, response, verifier_vars, reset, cut>>

KeepaliveStep(w) == KeepaliveWait(w) \/ KeepaliveSend(w)

-----------------------------------------------------------------------------
Host ==
  \/ Allocate
  \/ \E c \in Channel :
       \/ \E left \in 0..MAX_FRAMES : InitFrame(c, left)
       \/ OtherFrame(c) \/ ContFrame(c) \/ WrongSeq(c) \/ Cancel(c) \/ Resync(c)

ReaderStep == CancelVerify \/ Wake \/ SendInit

Next ==
  \/ Host
  \/ ReaderStep
  \/ \E w \in Worker : WorkerStep(w) \/ KeepaliveStep(w)

Spec == Init /\ [][Next]_vars

(***************************************************************************)
(* Threads that can go on do: the reader finishes the report it handles,   *)
(* a worker its command, and a call to the service ends with its timeout   *)
(* at the latest.  A worker that waits for the verifier's lock gets it in  *)
(* the end, although a host that cancels on and on takes it again and      *)
(* again.  Nothing is assumed of the host.                                 *)
(***************************************************************************)
FairSpec ==
  /\ Spec
  /\ WF_vars(ReaderStep)
  /\ \A w \in Worker :
       WF_vars(WorkerStep(w)) /\ WF_vars(KeepaliveStep(w)) /\ SF_vars(EndVerify(w))

-----------------------------------------------------------------------------
(***************************************************************************)
(* One command at a time: handle_cbor never runs in two threads, although  *)
(* a worker may still have its response to send when the next one starts.  *)
(* The Authenticator keeps _next_assertions without a lock, and a second   *)
(* verification would be answered ABORT.                                   *)
(***************************************************************************)
OneCommand ==
  /\ \A v, w \in Worker : worker[v] \in Handling /\ worker[w] \in Handling => v = w
  /\ \A w \in Worker : worker[w] = "command" => running = NoWorker

(***************************************************************************)
(* cancel() of the verifier that meets a verification before its result is *)
(* decided makes it fail: a face that is recognised in the same moment     *)
(* signs nothing.                                                          *)
(***************************************************************************)
CancelDenies ==
  \A w \in Worker :
    cut[w] = "verifying" /\ worker[w] \in {"closing", "joining", "joined", "sending"}
      => response[w] # "success"

(***************************************************************************)
(* ... and makes it end soon: cancel() sets "cancelled" and then looks for *)
(* the bus, verify sets the bus and then looks at "cancelled", so a        *)
(* cancelled verification is never left waiting for the service with       *)
(* nobody to wake it.                                                      *)
(***************************************************************************)
CancelWakes ==
  \A w \in Worker :
    cut[w] = "verifying" /\ worker[w] = "calling"
      => dropping \/ reader.at = "waking"

(***************************************************************************)
(* "the host expects exactly one response frame for its request": a        *)
(* response is dropped only if the host re-synchronised the channel while  *)
(* that very request was open.  The _cancelled of an earlier request never *)
(* swallows the response of a later one.                                   *)
(***************************************************************************)
DroppedOnlyAfterReset ==
  [][\A w \in Worker :
       worker[w] = "joined" /\ worker'[w] = "off" => reset[w]]_vars

(***************************************************************************)
(* A keepalive never follows the response to its request: the frame that   *)
(* was about to leave when the command ended is waited for.                *)
(***************************************************************************)
KeepaliveBeforeResponse ==
  \A w \in Worker :
    worker[w] \in {"off", "starting", "joined", "sending"} => keepalive[w] = "off"

(***************************************************************************)
(* Every command ends, whatever the host, the service and the face do.     *)
(***************************************************************************)
EveryCommandEnds ==
  \A w \in Worker : worker[w] = "starting" ~> worker[w] = "off"

=============================================================================
