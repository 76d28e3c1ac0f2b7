---------------------------- MODULE CtapHidProofs ----------------------------
(***************************************************************************)
(* Proofs about module CtapHid, for any number of channels, frames and     *)
(* worker threads.                                                         *)
(***************************************************************************)
EXTENDS CtapHid, TLAPS

(***************************************************************************)
(* The inductive invariant.                                                *)
(***************************************************************************)

\* From _start_cbor to the locked end of _run_cbor
Busy == {"starting", "joining", "joined"} \cup Handling

\* _active_cid belongs to the one worker that is busy
Active ==
  /\ \A w \in Worker : worker[w] \in Busy => chan[w] = active_cid /\ chan[w] # NoChannel
  /\ \A v, w \in Worker : worker[v] \in Busy /\ worker[w] \in Busy => v = w

\* _running belongs to the worker that is verifying, whose bus is set before
\* the call
Running ==
  \A w \in Worker :
    /\ worker[w] \in Verifying <=> running = w
    /\ worker[w] \in {"connected", "calling", "replied"} => bus

\* What cancel() of the verifier leads to
Cut ==
  \A w \in Worker : cut[w] = "verifying" =>
    /\ worker[w] \notin {"off", "starting", "command"}
    /\ worker[w] \in {"connecting", "connected", "calling", "replied"} => verify_cancelled
    /\ worker[w] \in {"closing", "joining", "joined", "sending"} => response[w] # "success"
    /\ worker[w] = "calling" => dropping \/ reader.at = "waking"

IInv ==
  /\ TypeOK
  /\ Active
  /\ Running
  /\ Cut
  /\ KeepaliveBeforeResponse

-----------------------------------------------------------------------------
(***************************************************************************)
(* Every step keeps the invariant.                                         *)
(***************************************************************************)

\* A command starts in an unused thread
LEMMA StartKeeps ==
  ASSUME IInv, NEW c \in Channel, StartCbor(c), UNCHANGED verifier_vars, reader' = reader,
         next_cid' = next_cid, partial' \in [Channel -> 0..MAX_FRAMES]
  PROVE  IInv'
<1> USE DEF IInv, verifier_vars
<1>1. CASE Free(c)
  <2> DEFINE w == CHOOSE w \in Unused : TRUE
  <2>1. /\ Unused # {}
        /\ active_cid' = c /\ cancelled' = FreshCancelled
        /\ worker' = [worker EXCEPT ![w] = "starting"]
        /\ chan' = [chan EXCEPT ![w] = c]
        /\ UNCHANGED <<cancel_reply, response, keepalive, reset, cut>>
    BY <1>1 DEF StartCbor
  <2>2. w \in Worker /\ worker[w] = "off"
    BY <2>1 DEF Unused
  <2> HIDE DEF w
  <2>3. \A v \in Worker : worker[v] \notin Busy
    BY <1>1 DEF Free, Active
  <2>4. TypeOK'
    BY <2>1, <2>2 DEF TypeOK, FreshCancelled
  <2>5. /\ worker'[w] = "starting" /\ chan'[w] = c /\ c # NoChannel
        /\ \A v \in Worker \ {w} : worker'[v] = worker[v] /\ chan'[v] = chan[v]
    BY <2>1, <2>2, CtapAssumption DEF TypeOK
  <2>6. Active'
    BY <2>1, <2>3, <2>5 DEF Active, Busy, Handling, Verifying
  <2>7. Running'
    BY <2>1, <2>2, <2>5 DEF Running, Verifying
  <2>8. Cut'
    BY <2>1, <2>2, <2>5 DEF Cut
  <2>9. KeepaliveBeforeResponse'
    BY <2>1, <2>2, <2>5 DEF KeepaliveBeforeResponse
  <2> QED
    BY <2>4, <2>6, <2>7, <2>8, <2>9
<1>2. CASE ~Free(c)
  <2>1. UNCHANGED <<device_vars, worker_vars, reset, cut>>
    BY <1>2 DEF StartCbor
  <2> QED
    BY <2>1 DEF TypeOK, Active, Running, Cut, KeepaliveBeforeResponse, device_vars, worker_vars
<1> QED
  BY <1>1, <1>2

\* The reports of the host
LEMMA HostKeeps ==
  ASSUME IInv, Host
  PROVE  IInv'
<1> USE DEF IInv
<1>1. ASSUME reader' \in Reader, reader.at # "waking",
             next_cid' \in 1..(MAX_CHANNELS + 1), partial' \in [Channel -> 0..MAX_FRAMES],
             cancelled' \in BOOLEAN, cancel_reply' \in BOOLEAN,
             reset' \in [Worker -> BOOLEAN],
             UNCHANGED <<active_cid, worker_vars, verifier_vars, cut>>
      PROVE  IInv'
  BY <1>1 DEF TypeOK, Active, Running, Cut, KeepaliveBeforeResponse, worker_vars, verifier_vars
<1>2. ASSUME NEW c \in Channel, NEW left \in 0..MAX_FRAMES, Assemble(c, left),
             UNCHANGED <<next_cid, reader, verifier_vars>>
      PROVE  IInv'
  <2>1. partial' \in [Channel -> 0..MAX_FRAMES]
    BY <1>2 DEF Assemble, TypeOK
  <2>2. CASE left = 0
    BY <1>2, <2>1, <2>2, StartKeeps DEF Assemble
  <2>3. CASE left # 0
    BY <1>2, <2>1, <2>3
       DEF Assemble, TypeOK, Active, Running, Cut, KeepaliveBeforeResponse,
           device_vars, worker_vars, verifier_vars
  <2> QED
    BY <2>2, <2>3
<1>3. MAX_FRAMES \in Nat /\ MAX_CHANNELS \in Nat
  BY CtapAssumption
<1>4. CASE Allocate
  BY <1>1, <1>3, <1>4 DEF Allocate, TypeOK, Idle, device_vars
<1>5. ASSUME NEW c \in Channel, NEW left \in 0..MAX_FRAMES, InitFrame(c, left) PROVE IInv'
  BY <1>2, <1>5 DEF InitFrame
<1>6. ASSUME NEW c \in Channel, ContFrame(c) PROVE IInv'
  <2>1. partial[c] - 1 \in 0..MAX_FRAMES
    BY <1>3, <1>6 DEF ContFrame, Assembling, TypeOK
  <2> QED
    BY <1>2, <1>6, <2>1 DEF ContFrame
<1>7. ASSUME NEW c \in Channel, OtherFrame(c) \/ WrongSeq(c) PROVE IInv'
  BY <1>1, <1>3, <1>7 DEF OtherFrame, WrongSeq, TypeOK, Idle, device_vars
<1>8. ASSUME NEW c \in Channel, Cancel(c) PROVE IInv'
  BY <1>1, <1>8 DEF Cancel, CancelActive, TypeOK, Idle, Reader
<1>9. ASSUME NEW c \in Channel, Resync(c) PROVE IInv'
  <2>1. /\ reader' \in Reader
        /\ cancelled' \in BOOLEAN
        /\ cancel_reply' \in BOOLEAN
        /\ active_cid' = active_cid
    <3>1. CASE active_cid = c
      <4>1. CancelActive(c, FALSE)
        BY <1>9, <3>1 DEF Resync
      <4>2. /\ reader' = [at |-> "cancelling", cid |-> c, init |-> TRUE]
            /\ cancelled' = TRUE /\ cancel_reply' = FALSE /\ active_cid' = active_cid
        BY <4>1 DEF CancelActive
      <4> QED
        BY <1>9, <4>2 DEF Reader
    <3>2. CASE active_cid # c
      <4>1. /\ reader' = [at |-> "init", cid |-> c, init |-> TRUE]
            /\ cancelled' = cancelled /\ cancel_reply' = cancel_reply
            /\ active_cid' = active_cid
        BY <1>9, <3>2 DEF Resync, device_vars
      <4>2. reader' \in Reader
        BY <1>9, <4>1 DEF Reader
      <4> QED
        BY <4>1, <4>2 DEF TypeOK
    <3> QED
      BY <3>1, <3>2
  <2>2. reset' \in [Worker -> BOOLEAN]
    BY <1>9 DEF Resync, TypeOK
  <2> QED
    BY <1>1, <1>3, <1>9, <2>1, <2>2 DEF Resync, TypeOK, Idle
<1> QED
  BY <1>4, <1>5, <1>6, <1>7, <1>8, <1>9 DEF Host

\* The rest of a CANCEL or INIT report
LEMMA ReaderKeeps ==
  ASSUME IInv, ReaderStep
  PROVE  IInv'
<1> USE DEF IInv
<1>1. AfterCancel \in Reader
  BY DEF AfterCancel, TypeOK, Reader, Idle
<1>2. CASE CancelVerify
  <2>1. /\ cut' \in [Worker -> {"no", "early", "verifying"}]
        /\ \A w \in Worker : cut'[w] = "verifying" =>
             cut[w] = "verifying" \/ (w = running /\ worker[w] # "closing")
    BY <1>2 DEF CancelVerify, TypeOK
  <2>2. /\ reader' \in Reader /\ verify_cancelled' \in BOOLEAN
        /\ reader.at # "waking"
        /\ verify_cancelled => verify_cancelled'
        /\ running \in Worker => verify_cancelled' /\ reader'.at = "waking"
    BY <1>1, <1>2, CtapAssumption DEF CancelVerify, TypeOK, Reader
  <2>3. UNCHANGED <<next_cid, partial, device_vars, worker_vars, running, bus, dropping, reset>>
    BY <1>2 DEF CancelVerify
  <2>4. TypeOK'
    BY <2>1, <2>2, <2>3 DEF TypeOK, device_vars, worker_vars
  <2>5. Active' /\ Running' /\ KeepaliveBeforeResponse'
    BY <2>3 DEF Active, Running, KeepaliveBeforeResponse, device_vars, worker_vars
  <2>6. Cut'
    BY <2>1, <2>2, <2>3 DEF Cut, Running, Verifying, worker_vars
  <2> QED
    BY <2>4, <2>5, <2>6
<1>3. CASE Wake
  BY <1>1, <1>3 DEF Wake, TypeOK, Active, Running, Cut, KeepaliveBeforeResponse,
                    device_vars, worker_vars
<1>4. CASE SendInit
  BY <1>4 DEF SendInit, TypeOK, Active, Running, Cut, KeepaliveBeforeResponse,
              device_vars, worker_vars, verifier_vars, Idle, Reader
<1> QED
  BY <1>2, <1>3, <1>4 DEF ReaderStep

\* The worker moves on and answers, within the verification or within the
\* rest of the command
LEMMA MoveKeeps ==
  ASSUME IInv, NEW w \in Worker, NEW from \in Busy, NEW to \in Busy, Goes(w, from, to),
         UNCHANGED <<reader_vars, device_vars, chan, keepalive, running, verify_cancelled,
                     dropping, reset, cut>>,
         bus' \in BOOLEAN, bus => bus',
         \/ UNCHANGED response
         \/ \E a \in {"success", "cancelled", "denied"} : Answers(w, a),
         from \in Verifying <=> to \in Verifying,
         to \in {"connected", "calling", "replied"} => bus',
         cut[w] = "verifying" =>
           /\ to \notin {"starting", "command"}
           /\ to \in {"closing", "joining", "joined"} => response'[w] # "success"
           /\ to = "calling" => dropping \/ reader.at = "waking"
           /\ to \in {"connecting", "connected", "calling", "replied"} => verify_cancelled,
         to \in {"starting", "joined"} => keepalive[w] = "off"
  PROVE  IInv'
<1> USE DEF IInv
<1>1. /\ worker' \in [Worker -> Handling \cup
                       {"off", "starting", "joining", "joined", "sending"}]
      /\ worker[w] = from /\ worker'[w] = to
      /\ \A v \in Worker \ {w} : worker'[v] = worker[v]
  BY DEF Goes, TypeOK, Busy
<1>2. /\ response' \in [Worker -> {"none", "success", "cancelled", "denied"}]
      /\ \A v \in Worker \ {w} : response'[v] = response[v]
  BY DEF Answers, TypeOK
<1>3. TypeOK'
  BY <1>1, <1>2 DEF TypeOK, reader_vars, device_vars
<1>4. Active'
  BY <1>1 DEF Active, device_vars
<1>5. Running'
  BY <1>1 DEF Running
<1>6. Cut'
  BY <1>1, <1>2 DEF Cut, Busy, Handling, Verifying, reader_vars
<1>7. KeepaliveBeforeResponse'
  BY <1>1 DEF KeepaliveBeforeResponse, Busy, Handling, Verifying
<1> QED
  BY <1>3, <1>4, <1>5, <1>6, <1>7

\* The thread ends
LEMMA EndsKeeps ==
  ASSUME IInv, NEW w \in Worker, worker[w] \in {"joined", "sending"}, Ends(w),
         worker[w] = "joined" => active_cid' = NoChannel,
         worker[w] = "sending" => active_cid' = active_cid,
         UNCHANGED <<reader_vars, cancelled, cancel_reply, keepalive, verifier_vars>>
  PROVE  IInv'
<1> USE DEF IInv
<1>1. /\ worker'[w] = "off" /\ cut'[w] = "no"
      /\ \A v \in Worker \ {w} : /\ worker'[v] = worker[v] /\ chan'[v] = chan[v]
                                 /\ response'[v] = response[v] /\ cut'[v] = cut[v]
  BY DEF Ends, TypeOK
<1>2. TypeOK'
  BY DEF Ends, TypeOK, reader_vars, verifier_vars
<1>3. Active'
  BY <1>1 DEF Active, Busy, Handling, Verifying
<1>4. Running'
  BY <1>1 DEF Running, Verifying, verifier_vars
<1>5. Cut'
  BY <1>1 DEF Cut, reader_vars, verifier_vars
<1>6. KeepaliveBeforeResponse'
  BY <1>1 DEF KeepaliveBeforeResponse
<1> QED
  BY <1>2, <1>3, <1>4, <1>5, <1>6

\* The worker thread
LEMMA WorkerKeeps ==
  ASSUME IInv, NEW w \in Worker, WorkerStep(w)
  PROVE  IInv'
<1> USE DEF IInv
<1>1. CASE RunCbor(w)
  <2>1. /\ worker[w] = "starting" /\ worker'[w] = "command"
        /\ \A v \in Worker \ {w} : worker'[v] = worker[v] /\ keepalive'[v] = keepalive[v]
        /\ UNCHANGED <<reader_vars, device_vars, chan, response, verifier_vars, reset, cut>>
    BY <1>1 DEF RunCbor, Goes, TypeOK
  <2>2. TypeOK'
    BY <1>1 DEF RunCbor, Goes, TypeOK, Handling, reader_vars, device_vars, verifier_vars
  <2>3. Active'
    BY <2>1 DEF Active, Busy, Handling, device_vars
  <2>4. Running'
    BY <2>1 DEF Running, Verifying, verifier_vars
  <2>5. Cut'
    BY <2>1 DEF Cut, reader_vars, verifier_vars
  <2>6. KeepaliveBeforeResponse'
    BY <2>1 DEF KeepaliveBeforeResponse
  <2> QED
    BY <2>2, <2>3, <2>4, <2>5, <2>6
<1>2. CASE NoFaceNeeded(w)
  BY <1>2, MoveKeeps
     DEF NoFaceNeeded, Goes, Answers, TypeOK, Busy, Handling, Verifying, Cut, verifier_vars
<1>3. CASE Verify(w)
  <2>1. CASE running = NoWorker
    <3>1. /\ worker[w] = "command" /\ worker'[w] = "connecting"
          /\ \A v \in Worker \ {w} : worker'[v] = worker[v]
          /\ running' = w
          /\ UNCHANGED <<response, verify_cancelled, bus, dropping, reader_vars, device_vars,
                         chan, keepalive, reset, cut>>
      BY <1>3, <2>1 DEF Verify, Goes, TypeOK
    <3>2. TypeOK'
      BY <1>3, <2>1, <3>1
         DEF Verify, Goes, TypeOK, Handling, Verifying, reader_vars, device_vars
    <3>3. Active'
      BY <3>1 DEF Active, Busy, Handling, Verifying, device_vars
    <3>4. Running'
      BY <2>1, <3>1, CtapAssumption DEF Running, Verifying
    <3>5. Cut'
      BY <3>1 DEF Cut, reader_vars
    <3>6. KeepaliveBeforeResponse'
      BY <3>1 DEF KeepaliveBeforeResponse
    <3> QED
      BY <3>2, <3>3, <3>4, <3>5, <3>6
  <2>2. CASE running # NoWorker
    BY <1>3, <2>2, MoveKeeps
       DEF Verify, Goes, Answers, TypeOK, Busy, Handling, Verifying, Cut, verifier_vars
  <2> QED
    BY <2>1, <2>2
<1>4. CASE Connected(w)
  BY <1>4, MoveKeeps
     DEF Connected, Goes, TypeOK, Busy, Handling, Verifying, Cut
<1>5. CASE ConnectFails(w)
  BY <1>5, MoveKeeps
     DEF ConnectFails, Goes, Answers, TypeOK, Busy, Handling, Verifying, Cut, verifier_vars
<1>6. CASE CallService(w)
  <2>1. CASE verify_cancelled
    BY <1>6, <2>1, MoveKeeps
       DEF CallService, Goes, Answers, TypeOK, Busy, Handling, Verifying, Cut, verifier_vars
  <2>2. CASE ~verify_cancelled
    BY <1>6, <2>2, MoveKeeps
       DEF CallService, Goes, TypeOK, Busy, Handling, Verifying, Running, Cut, verifier_vars
  <2> QED
    BY <2>1, <2>2
<1>7. CASE Reply(w)
  BY <1>7, MoveKeeps
     DEF Reply, Goes, TypeOK, Busy, Handling, Verifying, Running, Cut, verifier_vars
<1>8. CASE Timeout(w)
  BY <1>8, MoveKeeps
     DEF Timeout, Goes, Answers, TypeOK, Busy, Handling, Verifying, Cut, verifier_vars
<1>9. CASE Dropped(w)
  BY <1>9, MoveKeeps
     DEF Dropped, Goes, Answers, TypeOK, Busy, Handling, Verifying, Cut, verifier_vars
<1>10. CASE CheckReply(w)
  BY <1>10, MoveKeeps
     DEF CheckReply, ReplyChecked, Goes, Answers, TypeOK, Busy, Handling, Verifying, Cut,
         verifier_vars
<1>11. CASE EndVerify(w)
  <2>1. /\ worker[w] = "closing" /\ worker'[w] = "joining"
        /\ \A v \in Worker \ {w} : worker'[v] = worker[v]
        /\ running' = NoWorker
        /\ UNCHANGED <<reader_vars, device_vars, chan, response, keepalive, reset, cut>>
    BY <1>11 DEF EndVerify, Goes, TypeOK
  <2>2. running = w /\ \A v \in Worker \ {w} : worker[v] \notin Verifying
    BY <2>1 DEF Running, Verifying
  <2>3. TypeOK'
    BY <1>11 DEF EndVerify, Goes, TypeOK, reader_vars, device_vars
  <2>4. Active'
    BY <2>1 DEF Active, Busy, Handling, Verifying, device_vars
  <2>5. Running'
    BY <2>1, <2>2, CtapAssumption DEF Running, Verifying
  <2>6. Cut'
    BY <2>1, <2>2 DEF Cut, Verifying
  <2>7. KeepaliveBeforeResponse'
    BY <2>1 DEF KeepaliveBeforeResponse
  <2> QED
    BY <2>3, <2>4, <2>5, <2>6, <2>7
<1>12. CASE Join(w)
  BY <1>12, MoveKeeps
     DEF Join, KeepaliveGone, Goes, TypeOK, Busy, Handling, Verifying, Cut, verifier_vars
<1>13. CASE Release(w)
  <2>1. CASE cancelled /\ ~cancel_reply
    BY <1>13, <2>1, EndsKeeps DEF Release
  <2>2. CASE ~(cancelled /\ ~cancel_reply)
    <3>1. /\ worker[w] = "joined" /\ worker'[w] = "sending"
          /\ \A v \in Worker \ {w} : worker'[v] = worker[v]
          /\ UNCHANGED <<chan, response, reset, cut, reader_vars, keepalive, verifier_vars>>
      BY <1>13, <2>2 DEF Release, Goes, TypeOK
    <3>2. TypeOK'
      BY <1>13, <2>2, <3>1 DEF Release, Goes, TypeOK, reader_vars, verifier_vars
    <3>3. Active'
      BY <3>1 DEF Active, Busy, Handling, Verifying
    <3>4. Running'
      BY <3>1 DEF Running, Verifying, verifier_vars
    <3>5. Cut'
      BY <3>1 DEF Cut, reader_vars, verifier_vars
    <3>6. KeepaliveBeforeResponse'
      BY <3>1 DEF KeepaliveBeforeResponse
    <3> QED
      BY <3>2, <3>3, <3>4, <3>5, <3>6
  <2> QED
    BY <2>1, <2>2
<1>14. CASE Send(w)
  BY <1>14, EndsKeeps DEF Send, device_vars
<1> QED
  BY <1>1, <1>2, <1>3, <1>4, <1>5, <1>6, <1>7, <1>8, <1>9, <1>10, <1>11, <1>12, <1>13, <1>14
     DEF WorkerStep

\* The keepalive thread, which goes back to its wait only while the command runs
LEMMA KeepaliveKeeps ==
  ASSUME IInv, NEW w \in Worker, KeepaliveStep(w)
  PROVE  IInv'
<1> USE DEF IInv
<1>1. /\ keepalive[w] # "off"
      /\ keepalive' \in [Worker -> {"off", "waiting", "sending"}]
      /\ \A v \in Worker \ {w} : keepalive'[v] = keepalive[v]
      /\ UNCHANGED <<reader_vars, device_vars, worker, chan, response, verifier_vars, reset, cut>>
  BY DEF KeepaliveStep, KeepaliveWait, KeepaliveSend, TypeOK
<1>2. TypeOK'
  BY <1>1 DEF TypeOK, reader_vars, device_vars, verifier_vars
<1>3. Active' /\ Running' /\ Cut'
  BY <1>1 DEF Active, Running, Cut, reader_vars, device_vars, verifier_vars
<1>4. KeepaliveBeforeResponse'
  BY <1>1 DEF KeepaliveBeforeResponse
<1> QED
  BY <1>2, <1>3, <1>4

-----------------------------------------------------------------------------
(***************************************************************************)
(* The invariant holds in every state of the transport.                    *)
(***************************************************************************)
THEOREM Invariance == Spec => []IInv
<1>1. Init => IInv
  <2> SUFFICES ASSUME Init PROVE IInv
    OBVIOUS
  <2>1. TypeOK
    <3>1. 1 \in 1..(MAX_CHANNELS + 1) /\ 0 \in 0..MAX_FRAMES
      BY CtapAssumption
    <3>2. Idle \in Reader
      BY DEF Idle, Reader
    <3>3. /\ next_cid \in 1..(MAX_CHANNELS + 1)
          /\ partial \in [Channel -> 0..MAX_FRAMES]
          /\ reader \in Reader
      BY <3>1, <3>2 DEF Init
    <3> QED
      BY <3>3 DEF Init, TypeOK
  <2>2. Active
    BY DEF Init, Active, Busy, Handling, Verifying
  <2>3. Running
    BY CtapAssumption DEF Init, Running, Verifying
  <2>4. Cut /\ KeepaliveBeforeResponse
    BY DEF Init, Cut, KeepaliveBeforeResponse
  <2> QED
    BY <2>1, <2>2, <2>3, <2>4 DEF IInv
<1>2. IInv /\ [Next]_vars => IInv'
  <2> SUFFICES ASSUME IInv, [Next]_vars PROVE IInv'
    OBVIOUS
  <2>1. CASE Next
    BY <2>1, HostKeeps, ReaderKeeps, WorkerKeeps, KeepaliveKeeps DEF Next
  <2>2. CASE UNCHANGED vars
    BY <2>2 DEF IInv, TypeOK, Active, Running, Cut, KeepaliveBeforeResponse,
                vars, reader_vars, device_vars, worker_vars, verifier_vars
  <2> QED
    BY <2>1, <2>2
<1> QED
  BY <1>1, <1>2, PTL DEF Spec

(***************************************************************************)
(* handle_cbor never runs in two threads: _start_cbor's test under the     *)
(* lock is enough, since _active_cid is given back after the command only. *)
(***************************************************************************)
THEOREM OneCommandAtATime == Spec => []OneCommand
<1>1. IInv => OneCommand
  <2> SUFFICES ASSUME IInv PROVE OneCommand
    OBVIOUS
  <2>1. \A w \in Worker : worker[w] = "command" => running = NoWorker
    <3> SUFFICES ASSUME NEW w \in Worker, worker[w] = "command", running # NoWorker
                 PROVE  FALSE
      OBVIOUS
    <3>1. running \in Worker
      BY DEF IInv, TypeOK
    <3>2. worker[running] \in Verifying
      BY <3>1 DEF IInv, Running
    <3>3. running = w
      BY <3>1, <3>2 DEF IInv, Active, Busy, Handling
    <3> QED
      BY <3>2, <3>3 DEF Verifying
  <2>2. \A v, w \in Worker : worker[v] \in Handling /\ worker[w] \in Handling => v = w
    BY DEF IInv, Active, Busy
  <2> QED
    BY <2>1, <2>2 DEF OneCommand
<1> QED
  BY <1>1, Invariance, PTL

(***************************************************************************)
(* A verification that cancel() meets signs nothing, although the reply of *)
(* the service may be there already.                                       *)
(***************************************************************************)
THEOREM CancelSignsNothing == Spec => []CancelDenies
<1>1. IInv => CancelDenies
  BY DEF IInv, Cut, CancelDenies
<1> QED
  BY <1>1, Invariance, PTL

(***************************************************************************)
(* A verification that cancel() meets is not left waiting for the service: *)
(* whoever of cancel() and verify comes second sees the other.             *)
(***************************************************************************)
THEOREM CancelIsHeard == Spec => []CancelWakes
<1>1. IInv => CancelWakes
  BY DEF IInv, Cut, CancelWakes
<1> QED
  BY <1>1, Invariance, PTL

(***************************************************************************)
(* No keepalive follows the response to its request.                       *)
(***************************************************************************)
THEOREM KeepaliveJoined == Spec => []KeepaliveBeforeResponse
<1>1. IInv => KeepaliveBeforeResponse
  BY DEF IInv
<1> QED
  BY <1>1, Invariance, PTL

-----------------------------------------------------------------------------
(***************************************************************************)
(* Dropped responses.                                                      *)
(***************************************************************************)

\* _cancelled without a reply is about the command that runs now
ResetSaid ==
  \A w \in Worker : worker[w] \in Busy /\ cancelled /\ ~cancel_reply => reset[w]

\* Where no command starts and the device keeps what it was told, the word of
\* a re-sync stays with its command
LEMMA ResetFrame ==
  ASSUME ResetSaid, UNCHANGED <<cancelled, cancel_reply>>,
         \A w \in Worker : worker'[w] \in Busy => worker[w] \in Busy /\ (reset[w] => reset'[w])
  PROVE  ResetSaid'
BY DEF ResetSaid

\* _start_cbor forgets what was said of the command before it
LEMMA StartKeepsReset ==
  ASSUME ResetSaid, NEW c \in Channel, StartCbor(c)
  PROVE  ResetSaid'
<1>1. CASE Free(c)
  BY <1>1 DEF StartCbor, FreshCancelled, ResetSaid
<1>2. CASE ~Free(c)
  BY <1>2, ResetFrame DEF StartCbor, device_vars, worker_vars
<1> QED
  BY <1>1, <1>2

\* The thread ends: no command is left on its channel
LEMMA WorkerKeepsReset ==
  ASSUME IInv, ResetSaid, NEW w \in Worker, WorkerStep(w)
  PROVE  ResetSaid'
<1>1. UNCHANGED <<cancelled, cancel_reply>>
  BY DEF WorkerStep, RunCbor, NoFaceNeeded, Verify, Connected, ConnectFails, CallService,
     Reply, Timeout, Dropped, CheckReply, EndVerify, Join, Release, Send, device_vars
<1>2. CASE Release(w) \/ Send(w)
  <2>1. /\ worker'[w] \notin Busy
        /\ \A v \in Worker \ {w} : worker'[v] = worker[v] /\ reset'[v] = reset[v]
    BY <1>2 DEF Release, Send, Ends, Goes, IInv, TypeOK, Busy, Handling, Verifying
  <2> QED
    BY <1>1, <2>1, ResetFrame
<1>3. CASE ~(Release(w) \/ Send(w))
  <2>1. /\ worker[w] \in Busy /\ UNCHANGED reset
        /\ \A v \in Worker \ {w} : worker'[v] = worker[v]
    BY <1>3 DEF WorkerStep, RunCbor, NoFaceNeeded, Verify, Connected, ConnectFails, CallService,
       Reply, Timeout, Dropped, CheckReply, EndVerify, Join, Goes, IInv, TypeOK, Busy,
       Handling, Verifying
  <2> QED
    BY <1>1, <2>1, ResetFrame
<1> QED
  BY <1>2, <1>3

\* Every step keeps the word of a re-sync with the command it is about
LEMMA ResetStep ==
  ASSUME IInv, ResetSaid, [Next]_vars
  PROVE  ResetSaid'
<1>1. ASSUME UNCHANGED <<cancelled, cancel_reply, worker, reset>> PROVE ResetSaid'
  BY <1>1, ResetFrame
<1>2. ASSUME NEW c \in Channel, NEW left, Assemble(c, left) PROVE ResetSaid'
  <2>1. CASE left = 0
    BY <1>2, <2>1, StartKeepsReset DEF Assemble
  <2>2. CASE left # 0
    BY <1>1, <1>2, <2>2 DEF Assemble, device_vars, worker_vars
  <2> QED
    BY <2>1, <2>2
<1>3. ASSUME NEW c \in Channel, Cancel(c) PROVE ResetSaid'
  BY <1>3 DEF Cancel, CancelActive, ResetSaid
<1>4. ASSUME NEW c \in Channel, Resync(c) PROVE ResetSaid'
  <2>1. UNCHANGED worker /\ reset' = [w \in Worker |-> reset[w] \/ w \in Open(c)]
    BY <1>4 DEF Resync, worker_vars
  <2>2. CASE active_cid = c
    <3>1. \A w \in Worker : worker[w] \in Busy => w \in Open(c)
      BY <2>2 DEF IInv, Active, Open, Busy, Handling, Verifying
    <3> QED
      BY <2>1, <3>1 DEF ResetSaid
  <2>3. CASE active_cid # c
    BY <1>4, <2>1, <2>3, ResetFrame DEF Resync, device_vars
  <2> QED
    BY <2>2, <2>3
<1>5. CASE Host
  BY <1>1, <1>2, <1>3, <1>4, <1>5
     DEF Host, Allocate, InitFrame, OtherFrame, ContFrame, WrongSeq, device_vars, worker_vars
<1>6. CASE ReaderStep
  BY <1>1, <1>6 DEF ReaderStep, CancelVerify, Wake, SendInit, device_vars, worker_vars
<1>7. ASSUME NEW w \in Worker, KeepaliveStep(w) PROVE ResetSaid'
  BY <1>1, <1>7 DEF KeepaliveStep, KeepaliveWait, KeepaliveSend, device_vars
<1>8. CASE UNCHANGED vars
  BY <1>1, <1>8 DEF vars, device_vars, worker_vars
<1> QED
  BY <1>5, <1>6, <1>7, <1>8, WorkerKeepsReset DEF Next

(***************************************************************************)
(* A response is dropped only if the host re-synchronised the channel      *)
(* while that very request was open: what an earlier command was told      *)
(* never swallows the answer of a later one (_start_cbor, _run_cbor).      *)
(***************************************************************************)
THEOREM OnlyResetDrops == Spec => DroppedOnlyAfterReset
<1>1. Init => ResetSaid
  BY DEF Init, ResetSaid
<1>2. IInv /\ ResetSaid /\ [Next]_vars => ResetSaid'
  BY ResetStep
<1>3. IInv /\ ResetSaid /\ [Next]_vars
        => [\A w \in Worker : worker[w] = "joined" /\ worker'[w] = "off" => reset[w]]_vars
  <2> SUFFICES ASSUME IInv, ResetSaid, [Next]_vars, NEW w \in Worker,
                      worker[w] = "joined", worker'[w] = "off"
               PROVE  reset[w]
    OBVIOUS
  <2>1. ~Host /\ ~ReaderStep /\ ~UNCHANGED vars
    <3>1. ASSUME NEW c \in Channel, NEW left, Assemble(c, left) PROVE FALSE
      <4>1. ASSUME StartCbor(c) PROVE FALSE
        <5> DEFINE v == CHOOSE v \in Unused : TRUE
        <5>1. worker' = worker \/ worker' = [worker EXCEPT ![v] = "starting"]
          BY <4>1 DEF StartCbor, worker_vars
        <5> HIDE DEF v
        <5> QED
          BY <5>1 DEF IInv, TypeOK
      <4> QED
        BY <3>1, <4>1 DEF Assemble, worker_vars
    <3> QED
      BY <3>1 DEF Host, Allocate, InitFrame, OtherFrame, ContFrame, WrongSeq, Cancel, Resync,
         ReaderStep, CancelVerify, Wake, SendInit, vars, worker_vars
  <2>2. ASSUME NEW v \in Worker, WorkerStep(v) PROVE v = w /\ Release(w)
    BY <2>2 DEF WorkerStep, RunCbor, NoFaceNeeded, Verify, Connected, ConnectFails, CallService,
       Reply, Timeout, Dropped, CheckReply, EndVerify, Join, Release, Send, Ends, Goes,
       IInv, TypeOK
  <2>3. \A v \in Worker : ~KeepaliveStep(v)
    BY DEF KeepaliveStep, KeepaliveWait, KeepaliveSend
  <2>4. Release(w)
    BY <2>1, <2>2, <2>3 DEF Next
  <2>5. cancelled /\ ~cancel_reply
    BY <2>4 DEF Release, Goes, IInv, TypeOK
  <2> QED
    BY <2>5 DEF ResetSaid, Busy
<1> QED
  BY <1>1, <1>2, <1>3, Invariance, PTL DEF Spec, DroppedOnlyAfterReset

=============================================================================
