------------------------------- MODULE Engine -------------------------------
(***************************************************************************)
(* One scan of the face engine (engine.py): the camera is opened while the *)
(* backend loads, frames are paired, filtered and looked at until a match, *)
(* enough samples, the timeout or a cancellation, the rubber stamps may    *)
(* veto a match, and the camera and the emitter are handed back on every   *)
(* path.                                                                   *)
(*                                                                         *)
(* A frame is its brightness and, after pairing, its darkness in percent;  *)
(* what the detector and the encoder make of it is left open.  While       *)
(* strobe holds the emitter lights every other frame; another process may  *)
(* switch it off at any time (module Emitter).  The clock counts in units  *)
(* of one frame and stops just past the timeout.                           *)
(***************************************************************************)
EXTENDS Integers, Sequences, FiniteSets

CONSTANTS
    Levels,          \* brightness of a frame (gsframe.mean())
    Darkness,        \* darkness of a frame, in percent
    Thresholds,      \* dark_threshold: a percentage, or AUTO
    LEARN, MEMORY,   \* DarkFilter: 5 frames to learn from, 30 remembered
    PATIENCE,        \* AmbientPairing.PATIENCE
    Timeout,         \* of the scan
    MaxDt,           \* a frame takes 1..MaxDt
    Samples,         \* ENROLL_SAMPLES
    SAMPLE_SPACING,
    RuleSets,        \* sets of stamp rules that may be configured
    StampTimeout,    \* the rules' timeout, in frames
    MinDirections    \* nod: min_directions

ASSUME EngineAssumption ==
    /\ {LEARN, MEMORY, PATIENCE, Timeout, MaxDt, Samples, StampTimeout, MinDirections}
          \subseteq Nat \ {0}
    /\ LEARN <= MEMORY /\ SAMPLE_SPACING \in Nat
    /\ Levels \subseteq Nat /\ Darkness \subseteq 0..100
    /\ \E lo, hi \in Levels : \A l \in Levels : lo <= l /\ l <= hi
    /\ RuleSets \subseteq Seq([stamp : {"unknown", "nod", "hotkey"}, failsafe : BOOLEAN])

VARIABLES
    op, owned, rules,  \* the request: verify or enroll, own camera, the stamps
    threshold,         \* the dark_threshold setting
    opener, backend,   \* _open_with_backend: the opener's thread, the backend
    emitter, reader,   \* VideoCapture.emitter (the session) and .internal
    pc, result,
    clock, cancelled,
    strobe, phase,     \* the emitter alternates, and the next frame is lit
    pairing, history,  \* AmbientPairing and DarkFilter.history
    frame, stats,
    captured,          \* enroll: when each sample was taken
    stamp,             \* the rubber stamp that runs
    seen               \* (ghost) what the properties speak of

request == <<op, owned, rules, threshold>>
camera == <<emitter, reader>>
light == <<strobe, phase>>
filters == <<pairing, history, stats>>
vars == <<request, opener, backend, camera, pc, result, clock, cancelled, light,
          filters, frame, captured, stamp, seen>>

NoStamp == [rule |-> 0, left |-> 0, x |-> <<>>, y |-> <<>>, key |-> "none"]

Init ==
    /\ op \in {"verify", "enroll"} /\ owned \in BOOLEAN
    /\ rules \in (IF op = "verify" THEN RuleSets ELSE {<<>>})
    /\ threshold \in Thresholds
    /\ opener = IF owned THEN "start" ELSE "given"
    /\ backend = "loading"
    /\ reader = ~owned /\ emitter \in {FALSE, ~owned}
    /\ pc = "opening" /\ result = "none"
    /\ clock = 0 /\ cancelled = FALSE
    /\ strobe \in BOOLEAN /\ phase \in {FALSE, strobe}
    /\ pairing = [enabled |-> FALSE, ambient |-> <<>>, unpaired |-> 0]
    /\ history = <<>> /\ stats = [valid |-> 0, dark |-> 0]
    /\ frame = "none" /\ captured = <<>> /\ stamp = NoStamp
    /\ seen = [looked |-> 0, passed |-> FALSE, swallowed |-> 0, stale |-> FALSE, word |-> {}]

-----------------------------------------------------------------------------
(* Opening the camera while the backend loads *)

loads == <<request, pc, result, clock, cancelled, light, filters, frame, captured, stamp, seen>>

\* VideoCapture.__init__: no camera is found or there is none at the path
OpenerRefuses ==
    /\ opener = "start"
    /\ opener' = "refused"
    /\ UNCHANGED <<loads, backend, camera>>

\* The emitter comes first (emitter.activate, when there is something to write)
OpenerLights ==
    /\ opener = "start"
    /\ opener' = "lit" /\ emitter' \in BOOLEAN
    /\ UNCHANGED <<loads, backend, reader>>

OpenerOpens ==
    /\ opener = "lit"
    /\ opener' = "opened" /\ reader' = TRUE
    /\ UNCHANGED <<loads, backend, emitter>>

\* The reader raises something else: the thread ends, the half built capture is
\* collected, and __del__ hands the emitter back
OpenerDies ==
    /\ opener = "lit"
    /\ opener' = "died" /\ emitter' = FALSE
    /\ UNCHANGED <<loads, backend, reader>>

BackendLoads ==
    /\ backend = "loading"
    /\ backend' \in {"ready", "failed"}
    /\ UNCHANGED <<loads, opener, camera>>

OpenerEnded == opener \in {"refused", "opened", "died", "given"}

\* What the capture's release leaves: the reader and then the session go
Released == reader' = FALSE /\ emitter' = FALSE

\* The end of verify or enroll: the finally clause releases a capture of its own
Finish(outcome) ==
    /\ pc' = "done" /\ result' = outcome
    /\ IF owned THEN Released ELSE UNCHANGED camera

\* A faulty Opened: a backend that fails leaves the opener's thread alone
OpenedUnjoined ==
    /\ pc = "opening"
    /\ \/ /\ backend = "failed"
          /\ pc' = "done" /\ result' = "exception" /\ UNCHANGED <<camera, pairing>>
       \/ /\ backend = "ready" /\ opener \in {"opened", "given"}
          /\ pc' = "read"
          /\ \E alternating \in {FALSE, emitter} : pairing' = [pairing EXCEPT !.enabled = alternating]
          /\ UNCHANGED <<camera, result>>
       \/ backend = "ready" /\ opener = "refused" /\ Finish("INVALID_DEVICE") /\ UNCHANGED pairing
       \/ backend = "ready" /\ opener = "died" /\ Finish("exception") /\ UNCHANGED pairing
    /\ UNCHANGED <<request, opener, backend, clock, cancelled, light, history, stats,
                   frame, captured, stamp, seen>>

\* Both are there.  A backend that fails releases what the opener opened; an
\* opener that died leaves neither a capture nor an error (KeyError).  Only a
\* session of the face authentication control alternates
Opened ==
    /\ pc = "opening" /\ OpenerEnded /\ backend # "loading"
    /\ \/ backend = "failed" /\ Finish("exception") /\ UNCHANGED pairing
       \/ backend = "ready" /\ opener = "refused" /\ Finish("INVALID_DEVICE") /\ UNCHANGED pairing
       \/ backend = "ready" /\ opener = "died" /\ Finish("exception") /\ UNCHANGED pairing
       \/ /\ backend = "ready" /\ opener \in {"opened", "given"}
          /\ pc' = "read"
          /\ \E alternating \in {FALSE, emitter} : pairing' = [pairing EXCEPT !.enabled = alternating]
          /\ UNCHANGED <<camera, result>>
    /\ UNCHANGED <<request, opener, backend, clock, cancelled, light, history, stats,
                   frame, captured, stamp, seen>>

-----------------------------------------------------------------------------
(* Frames *)

\* Clearly brighter than the ambient frame: level > ambient * RATIO + MARGIN
brighter(level, ambient) == 100 * level > 115 * ambient + 200

\* A faulty lit: the first ambient frame is kept until a lit one comes
lit_stale(p, level) ==
    IF ~p.enabled THEN [use |-> "as is", next |-> p]
    ELSE IF p.ambient # <<>> /\ brighter(level, p.ambient[1])
    THEN [use |-> "subtracted", next |-> [p EXCEPT !.ambient = <<>>, !.unpaired = 0]]
    ELSE LET n == p.unpaired + 1
             a == IF p.ambient = <<>> THEN <<level, 0>> ELSE p.ambient
             q == [enabled |-> n <= PATIENCE, ambient |-> a, unpaired |-> n]
         IN  [use |-> IF n <= PATIENCE THEN "none" ELSE "as is", next |-> q]

\* AmbientPairing.lit; an ambient frame is its level and how many frames ago it
\* was read
lit(p, level) ==
    IF ~p.enabled THEN [use |-> "as is", next |-> p]
    ELSE IF p.ambient # <<>> /\ brighter(level, p.ambient[1])
    THEN [use |-> "subtracted", next |-> [p EXCEPT !.ambient = <<>>, !.unpaired = 0]]
    ELSE LET n == p.unpaired + 1
             q == [enabled |-> n <= PATIENCE, ambient |-> <<level, 0>>, unpaired |-> n]
         IN  [use |-> IF n <= PATIENCE THEN "none" ELSE "as is", next |-> q]

\* sorted(history)[len(history) // 2]
baseline(h) ==
    CHOOSE x \in {h[i] : i \in DOMAIN h} :
        LET below == Cardinality({i \in DOMAIN h : h[i] < x})
            upto == Cardinality({i \in DOMAIN h : h[i] <= x})
        IN  below <= Len(h) \div 2 /\ Len(h) \div 2 < upto

AUTO == 101

\* DarkFilter.accept; with "auto", darkness <= min(95, baseline * 1.25 + 10)
accept(darkness) ==
    IF threshold # AUTO THEN darkness <= threshold
    ELSE \/ Len(history) < LEARN
         \/ darkness <= 95 /\ 4 * darkness <= 5 * baseline(history) + 40

remembered(darkness) ==
    LET h == Append(history, darkness)
    IN  IF threshold # AUTO THEN history ELSE IF Len(h) > MEMORY THEN Tail(h) ELSE h

\* What the camera gives: a strobing emitter lights every other frame
LevelsNow ==
    IF ~strobe THEN Levels
    ELSE {CHOOSE l \in Levels : \A k \in Levels : IF phase THEN l >= k ELSE l <= k}

Later(t, dt) == IF t + dt > Timeout THEN Timeout + 1 ELSE t + dt

Aged(p) ==
    IF p.ambient = <<>> THEN p ELSE [p EXCEPT !.ambient = <<@[1], IF @[2] = 0 THEN 1 ELSE 2>>]

\* What _frames makes of a frame that was read: nothing for an ambient, black
\* or too dark one
Filtered(use, darkness) ==
    IF use = "none" \/ darkness >= 100
    THEN frame' = "none" /\ UNCHANGED <<history, stats>>
    ELSE /\ stats' = [valid |-> stats.valid + 1,
                      dark |-> stats.dark + IF accept(darkness) THEN 0 ELSE 1]
         /\ history' = IF accept(darkness) THEN remembered(darkness) ELSE history
         /\ frame' = IF accept(darkness) THEN "usable" ELSE "none"

\* A faulty Read: an ambient, black or dark frame is not passed on
ReadSilently ==
    /\ pc = "read"
    /\ \E level \in LevelsNow, darkness \in Darkness, dt \in 1..MaxDt :
         LET p == lit(Aged(pairing), level) IN
         /\ pairing' = p.next /\ clock' = Later(clock, dt)
         /\ Filtered(p.use, darkness)
         /\ seen' = [seen EXCEPT !.passed = @ \/ frame' = "usable"]
    /\ pc' = IF frame' = "none" THEN "read" ELSE "check"
    /\ phase' = ~phase /\ strobe' \in {strobe, FALSE}
    /\ UNCHANGED <<request, opener, backend, camera, result, cancelled, captured, stamp>>

\* _frames: read, pair and filter one frame
Read ==
    /\ pc = "read"
    /\ \E level \in LevelsNow, darkness \in Darkness, dt \in 1..MaxDt :
         LET p == lit(Aged(pairing), level) IN
         /\ pairing' = p.next /\ clock' = Later(clock, dt)
         /\ Filtered(p.use, darkness)
         /\ seen' = [seen EXCEPT
               !.passed = @ \/ frame' = "usable",
               !.swallowed = IF p.use = "none" THEN @ + 1 ELSE 0,
               !.stale = @ \/ (p.use = "subtracted" /\ Aged(pairing).ambient[2] # 1)]
    /\ pc' = "check"
    /\ phase' = ~phase /\ strobe' \in {strobe, FALSE}
    /\ UNCHANGED <<request, opener, backend, camera, result, cancelled, captured, stamp>>

\* read_frame raises: a CameraError, or what the reader's library raises
ReadFails ==
    /\ pc = "read"
    /\ \E outcome \in {"INVALID_DEVICE", "exception"} : Finish(outcome)
    /\ UNCHANGED <<request, opener, backend, clock, cancelled, light, filters, frame,
                   captured, stamp, seen>>

\* A faulty _timed_out_result: black frames are taken for frames with light
timed_out_result_valid == IF stats.valid = 0 THEN "TOO_DARK" ELSE "TIMEOUT_REACHED"

timed_out_result == IF stats.dark = stats.valid THEN "TOO_DARK" ELSE "TIMEOUT_REACHED"

\* The head of both loops: cancelled, out of time, nothing to look at
Check ==
    /\ pc = "check"
    /\ IF cancelled THEN Finish("CANCELLED")
       ELSE IF clock > Timeout THEN Finish(timed_out_result)
       ELSE /\ pc' = IF frame = "none" THEN "read" ELSE "look"
            /\ UNCHANGED <<camera, result>>
    /\ UNCHANGED <<request, opener, backend, clock, cancelled, light, filters, frame,
                   captured, stamp, seen>>

\* The caller leaves, or asks to stop
Cancel ==
    /\ ~cancelled /\ pc # "done"
    /\ cancelled' = TRUE
    /\ UNCHANGED <<request, opener, backend, camera, pc, result, clock, light, filters,
                   frame, captured, stamp, seen>>

Look == seen' = [seen EXCEPT !.looked = 1]

-----------------------------------------------------------------------------
(* Verification and enrolment *)

\* No face of the frame is near enough to a model
NoMatch ==
    /\ pc = "look" /\ op = "verify"
    /\ Look /\ pc' = "read"
    /\ UNCHANGED <<request, opener, backend, camera, result, clock, cancelled, light,
                   filters, frame, captured, stamp>>

\* A match: the rubber stamps have the last word
Match ==
    /\ pc = "look" /\ op = "verify"
    /\ Look /\ pc' = "stamps"
    /\ UNCHANGED <<request, opener, backend, camera, result, clock, cancelled, light,
                   filters, frame, captured, stamp>>

\* No face, several, one too far away, or one too soon after the last sample
NoSample ==
    /\ pc = "look" /\ op = "enroll"
    /\ Look /\ pc' = "read"
    /\ UNCHANGED <<request, opener, backend, camera, result, clock, cancelled, light,
                   filters, frame, captured, stamp>>

sample_due == (captured # <<>>) => (clock - captured[Len(captured)] >= SAMPLE_SPACING)

\* One face, near enough: the encoding takes its time, and then the clock is
\* read for the next sample's sake
Sample ==
    /\ pc = "look" /\ op = "enroll" /\ sample_due
    /\ Look
    /\ \E dt \in 0..1 :
         clock' = Later(clock, dt) /\ captured' = Append(captured, Later(clock, dt))
    /\ IF Len(captured') >= Samples THEN Finish("SUCCESS")
       ELSE pc' = "read" /\ UNCHANGED <<camera, result>>
    /\ UNCHANGED <<request, opener, backend, cancelled, light, filters, frame, stamp>>

-----------------------------------------------------------------------------
(* Rubber stamps *)

stamping == <<request, opener, backend, clock, cancelled, light, filters, frame, captured>>

\* _rubberstamps: no more rules, so execute ends with sys.exit(0)
StampsPassed ==
    /\ pc = "stamps" /\ stamp.rule = Len(rules)
    /\ Finish("SUCCESS")
    /\ UNCHANGED <<stamping, stamp, seen>>

\* A rule that cannot be parsed, names no installed stamp or whose stamp cannot
\* declare its options is passed over
SkipRule ==
    /\ pc = "stamps" /\ stamp.rule < Len(rules)
    /\ rules[stamp.rule + 1].stamp = "unknown"
    /\ stamp' = [NoStamp EXCEPT !.rule = stamp.rule + 1]
    /\ UNCHANGED <<stamping, camera, pc, result, seen>>

\* An option without a value, or a timeout without digits: nothing catches it
BadOption ==
    /\ pc = "stamps" /\ stamp.rule < Len(rules)
    /\ Finish("exception")
    /\ UNCHANGED <<stamping, stamp, seen>>

StartStamp ==
    /\ pc = "stamps" /\ stamp.rule < Len(rules)
    /\ rules[stamp.rule + 1].stamp # "unknown"
    /\ stamp' = [NoStamp EXCEPT !.rule = stamp.rule + 1, !.left = StampTimeout]
    /\ pc' = rules[stamp.rule + 1].stamp
    /\ UNCHANGED <<stamping, camera, result, seen>>

Rule == rules[stamp.rule]

\* How this rule's stamp came to its end
Says(how) == seen' = [seen EXCEPT !.word = @ \cup {<<stamp.rule, how>>}]

\* A faulty StampReturns: sys.exit(0) is inside the loop, and the first yes ends it
StampReturnsAtOnce(yes, how) ==
    /\ Finish(IF yes THEN "SUCCESS" ELSE "RUBBERSTAMP")
    /\ Says(how)

\* run() returns: False ends with sys.exit(15), which is RUBBERSTAMP
StampReturns(yes, how) ==
    /\ IF yes THEN pc' = "stamps" /\ UNCHANGED <<camera, result>>
       ELSE Finish("RUBBERSTAMP")
    /\ Says(how)

\* run() raises: printed, and the rule counts for nothing
StampRaises ==
    /\ pc \in {"nod", "hotkey"}
    /\ pc' = "stamps" /\ Says("raised")
    /\ UNCHANGED <<stamping, camera, result, stamp>>

\* A direction is recorded when it is the first or differs from the last one
recorded(dirs, move) ==
    IF move = 0 \/ (dirs # <<>> /\ dirs[Len(dirs)] = move) THEN dirs ELSE Append(dirs, move)

\* nod: one frame with one face; shaking is looked at before nodding
Nod ==
    /\ pc = "nod" /\ stamp.left > 0
    /\ \E x, y \in {-1, 0, 1} :
         LET s == [stamp EXCEPT !.x = recorded(@, x), !.y = recorded(@, y), !.left = @ - 1] IN
         /\ stamp' = s
         /\ IF Len(s.x) >= MinDirections THEN StampReturns(FALSE, "shaken")
            ELSE IF Len(s.y) >= MinDirections THEN StampReturns(TRUE, "nodded")
            ELSE UNCHANGED <<camera, pc, result, seen>>
    /\ UNCHANGED stamping

\* hotkey: a key is pressed while the stamp sleeps; the last one counts
Key ==
    /\ pc = "hotkey"
    /\ \E k \in {"abort", "confirm"} : stamp' = [stamp EXCEPT !.key = k]
    /\ UNCHANGED <<stamping, camera, pc, result, seen>>

\* hotkey: the stamp wakes up and looks at the key
Poll ==
    /\ pc = "hotkey" /\ stamp.left > 0
    /\ stamp' = [stamp EXCEPT !.left = @ - 1]
    /\ IF stamp.key = "none" THEN UNCHANGED <<camera, pc, result, seen>>
       ELSE StampReturns(stamp.key = "confirm", stamp.key)
    /\ UNCHANGED stamping

\* The keyboard module is missing: sys.exit(1), which is not a pass
NoKeyboard ==
    /\ pc = "hotkey" /\ stamp.left = StampTimeout
    /\ Finish("RUBBERSTAMP")
    /\ UNCHANGED <<stamping, stamp, seen>>

\* Both stamps at their timeout: not failsafe
StampTimesOut ==
    /\ pc \in {"nod", "hotkey"} /\ stamp.left = 0
    /\ StampReturns(~Rule.failsafe, "unanswered")
    /\ UNCHANGED <<stamping, stamp>>

-----------------------------------------------------------------------------
Opening == OpenerRefuses \/ OpenerLights \/ OpenerOpens \/ OpenerDies \/ BackendLoads \/ Opened
Stamps ==
    \/ StampsPassed \/ SkipRule \/ BadOption \/ StartStamp \/ StampRaises \/ Nod \/ Poll
    \/ NoKeyboard \/ StampTimesOut
Steps ==
    \/ Opening \/ Read \/ ReadFails \/ Check \/ NoMatch \/ Match \/ NoSample \/ Sample \/ Stamps

Next == Steps \/ Cancel \/ Key

\* The engine's threads go on: the camera gives frames or an error, the backend
\* loads or fails.  Nobody has to cancel or to press a key
Spec == Init /\ [][Next]_vars /\ WF_vars(Steps)

-----------------------------------------------------------------------------
(* Properties *)

\* The types of the variables; the clock stops just past the timeout.
TypeOK ==
    /\ op \in {"verify", "enroll"} /\ owned \in BOOLEAN /\ rules \in RuleSets \cup {<<>>}
    /\ threshold \in Thresholds
    /\ opener \in {"given", "start", "refused", "lit", "opened", "died"}
    /\ backend \in {"loading", "ready", "failed"}
    /\ {emitter, reader, cancelled, strobe, phase} \subseteq BOOLEAN
    /\ pc \in {"opening", "read", "check", "look", "stamps", "nod", "hotkey", "done"}
    /\ clock \in 0..(Timeout + 1)
    /\ pairing.unpaired \in 0..(PATIENCE + 1)
    /\ Len(history) <= MEMORY /\ stats.dark <= stats.valid
    /\ Len(captured) <= Samples

\* "the camera is opened per request and released when it ends" (engine.py:137):
\* whichever of the two threads fails first and however the scan ends, no reader
\* and no emitter session outlives the request, and a camera that was handed in
\* is left open.
CameraHandedBack ==
    pc = "done" => IF owned THEN ~reader /\ ~emitter /\ OpenerEnded ELSE reader

\* "Only black or only too dark frames: point at lighting, not the face"
\* (engine.py:262): TOO_DARK is said only if the detector saw no frame, and a
\* scan whose every frame was too dark says so.
DarkIsSaid ==
    /\ result = "TOO_DARK" => seen.looked = 0
    /\ result = "TIMEOUT_REACHED" => seen.passed

\* The ambient frame that is subtracted is the one just before the lit frame,
\* since an older one would leave in what moved in between.  Pairing swallows at
\* most PATIENCE frames in a row although another process switches the emitter
\* off, and goes on as long as the emitter does strobe (AmbientPairing).
PairingHolds ==
    /\ ~seen.stale
    /\ seen.swallowed <= PATIENCE
    /\ pairing.unpaired > PATIENCE => ~strobe

\* How a rule may be passed: what the person did said yes, nobody answered and
\* the rule is faildeadly, or the stamp raised
Passes(rule) ==
    {IF rule.stamp = "nod" THEN "nodded" ELSE "confirm", "raised"}
      \cup (IF rule.failsafe THEN {} ELSE {"unanswered"})

RulePassed(i) ==
    rules[i].stamp # "unknown" => \E how \in Passes(rules[i]) : <<i, how>> \in seen.word

\* "so we've run all the rules" (rubberstamps/__init__.py:175): a match is
\* accepted only after every configured stamp ran and was passed on its own
\* account, by the person's nod or key, by a timeout that a faildeadly rule lets
\* through, or because it raised.  The last is what the code does, although it
\* says "Make the stamp fail by default" (rubberstamps/__init__.py:155); a yes to
\* one rule, a skipped rule before it or a stamp that raised never counts for
\* another.
EveryStampPassed ==
    op = "verify" /\ result = "SUCCESS" => \A i \in DOMAIN rules : RulePassed(i)

\* A scan ends although the lens is covered, every frame is dark or nobody
\* answers a stamp: the timeout is looked at for every frame.
ScanEnds == <>(pc = "done")
=============================================================================
