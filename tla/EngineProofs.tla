----------------------------- MODULE EngineProofs -----------------------------
(***************************************************************************)
(* Proofs about module Engine, for any frames, thresholds, timeouts and    *)
(* stamp rules, and about module Emitter, which a scan's camera goes       *)
(* through, for any processes, controls, values and databases.             *)
(***************************************************************************)
EXTENDS Engine, Emitter, TLAPS

(***************************************************************************)
(* The emitter strobes visibly: the brightest frame, a lit one, is clearly *)
(* brighter than the darkest, and a pairing that starts with a lit frame   *)
(* may swallow it and the dark one after it.  PATIENCE is 10 in the code.  *)
(***************************************************************************)
StrobeShows ==
  /\ PATIENCE >= 2
  /\ \E lo, hi \in Levels :
       (\A k \in Levels : lo <= k /\ k <= hi) /\ brighter(hi, lo)

(***************************************************************************)
(* The inductive invariant, in parts.                                      *)
(***************************************************************************)

Ambient == {<<>>} \cup (Nat \X {0, 1, 2})
Pairing == [enabled : BOOLEAN, ambient : Ambient, unpaired : Nat]
Stamp == [rule : Nat, left : Int, x : Seq(Int), y : Seq(Int),
          key : {"none", "abort", "confirm"}]
Scanning == {"read", "check", "look", "stamps", "nod", "hotkey"}
Outcomes == {"exception", "INVALID_DEVICE", "CANCELLED", "TOO_DARK", "TIMEOUT_REACHED",
             "SUCCESS", "RUBBERSTAMP"}

Ends == {"nodded", "shaken", "confirm", "abort", "unanswered", "raised"}
Words == SUBSET (Nat \X Ends)

Typed ==
  /\ owned \in BOOLEAN /\ reader \in BOOLEAN /\ emitter \in BOOLEAN
  /\ strobe \in BOOLEAN /\ phase \in BOOLEAN
  /\ rules \in RuleSets \cup {<<>>}
  /\ pc \in {"opening", "done"} \cup Scanning
  /\ result \in {"none"} \cup Outcomes
  /\ frame \in {"none", "usable"}
  /\ stats \in [valid : Nat, dark : Nat]
  /\ seen \in [looked : {0, 1}, passed : BOOLEAN, swallowed : Nat, stale : BOOLEAN,
               word : Words]
  /\ pairing \in Pairing
  /\ stamp \in Stamp

\* The scan has a result when it is over
Over == result = "none" <=> pc # "done"

\* A camera that was handed in stays open; the engine's own is opened by a
\* thread that has ended before the scan goes on, and is closed when it is over
OwnCamera ==
  /\ owned <=> opener # "given"
  /\ ~owned => reader
  /\ pc # "opening" => OpenerEnded
  /\ pc = "done" /\ owned => ~reader /\ ~emitter

\* A frame passed the filter exactly if not all were too dark, and only those
\* that pass are looked at
Bright ==
  /\ seen.passed => stats.dark < stats.valid
  /\ ~seen.passed => stats.dark = stats.valid
  /\ frame = "usable" => seen.passed
  /\ pc = "look" => frame = "usable"
  /\ seen.looked = 1 => seen.passed
  /\ result = "TOO_DARK" => ~seen.passed
  /\ result = "TIMEOUT_REACHED" => seen.passed

\* The ambient frame is from the last read, and the frames swallowed in a row
\* are unpaired ones
Paired ==
  /\ ~seen.stale
  /\ seen.swallowed <= PATIENCE /\ seen.swallowed <= pairing.unpaired
  /\ pc = "opening" => ~pairing.enabled /\ pairing.ambient = <<>> /\ pairing.unpaired = 0
  /\ pairing.enabled => pairing.unpaired <= PATIENCE
  /\ pairing.enabled /\ pairing.ambient # <<>> => pairing.ambient[2] = 0

IInv == Typed /\ Over /\ OwnCamera /\ Bright /\ Paired

\* While the emitter strobes between the levels lo and hi: the next lit frame
\* finds a dark one, or nothing yet
InStep(lo, hi) ==
  strobe =>
    /\ pairing.unpaired <= 2
    /\ pairing.enabled =>
         \/ pairing.ambient = <<>> /\ pairing.unpaired = 0
         \/ phase /\ pairing.ambient # <<>> /\ pairing.ambient[1] = lo
         \/ ~phase /\ pairing.ambient # <<>> /\ pairing.ambient[1] = hi /\ pairing.unpaired = 1

-----------------------------------------------------------------------------
(***************************************************************************)
(* AmbientPairing.                                                         *)
(***************************************************************************)

\* An ambient frame that is there is a level and an age
LEMMA AmbientPair ==
  ASSUME NEW a \in Ambient, a # <<>>
  PROVE  a \in Nat \X {0, 1, 2} /\ a[1] \in Nat /\ a[2] \in {0, 1, 2}
BY DEF Ambient

\* Frames before this one are one frame older
LEMMA AgedIs ==
  ASSUME NEW p \in Pairing
  PROVE  /\ Aged(p) \in Pairing
         /\ Aged(p).enabled = p.enabled /\ Aged(p).unpaired = p.unpaired
         /\ Aged(p).ambient = <<>> <=> p.ambient = <<>>
         /\ p.ambient # <<>> => /\ Aged(p).ambient[1] = p.ambient[1]
                                /\ p.ambient[2] = 0 => Aged(p).ambient[2] = 1
<1>1. CASE p.ambient = <<>>
  BY <1>1 DEF Aged
<1>2. CASE p.ambient # <<>>
  <2> DEFINE a == <<p.ambient[1], IF p.ambient[2] = 0 THEN 1 ELSE 2>>
  <2>1. p.ambient[1] \in Nat
    BY <1>2, AmbientPair DEF Pairing
  <2>2. a \in Ambient /\ a # <<>> /\ a[1] = p.ambient[1] /\ a[2] = IF p.ambient[2] = 0 THEN 1 ELSE 2
    BY <2>1 DEF Ambient
  <2>3. Aged(p) = [p EXCEPT !.ambient = a]
    BY <1>2 DEF Aged
  <2> HIDE DEF a
  <2> QED
    BY <1>2, <2>2, <2>3 DEF Pairing
<1> QED
  BY <1>1, <1>2

\* AmbientPairing.lit, by its three ways out
LEMMA LitIs ==
  ASSUME NEW p \in Pairing, NEW level \in Nat, PATIENCE \in Nat
  PROVE  LET use == lit(p, level).use
             next == lit(p, level).next
         IN  /\ next \in Pairing
             /\ \/ ~p.enabled /\ use = "as is" /\ next = p
                \/ /\ p.enabled /\ p.ambient # <<>> /\ brighter(level, p.ambient[1])
                   /\ use = "subtracted"
                   /\ next.enabled /\ next.ambient = <<>> /\ next.unpaired = 0
                \/ /\ p.enabled /\ ~(p.ambient # <<>> /\ brighter(level, p.ambient[1]))
                   /\ use = IF p.unpaired + 1 <= PATIENCE THEN "none" ELSE "as is"
                   /\ next.enabled <=> p.unpaired + 1 <= PATIENCE
                   /\ next.ambient = <<level, 0>> /\ next.unpaired = p.unpaired + 1
<1>1. CASE ~p.enabled
  BY <1>1 DEF lit
<1>2. CASE p.enabled /\ p.ambient # <<>> /\ brighter(level, p.ambient[1])
  <2> DEFINE q == [p EXCEPT !.ambient = <<>>, !.unpaired = 0]
  <2>1. lit(p, level) = [use |-> "subtracted", next |-> q]
    BY <1>2 DEF lit
  <2>2. q \in Pairing /\ q.enabled = p.enabled /\ q.ambient = <<>> /\ q.unpaired = 0
    BY DEF Pairing, Ambient
  <2> HIDE DEF q
  <2>3. lit(p, level).use = "subtracted" /\ lit(p, level).next = q
    BY <2>1
  <2> QED
    BY <1>2, <2>2, <2>3
<1>3. CASE p.enabled /\ ~(p.ambient # <<>> /\ brighter(level, p.ambient[1]))
  <2> DEFINE n == p.unpaired + 1
             q == [enabled |-> n <= PATIENCE, ambient |-> <<level, 0>>, unpaired |-> n]
             u == IF n <= PATIENCE THEN "none" ELSE "as is"
  <2>1. lit(p, level) = [use |-> u, next |-> q]
    BY <1>3, Zenon DEF lit
  <2>2. /\ q \in Pairing
        /\ q.enabled = (n <= PATIENCE) /\ q.ambient = <<level, 0>> /\ q.unpaired = n
    <3>1. n \in Nat /\ (n <= PATIENCE) \in BOOLEAN /\ <<level, 0>> \in Ambient
      BY DEF Pairing, Ambient
    <3> QED
      BY <3>1 DEF Pairing
  <2> HIDE DEF q, u
  <2>3. lit(p, level).use = u /\ lit(p, level).next = q
    BY <2>1
  <2> QED
    BY <1>3, <2>2, <2>3 DEF u
<1> QED
  BY <1>1, <1>2, <1>3

-----------------------------------------------------------------------------
(***************************************************************************)
(* Every step keeps the invariant.                                         *)
(***************************************************************************)

Rules == Seq([stamp : {"unknown", "nod", "hotkey"}, failsafe : BOOLEAN])

LEMMA Constants ==
  /\ PATIENCE \in Nat \ {0} /\ StampTimeout \in Nat /\ Levels \subseteq Nat
  /\ RuleSets \subseteq Rules
BY EngineAssumption DEF Rules

\* A strobing emitter gives the darkest and the brightest level by turns
LEMMA StrobeLevels ==
  ASSUME NEW lo \in Levels, NEW hi \in Levels, \A l \in Levels : lo <= l /\ l <= hi
  PROVE  /\ strobe /\ phase => LevelsNow = {hi}
         /\ strobe /\ ~phase => LevelsNow = {lo}
<1> DEFINE Extreme(l) == \A k \in Levels : IF phase THEN l >= k ELSE l <= k
           c == CHOOSE l \in Levels : Extreme(l)
<1>1. \E l \in Levels : Extreme(l)
  <2>1. CASE phase
    BY <2>1, Constants
  <2>2. CASE ~phase
    BY <2>2, Constants
  <2> QED
    BY <2>1, <2>2
<1>2. c \in Levels /\ Extreme(c)
  <2> HIDE DEF Extreme
  <2> QED
    BY <1>1
<1>3. strobe => LevelsNow = {c}
  BY DEF LevelsNow
<1> HIDE DEF c
<1>4. (phase => c = hi) /\ (~phase => c = lo)
  BY <1>2, Constants
<1> QED
  BY <1>3, <1>4

LEMMA LevelsAreLevels == LevelsNow \subseteq Levels
<1>1. PICK lo \in Levels, hi \in Levels : \A l \in Levels : lo <= l /\ l <= hi
  BY EngineAssumption
<1>2. CASE ~strobe
  BY <1>2 DEF LevelsNow
<1>3. CASE strobe
  BY <1>1, <1>3, StrobeLevels
<1> QED
  BY <1>2, <1>3

LEMMA InitKeeps == Init => IInv
<1> SUFFICES ASSUME Init PROVE IInv
  OBVIOUS
<1>1. owned \in BOOLEAN /\ reader \in BOOLEAN /\ emitter \in BOOLEAN
      /\ strobe \in BOOLEAN /\ phase \in BOOLEAN
  <2>1. owned \in BOOLEAN /\ strobe \in BOOLEAN
    BY DEF Init
  <2>2. reader \in BOOLEAN /\ emitter \in BOOLEAN /\ phase \in BOOLEAN
    BY <2>1, Zenon DEF Init
  <2> QED
    BY <2>1, <2>2
<1>2. stamp \in Stamp
  BY DEF Init, NoStamp, Stamp
<1>3. pairing \in Pairing /\ ~pairing.enabled /\ pairing.ambient = <<>> /\ pairing.unpaired = 0
  BY DEF Init, Pairing, Ambient
<1>4. /\ seen \in [looked : {0, 1}, passed : BOOLEAN, swallowed : Nat, stale : BOOLEAN,
                   word : Words]
      /\ seen.looked = 0 /\ ~seen.passed /\ seen.swallowed = 0 /\ ~seen.stale
  BY DEF Init, Words
<1>5. stats \in [valid : Nat, dark : Nat] /\ stats.valid = 0 /\ stats.dark = 0
  BY DEF Init
<1>6. Typed
  BY <1>1, <1>2, <1>3, <1>4, <1>5 DEF Init, Typed
<1>7. OwnCamera
  <2>1. reader = ~owned /\ pc = "opening" /\ opener = IF owned THEN "start" ELSE "given"
    BY DEF Init
  <2> QED
    BY <1>1, <2>1 DEF OwnCamera
<1> QED
  BY <1>3, <1>4, <1>5, <1>6, <1>7, Constants
     DEF IInv, Init, Over, Bright, Paired

\* What most steps leave alone
still == <<owned, rules, opener, pairing, light, stats, frame>>

\* The scan goes on
LEMMA MoveKeeps ==
  ASSUME IInv, UNCHANGED <<still, camera, result>>,
         pc \notin {"opening", "done"}, pc' \in Scanning, pc' = "look" => frame = "usable",
         stamp' \in Stamp,
         \/ seen' = seen
         \/ pc = "look" /\ Look
         \/ \E w \in Words : seen' = [seen EXCEPT !.word = w]
  PROVE  IInv'
<1> USE DEF IInv, still, camera, light
<1>1. /\ seen' \in [looked : {0, 1}, passed : BOOLEAN, swallowed : Nat, stale : BOOLEAN,
                    word : Words]
      /\ UNCHANGED <<seen.passed, seen.swallowed, seen.stale>>
      /\ seen'.looked = 1 => seen.looked = 1 \/ pc = "look"
  BY DEF Look, Typed
<1>2. Typed'
  BY <1>1 DEF Typed
<1>3. Over' /\ OwnCamera'
  BY <1>1 DEF Over, OwnCamera, OpenerEnded, Scanning
<1>4. Bright'
  BY <1>1 DEF Bright
<1>5. Paired'
  BY <1>1 DEF Paired, Scanning
<1> QED
  BY <1>2, <1>3, <1>4, <1>5

\* The scan ends
LEMMA EndKeeps ==
  ASSUME IInv, UNCHANGED still, pc # "done", OpenerEnded,
         NEW outcome \in Outcomes, Finish(outcome), stamp' \in Stamp,
         \/ seen' = seen
         \/ pc = "look" /\ Look
         \/ \E w \in Words : seen' = [seen EXCEPT !.word = w],
         outcome = "TOO_DARK" => stats.dark = stats.valid,
         outcome = "TIMEOUT_REACHED" => stats.dark # stats.valid
  PROVE  IInv'
<1> USE DEF IInv, still, camera, light
<1>1. /\ seen' \in [looked : {0, 1}, passed : BOOLEAN, swallowed : Nat, stale : BOOLEAN,
                    word : Words]
      /\ UNCHANGED <<seen.passed, seen.swallowed, seen.stale>>
      /\ seen'.looked = 1 => seen.looked = 1 \/ pc = "look"
  BY DEF Look, Typed
<1>2. /\ pc' = "done" /\ result' = outcome /\ result = "none"
      /\ reader' \in BOOLEAN /\ emitter' \in BOOLEAN
      /\ owned => ~reader' /\ ~emitter'
      /\ ~owned => reader' = reader /\ emitter' = emitter
  BY DEF Finish, Released, Typed, Over
<1>3. Typed'
  BY <1>1, <1>2 DEF Typed
<1>4. Over' /\ OwnCamera'
  BY <1>1, <1>2 DEF Over, OwnCamera, OpenerEnded, Outcomes
<1>5. Bright'
  <2>1. stats.dark \in Nat /\ stats.valid \in Nat
    BY DEF Typed
  <2> QED
    BY <1>1, <1>2, <2>1 DEF Bright
<1>6. Paired'
  BY <1>1, <1>2 DEF Paired
<1> QED
  BY <1>3, <1>4, <1>5, <1>6

\* Opening the camera while the backend loads
LEMMA OpeningKeeps ==
  ASSUME IInv, Opening
  PROVE  IInv'
<1> USE DEF IInv, request, camera, light, filters
<1>1. ASSUME UNCHANGED loads, opener \in {"start", "lit"},
             opener' \in {"refused", "lit", "opened", "died"},
             reader' \in BOOLEAN, emitter' \in BOOLEAN
      PROVE  IInv'
  <2>1. owned /\ pc = "opening"
    BY <1>1 DEF OwnCamera, OpenerEnded
  <2> QED
    BY <1>1, <2>1 DEF loads, Typed, Over, OwnCamera, Bright, Paired
<1>2. CASE OpenerRefuses \/ OpenerLights \/ OpenerOpens \/ OpenerDies
  BY <1>1, <1>2 DEF OpenerRefuses, OpenerLights, OpenerOpens, OpenerDies, Typed
<1>3. CASE BackendLoads
  BY <1>3 DEF BackendLoads, loads, Typed, Over, OwnCamera, OpenerEnded, Bright, Paired
<1>4. CASE Opened
  <2>1. pc = "opening" /\ OpenerEnded /\ stamp' = stamp /\ seen' = seen
    BY <1>4 DEF Opened
  <2>2. ASSUME NEW outcome \in {"exception", "INVALID_DEVICE"}, Finish(outcome), UNCHANGED pairing
        PROVE  IInv'
    BY <1>4, <2>1, <2>2, EndKeeps DEF Opened, still, Outcomes, Typed
  <2>3. ASSUME pc' = "read", NEW alternating \in {FALSE, emitter},
               pairing' = [pairing EXCEPT !.enabled = alternating], UNCHANGED <<camera, result>>
        PROVE  IInv'
    <3>1. /\ pairing' \in Pairing
          /\ pairing'.ambient = <<>> /\ pairing'.unpaired = 0
      BY <2>1, <2>3 DEF Typed, Pairing, Paired
    <3>2. UNCHANGED <<owned, rules, opener, strobe, phase, stats, frame, stamp, seen, reader,
                      emitter, result>>
      BY <1>4, <2>3 DEF Opened
    <3>3. Typed'
      BY <2>3, <3>1, <3>2 DEF Typed, Scanning
    <3>4. Over' /\ OwnCamera' /\ Bright'
      BY <2>1, <2>3, <3>2 DEF Over, OwnCamera, OpenerEnded, Bright
    <3>5. Paired'
      BY <2>3, <3>1, <3>2, Constants DEF Paired, Typed
    <3> QED
      BY <3>3, <3>4, <3>5
  <2> QED
    BY <1>4, <2>2, <2>3 DEF Opened
<1> QED
  BY <1>2, <1>3, <1>4 DEF Opening

\* One frame is read, paired and filtered
LEMMA ReadKeeps ==
  ASSUME IInv, Read
  PROVE  IInv'
<1> USE DEF IInv, request, camera, light, filters
<1>0. PATIENCE \in Nat /\ pairing \in Pairing
  BY Constants DEF Typed
<1>1. PICK level \in LevelsNow, darkness \in Darkness, dt \in 1..MaxDt :
        LET p == lit(Aged(pairing), level) IN
        /\ pairing' = p.next
        /\ Filtered(p.use, darkness)
        /\ seen' = [seen EXCEPT
              !.passed = @ \/ frame' = "usable",
              !.swallowed = IF p.use = "none" THEN @ + 1 ELSE 0,
              !.stale = @ \/ (p.use = "subtracted" /\ Aged(pairing).ambient[2] # 1)]
  BY DEF Read
<1> DEFINE old == Aged(pairing)
           use == lit(old, level).use
<1>2. level \in Nat
  BY Constants, LevelsAreLevels
<1>3. /\ old \in Pairing
      /\ old.enabled = pairing.enabled /\ old.unpaired = pairing.unpaired
      /\ old.ambient # <<>> => pairing.ambient # <<>>
      /\ pairing.ambient # <<>> /\ pairing.ambient[2] = 0 => old.ambient[2] = 1
  BY <1>0, AgedIs
<1> HIDE DEF old
<1>4. /\ pairing' \in Pairing
      /\ \/ ~old.enabled /\ use = "as is" /\ pairing' = old
         \/ /\ old.enabled /\ old.ambient # <<>> /\ use = "subtracted"
            /\ pairing'.enabled /\ pairing'.ambient = <<>> /\ pairing'.unpaired = 0
         \/ /\ old.enabled
            /\ use = IF old.unpaired + 1 <= PATIENCE THEN "none" ELSE "as is"
            /\ pairing'.enabled <=> old.unpaired + 1 <= PATIENCE
            /\ pairing'.ambient = <<level, 0>> /\ pairing'.unpaired = old.unpaired + 1
  <2>1. pairing' = lit(old, level).next
    BY <1>1 DEF old
  <2>2. /\ lit(old, level).next \in Pairing
        /\ \/ ~old.enabled /\ use = "as is" /\ lit(old, level).next = old
           \/ /\ old.enabled /\ old.ambient # <<>> /\ use = "subtracted"
              /\ lit(old, level).next.enabled
              /\ lit(old, level).next.ambient = <<>> /\ lit(old, level).next.unpaired = 0
           \/ /\ old.enabled
              /\ use = IF old.unpaired + 1 <= PATIENCE THEN "none" ELSE "as is"
              /\ lit(old, level).next.enabled <=> old.unpaired + 1 <= PATIENCE
              /\ lit(old, level).next.ambient = <<level, 0>>
              /\ lit(old, level).next.unpaired = old.unpaired + 1
    <3> DEFINE bright == brighter(level, old.ambient[1])
               next == lit(old, level).next
    <3>1. /\ next \in Pairing
          /\ \/ ~old.enabled /\ use = "as is" /\ next = old
             \/ /\ old.enabled /\ old.ambient # <<>> /\ bright
                /\ use = "subtracted"
                /\ next.enabled /\ next.ambient = <<>> /\ next.unpaired = 0
             \/ /\ old.enabled /\ ~(old.ambient # <<>> /\ bright)
                /\ use = IF old.unpaired + 1 <= PATIENCE THEN "none" ELSE "as is"
                /\ next.enabled <=> old.unpaired + 1 <= PATIENCE
                /\ next.ambient = <<level, 0>> /\ next.unpaired = old.unpaired + 1
      BY <1>0, <1>2, <1>3, LitIs
    <3> HIDE DEF bright, next, use
    <3>2. /\ next \in Pairing
          /\ \/ ~old.enabled /\ use = "as is" /\ next = old
             \/ /\ old.enabled /\ old.ambient # <<>> /\ use = "subtracted"
                /\ next.enabled /\ next.ambient = <<>> /\ next.unpaired = 0
             \/ /\ old.enabled
                /\ use = IF old.unpaired + 1 <= PATIENCE THEN "none" ELSE "as is"
                /\ next.enabled <=> old.unpaired + 1 <= PATIENCE
                /\ next.ambient = <<level, 0>> /\ next.unpaired = old.unpaired + 1
      BY <3>1
    <3> QED
      BY <3>2 DEF next
  <2> QED
    BY <2>1, <2>2
<1>5. Filtered(use, darkness)
  BY <1>1 DEF old
<1>6. seen' = [seen EXCEPT
              !.passed = @ \/ frame' = "usable",
              !.swallowed = IF use = "none" THEN @ + 1 ELSE 0,
              !.stale = @ \/ (use = "subtracted" /\ old.ambient[2] # 1)]
  BY <1>1 DEF old
<1> HIDE DEF use
<1>7. /\ pc = "read" /\ pc' = "check" /\ phase' = ~phase /\ strobe' \in {strobe, FALSE}
      /\ UNCHANGED <<owned, rules, opener, reader, emitter, result, stamp>>
  BY DEF Read
<1>8. \/ frame' = "none" /\ stats' = stats
      \/ frame' = "none" /\ stats' = [valid |-> stats.valid + 1, dark |-> stats.dark + 1]
      \/ frame' = "usable" /\ stats' = [valid |-> stats.valid + 1, dark |-> stats.dark]
  <2>0. stats.valid \in Nat /\ stats.dark \in Nat
    BY DEF Typed
  <2>1. CASE use = "none" \/ darkness >= 100
    BY <1>5, <2>1 DEF Filtered
  <2>2. CASE ~(use = "none" \/ darkness >= 100) /\ accept(darkness)
    BY <1>5, <2>0, <2>2 DEF Filtered
  <2>3. CASE ~(use = "none" \/ darkness >= 100) /\ ~accept(darkness)
    BY <1>5, <2>0, <2>3 DEF Filtered
  <2> QED
    BY <2>1, <2>2, <2>3
<1>9. /\ seen' \in [looked : {0, 1}, passed : BOOLEAN, swallowed : Nat, stale : BOOLEAN,
                    word : Words]
      /\ seen'.looked = seen.looked
      /\ seen'.passed <=> seen.passed \/ frame' = "usable"
      /\ seen'.swallowed = IF use = "none" THEN seen.swallowed + 1 ELSE 0
      /\ seen'.stale <=> seen.stale \/ (use = "subtracted" /\ old.ambient[2] # 1)
  <2> DEFINE P == seen.passed \/ frame' = "usable"
             W == IF use = "none" THEN seen.swallowed + 1 ELSE 0
             S == seen.stale \/ (use = "subtracted" /\ old.ambient[2] # 1)
  <2>1. P \in BOOLEAN /\ S \in BOOLEAN
    BY Zenon
  <2>2. W \in Nat
    BY DEF Typed
  <2>3. seen' = [seen EXCEPT !.passed = P, !.swallowed = W, !.stale = S]
    BY <1>6
  <2> HIDE DEF P, W, S
  <2>4. /\ seen' \in [looked : {0, 1}, passed : BOOLEAN, swallowed : Nat, stale : BOOLEAN,
                      word : Words]
        /\ seen'.looked = seen.looked
        /\ seen'.passed = P /\ seen'.swallowed = W /\ seen'.stale = S
    BY <2>1, <2>2, <2>3 DEF Typed
  <2> QED
    BY <2>4 DEF P, W, S
<1>10. Typed'
  <2>1. strobe' \in BOOLEAN /\ phase' \in BOOLEAN
    BY <1>7 DEF Typed
  <2>2. stats' \in [valid : Nat, dark : Nat] /\ frame' \in {"none", "usable"}
    BY <1>8 DEF Typed
  <2> QED
    BY <1>4, <1>7, <1>9, <2>1, <2>2 DEF Typed, Scanning
<1>11. Over' /\ OwnCamera'
  BY <1>7, <1>9 DEF Over, OwnCamera, OpenerEnded
<1>12. Bright'
  <2>0. stats.valid \in Nat /\ stats.dark \in Nat /\ result = "none" /\ stats.dark <= stats.valid
    BY <1>7 DEF Typed, Over, Bright
  <2>1. CASE frame' = "none" /\ stats' = stats
    BY <1>7, <1>9, <2>0, <2>1 DEF Bright
  <2>2. CASE frame' = "none" /\ stats' = [valid |-> stats.valid + 1, dark |-> stats.dark + 1]
    BY <1>7, <1>9, <2>0, <2>2 DEF Bright
  <2>3. CASE frame' = "usable" /\ stats' = [valid |-> stats.valid + 1, dark |-> stats.dark]
    BY <1>7, <1>9, <2>0, <2>3 DEF Bright
  <2> QED
    BY <1>8, <2>1, <2>2, <2>3
<1>13. Paired'
  <2>0. /\ seen.swallowed \in Nat /\ pairing.unpaired \in Nat
        /\ old.unpaired = pairing.unpaired
    BY <1>0, <1>3 DEF Typed, Pairing
  <2>1. CASE ~old.enabled /\ use = "as is" /\ pairing' = old
    <3>1. /\ ~pairing'.enabled /\ pairing'.unpaired = pairing.unpaired
          /\ seen'.swallowed = 0
      BY <1>9, <2>0, <2>1
    <3>2. ~seen'.stale
      BY <1>9, <2>1 DEF Paired
    <3> QED
      BY <1>0, <1>7, <2>0, <3>1, <3>2 DEF Paired
  <2>2. CASE /\ old.enabled /\ old.ambient # <<>> /\ use = "subtracted"
             /\ pairing'.enabled /\ pairing'.ambient = <<>> /\ pairing'.unpaired = 0
    BY <1>0, <1>3, <1>7, <1>9, <2>0, <2>2 DEF Paired
  <2>3. CASE /\ old.enabled
             /\ use = IF old.unpaired + 1 <= PATIENCE THEN "none" ELSE "as is"
             /\ pairing'.enabled <=> old.unpaired + 1 <= PATIENCE
             /\ pairing'.ambient = <<level, 0>> /\ pairing'.unpaired = old.unpaired + 1
    <3>0. pairing'.ambient[2] = 0
      <4>1. pairing'.ambient = <<level, 0>>
        BY <2>3
      <4>2. <<level, 0>>[2] = 0
        OBVIOUS
      <4> QED
        BY <4>1, <4>2
    <3>1. /\ pairing'.unpaired = pairing.unpaired + 1
          /\ pairing'.enabled => pairing'.unpaired <= PATIENCE
      BY <2>0, <2>3
    <3>2. ~seen'.stale
      BY <1>9, <2>3 DEF Paired
    <3>3. seen'.swallowed <= PATIENCE /\ seen'.swallowed <= pairing'.unpaired
      <4>1. CASE use = "none"
        <5>1. seen'.swallowed = seen.swallowed + 1 /\ pairing.unpaired + 1 <= PATIENCE
          BY <1>9, <2>0, <2>3, <4>1
        <5> QED
          BY <1>0, <2>0, <3>1, <5>1 DEF Paired
      <4>2. CASE use # "none"
        <5>1. seen'.swallowed = 0
          BY <1>9, <4>2
        <5> QED
          BY <1>0, <2>0, <3>1, <5>1
      <4> QED
        BY <4>1, <4>2
    <3> QED
      BY <1>7, <3>0, <3>1, <3>2, <3>3 DEF Paired
  <2> QED
    BY <1>4, <2>1, <2>2, <2>3
<1> QED
  BY <1>10, <1>11, <1>12, <1>13

\* The head of the loop, the matches and the samples
LEMMA ScanKeeps ==
  ASSUME IInv, ReadFails \/ Check \/ NoMatch \/ Match \/ NoSample \/ Sample \/ Cancel
  PROVE  IInv'
<1> USE DEF request, camera, light, filters, still
<1>0. /\ pc # "opening" => OpenerEnded
      /\ stamp \in Stamp
  BY DEF IInv, OwnCamera, Typed
<1>1. CASE ReadFails
  BY <1>0, <1>1, EndKeeps DEF ReadFails, Outcomes
<1>2. CASE Check
  <2>1. CASE cancelled
    BY <1>0, <1>2, <2>1, EndKeeps DEF Check, Outcomes
  <2>2. CASE ~cancelled /\ clock > Timeout
    BY <1>0, <1>2, <2>2, EndKeeps DEF Check, Outcomes, timed_out_result
  <2>3. CASE ~cancelled /\ ~(clock > Timeout)
    <3>1. frame \in {"none", "usable"}
      BY DEF IInv, Typed
    <3> QED
      BY <1>0, <1>2, <2>3, <3>1, MoveKeeps DEF Check, Scanning
  <2> QED
    BY <2>1, <2>2, <2>3
<1>3. CASE NoMatch \/ Match \/ NoSample
  BY <1>0, <1>3, MoveKeeps DEF NoMatch, Match, NoSample, Scanning
<1>4. CASE Sample
  <2>1. CASE Len(captured') >= Samples
    BY <1>0, <1>4, <2>1, EndKeeps DEF Sample, Outcomes
  <2>2. CASE ~(Len(captured') >= Samples)
    BY <1>0, <1>4, <2>2, MoveKeeps DEF Sample, Scanning
  <2> QED
    BY <2>1, <2>2
<1>5. CASE Cancel
  BY <1>5 DEF Cancel, IInv, Typed, Over, OwnCamera, OpenerEnded, Bright, Paired
<1> QED
  BY <1>1, <1>2, <1>3, <1>4, <1>5

\* What a stamp's end adds to the words
LEMMA SaysIs ==
  ASSUME IInv, NEW how \in Ends, Says(how)
  PROVE  /\ \E w \in Words : seen' = [seen EXCEPT !.word = w]
         /\ seen'.word = seen.word \cup {<<stamp.rule, how>>}
<1> DEFINE w == seen.word \cup {<<stamp.rule, how>>}
<1>1. seen' = [seen EXCEPT !.word = w]
  BY DEF Says
<1>2. w \in Words
  BY DEF IInv, Typed, Words, Stamp
<1> HIDE DEF w
<1>3. seen'.word = w
  BY <1>1 DEF IInv, Typed
<1> QED
  BY <1>1, <1>2, <1>3 DEF w

\* A stamp's run() returns
LEMMA ReturnKeeps ==
  ASSUME IInv, pc \in {"nod", "hotkey"}, NEW yes \in BOOLEAN, NEW how \in Ends,
         StampReturns(yes, how),
         UNCHANGED still, stamp' \in Stamp
  PROVE  IInv'
<1>0. OpenerEnded
  BY DEF IInv, OwnCamera
<1>1. \E w \in Words : seen' = [seen EXCEPT !.word = w]
  BY SaysIs DEF StampReturns
<1>2. CASE yes
  BY <1>1, <1>2, MoveKeeps DEF StampReturns, Scanning
<1>3. CASE ~yes
  BY <1>0, <1>1, <1>3, EndKeeps DEF StampReturns, Outcomes
<1> QED
  BY <1>2, <1>3

LEMMA RulesAre ==
  ASSUME IInv
  PROVE  rules \in Rules
<1>1. rules \in RuleSets \cup {<<>>} /\ <<>> \in Rules
  BY DEF IInv, Typed, Rules
<1> QED
  BY <1>1, Constants

\* The rule that runs next names a stamp
LEMMA StampNamed ==
  ASSUME IInv, stamp.rule < Len(rules), rules[stamp.rule + 1].stamp # "unknown"
  PROVE  rules[stamp.rule + 1].stamp \in {"nod", "hotkey"}
<1> DEFINE R == [stamp : {"unknown", "nod", "hotkey"}, failsafe : BOOLEAN]
<1>1. rules \in Seq(R)
  BY RulesAre DEF Rules
<1>2. stamp.rule \in Nat
  BY DEF IInv, Typed, Stamp
<1> HIDE DEF R
<1>3. rules[stamp.rule + 1] \in R
  BY <1>1, <1>2
<1> QED
  BY <1>3 DEF R

LEMMA StampsKeep ==
  ASSUME IInv, Stamps \/ Key
  PROVE  IInv'
<1> USE DEF stamping, request, camera, light, filters, still
<1>0. /\ pc # "opening" => OpenerEnded
      /\ stamp \in Stamp /\ StampTimeout \in Nat
      /\ rules \in Rules
  BY RulesAre, Constants DEF IInv, OwnCamera, Typed
<1>1. CASE StampsPassed \/ BadOption \/ NoKeyboard
  BY <1>0, <1>1, EndKeeps DEF StampsPassed, BadOption, NoKeyboard, Outcomes
<1>2. ASSUME NEW n \in Int, NEW i \in Nat
      PROVE  /\ [NoStamp EXCEPT !.rule = i + 1, !.left = n] \in Stamp
             /\ [NoStamp EXCEPT !.rule = i + 1] \in Stamp
  <2>1. NoStamp \in Stamp
    BY DEF NoStamp, Stamp
  <2>2. i + 1 \in Nat
    OBVIOUS
  <2>3. [NoStamp EXCEPT !.rule = i + 1, !.left = n] \in Stamp
    BY <2>1, <2>2 DEF Stamp
  <2>4. [NoStamp EXCEPT !.rule = i + 1] \in Stamp
    BY <2>1, <2>2 DEF Stamp
  <2> QED
    BY <2>3, <2>4
<1>3. CASE SkipRule
  <2>1. stamp' \in Stamp
    BY <1>0, <1>2, <1>3 DEF SkipRule, Stamp
  <2> QED
    BY <1>3, <2>1, MoveKeeps DEF SkipRule, Scanning
<1>4. CASE StartStamp
  <2>1. stamp' \in Stamp
    <3>1. stamp.rule \in Nat /\ StampTimeout \in Int
      BY <1>0 DEF Stamp
    <3> QED
      BY <1>2, <1>4, <3>1 DEF StartStamp
  <2>2. pc' \in {"nod", "hotkey"}
    BY <1>4, StampNamed DEF StartStamp
  <2> QED
    BY <1>4, <2>1, <2>2, MoveKeeps DEF StartStamp, Scanning
<1>5. CASE StampRaises
  <2>1. \E w \in Words : seen' = [seen EXCEPT !.word = w]
    BY <1>5, SaysIs DEF StampRaises, Ends
  <2> QED
    BY <1>0, <1>5, <2>1, MoveKeeps DEF StampRaises, Scanning
<1>6. CASE Nod
  <2>1. PICK x \in {-1, 0, 1}, y \in {-1, 0, 1} :
          LET s == [stamp EXCEPT !.x = recorded(@, x), !.y = recorded(@, y), !.left = @ - 1] IN
          /\ stamp' = s
          /\ IF Len(s.x) >= MinDirections THEN StampReturns(FALSE, "shaken")
             ELSE IF Len(s.y) >= MinDirections THEN StampReturns(TRUE, "nodded")
             ELSE UNCHANGED <<camera, pc, result, seen>>
    BY <1>6 DEF Nod
  <2>2. ASSUME NEW d \in Seq(Int), NEW m \in {-1, 0, 1} PROVE recorded(d, m) \in Seq(Int)
    BY DEF recorded
  <2>3. stamp' \in Stamp
    <3>1. /\ recorded(stamp.x, x) \in Seq(Int) /\ recorded(stamp.y, y) \in Seq(Int)
          /\ stamp.left - 1 \in Int
      BY <1>0, <2>2 DEF Stamp
    <3>2. stamp' = [stamp EXCEPT !.x = recorded(stamp.x, x), !.y = recorded(stamp.y, y),
                                 !.left = stamp.left - 1]
      BY <2>1
    <3> QED
      BY <1>0, <3>1, <3>2 DEF Stamp
  <2>4. \/ StampReturns(FALSE, "shaken") \/ StampReturns(TRUE, "nodded")
        \/ UNCHANGED <<camera, pc, result, seen>>
    BY <2>1
  <2>5. UNCHANGED still /\ pc = "nod"
    BY <1>6 DEF Nod
  <2> QED
    BY <2>3, <2>4, <2>5, ReturnKeeps, MoveKeeps DEF Scanning, Ends
<1>7. CASE Key
  <2>1. stamp' \in Stamp
    BY <1>0, <1>7 DEF Key, Stamp
  <2> QED
    BY <1>7, <2>1, MoveKeeps DEF Key, Scanning
<1>8. CASE Poll
  <2>1. stamp' \in Stamp
    <3>1. stamp' = [stamp EXCEPT !.left = stamp.left - 1] /\ stamp.left - 1 \in Int
      BY <1>0, <1>8 DEF Poll, Stamp
    <3> QED
      BY <1>0, <3>1 DEF Stamp
  <2>2. CASE stamp.key = "none"
    BY <1>8, <2>1, <2>2, MoveKeeps DEF Poll, Scanning
  <2>3. CASE stamp.key # "none"
    <3>1. stamp.key \in Ends /\ (stamp.key = "confirm") \in BOOLEAN
      BY <1>0, <2>3 DEF Stamp, Ends
    <3> QED
      BY <1>8, <2>1, <2>3, <3>1, ReturnKeeps DEF Poll
  <2> QED
    BY <2>2, <2>3
<1>9. CASE StampTimesOut
  <2>1. (~Rule.failsafe) \in BOOLEAN
    OBVIOUS
  <2> QED
    BY <1>0, <1>9, <2>1, ReturnKeeps DEF StampTimesOut, Ends
<1> QED
  BY <1>1, <1>3, <1>4, <1>5, <1>6, <1>7, <1>8, <1>9 DEF Stamps

LEMMA Invariance == Spec => []IInv
<1>1. IInv /\ [Next]_vars => IInv'
  <2> SUFFICES ASSUME IInv, [Next]_vars PROVE IInv'
    OBVIOUS
  <2>1. CASE UNCHANGED vars
    BY <2>1 DEF vars, request, camera, light, filters,
                IInv, Typed, Over, OwnCamera, OpenerEnded, Bright, Paired
  <2> QED
    BY <2>1, OpeningKeeps, ReadKeeps, ScanKeeps, StampsKeep DEF Next, Steps
<1> QED
  BY <1>1, InitKeeps, PTL DEF Spec

-----------------------------------------------------------------------------
(***************************************************************************)
(* The properties.                                                         *)
(***************************************************************************)

\* verify, enroll and _open_with_backend: whether the opener or the backend
\* fails first, and however the scan ends, the engine's own reader and emitter
\* session are gone and its thread has ended; a camera handed in stays open
THEOREM CameraGoesBack == Spec => []CameraHandedBack
<1>1. IInv => CameraHandedBack
  BY DEF IInv, OwnCamera, CameraHandedBack
<1> QED
  BY <1>1, Invariance, PTL

\* _timed_out_result: TOO_DARK is said exactly when no frame came past the
\* filter, whatever the pairing swallowed and the detector saw
THEOREM DarkIsSaidRightly == Spec => []DarkIsSaid
<1>1. IInv => DarkIsSaid
  BY DEF IInv, Typed, Bright, DarkIsSaid
<1> QED
  BY <1>1, Invariance, PTL

\* The rules up to the one that runs are passed; none runs before a match
Stamped ==
  /\ pc \in {"opening", "read", "check", "look"} => stamp.rule = 0
  /\ pc = "stamps" => \A i \in 1..stamp.rule : RulePassed(i)
  /\ pc \in {"nod", "hotkey"} =>
       rules[stamp.rule].stamp = pc /\ \A i \in 1..(stamp.rule - 1) : RulePassed(i)
  /\ op = "verify" /\ result = "SUCCESS" => \A i \in 1..Len(rules) : RulePassed(i)

\* What was said of a rule stays said
LEMMA PassedStays ==
  ASSUME rules' = rules, seen.word \subseteq seen'.word, NEW i, RulePassed(i)
  PROVE  RulePassed(i)'
BY DEF RulePassed, Passes

\* The scan goes on before the stamps, or ends without an accepted match
LEMMA StampedBefore ==
  ASSUME IInv, Stamped, pc \in {"opening", "read", "check", "look"}, stamp' = stamp,
         pc' \in {"opening", "read", "check", "look", "stamps", "done"},
         op' = "verify" => result' # "SUCCESS"
  PROVE  Stamped'
<1>1. stamp.rule = 0
  BY DEF Stamped
<1> QED
  BY <1>1 DEF Stamped

\* One more rule is passed
LEMMA OnePassed ==
  ASSUME IInv, Stamped, pc \in {"nod", "hotkey"}, pc' = "stamps", rules' = rules,
         result' = result, stamp'.rule = stamp.rule, NEW how \in Ends, Says(how),
         how \in Passes(rules[stamp.rule])
  PROVE  Stamped'
<1>1. seen'.word = seen.word \cup {<<stamp.rule, how>>}
  BY SaysIs
<1>2. stamp.rule \in Nat /\ result = "none"
  BY DEF IInv, Typed, Stamp, Over
<1>3. RulePassed(stamp.rule)'
  <2>1. <<stamp.rule, how>> \in seen'.word /\ how \in Passes(rules[stamp.rule])
    BY <1>1
  <2>2. stamp'.rule = stamp.rule /\ Passes(rules[stamp.rule])' = Passes(rules[stamp.rule])
    BY DEF Passes
  <2> QED
    BY <2>1, <2>2 DEF RulePassed
<1>4. ASSUME NEW i \in 1..stamp'.rule PROVE RulePassed(i)'
  <2>1. CASE i = stamp.rule
    BY <1>3, <2>1 DEF RulePassed, Passes
  <2>2. CASE i # stamp.rule
    <3>1. i \in 1..(stamp.rule - 1)
      BY <1>2, <2>2
    <3>2. RulePassed(i)
      BY <3>1 DEF Stamped
    <3> QED
      BY <1>1, <3>2, PassedStays
  <2> QED
    BY <2>1, <2>2
<1> QED
  BY <1>2, <1>4 DEF Stamped

\* A stamp that waits, or the scan ends without an accepted match
LEMMA StampedWaits ==
  ASSUME IInv, Stamped, pc \in {"nod", "hotkey"}, rules' = rules, seen' = seen,
         pc' = pc, stamp'.rule = stamp.rule, result' = result
  PROVE  Stamped'
<1>1. /\ rules[stamp.rule].stamp = pc /\ result = "none"
      /\ \A i \in 1..(stamp.rule - 1) : RulePassed(i)
  BY DEF Stamped, IInv, Over
<1>2. \A i : RulePassed(i)' <=> RulePassed(i)
  BY DEF RulePassed, Passes
<1> QED
  BY <1>1, <1>2 DEF Stamped

LEMMA StampedEnds ==
  ASSUME pc' = "done", result' # "SUCCESS"
  PROVE  Stamped'
BY DEF Stamped

\* Every stamp's way through
LEMMA StampedSteps ==
  ASSUME IInv, Stamped, Stamps \/ Key
  PROVE  Stamped'
<1> USE DEF stamping, request, camera, light, filters
<1>0. /\ stamp \in Stamp /\ stamp.rule \in Nat /\ rules' = rules /\ op' = op
      /\ pc # "done" => result = "none"
  BY DEF IInv, Typed, Stamp, Over, Stamps, Key, StampsPassed, SkipRule, BadOption, StartStamp,
         StampRaises, Nod, Poll, NoKeyboard, StampTimesOut
<1>1. CASE StampsPassed
  <2>1. /\ pc = "stamps" /\ stamp.rule = Len(rules) /\ pc' = "done" /\ seen' = seen
    BY <1>1 DEF StampsPassed, Finish
  <2>2. \A i \in 1..Len(rules) : RulePassed(i)
    BY <2>1 DEF Stamped
  <2>3. \A i : RulePassed(i)' <=> RulePassed(i)
    BY <1>0, <2>1 DEF RulePassed, Passes
  <2> QED
    BY <1>0, <2>1, <2>2, <2>3 DEF Stamped
<1>2. CASE BadOption \/ NoKeyboard
  BY <1>2, StampedEnds DEF BadOption, NoKeyboard, Finish
<1>3. ASSUME pc = "stamps", seen' = seen, result' = result, pc' # "done",
             stamp'.rule = stamp.rule + 1,
             \/ pc' = "stamps" /\ rules[stamp.rule + 1].stamp = "unknown"
             \/ pc' \in {"nod", "hotkey"} /\ rules[stamp.rule + 1].stamp = pc'
      PROVE  Stamped'
  <2>1. \A i \in 1..stamp.rule : RulePassed(i)
    BY <1>3 DEF Stamped
  <2>2. \A i : RulePassed(i)' <=> RulePassed(i)
    BY <1>0, <1>3 DEF RulePassed, Passes
  <2>3. CASE pc' = "stamps" /\ rules[stamp.rule + 1].stamp = "unknown"
    <3>1. RulePassed(stamp.rule + 1)
      BY <2>3 DEF RulePassed
    <3>2. \A i \in 1..stamp'.rule : RulePassed(i)
      BY <1>0, <1>3, <2>1, <3>1
    <3> QED
      BY <1>0, <1>3, <2>2, <2>3, <3>2 DEF Stamped
  <2>4. CASE pc' \in {"nod", "hotkey"} /\ rules[stamp.rule + 1].stamp = pc'
    <3>1. \A i \in 1..(stamp'.rule - 1) : RulePassed(i)
      BY <1>0, <1>3, <2>1
    <3> QED
      BY <1>0, <1>3, <2>2, <2>4, <3>1 DEF Stamped
  <2> QED
    BY <1>3, <2>3, <2>4
<1>4. CASE SkipRule
  <2>1. stamp'.rule = stamp.rule + 1
    BY <1>4 DEF SkipRule, NoStamp
  <2> QED
    BY <1>3, <1>4, <2>1 DEF SkipRule
<1>5. CASE StartStamp
  <2>1. stamp'.rule = stamp.rule + 1
    BY <1>5 DEF StartStamp, NoStamp
  <2>2. pc' \in {"nod", "hotkey"}
    BY <1>0, <1>5, StampNamed DEF StartStamp
  <2> QED
    BY <1>3, <1>5, <2>1, <2>2 DEF StartStamp
<1>6. CASE StampRaises
  <2>1. "raised" \in Passes(rules[stamp.rule]) /\ "raised" \in Ends
    BY DEF Passes, Ends
  <2> QED
    BY <1>0, <1>6, <2>1, OnePassed DEF StampRaises
<1>7. ASSUME pc \in {"nod", "hotkey"}, stamp'.rule = stamp.rule, NEW yes \in BOOLEAN,
             NEW how \in Ends, StampReturns(yes, how), yes => how \in Passes(rules[stamp.rule])
      PROVE  Stamped'
  <2>1. CASE yes
    BY <1>0, <1>7, <2>1, OnePassed DEF StampReturns
  <2>2. CASE ~yes
    BY <1>7, <2>2, StampedEnds DEF StampReturns, Finish
  <2> QED
    BY <2>1, <2>2
<1>8. CASE Nod
  <2>1. PICK x \in {-1, 0, 1}, y \in {-1, 0, 1} :
          LET s == [stamp EXCEPT !.x = recorded(@, x), !.y = recorded(@, y), !.left = @ - 1] IN
          /\ stamp' = s
          /\ IF Len(s.x) >= MinDirections THEN StampReturns(FALSE, "shaken")
             ELSE IF Len(s.y) >= MinDirections THEN StampReturns(TRUE, "nodded")
             ELSE UNCHANGED <<camera, pc, result, seen>>
    BY <1>8 DEF Nod
  <2>2. \/ StampReturns(FALSE, "shaken") \/ StampReturns(TRUE, "nodded")
        \/ UNCHANGED <<camera, pc, result, seen>>
    BY <2>1
  <2>3. pc = "nod" /\ stamp'.rule = stamp.rule
    BY <1>0, <1>8, <2>1 DEF Nod, Stamp
  <2>4. "nodded" \in Passes(rules[stamp.rule])
    BY <2>3 DEF Stamped, Passes
  <2> QED
    BY <1>0, <1>7, <2>2, <2>3, <2>4, StampedWaits DEF Ends
<1>9. CASE Key
  <2>1. pc = "hotkey" /\ stamp'.rule = stamp.rule
    BY <1>0, <1>9 DEF Key, Stamp
  <2> QED
    BY <1>0, <1>9, <2>1, StampedWaits DEF Key
<1>10. CASE Poll
  <2>1. pc = "hotkey" /\ stamp'.rule = stamp.rule
    BY <1>0, <1>10 DEF Poll, Stamp
  <2>2. "confirm" \in Passes(rules[stamp.rule])
    BY <2>1 DEF Stamped, Passes
  <2>3. CASE stamp.key = "none"
    BY <1>0, <1>10, <2>1, <2>3, StampedWaits DEF Poll
  <2>4. CASE stamp.key # "none"
    <3>1. stamp.key \in Ends /\ (stamp.key = "confirm") \in BOOLEAN
      BY <1>0, <2>4 DEF Stamp, Ends
    <3> QED
      BY <1>7, <1>10, <2>1, <2>2, <2>4, <3>1 DEF Poll
  <2> QED
    BY <2>3, <2>4
<1>11. CASE StampTimesOut
  <2>1. (~Rule.failsafe) \in BOOLEAN /\ "unanswered" \in Ends
    BY DEF Ends
  <2>2. ~Rule.failsafe => "unanswered" \in Passes(rules[stamp.rule])
    BY DEF Passes, Rule
  <2> QED
    BY <1>0, <1>7, <1>11, <2>1, <2>2 DEF StampTimesOut
<1> QED
  BY <1>1, <1>2, <1>4, <1>5, <1>6, <1>8, <1>9, <1>10, <1>11 DEF Stamps

\* _rubberstamps: whatever rules are configured, in whatever order, a match is
\* accepted only when every one of them has been run and passed: nobody's yes
\* to one stamp, no skipped rule and no stamp that raised stands for another
THEOREM StampsAllPassed == Spec => []EveryStampPassed
<1>1. Init => Stamped
  BY DEF Init, NoStamp, Stamped
<1>2. IInv /\ Stamped /\ [Next]_vars => Stamped'
  <2> SUFFICES ASSUME IInv, Stamped, [Next]_vars PROVE Stamped'
    OBVIOUS
  <2> USE DEF request, camera, light, filters
  <2>0. result = "none" <=> pc # "done"
    BY DEF IInv, Over
  <2>1. CASE Opening
    BY <2>0, <2>1, StampedBefore
       DEF Opening, OpenerRefuses, OpenerLights, OpenerOpens, OpenerDies, BackendLoads, Opened,
           loads, Finish, Stamped, RulePassed, Passes
  <2>2. CASE Read \/ ReadFails \/ NoMatch \/ NoSample
    BY <2>0, <2>2, StampedBefore DEF Read, ReadFails, NoMatch, NoSample, Finish
  <2>3. CASE Check
    BY <2>0, <2>3, StampedBefore DEF Check, Finish, timed_out_result
  <2>4. CASE Match
    BY <2>0, <2>4, StampedBefore DEF Match
  <2>5. CASE Sample
    BY <2>0, <2>5, StampedBefore DEF Sample, Finish
  <2>6. CASE Cancel \/ UNCHANGED vars
    <3>1. UNCHANGED <<pc, op, rules, stamp, seen, result>>
      BY <2>6 DEF Cancel, vars
    <3>2. \A i : RulePassed(i)' <=> RulePassed(i)
      BY <3>1 DEF RulePassed, Passes
    <3> QED
      BY <3>1, <3>2 DEF Stamped
  <2> QED
    BY <2>1, <2>2, <2>3, <2>4, <2>5, <2>6, StampedSteps DEF Next, Steps
<1>3. IInv /\ Stamped => EveryStampPassed
  <2> SUFFICES ASSUME IInv, Stamped, op = "verify", result = "SUCCESS", NEW i \in DOMAIN rules
               PROVE  RulePassed(i)
    BY DEF EveryStampPassed
  <2>1. rules \in Rules
    BY RulesAre
  <2>2. i \in 1..Len(rules)
    BY <2>1 DEF Rules
  <2> QED
    BY <2>2 DEF Stamped
<1> QED
  BY <1>1, <1>2, <1>3, Invariance, PTL DEF Spec

\* A frame read while the emitter strobes between lo and hi
LEMMA ReadInStep ==
  ASSUME IInv, Read, NEW lo \in Levels, NEW hi \in Levels,
         \A l \in Levels : lo <= l /\ l <= hi, brighter(hi, lo), InStep(lo, hi)
  PROVE  InStep(lo, hi)'
<1> SUFFICES ASSUME strobe' PROVE InStep(lo, hi)'
  BY DEF InStep
<1>0. PATIENCE \in Nat /\ pairing \in Pairing /\ lo \in Nat /\ hi \in Nat
  BY Constants DEF IInv, Typed
<1>1. strobe /\ phase' = ~phase
  BY DEF Read
<1> DEFINE old == Aged(pairing)
<1>2. PICK level \in LevelsNow : pairing' = lit(old, level).next
  BY DEF Read
<1>3. (phase => level = hi) /\ (~phase => level = lo)
  BY <1>1, <1>2, StrobeLevels
<1>4. /\ old \in Pairing
      /\ old.enabled = pairing.enabled /\ old.unpaired = pairing.unpaired
      /\ old.ambient = <<>> <=> pairing.ambient = <<>>
      /\ pairing.ambient # <<>> => old.ambient[1] = pairing.ambient[1]
  BY <1>0, AgedIs
<1> HIDE DEF old
<1>5. level \in Nat
  BY <1>0, <1>3 DEF IInv, Typed
<1>6. /\ pairing' \in Pairing
      /\ \/ ~old.enabled /\ pairing' = old
         \/ pairing'.enabled /\ pairing'.ambient = <<>> /\ pairing'.unpaired = 0
         \/ /\ old.enabled /\ ~(old.ambient # <<>> /\ brighter(level, old.ambient[1]))
            /\ pairing'.ambient = <<level, 0>> /\ pairing'.unpaired = old.unpaired + 1
  <2>1. LET next == lit(old, level).next IN
        /\ next \in Pairing
        /\ \/ ~old.enabled /\ next = old
           \/ next.enabled /\ next.ambient = <<>> /\ next.unpaired = 0
           \/ /\ old.enabled /\ ~(old.ambient # <<>> /\ brighter(level, old.ambient[1]))
              /\ next.ambient = <<level, 0>> /\ next.unpaired = old.unpaired + 1
    BY <1>0, <1>4, <1>5, LitIs
  <2> QED
    BY <1>2, <2>1
<1>7. CASE ~old.enabled /\ pairing' = old
  BY <1>1, <1>4, <1>7 DEF InStep
<1>8. CASE pairing'.enabled /\ pairing'.ambient = <<>> /\ pairing'.unpaired = 0
  BY <1>8 DEF InStep
<1>9. CASE /\ old.enabled /\ ~(old.ambient # <<>> /\ brighter(level, old.ambient[1]))
           /\ pairing'.ambient = <<level, 0>> /\ pairing'.unpaired = old.unpaired + 1
  <2>1. pairing.enabled /\ pairing.unpaired \in Nat
    BY <1>0, <1>4, <1>9 DEF Pairing
  <2>2. pairing'.ambient # <<>> /\ pairing'.ambient[1] = level
    <3>1. <<level, 0>> # <<>> /\ <<level, 0>>[1] = level
      OBVIOUS
    <3> QED
      BY <1>9, <3>1
  <2>3. CASE pairing.ambient = <<>> /\ pairing.unpaired = 0
    <3>1. pairing'.unpaired = 1
      BY <1>4, <1>9, <2>3
    <3>2. CASE phase
      <4>1. ~phase' /\ level = hi
        BY <1>1, <1>3, <3>2
      <4> QED
        BY <2>2, <3>1, <4>1 DEF InStep
    <3>3. CASE ~phase
      <4>1. phase' /\ level = lo
        BY <1>1, <1>3, <3>3
      <4> QED
        BY <2>2, <3>1, <4>1 DEF InStep
    <3> QED
      BY <3>2, <3>3
  <2>4. CASE phase /\ pairing.ambient # <<>> /\ pairing.ambient[1] = lo
    <3>1. brighter(level, old.ambient[1])
      BY <1>3, <1>4, <2>4
    <3> QED
      BY <1>4, <1>9, <2>4, <3>1
  <2>5. CASE ~phase /\ pairing.ambient # <<>> /\ pairing.ambient[1] = hi /\ pairing.unpaired = 1
    <3>1. pairing'.unpaired = 2 /\ level = lo
      BY <1>3, <1>4, <1>9, <2>5
    <3>2. phase'
      BY <1>1, <2>5
    <3> QED
      BY <2>2, <3>1, <3>2 DEF InStep
  <2> QED
    BY <1>1, <2>1, <2>3, <2>4, <2>5 DEF InStep
<1> QED
  BY <1>6, <1>7, <1>8, <1>9

\* Steps that read no frame
LEMMA RestInStep ==
  ASSUME IInv, [Next]_vars, ~Read, NEW lo, NEW hi, InStep(lo, hi)
  PROVE  InStep(lo, hi)'
<1> USE DEF request, camera, light, filters
<1>1. ASSUME UNCHANGED <<pairing, strobe, phase>> PROVE InStep(lo, hi)'
  BY <1>1 DEF InStep
<1>2. CASE Opening
  <2>1. CASE Opened
    <3>1. pc = "opening"
      BY <2>1 DEF Opened
    <3>2. /\ pairing \in Pairing /\ pairing.ambient = <<>> /\ pairing.unpaired = 0
      BY <3>1 DEF IInv, Typed, Paired
    <3>3. pairing' = pairing \/ \E a \in {FALSE, emitter} : pairing' = [pairing EXCEPT !.enabled = a]
      BY <2>1 DEF Opened
    <3>4. pairing'.ambient = <<>> /\ pairing'.unpaired = 0
      BY <3>2, <3>3 DEF Pairing
    <3> QED
      BY <3>4 DEF InStep
  <2>2. CASE OpenerRefuses \/ OpenerLights \/ OpenerOpens \/ OpenerDies \/ BackendLoads
    BY <1>1, <2>2 DEF OpenerRefuses, OpenerLights, OpenerOpens, OpenerDies, BackendLoads, loads
  <2> QED
    BY <1>2, <2>1, <2>2 DEF Opening
<1>3. CASE ReadFails \/ Check \/ NoMatch \/ Match \/ NoSample \/ Sample \/ Cancel
  BY <1>1, <1>3 DEF ReadFails, Check, NoMatch, Match, NoSample, Sample, Cancel
<1>4. CASE Stamps \/ Key
  BY <1>1, <1>4 DEF Stamps, Key, StampsPassed, SkipRule, BadOption, StartStamp, StampRaises, Nod,
                    Poll, NoKeyboard, StampTimesOut, stamping
<1>5. CASE UNCHANGED vars
  BY <1>1, <1>5 DEF vars
<1> QED
  BY <1>2, <1>3, <1>4, <1>5 DEF Next, Steps

\* AmbientPairing.lit: what is subtracted from a lit frame is the frame just
\* before it, at most PATIENCE frames in a row are swallowed, and pairing is
\* not given up while the emitter strobes visibly
THEOREM PairingIsSound ==
  ASSUME StrobeShows
  PROVE  Spec => []PairingHolds
<1>1. PICK lo \in Levels, hi \in Levels :
        (\A k \in Levels : lo <= k /\ k <= hi) /\ brighter(hi, lo)
  BY DEF StrobeShows
<1>2. Init => InStep(lo, hi)
  BY DEF Init, InStep
<1>3. IInv /\ InStep(lo, hi) /\ [Next]_vars => InStep(lo, hi)'
  BY <1>1, ReadInStep, RestInStep
<1>4. IInv /\ InStep(lo, hi) => PairingHolds
  <2> SUFFICES ASSUME IInv, InStep(lo, hi) PROVE PairingHolds
    OBVIOUS
  <2>1. ~seen.stale /\ seen.swallowed <= PATIENCE
    BY DEF IInv, Paired
  <2>2. pairing.unpaired > PATIENCE => ~strobe
    <3>1. pairing.unpaired \in Nat /\ PATIENCE \in Nat /\ PATIENCE >= 2
      BY Constants DEF StrobeShows, IInv, Typed, Pairing
    <3> QED
      BY <3>1 DEF InStep
  <2> QED
    BY <2>1, <2>2 DEF PairingHolds
<1> QED
  BY <1>2, <1>3, <1>4, Invariance, PTL DEF Spec

-----------------------------------------------------------------------------
(***************************************************************************)
(* The type invariant, with its bounds.                                    *)
(***************************************************************************)

\* The filter remembers MEMORY frames, and enrolment ends with its last sample
Bounded ==
  /\ op \in {"verify", "enroll"} /\ threshold \in Thresholds
  /\ opener \in {"given", "start", "refused", "lit", "opened", "died"}
  /\ backend \in {"loading", "ready", "failed"} /\ cancelled \in BOOLEAN
  /\ clock \in 0..(Timeout + 1)
  /\ pairing.unpaired <= PATIENCE + 1
  /\ history \in Seq(Int) /\ Len(history) <= MEMORY
  /\ captured \in Seq(Int) /\ Len(captured) <= Samples
  /\ pc # "done" => Len(captured) < Samples

LEMMA Limits ==
  /\ Timeout \in Nat /\ MEMORY \in Nat \ {0} /\ Samples \in Nat \ {0} /\ MaxDt \in Nat
  /\ Darkness \subseteq Int
BY EngineAssumption

LEMMA LaterBounded ==
  ASSUME NEW t \in 0..(Timeout + 1), NEW dt \in Nat
  PROVE  Later(t, dt) \in 0..(Timeout + 1)
BY Limits DEF Later

LEMMA RememberedBounded ==
  ASSUME history \in Seq(Int), Len(history) <= MEMORY, NEW d \in Int
  PROVE  remembered(d) \in Seq(Int) /\ Len(remembered(d)) <= MEMORY
<1> DEFINE h == Append(history, d)
<1>1. h \in Seq(Int) /\ Len(h) = Len(history) + 1 /\ Len(history) \in Nat
  OBVIOUS
<1>2. h # <<>> /\ Tail(h) \in Seq(Int) /\ Len(Tail(h)) = Len(h) - 1
  BY <1>1
<1> HIDE DEF h
<1>3. CASE threshold # AUTO
  BY <1>3 DEF remembered
<1>4. CASE threshold = AUTO /\ Len(h) > MEMORY
  <2>1. remembered(d) = Tail(h)
    BY <1>4 DEF remembered, h
  <2> QED
    BY <1>1, <1>2, <2>1, Limits
<1>5. CASE threshold = AUTO /\ ~(Len(h) > MEMORY)
  <2>1. remembered(d) = h
    BY <1>5 DEF remembered, h
  <2> QED
    BY <1>1, <1>5, <2>1, Limits
<1> QED
  BY <1>3, <1>4, <1>5

LEMMA BoundedKept ==
  ASSUME IInv, Bounded, [Next]_vars
  PROVE  Bounded'
<1> USE DEF request, camera, light, filters
<1>1. ASSUME UNCHANGED <<op, threshold, opener, backend, cancelled, clock, pairing, history, captured>>,
             pc' # "done" => pc # "done"
      PROVE  Bounded'
  BY <1>1 DEF Bounded
<1>2. CASE Opening
  <2>1. CASE Opened
    <3>1. pairing'.unpaired = pairing.unpaired
      BY <2>1 DEF Opened, IInv, Typed, Pairing
    <3> QED
      BY <2>1, <3>1 DEF Opened, Bounded
  <2>2. CASE OpenerRefuses \/ OpenerLights \/ OpenerOpens \/ OpenerDies \/ BackendLoads
    BY <2>2 DEF OpenerRefuses, OpenerLights, OpenerOpens, OpenerDies, BackendLoads, loads, Bounded
  <2> QED
    BY <1>2, <2>1, <2>2 DEF Opening
<1>3. CASE Read
  <2>1. PICK level \in LevelsNow, darkness \in Darkness, dt \in 1..MaxDt :
          LET p == lit(Aged(pairing), level) IN
          /\ pairing' = p.next /\ clock' = Later(clock, dt)
          /\ Filtered(p.use, darkness)
    BY <1>3 DEF Read
  <2>2. clock' \in 0..(Timeout + 1)
    BY <2>1, LaterBounded, Limits DEF Bounded
  <2>3. history' \in Seq(Int) /\ Len(history') <= MEMORY
    <3>1. darkness \in Int
      BY Limits
    <3>2. history' = history \/ history' = remembered(darkness)
      BY <2>1 DEF Filtered
    <3> QED
      BY <3>1, <3>2, RememberedBounded DEF Bounded
  <2>4. pairing'.unpaired <= PATIENCE + 1
    <3> DEFINE old == Aged(pairing)
    <3>1. /\ level \in Nat /\ PATIENCE \in Nat /\ pairing \in Pairing
          /\ pairing.unpaired \in Nat
          /\ pairing.enabled => pairing.unpaired <= PATIENCE
      BY LevelsAreLevels, Constants DEF IInv, Typed, Paired, Pairing
    <3>2. old \in Pairing /\ old.enabled = pairing.enabled /\ old.unpaired = pairing.unpaired
      BY <3>1, AgedIs
    <3>3. pairing' = lit(old, level).next
      BY <2>1
    <3> HIDE DEF old
    <3>4. LET next == lit(old, level).next IN
          \/ next = old
          \/ next.unpaired = 0
          \/ old.enabled /\ next.unpaired = old.unpaired + 1
      BY <3>1, <3>2, LitIs
    <3>5. pairing' = old \/ pairing'.unpaired = 0
          \/ (old.enabled /\ pairing'.unpaired = old.unpaired + 1)
      BY <3>3, <3>4
    <3> QED
      BY <3>1, <3>2, <3>5 DEF Bounded
  <2> QED
    BY <1>3, <2>2, <2>3, <2>4 DEF Read, Bounded
<1>4. CASE Sample
  <2>1. PICK dt \in 0..1 : /\ clock' = Later(clock, dt)
                          /\ captured' = Append(captured, Later(clock, dt))
    BY <1>4 DEF Sample
  <2>2. clock' \in 0..(Timeout + 1)
    <3>1. dt \in Nat /\ clock \in 0..(Timeout + 1)
      BY DEF Bounded
    <3> QED
      BY <2>1, <3>1, LaterBounded
  <2>3. clock' \in Int /\ captured' = Append(captured, clock')
    BY <2>1, <2>2, Limits
  <2>4. captured' \in Seq(Int) /\ Len(captured') = Len(captured) + 1 /\ Len(captured) < Samples
        /\ Len(captured) \in Nat
    BY <1>4, <2>3 DEF Sample, Bounded
  <2>5. pc' # "done" => ~(Len(captured') >= Samples)
    BY <1>4 DEF Sample, Finish
  <2> QED
    BY <1>4, <2>2, <2>4, <2>5, Limits DEF Sample, Bounded
<1>5. CASE ReadFails \/ Check \/ NoMatch \/ Match \/ NoSample
  BY <1>1, <1>5 DEF ReadFails, Check, NoMatch, Match, NoSample
<1>6. CASE Cancel
  BY <1>6 DEF Cancel, Bounded
<1>7. CASE Stamps \/ Key
  BY <1>1, <1>7 DEF Stamps, Key, StampsPassed, SkipRule, BadOption, StartStamp, StampRaises, Nod,
                    Poll, NoKeyboard, StampTimesOut, stamping
<1>8. CASE UNCHANGED vars
  BY <1>1, <1>8 DEF vars
<1> QED
  BY <1>2, <1>3, <1>4, <1>5, <1>6, <1>7, <1>8 DEF Next, Steps

\* The types of the scan's state with its bounds: the clock, the unpaired
\* frames, the frames DarkFilter remembers and the samples
THEOREM TypeCorrect == Spec => []TypeOK
<1>1. Init => Bounded
  <2> SUFFICES ASSUME Init PROVE Bounded
    OBVIOUS
  <2>1. history \in Seq(Int) /\ Len(history) = 0 /\ captured \in Seq(Int) /\ Len(captured) = 0
    BY DEF Init
  <2>2. cancelled \in BOOLEAN /\ pairing.unpaired = 0 /\ PATIENCE \in Nat
    BY Constants DEF Init
  <2> QED
    BY <2>1, <2>2, Limits DEF Init, Bounded
<1>2. IInv /\ Bounded => TypeOK
  <2> SUFFICES ASSUME IInv, Bounded PROVE TypeOK
    OBVIOUS
  <2>1. {emitter, reader, cancelled, strobe, phase} \subseteq BOOLEAN
    BY DEF IInv, Typed, Bounded
  <2>2. pairing.unpaired \in 0..(PATIENCE + 1)
    BY Constants DEF IInv, Typed, Pairing, Bounded
  <2>3. stats.dark <= stats.valid
    BY DEF IInv, Typed, Bright
  <2> QED
    BY <2>1, <2>2, <2>3 DEF IInv, Typed, Scanning, Bounded, TypeOK
<1> QED
  BY <1>1, <1>2, BoundedKept, Invariance, PTL DEF Spec

-----------------------------------------------------------------------------
(***************************************************************************)
(* The infrared emitter (module Emitter): the inductive invariant, in      *)
(* parts.                                                                  *)
(***************************************************************************)

SearchPlaces == {"next", "try", "look", "undo", "end"}

\* The writes of a plan or of what a session restores
In(s) == {s[i] : i \in DOMAIN s}

\* What a plan may write to a control: the one value that lights the emitter
On(c) ==
  IF c = FaceAuth THEN {face_auth_target(Original[FaceAuth])}
  ELSE {w.value : w \in {v \in In(stored_controls) : v.control = c}}

\* Where a process is tells what it has open, to write and to restore
At(p) ==
  /\ p \notin handle => /\ place[p] \in {"idle", "ready", "stream", "closing", "asked"}
                        /\ todo[p] = <<>> /\ restore[p] = <<>>
  /\ place[p] \notin {"get", "set"} => todo[p] = <<>>
  /\ place[p] = "set" => todo[p] # <<>>
  /\ place[p] \in {"idle", "plan", "asked"} \cup SearchPlaces => restore[p] = <<>>
  /\ place[p] \in SearchPlaces => p = Cli /\ p \in stream

Places ==
  /\ \A p \in Procs : At(p)
  /\ place[Cli] \in {"try", "look", "undo"} => search.at \in DOMAIN Vendor
  /\ place[Cli] \in {"try", "look"} => ~search.ended
  /\ \A i, j \in DOMAIN state.controls :
       state.controls[i].control = state.controls[j].control => i = j

\* A session writes a value that lights the emitter, and restores the
\* camera's own: it never reads a value that another one has written as the
\* value to restore
Writes(c) ==
  \A p \in Procs :
    /\ \A w \in In(todo[p]) : w.control = c => w.value \in On(c)
    /\ \A w \in In(restore[p]) : w.control = c => w.value = Original[c] /\ On(c) # {}
    /\ place[p] = "set" /\ Head(todo[p]).control = c =>
         previous[p] = Original[c] /\ ~Searching(c)

\* The search meets no session on the control it tries
Searched(c) ==
  /\ Searching(c) => On(c) \subseteq {cur[c]} /\ \A p \in Procs : c \notin Held(p)
  /\ place[Cli] \in SearchPlaces /\ c \in VendorSet =>
       /\ search.saved[c] = Original[c]
       /\ ~search.ended => On(c) = {}

Lit(c) ==
  /\ ~Searching(c) => cur[c] \in {Original[c]} \cup On(c)
  /\ \/ cur[c] = Original[c]
     \/ Searching(c)
     \/ \E p \in Procs : c \in Held(p)

Promised(c) == Writes(c) /\ Searched(c) /\ Lit(c)

EmitterInv == EmitterTypeOK /\ Places /\ \A c \in Controls \ excused : Promised(c)

-----------------------------------------------------------------------------
(***************************************************************************)
(* Sequences of writes.                                                    *)
(***************************************************************************)

LEMMA InEmpty == In(<<>>) = {}
BY DEF In

LEMMA InSet ==
  ASSUME NEW S, NEW s \in Seq(S)
  PROVE  In(s) \subseteq S
BY DEF In

LEMMA InWider ==
  ASSUME NEW S, NEW T, S \subseteq T, NEW s \in Seq(S)
  PROVE  s \in Seq(T)
<1>1. Len(s) \in Nat /\ s \in [1..Len(s) -> S]
  OBVIOUS
<1>2. s \in [1..Len(s) -> T]
  BY <1>1
<1> QED
  BY <1>1, <1>2

LEMMA InTail ==
  ASSUME NEW S, NEW s \in Seq(S), s # <<>>
  PROVE  /\ Head(s) \in In(s) /\ Head(s) \in S
         /\ Tail(s) \in Seq(S) /\ In(Tail(s)) \subseteq In(s)
<1>1. 1 \in DOMAIN s /\ Head(s) = s[1] /\ Tail(s) \in Seq(S)
  OBVIOUS
<1>2. \A i \in DOMAIN Tail(s) : i + 1 \in DOMAIN s /\ Tail(s)[i] = s[i + 1]
  OBVIOUS
<1> QED
  BY <1>1, <1>2 DEF In

LEMMA InAppend ==
  ASSUME NEW S, NEW s \in Seq(S), NEW x \in S
  PROVE  Append(s, x) \in Seq(S) /\ In(Append(s, x)) = In(s) \cup {x}
<1>1. /\ Append(s, x) \in Seq(S) /\ DOMAIN Append(s, x) = DOMAIN s \cup {Len(s) + 1}
      /\ \A i \in DOMAIN s : Append(s, x)[i] = s[i]
      /\ Append(s, x)[Len(s) + 1] = x
  OBVIOUS
<1> QED
  BY <1>1 DEF In

LEMMA InFront ==
  ASSUME NEW S, NEW s \in Seq(S), s # <<>>
  PROVE  /\ s[Len(s)] \in In(s) /\ s[Len(s)] \in S
         /\ SubSeq(s, 1, Len(s) - 1) \in Seq(S)
         /\ In(s) = In(SubSeq(s, 1, Len(s) - 1)) \cup {s[Len(s)]}
<1> DEFINE f == SubSeq(s, 1, Len(s) - 1)
<1>1. Len(s) \in DOMAIN s /\ s[Len(s)] \in S
  OBVIOUS
<1>2. f \in Seq(S) /\ DOMAIN s = DOMAIN f \cup {Len(s)}
  <2>1. Len(s) \in Nat /\ Len(s) >= 1 /\ DOMAIN s = 1..Len(s)
    OBVIOUS
  <2>2. f \in Seq(S) /\ Len(f) = Len(s) - 1
    BY <2>1
  <2>3. DOMAIN f = 1..(Len(s) - 1)
    BY <2>2
  <2> QED
    BY <2>1, <2>2, <2>3
<1>3. \A i \in DOMAIN f : f[i] = s[i]
  OBVIOUS
<1> HIDE DEF f
<1>4. In(s) = In(f) \cup {s[Len(s)]}
  BY <1>1, <1>2, <1>3 DEF In
<1> QED
  BY <1>1, <1>2, <1>4 DEF In, f

LEMMA HeldIs == \A p : Held(p) = {w.control : w \in In(restore[p])}
BY DEF Held, In

\* face_auth_target chooses a mode of its own, whatever it finds
LEMMA TargetIs ==
  ASSUME NEW x \in Value
  PROVE  /\ face_auth_target(x) \in Value
         /\ face_auth_target(face_auth_target(x)) = face_auth_target(x)
<1>1. \A i \in Bytes : mode_of(i, x[i]) \in 0..MaxByte
  BY EmitterAssumption DEF Value, mode_of, ALTERNATIVE_FRAME_ILLUMINATION, BACKGROUND_SUBTRACTION
<1>2. \A i \in Bytes : mode_of(i, mode_of(i, x[i])) = mode_of(i, x[i])
  BY DEF mode_of
<1> QED
  BY <1>1, <1>2 DEF face_auth_target, Value

-----------------------------------------------------------------------------
(***************************************************************************)
(* Types.                                                                  *)
(***************************************************************************)

\* What is stored is for vendor controls, each of them once
LEMMA StoredIs ==
  ASSUME EmitterTypeOK
  PROVE  /\ stored_controls \in Seq(Write)
         /\ \A w \in In(stored_controls) : w \in Write /\ w.control \in VendorSet
         /\ Places => \A v, w \in In(stored_controls) : v.control = w.control => v = w
<1> DEFINE V == [control : VendorSet, value : Value]
<1>1. stored_controls \in Seq(V)
  BY EmitterAssumption DEF EmitterTypeOK, stored_controls
<1>2. V \subseteq Write
  BY DEF Write, Controls
<1>3. stored_controls \in Seq(Write)
  BY <1>1, <1>2, InWider
<1>4. In(stored_controls) \subseteq V
  BY <1>1, InSet
<1>5. Places => \A i, j \in DOMAIN stored_controls :
                  stored_controls[i].control = stored_controls[j].control => i = j
  BY EmitterAssumption DEF EmitterTypeOK, Places, stored_controls
<1> QED
  BY <1>2, <1>3, <1>4, <1>5 DEF In

LEMMA HeldAreControls ==
  ASSUME EmitterTypeOK, NEW p \in Procs
  PROVE  Held(p) \subseteq Controls
<1>1. In(restore[p]) \subseteq Write
  BY InSet DEF EmitterTypeOK
<1> QED
  BY <1>1, HeldIs DEF Write

LEMMA PlansAre ==
  ASSUME EmitterTypeOK, NEW writes \in plans
  PROVE  writes \in Seq(Write)
<1>1. face_auth_target(cur[FaceAuth]) \in Value /\ FaceAuth \in Controls
  BY TargetIs DEF EmitterTypeOK, Controls
<1>2. face_auth_plan \in Seq(Write)
  BY <1>1 DEF face_auth_plan, Write
<1> QED
  BY <1>2, StoredIs DEF plans

\* A value raised within its bounds
LEMMA RaisedIs ==
  ASSUME NEW c \in VendorSet, NEW now \in Value, NEW n \in Nat \ {0},
         fits(c, now, n)
  PROVE  raised(now, n) \in Value
<1>1. step(n) \in Nat
  BY EmitterAssumption DEF step
<1>2. Maximum[c] \in Value
  BY EmitterAssumption
<1>3. ASSUME byte(n) \in Bytes PROVE now[byte(n)] + step(n) \in 0..MaxByte
  <2>1. now[byte(n)] \in 0..MaxByte /\ Maximum[c][byte(n)] \in 0..MaxByte
    BY <1>2, <1>3 DEF Value
  <2> QED
    BY <1>1, <2>1, EmitterAssumption DEF fits
<1> QED
  BY <1>3 DEF raised, Value

LEMMA CaptureTypes ==
  ASSUME EmitterTypeOK, Places, NEW p \in Procs,
         Activate(p) \/ Capture(p) \/ Kill(p)
  PROVE  EmitterTypeOK'
<1> USE DEF EmitterTypeOK
<1>1. Original[FaceAuth] \in Value /\ NoSearch \in SearchAt
  BY EmitterAssumption DEF Controls, NoSearch, SearchAt
<1>2. Held(p) \subseteq Controls
  BY HeldAreControls
<1>3. CASE Activate(p)
  BY <1>3 DEF Activate, files
<1>4. CASE Plan(p)
  BY <1>4, PlansAre DEF Plan, files
<1>5. CASE GetPrevious(p)
  <2>1. Head(todo[p]) \in Write /\ Tail(todo[p]) \in Seq(Write)
    BY <1>5, InTail DEF GetPrevious
  <2>2. CASE cur[Head(todo[p]).control] # Head(todo[p]).value
    <3>1. cur[Head(todo[p]).control] \in Value
      BY <2>1 DEF Write
    <3> QED
      BY <1>5, <2>2, <3>1 DEF GetPrevious, files
  <2>3. CASE cur[Head(todo[p]).control] = Head(todo[p]).value
    <3>1. todo' = [todo EXCEPT ![p] = Tail(todo[p])]
          /\ UNCHANGED <<previous, place, files, cur, handle, stream, restore, excused>>
      BY <1>5, <2>3 DEF GetPrevious
    <3> QED
      BY <2>1, <3>1 DEF files
  <2> QED
    BY <2>2, <2>3
<1>6. CASE SetOn(p)
  <2>1. Head(todo[p]) \in Write /\ Tail(todo[p]) \in Seq(Write)
    BY <1>6, InTail DEF SetOn, Places, At
  <2>2. [control |-> Head(todo[p]).control, value |-> previous[p]] \in Write
    BY <2>1 DEF Write
  <2>3. Append(restore[p], [control |-> Head(todo[p]).control, value |-> previous[p]]) \in Seq(Write)
    BY <2>2, InAppend
  <2> QED
    BY <1>1, <1>6, <2>1, <2>3 DEF SetOn, files, Write
<1>7. CASE ActivateFails(p)
  BY <1>1, <1>2, <1>7 DEF ActivateFails, files
<1>8. CASE Activated(p)
  BY <1>8 DEF Activated, files
<1>9. CASE StartReader(p) \/ StopReader(p)
  <2>1. CASE StartReader(p)
    <3>1. stream' \subseteq Procs /\ \E q \in {"stream", "closing"} : place' = [place EXCEPT ![p] = q]
      BY <2>1 DEF StartReader
    <3> QED
      BY <2>1, <3>1 DEF StartReader, files
  <2>2. CASE StopReader(p)
    BY <2>2 DEF StopReader, files
  <2> QED
    BY <1>9, <2>1, <2>2
<1>10. CASE Restore(p)
  <2> DEFINE w == restore[p][Len(restore[p])]
  <2>1. w \in Write /\ SubSeq(restore[p], 1, Len(restore[p]) - 1) \in Seq(Write)
    BY <1>10, InFront DEF Restore
  <2> QED
    BY <1>10, <2>1 DEF Restore, files, Write
<1>11. CASE Closed(p)
  BY <1>11 DEF Closed, files
<1>12. CASE Kill(p)
  <2>1. place[p] \in {"try", "look", "undo"} => Current \in Controls
    BY DEF Places, At, SearchPlaces, Current, Controls, VendorSet
  <2> QED
    BY <1>1, <1>2, <1>12, <2>1 DEF Kill
<1> QED
  BY <1>3, <1>4, <1>5, <1>6, <1>7, <1>8, <1>9, <1>10, <1>11, <1>12 DEF Capture

LEMMA SearchTypes ==
  ASSUME EmitterTypeOK, Places, Search \/ PowerDown \/ UNCHANGED emitter_vars
  PROVE  EmitterTypeOK'
<1> USE DEF EmitterTypeOK
<1>0. Cli \in Procs /\ Original \in [Controls -> Value] /\ NoSearch \in SearchAt
  BY EmitterAssumption DEF Procs, NoSearch, SearchAt
<1>1. place[Cli] \in {"try", "look", "undo"} => Current \in VendorSet /\ Current \in Controls
  BY DEF Places, Current, Controls, VendorSet
<1>2. CASE Status \/ NoReader \/ NoMoreValues \/ NotLit
  BY <1>2 DEF Status, NoReader, NoMoreValues, NotLit, files
<1>3. CASE StartSearch
  <2>1. search' \in SearchAt
    BY <1>3, EmitterAssumption DEF StartSearch, SearchAt
  <2> QED
    BY <1>0, <1>3, <2>1 DEF StartSearch
<1>4. CASE NextControl
  <2>1. \A j \in next_control(search.at) : [search EXCEPT !.at = j, !.tried = 0] \in SearchAt
    <3>1. \A j \in next_control(search.at) : j \in 0..Len(Vendor)
      BY EmitterAssumption DEF next_control
    <3> QED
      BY <3>1 DEF SearchAt
  <2>2. search' \in SearchAt
    <3>1. search' = search \/ \E j \in next_control(search.at) :
                                   search' = [search EXCEPT !.at = j, !.tried = 0]
      BY <1>4 DEF NextControl
    <3>2. ASSUME NEW j \in next_control(search.at),
                 search' = [search EXCEPT !.at = j, !.tried = 0]
          PROVE  search' \in SearchAt
      BY <2>1, <3>2, Zenon
    <3> QED
      BY <3>1, <3>2
  <2>3. place' \in [Procs -> {"idle", "plan", "get", "set", "ready", "stream", "closing",
                         "asked", "next", "try", "look", "undo", "end"}]
    <3>1. \E q \in {"end", "try"} : place' = [place EXCEPT ![Cli] = q]
      BY <1>4 DEF NextControl
    <3> QED
      BY <1>0, <3>1
  <2> QED
    BY <1>4, <2>2, <2>3 DEF NextControl
<1>5. CASE TryNext
  <2>1. PICK n \in next_value(Current, search.saved[Current], search.tried) :
          /\ cur' = [cur EXCEPT ![Current] = raised(search.saved[Current], n)]
          /\ search' = [search EXCEPT !.tried = n]
    BY <1>5 DEF TryNext
  <2>2. search.saved[Current] \in Value /\ search.tried \in Nat
    BY <1>1, <1>5 DEF TryNext, SearchAt
  <2>3. n \in Nat \ {0} /\ fits(Current, search.saved[Current], n)
    BY <2>2 DEF next_value
  <2>4. raised(search.saved[Current], n) \in Value
    BY <1>1, <1>5, <2>2, <2>3, RaisedIs DEF TryNext
  <2>5. search' \in SearchAt
    BY <2>1, <2>3 DEF SearchAt
  <2> QED
    BY <1>5, <2>1, <2>4, <2>5 DEF TryNext
<1>6. CASE Remember
  <2>1. [control |-> Current, value |-> cur[Current]] \in [control : VendorSet, value : Value]
    BY <1>1, <1>6 DEF Remember
  <2>2. state' \in [controls : Seq([control : VendorSet, value : Value]), blacklist : SUBSET VendorSet]
    <3> DEFINE V == [control : VendorSet, value : Value]
    <3>1. <<[control |-> Current, value |-> cur[Current]]>> \in Seq(V)
      BY <2>1
    <3> QED
      BY <1>6, <3>1 DEF Remember
  <2>3. search' \in SearchAt
    BY <1>6 DEF Remember, SearchAt
  <2> QED
    BY <1>6, <2>2, <2>3 DEF Remember
<1>7. CASE Interrupt
  BY <1>7 DEF Interrupt, SearchAt
<1>8. CASE Undo
  <2>1. search.saved[Current] \in Value
    BY <1>1, <1>8 DEF Undo, SearchAt
  <2>2. search' \in SearchAt
    BY <1>8 DEF Undo, SearchAt
  <2>3. state' \in [controls : Seq([control : VendorSet, value : Value]), blacklist : SUBSET VendorSet]
    <3>1. state' = state \/ state' = [state EXCEPT !.blacklist = @ \cup {Current}]
      BY <1>8 DEF Undo
    <3>2. Current \in VendorSet
      BY <1>1, <1>8 DEF Undo
    <3> QED
      <4>1. CASE state' = [state EXCEPT !.blacklist = @ \cup {Current}]
        <5>1. state.blacklist \cup {Current} \in SUBSET VendorSet
          BY <3>2
        <5>2. state' = [state EXCEPT !.blacklist = state.blacklist \cup {Current}]
          BY <4>1
        <5> QED
          BY <5>1, <5>2
      <4> QED
        BY <3>1, <4>1
  <2>4. cur' \in [Controls -> Value] /\ excused' \subseteq Controls
    BY <1>1, <1>8, <2>1 DEF Undo
  <2> QED
    BY <1>8, <2>2, <2>3, <2>4 DEF Undo
<1>9. CASE SearchEnds
  BY <1>0, <1>9 DEF SearchEnds
<1>10. CASE Forget
  BY <1>10 DEF Forget
<1>11. CASE PowerDown
  BY <1>0, <1>11 DEF PowerDown, files
<1>12. CASE UNCHANGED emitter_vars
  BY <1>12 DEF emitter_vars
<1> QED
  BY <1>2, <1>3, <1>4, <1>5, <1>6, <1>7, <1>8, <1>9, <1>10, <1>11, <1>12 DEF Search

-----------------------------------------------------------------------------
(***************************************************************************)
(* Where the processes are.                                                *)
(***************************************************************************)

\* A step of p leaves the other processes where they are
LEMMA PlacesFrame ==
  ASSUME EmitterTypeOK, Places, NEW p \in Procs, At(p)', UNCHANGED state,
         place'[Cli] \in {"try", "look", "undo"} => search' = search /\ place'[Cli] = place[Cli],
         \A q \in Procs \ {p} :
           /\ place'[q] = place[q] /\ todo'[q] = todo[q] /\ restore'[q] = restore[q]
           /\ q \in handle' <=> q \in handle
           /\ q \in stream => q \in stream'
  PROVE  Places'
<1>1. \A q \in Procs \ {p} : At(q)'
  BY DEF At, Places
<1> QED
  BY <1>1 DEF Places

LEMMA CapturePlaces ==
  ASSUME EmitterTypeOK, Places, NEW p \in Procs,
         Activate(p) \/ Capture(p) \/ Kill(p)
  PROVE  Places'
<1> USE DEF SearchPlaces
<1>1. /\ handle \subseteq Procs /\ stream \subseteq Procs
      /\ place = [q \in Procs |-> place[q]] /\ todo = [q \in Procs |-> todo[q]]
      /\ restore = [q \in Procs |-> restore[q]]
  BY DEF EmitterTypeOK
<1>2. At(p) /\ Cli \in Procs
  BY DEF Places, Procs
<1>3. CASE Activate(p)
  <2>1. /\ place'[Cli] \notin {"try", "look", "undo"} \/ place'[Cli] = place[Cli]
        /\ \A q \in Procs \ {p} : place'[q] = place[q] /\ (q \in handle' <=> q \in handle)
    BY <1>1, <1>2, <1>3 DEF Activate, At
  <2>2. At(p)'
    BY <1>1, <1>2, <1>3 DEF Activate, At
  <2> QED
    BY <1>3, <2>1, <2>2, PlacesFrame DEF Activate, files
<1>4. CASE Plan(p)
  <2>1. PICK writes \in plans :
          /\ place[p] = "plan"
          /\ todo' = [todo EXCEPT ![p] = writes]
          /\ place' = [place EXCEPT ![p] = IF writes = <<>> THEN "ready" ELSE "get"]
          /\ handle' = IF writes = <<>> THEN handle \ {p} ELSE handle
          /\ UNCHANGED <<files, stream, restore>>
    BY <1>4 DEF Plan
  <2>2. At(p)'
    BY <1>1, <1>2, <2>1 DEF At
  <2>3. /\ place'[Cli] \notin {"try", "look", "undo"} \/ place'[Cli] = place[Cli]
        /\ \A q \in Procs \ {p} : /\ place'[q] = place[q] /\ todo'[q] = todo[q]
                                  /\ q \in handle' <=> q \in handle
    BY <1>1, <1>2, <2>1
  <2> QED
    BY <2>1, <2>2, <2>3, PlacesFrame DEF files
<1>5. CASE GetPrevious(p)
  <2>1. /\ place[p] = "get" /\ todo[p] # <<>>
        /\ UNCHANGED <<files, handle, stream, restore>>
        /\ \/ place' = [place EXCEPT ![p] = "set"] /\ todo' = todo
           \/ todo' = [todo EXCEPT ![p] = Tail(todo[p])] /\ place' = place
    BY <1>5 DEF GetPrevious
  <2>2. At(p)'
    BY <1>1, <1>2, <2>1 DEF At
  <2>3. /\ place'[Cli] \notin {"try", "look", "undo"} \/ place'[Cli] = place[Cli]
        /\ \A q \in Procs \ {p} : place'[q] = place[q] /\ todo'[q] = todo[q]
    BY <1>1, <1>2, <2>1
  <2> QED
    BY <2>1, <2>2, <2>3, PlacesFrame DEF files
<1>6. CASE SetOn(p)
  <2>1. /\ place[p] = "set"
        /\ UNCHANGED <<files, handle, stream>>
        /\ todo' = [todo EXCEPT ![p] = Tail(todo[p])]
        /\ place' = [place EXCEPT ![p] = "get"]
        /\ \E r : restore' = [restore EXCEPT ![p] = r]
    BY <1>6 DEF SetOn
  <2>2. At(p)'
    BY <1>1, <1>2, <2>1 DEF At
  <2>3. /\ place'[Cli] \notin {"try", "look", "undo"} \/ place'[Cli] = place[Cli]
        /\ \A q \in Procs \ {p} :
             place'[q] = place[q] /\ todo'[q] = todo[q] /\ restore'[q] = restore[q]
    BY <1>1, <1>2, <2>1
  <2> QED
    BY <2>1, <2>2, <2>3, PlacesFrame DEF files
<1>7. CASE ActivateFails(p)
  <2>1. /\ place[p] \in {"get", "set"}
        /\ UNCHANGED <<files, stream>> /\ handle' = handle \ {p}
        /\ todo' = [todo EXCEPT ![p] = <<>>] /\ restore' = [restore EXCEPT ![p] = <<>>]
        /\ place' = [place EXCEPT ![p] = "ready"]
    BY <1>7 DEF ActivateFails
  <2>2. At(p)'
    BY <1>1, <1>2, <2>1 DEF At
  <2>3. /\ place'[Cli] \notin {"try", "look", "undo"} \/ place'[Cli] = place[Cli]
        /\ \A q \in Procs \ {p} :
             /\ place'[q] = place[q] /\ todo'[q] = todo[q] /\ restore'[q] = restore[q]
             /\ q \in handle' <=> q \in handle
    BY <1>1, <1>2, <2>1
  <2> QED
    BY <2>1, <2>2, <2>3, PlacesFrame DEF files
<1>8. CASE Activated(p) \/ StartReader(p) \/ StopReader(p)
  <2>1. /\ place[p] \in {"get", "ready", "stream"} /\ (place[p] = "get" => todo[p] = <<>>)
        /\ UNCHANGED <<files, handle, todo, restore>>
        /\ \E x \in {"ready", "stream", "closing"} : place' = [place EXCEPT ![p] = x]
        /\ \A q \in Procs \ {p} : q \in stream => q \in stream'
    BY <1>8 DEF Activated, StartReader, StopReader
  <2>2. At(p)'
    BY <1>1, <1>2, <2>1 DEF At
  <2>3. /\ place'[Cli] \notin {"try", "look", "undo"} \/ place'[Cli] = place[Cli]
        /\ \A q \in Procs \ {p} : place'[q] = place[q]
    BY <1>1, <1>2, <2>1
  <2> QED
    BY <2>1, <2>2, <2>3, PlacesFrame DEF files
<1>9. CASE Restore(p)
  <2>1. /\ place[p] = "closing" /\ restore[p] # <<>>
        /\ UNCHANGED <<files, handle, stream, place, todo>>
        /\ restore' = [restore EXCEPT ![p] = SubSeq(restore[p], 1, Len(restore[p]) - 1)]
    BY <1>9 DEF Restore
  <2>2. At(p)'
    BY <1>1, <1>2, <2>1 DEF At
  <2>3. \A q \in Procs \ {p} : restore'[q] = restore[q]
    BY <1>1, <2>1
  <2> QED
    BY <2>1, <2>2, <2>3, PlacesFrame DEF files
<1>10. CASE Closed(p)
  <2>1. /\ place[p] = "closing" /\ restore[p] = <<>>
        /\ UNCHANGED <<files, stream, todo, restore>> /\ handle' = handle \ {p}
        /\ place' = [place EXCEPT ![p] = "idle"]
    BY <1>10 DEF Closed
  <2>2. At(p)'
    BY <1>1, <1>2, <2>1 DEF At
  <2>3. /\ place'[Cli] \notin {"try", "look", "undo"} \/ place'[Cli] = place[Cli]
        /\ \A q \in Procs \ {p} : place'[q] = place[q] /\ (q \in handle' <=> q \in handle)
    BY <1>1, <1>2, <2>1
  <2> QED
    BY <2>1, <2>2, <2>3, PlacesFrame DEF files
<1>11. CASE Kill(p)
  <2>1. /\ UNCHANGED state /\ handle' = handle \ {p} /\ stream' = stream \ {p}
        /\ todo' = [todo EXCEPT ![p] = <<>>] /\ restore' = [restore EXCEPT ![p] = <<>>]
        /\ place' = [place EXCEPT ![p] = "idle"]
        /\ p # Cli => search' = search
    BY <1>11 DEF Kill
  <2>2. At(p)'
    BY <1>1, <1>2, <2>1 DEF At
  <2>3. /\ place'[Cli] \notin {"try", "look", "undo"} \/ (place'[Cli] = place[Cli] /\ search' = search)
        /\ \A q \in Procs \ {p} :
             /\ place'[q] = place[q] /\ todo'[q] = todo[q] /\ restore'[q] = restore[q]
             /\ q \in handle' <=> q \in handle
             /\ q \in stream => q \in stream'
    BY <1>1, <1>2, <2>1
  <2> QED
    BY <2>1, <2>2, <2>3, PlacesFrame
<1> QED
  BY <1>3, <1>4, <1>5, <1>6, <1>7, <1>8, <1>9, <1>10, <1>11 DEF Capture

LEMMA SearchKeepsPlaces ==
  ASSUME EmitterTypeOK, Places, Search \/ PowerDown \/ UNCHANGED emitter_vars
  PROVE  Places'
<1> USE DEF SearchPlaces, At
<1>1. /\ handle \subseteq Procs /\ stream \subseteq Procs /\ Cli \in Procs
      /\ place = [q \in Procs |-> place[q]]
  BY DEF EmitterTypeOK, Procs
<1>2. CASE Status \/ NoReader \/ NoMoreValues \/ NotLit
  BY <1>1, <1>2 DEF Status, NoReader, NoMoreValues, NotLit, files, Places
<1>3. CASE StartSearch
  BY <1>1, <1>3 DEF StartSearch, Places
<1>4. CASE NextControl
  <2>1. CASE search.ended \/ next_control(search.at) = {}
    BY <1>1, <1>4, <2>1 DEF NextControl, Places
  <2>2. CASE ~(search.ended \/ next_control(search.at) = {})
    <3>1. PICK j \in next_control(search.at) : search' = [search EXCEPT !.at = j, !.tried = 0]
      BY <1>4, <2>2 DEF NextControl
    <3>2. search'.at = j /\ search'.ended = search.ended /\ j \in DOMAIN Vendor
      BY <3>1 DEF EmitterTypeOK, SearchAt, next_control
    <3>3. place' = [place EXCEPT ![Cli] = "try"]
          /\ UNCHANGED <<msxu, database, state, cur, handle, stream, todo, previous, restore, excused>>
          /\ place[Cli] = "next"
      BY <1>4, <2>2 DEF NextControl
    <3> QED
      BY <1>1, <2>2, <3>2, <3>3 DEF Places
  <2> QED
    BY <2>1, <2>2
<1>5. CASE TryNext
  <2>1. search'.at = search.at /\ search'.ended = search.ended
    BY <1>5 DEF TryNext, EmitterTypeOK, SearchAt
  <2> QED
    BY <1>1, <1>5, <2>1 DEF TryNext, Places
<1>6. CASE Remember
  <2>1. search'.at = search.at
    BY <1>6 DEF Remember, EmitterTypeOK, SearchAt
  <2>2. state'.controls = <<[control |-> Current, value |-> cur[Current]]>>
    BY <1>6 DEF Remember, EmitterTypeOK
  <2>3. \A i, j \in DOMAIN state'.controls : i = j
    BY <2>2
  <2> QED
    BY <1>1, <1>6, <2>1, <2>3 DEF Remember, Places
<1>7. CASE Interrupt
  <2>1. search'.at = search.at
    BY <1>7 DEF Interrupt, EmitterTypeOK, SearchAt
  <2> QED
    BY <1>1, <1>7, <2>1 DEF Interrupt, Places
<1>8. CASE Undo
  <2>1. state'.controls = state.controls
    BY <1>8 DEF Undo, EmitterTypeOK
  <2>2. place[Cli] = "undo" /\ place' = [place EXCEPT ![Cli] = "next"]
        /\ UNCHANGED <<handle, stream, todo, restore>>
    BY <1>8 DEF Undo
  <2> QED
    BY <1>1, <2>1, <2>2 DEF Places
<1>9. CASE SearchEnds
  BY <1>1, <1>9 DEF SearchEnds, Places
<1>10. CASE Forget
  BY <1>1, <1>10 DEF Forget, Places
<1>11. CASE PowerDown
  BY <1>11 DEF PowerDown, files, Places
<1>12. CASE UNCHANGED emitter_vars
  BY <1>12 DEF emitter_vars, Places
<1> QED
  BY <1>2, <1>3, <1>4, <1>5, <1>6, <1>7, <1>8, <1>9, <1>10, <1>11, <1>12 DEF Search

-----------------------------------------------------------------------------
(***************************************************************************)
(* What is promised of a control.                                          *)
(***************************************************************************)

LEMMA OnSame ==
  ASSUME UNCHANGED <<state, database>>
  PROVE  \A c : On(c)' = On(c)
BY DEF On, stored_controls, In

\* A plan's value is the only one
LEMMA OnIsOne ==
  ASSUME EmitterTypeOK, Places, NEW c \in Controls, NEW v \in On(c), NEW w \in On(c)
  PROVE  v = w
<1>1. CASE c = FaceAuth
  BY <1>1 DEF On
<1>2. CASE c # FaceAuth
  <2>1. PICK a \in In(stored_controls), b \in In(stored_controls) :
          a.control = c /\ a.value = v /\ b.control = c /\ b.value = w
    BY <1>2 DEF On
  <2>2. a = b
    BY <2>1, StoredIs
  <2> QED
    BY <2>1, <2>2
<1> QED
  BY <1>1, <1>2

\* Nothing changes for a control that is not written or read
LEMMA PromisedFrame ==
  ASSUME NEW c \in Controls, Promised(c), On(c)' = On(c), cur'[c] = cur[c],
         Searching(c)' <=> Searching(c),
         place'[Cli] \in SearchPlaces =>
           /\ place[Cli] \in SearchPlaces
           /\ search'.saved = search.saved /\ (~search'.ended => ~search.ended),
         \A q \in Procs :
           /\ \A w \in In(todo'[q]) : w.control = c => w \in In(todo[q])
           /\ \A w \in In(restore'[q]) : w.control = c => w \in In(restore[q])
           /\ c \in Held(q) => c \in Held(q)'
           /\ place'[q] = "set" /\ Head(todo'[q]).control = c =>
                previous'[q] = Original[c] /\ ~Searching(c)
  PROVE  Promised(c)'
<1>1. Writes(c)'
  BY DEF Promised, Writes
<1>2. \A q \in Procs : c \in Held(q)' => c \in Held(q)
  <2>1. \A q \in Procs : Held(q)' = {w.control : w \in In(restore'[q])}
    BY DEF Held, In
  <2> QED
    BY <2>1, HeldIs
<1>3. Searched(c)'
  BY <1>2 DEF Promised, Searched
<1>4. Lit(c)'
  BY DEF Promised, Lit
<1> QED
  BY <1>1, <1>3, <1>4 DEF Promised

\* A step of a process that does not search leaves the search alone
LEMMA SearchSame ==
  ASSUME EmitterTypeOK, NEW p \in Procs, UNCHANGED <<database, state, search>>, place[p] \notin SearchPlaces,
         NEW x, x \notin SearchPlaces, place' = [place EXCEPT ![p] = x]
  PROVE  /\ \A c : (Searching(c)' <=> Searching(c)) /\ On(c)' = On(c)
         /\ place'[Cli] \in SearchPlaces => place[Cli] \in SearchPlaces
         /\ place'[p] = x /\ \A q \in Procs \ {p} : place'[q] = place[q]
<1>1. place'[p] = x /\ \A q \in Procs \ {p} : place'[q] = place[q]
  BY DEF EmitterTypeOK
<1>2. Cli \in Procs
  BY DEF Procs
<1>3. place'[Cli] \in SearchPlaces <=> place[Cli] \in SearchPlaces
  BY <1>1, <1>2
<1>4. place'[Cli] \in {"try", "look", "undo"} <=> place[Cli] \in {"try", "look", "undo"}
  BY <1>1, <1>2 DEF SearchPlaces
<1>5. \A c : Searching(c)' <=> Searching(c)
  BY <1>4 DEF Searching, Current
<1> QED
  BY <1>1, <1>3, <1>5, OnSame

LEMMA QuietKeeps ==
  ASSUME EmitterInv, NEW p \in Procs,
         Activate(p) \/ Activated(p) \/ StartReader(p) \/ StopReader(p) \/ Closed(p),
         NEW c \in Controls \ excused'
  PROVE  Promised(c)'
<1>1. /\ UNCHANGED <<files, cur, todo, previous, restore, excused>>
      /\ place[p] \notin SearchPlaces
      /\ \E x \in {"plan", "ready", "stream", "closing", "idle"} : place' = [place EXCEPT ![p] = x]
  BY DEF Activate, Activated, StartReader, StopReader, Closed, SearchPlaces
<1>2. PICK x \in {"plan", "ready", "stream", "closing", "idle"} : place' = [place EXCEPT ![p] = x]
  BY <1>1
<1>3. x \notin SearchPlaces /\ EmitterTypeOK /\ Promised(c)
  BY <1>1 DEF SearchPlaces, EmitterInv
<1>4. /\ (Searching(c)' <=> Searching(c)) /\ On(c)' = On(c)
      /\ place'[Cli] \in SearchPlaces => place[Cli] \in SearchPlaces
      /\ place'[p] = x /\ \A q \in Procs \ {p} : place'[q] = place[q]
  BY <1>1, <1>2, <1>3, SearchSame DEF files
<1>5. \A q \in Procs : Held(q)' = Held(q)
  BY <1>1 DEF Held
<1>6. \A q \in Procs : place'[q] = "set" /\ Head(todo'[q]).control = c =>
                         previous'[q] = Original[c] /\ ~Searching(c)
  BY <1>1, <1>3, <1>4 DEF Promised, Writes
<1> QED
  BY <1>1, <1>3, <1>4, <1>5, <1>6, PromisedFrame DEF files

LEMMA PlanKeeps ==
  ASSUME EmitterInv, NEW p \in Procs, Plan(p), NEW c \in Controls \ excused'
  PROVE  Promised(c)'
<1>1. PICK writes \in plans :
        /\ place[p] = "plan"
        /\ todo' = [todo EXCEPT ![p] = writes]
        /\ place' = [place EXCEPT ![p] = IF writes = <<>> THEN "ready" ELSE "get"]
        /\ UNCHANGED <<files, cur, stream, previous, restore, excused>>
  BY DEF Plan
<1> DEFINE x == IF writes = <<>> THEN "ready" ELSE "get"
<1>2. x \notin SearchPlaces /\ x # "set" /\ place[p] \notin SearchPlaces /\ EmitterTypeOK /\ Places /\ Promised(c)
  BY <1>1 DEF SearchPlaces, EmitterInv
<1>3. /\ (Searching(c)' <=> Searching(c)) /\ On(c)' = On(c)
      /\ place'[Cli] \in SearchPlaces => place[Cli] \in SearchPlaces
      /\ place'[p] = x /\ \A q \in Procs \ {p} : place'[q] = place[q]
  BY <1>1, <1>2, SearchSame DEF files
<1> HIDE DEF x
<1>4. \A w \in In(writes) : w.control = c => w.value \in On(c)
  <2>1. CASE writes = face_auth_plan
    <3>1. In(writes) = {[control |-> FaceAuth, value |-> face_auth_target(cur[FaceAuth])]}
      BY <2>1 DEF face_auth_plan, In
    <3>2. SUFFICES ASSUME c = FaceAuth PROVE face_auth_target(cur[c]) \in On(c)
      BY <3>1
    <3>3. cur[c] \in {Original[c]} \cup On(c)
      BY <1>2, <3>2, EmitterAssumption DEF Promised, Lit, Searching, Current, Places, VendorSet
    <3>4. Original[c] \in Value
      BY EmitterAssumption
    <3> QED
      BY <3>2, <3>3, <3>4, TargetIs DEF On
  <2>2. CASE writes = stored_controls
    <3>1. FaceAuth \notin VendorSet
      BY EmitterAssumption
    <3>2. \A w \in In(stored_controls) : w.control \in VendorSet
      BY <1>2, StoredIs
    <3>3. \A w \in In(writes) : w.control = c => c # FaceAuth
      BY <2>2, <3>1, <3>2
    <3> QED
      BY <2>2, <3>3 DEF On
  <2> QED
    BY <2>1, <2>2 DEF plans
<1>5. todo'[p] = writes /\ \A q \in Procs \ {p} : todo'[q] = todo[q]
  BY <1>1, <1>2 DEF EmitterTypeOK
<1>6. Writes(c)'
  BY <1>1, <1>2, <1>3, <1>4, <1>5 DEF Promised, Writes
<1>7. \A q \in Procs : Held(q)' = Held(q)
  BY <1>1 DEF Held
<1>8. Searched(c)' /\ Lit(c)'
  BY <1>1, <1>2, <1>3, <1>7 DEF Promised, Searched, Lit, files
<1> QED
  BY <1>6, <1>8 DEF Promised

LEMMA GetPreviousKeeps ==
  ASSUME EmitterInv, NEW p \in Procs, GetPrevious(p), NEW c \in Controls \ excused'
  PROVE  Promised(c)'
<1> DEFINE w == Head(todo[p])
<1>1. /\ place[p] = "get" /\ todo[p] # <<>>
      /\ UNCHANGED <<files, cur, handle, stream, restore, excused>>
      /\ \/ /\ cur[w.control] # w.value
            /\ previous' = [previous EXCEPT ![p] = cur[w.control]]
            /\ place' = [place EXCEPT ![p] = "set"] /\ todo' = todo
         \/ /\ todo' = [todo EXCEPT ![p] = Tail(todo[p])]
            /\ UNCHANGED <<previous, place>>
  BY DEF GetPrevious
<1>2. EmitterTypeOK /\ Places /\ Promised(c)
  BY <1>1 DEF EmitterInv
<1>3. w \in In(todo[p]) /\ w \in Write /\ In(Tail(todo[p])) \subseteq In(todo[p])
  BY <1>1, <1>2, InTail DEF EmitterTypeOK
<1> HIDE DEF w
<1>4. \A q \in Procs : Held(q)' = Held(q)
  BY <1>1 DEF Held
<1>5. CASE /\ cur[w.control] # w.value
           /\ previous' = [previous EXCEPT ![p] = cur[w.control]]
           /\ place' = [place EXCEPT ![p] = "set"] /\ todo' = todo
  <2>1. "set" \notin SearchPlaces /\ place[p] \notin SearchPlaces
    BY <1>1 DEF SearchPlaces
  <2>2. /\ (Searching(c)' <=> Searching(c)) /\ On(c)' = On(c)
        /\ place'[Cli] \in SearchPlaces => place[Cli] \in SearchPlaces
        /\ place'[p] = "set" /\ \A q \in Procs \ {p} : place'[q] = place[q]
    BY <1>1, <1>2, <1>5, <2>1, SearchSame DEF files
  <2>3. previous'[p] = cur[w.control] /\ \A q \in Procs \ {p} : previous'[q] = previous[q]
    BY <1>2, <1>5 DEF EmitterTypeOK
  <2>4. w.control = c => cur[c] = Original[c] /\ ~Searching(c)
    <3>1. SUFFICES ASSUME w.control = c PROVE cur[c] = Original[c] /\ ~Searching(c)
      OBVIOUS
    <3>2. w.value \in On(c) /\ cur[c] # w.value
      BY <1>2, <1>3, <1>5, <3>1 DEF Promised, Writes
    <3>3. ~Searching(c)
      BY <1>2, <3>2 DEF Promised, Searched
    <3>4. cur[c] \in {Original[c]} \cup On(c)
      BY <1>2, <3>3 DEF Promised, Lit
    <3> QED
      BY <1>2, <3>2, <3>3, <3>4, OnIsOne
  <2>5. \A q \in Procs : place'[q] = "set" /\ Head(todo'[q]).control = c =>
                           previous'[q] = Original[c] /\ ~Searching(c)
    BY <1>2, <1>5, <2>2, <2>3, <2>4 DEF Promised, Writes, w
  <2> QED
    BY <1>1, <1>2, <1>4, <1>5, <2>2, <2>5, PromisedFrame DEF files
<1>6. CASE todo' = [todo EXCEPT ![p] = Tail(todo[p])] /\ UNCHANGED <<previous, place>>
  <2>1. todo'[p] = Tail(todo[p]) /\ \A q \in Procs \ {p} : todo'[q] = todo[q]
    BY <1>2, <1>6 DEF EmitterTypeOK
  <2>2. /\ (Searching(c)' <=> Searching(c)) /\ On(c)' = On(c)
    BY <1>1, <1>6, OnSame DEF files, Searching, Current
  <2>3. \A q \in Procs : \A v \in In(todo'[q]) : v \in In(todo[q])
    BY <1>3, <2>1
  <2>4. \A q \in Procs : place'[q] = "set" /\ Head(todo'[q]).control = c =>
                           previous'[q] = Original[c] /\ ~Searching(c)
    BY <1>1, <1>2, <1>6, <2>1 DEF Promised, Writes
  <2> QED
    BY <1>1, <1>2, <1>4, <1>6, <2>2, <2>3, <2>4, PromisedFrame DEF files
<1> QED
  BY <1>1, <1>5, <1>6

LEMMA SetOnKeeps ==
  ASSUME EmitterInv, NEW p \in Procs, SetOn(p), NEW c \in Controls \ excused'
  PROVE  Promised(c)'
<1> DEFINE w == Head(todo[p])
           e == [control |-> w.control, value |-> previous[p]]
<1>1. /\ place[p] = "set"
      /\ UNCHANGED <<files, handle, stream, excused>>
      /\ cur' = [cur EXCEPT ![w.control] = w.value]
      /\ restore' = [restore EXCEPT ![p] = Append(restore[p], e)]
      /\ todo' = [todo EXCEPT ![p] = Tail(todo[p])]
      /\ place' = [place EXCEPT ![p] = "get"]
      /\ previous' = [previous EXCEPT ![p] = Original[FaceAuth]]
  BY DEF SetOn
<1>2. EmitterTypeOK /\ Places /\ Promised(c) /\ todo[p] # <<>>
  BY <1>1 DEF EmitterInv, Places, At
<1>3. w \in In(todo[p]) /\ w \in Write /\ In(Tail(todo[p])) \subseteq In(todo[p])
  BY <1>2, InTail DEF EmitterTypeOK
<1>4. e \in Write
  BY <1>2, <1>3 DEF EmitterTypeOK, Write
<1> HIDE DEF w
<1>5. e.control = w.control /\ e.value = previous[p]
  OBVIOUS
<1> HIDE DEF e
<1>6. In(Append(restore[p], e)) = In(restore[p]) \cup {e}
  BY <1>2, <1>4, InAppend DEF EmitterTypeOK
<1>7. /\ todo'[p] = Tail(todo[p]) /\ restore'[p] = Append(restore[p], e)
      /\ \A q \in Procs \ {p} : todo'[q] = todo[q] /\ restore'[q] = restore[q]
                                /\ previous'[q] = previous[q]
  BY <1>1, <1>2 DEF EmitterTypeOK
<1>8. /\ (Searching(c)' <=> Searching(c)) /\ On(c)' = On(c)
      /\ place'[Cli] \in SearchPlaces => place[Cli] \in SearchPlaces
      /\ place'[p] = "get" /\ \A q \in Procs \ {p} : place'[q] = place[q]
  <2>1. "get" \notin SearchPlaces /\ place[p] \notin SearchPlaces
    BY <1>1 DEF SearchPlaces
  <2> QED
    BY <1>1, <1>2, <2>1, SearchSame DEF files
<1>9. Held(p)' = Held(p) \cup {w.control} /\ \A q \in Procs \ {p} : Held(q)' = Held(q)
  <2>1. Held(p)' = {v.control : v \in In(restore'[p])}
    BY DEF Held, In
  <2>2. Held(p)' = Held(p) \cup {w.control}
    BY <1>5, <1>6, <1>7, <2>1, HeldIs
  <2>3. \A q \in Procs \ {p} : restore'[q] = restore[q]
    BY <1>7
  <2>4. \A q \in Procs \ {p} : Held(q)' = Held(q)
    BY <2>3 DEF Held
  <2> QED
    BY <2>2, <2>4
<1>10. w.control = c => w.value \in On(c) /\ previous[p] = Original[c] /\ ~Searching(c)
  BY <1>1, <1>2, <1>3 DEF Promised, Writes, w
<1>11. cur'[c] = IF w.control = c THEN w.value ELSE cur[c]
  BY <1>1, <1>2, <1>3 DEF EmitterTypeOK, Write
<1>12. Writes(c)'
  <2>1. \A q \in Procs : \A v \in In(todo'[q]) : v.control = c => v.value \in On(c)
    BY <1>2, <1>3, <1>7 DEF Promised, Writes
  <2>2. \A q \in Procs : \A v \in In(restore'[q]) : v.control = c => v.value = Original[c] /\ On(c) # {}
    <3>1. \A q \in Procs : \A v \in In(restore[q]) : v.control = c => v.value = Original[c] /\ On(c) # {}
      BY <1>2 DEF Promised, Writes
    <3>2. e.control = c => e.value = Original[c] /\ On(c) # {}
      BY <1>5, <1>10
    <3>3. ASSUME NEW q \in Procs PROVE \A v \in In(restore'[q]) : v \in In(restore[q]) \/ v = e
      <4>1. CASE q = p
        BY <1>6, <1>7, <4>1
      <4>2. CASE q # p
        <5>1. restore'[q] = restore[q]
          BY <1>7, <4>2
        <5> QED
          BY <5>1
      <4> QED
        BY <4>1, <4>2
    <3> QED
      BY <3>1, <3>2, <3>3
  <2>3. \A q \in Procs : place'[q] = "set" /\ Head(todo'[q]).control = c =>
                           previous'[q] = Original[c] /\ ~Searching(c)
    BY <1>2, <1>7, <1>8 DEF Promised, Writes
  <2> QED
    BY <1>8, <2>1, <2>2, <2>3 DEF Writes
<1>13. Searched(c)'
  <2>1. Searching(c) => cur'[c] = cur[c] /\ \A q \in Procs : c \in Held(q)' => c \in Held(q)
    BY <1>9, <1>10, <1>11
  <2>2. search' = search
    BY <1>1 DEF files
  <2> QED
    BY <1>2, <1>8, <2>1, <2>2 DEF Promised, Searched
<1>14. Lit(c)'
  BY <1>2, <1>8, <1>9, <1>10, <1>11 DEF Promised, Lit
<1> QED
  BY <1>12, <1>13, <1>14 DEF Promised

\* A process gives up what it was to write and to restore: the controls it
\* had to put back are excused
LEMMA GivesUp ==
  ASSUME EmitterInv, NEW p \in Procs, NEW c \in Controls \ excused,
         c \notin Held(p), UNCHANGED <<msxu, database, state, cur>>,
         restore' = [restore EXCEPT ![p] = <<>>], todo' = [todo EXCEPT ![p] = <<>>],
         previous' = [previous EXCEPT ![p] = Original[FaceAuth]],
         NEW x, x \notin SearchPlaces, x # "set", place' = [place EXCEPT ![p] = x],
         p # Cli => search' = search,
         p = Cli => ~Searching(c)
  PROVE  Promised(c)'
<1>1. EmitterTypeOK /\ Places /\ Promised(c) /\ Cli \in Procs
  BY DEF EmitterInv, Procs
<1>2. /\ place'[p] = x /\ \A q \in Procs \ {p} : place'[q] = place[q] /\ previous'[q] = previous[q]
      /\ todo'[p] = <<>> /\ \A q \in Procs \ {p} : todo'[q] = todo[q]
      /\ restore'[p] = <<>> /\ \A q \in Procs \ {p} : restore'[q] = restore[q]
  BY <1>1 DEF EmitterTypeOK
<1>3. On(c)' = On(c)
  BY OnSame
<1>4. Searching(c)' <=> Searching(c)
  <2>1. CASE p = Cli
    BY <1>1, <1>2, <2>1 DEF Searching, SearchPlaces
  <2>2. CASE p # Cli
    BY <1>1, <1>2, <2>2 DEF Searching, Current
  <2> QED
    BY <2>1, <2>2
<1>5. place'[Cli] \in SearchPlaces => place[Cli] \in SearchPlaces /\ search' = search
  BY <1>1, <1>2
<1>6. \A q \in Procs : In(todo'[q]) \subseteq In(todo[q]) /\ In(restore'[q]) \subseteq In(restore[q])
  BY <1>2, InEmpty
<1>7. \A q \in Procs : c \in Held(q) => c \in Held(q)'
  BY <1>2 DEF Held
<1>8. \A q \in Procs : place'[q] = "set" /\ Head(todo'[q]).control = c =>
                         previous'[q] = Original[c] /\ ~Searching(c)
  BY <1>1, <1>2 DEF Promised, Writes
<1> QED
  BY <1>1, <1>3, <1>4, <1>5, <1>6, <1>7, <1>8, PromisedFrame

LEMMA ActivateFailsKeeps ==
  ASSUME EmitterInv, NEW p \in Procs, ActivateFails(p), NEW c \in Controls \ excused'
  PROVE  Promised(c)'
<1>1. c \in Controls \ excused /\ c \notin Held(p)
  BY DEF ActivateFails
<1>2. place[p] \notin SearchPlaces /\ Places
  BY DEF ActivateFails, SearchPlaces, EmitterInv
<1>3. p = Cli => ~Searching(c)
  BY <1>2 DEF Searching, SearchPlaces
<1>4. "ready" \notin SearchPlaces
  BY DEF SearchPlaces
<1> QED
  BY <1>1, <1>3, <1>4, GivesUp DEF ActivateFails, files

LEMMA KillKeeps ==
  ASSUME EmitterInv, NEW p \in Procs, Kill(p), NEW c \in Controls \ excused'
  PROVE  Promised(c)'
<1>1. c \in Controls \ excused /\ c \notin Held(p)
  BY DEF Kill
<1>2. p = Cli => ~Searching(c)
  BY DEF Kill, Searching
<1>3. "idle" \notin SearchPlaces
  BY DEF SearchPlaces
<1>4. p # Cli => search' = search
  BY DEF Kill
<1> QED
  BY <1>1, <1>2, <1>3, <1>4, GivesUp DEF Kill

LEMMA RestoreKeeps ==
  ASSUME EmitterInv, NEW p \in Procs, Restore(p), NEW c \in Controls \ excused'
  PROVE  Promised(c)'
<1> DEFINE w == restore[p][Len(restore[p])]
           front == SubSeq(restore[p], 1, Len(restore[p]) - 1)
<1>1. /\ restore[p] # <<>> /\ UNCHANGED <<files, handle, stream, place, todo, previous>>
      /\ \/ cur' = [cur EXCEPT ![w.control] = w.value] /\ UNCHANGED excused
         \/ UNCHANGED cur /\ excused' = excused \cup {w.control}
      /\ restore' = [restore EXCEPT ![p] = front]
  BY DEF Restore
<1>2. EmitterTypeOK /\ Places /\ Promised(c)
  BY <1>1 DEF EmitterInv
<1>3. w \in In(restore[p]) /\ w \in Write /\ In(restore[p]) = In(front) \cup {w}
  BY <1>1, <1>2, InFront DEF EmitterTypeOK
<1> HIDE DEF w, front
<1>4. restore'[p] = front /\ \A q \in Procs \ {p} : restore'[q] = restore[q]
  BY <1>1, <1>2 DEF EmitterTypeOK
<1>5. /\ (Searching(c)' <=> Searching(c)) /\ On(c)' = On(c)
  BY <1>1, OnSame DEF files, Searching, Current
<1>6. w.control \in Held(p)
  BY <1>3, HeldIs
<1>7. CASE w.control = c
  <2>1. w.value = Original[c] /\ ~Searching(c)
    BY <1>2, <1>3, <1>6, <1>7 DEF Promised, Writes, Searched
  <2>2. cur'[c] = Original[c]
    BY <1>1, <1>2, <1>7, <2>1 DEF EmitterTypeOK
  <2>3. Writes(c)'
    BY <1>1, <1>2, <1>3, <1>4, <1>5 DEF Promised, Writes
  <2>4. Searched(c)'
    BY <1>1, <1>2, <1>5, <2>1 DEF Promised, Searched, files
  <2>5. Lit(c)'
    BY <2>2 DEF Lit
  <2> QED
    BY <2>3, <2>4, <2>5 DEF Promised
<1>8. CASE w.control # c
  <2>1. cur'[c] = cur[c]
    BY <1>1, <1>2, <1>8 DEF EmitterTypeOK
  <2>2. \A q \in Procs : c \in Held(q) => c \in Held(q)'
    <3>1. Held(p)' = {v.control : v \in In(restore'[p])}
      BY DEF Held, In
    <3>2. c \in Held(p) => c \in Held(p)'
      BY <1>3, <1>4, <1>8, <3>1, HeldIs
    <3> QED
      BY <1>4, <3>2 DEF Held
  <2>3. \A q \in Procs : In(restore'[q]) \subseteq In(restore[q])
    BY <1>3, <1>4
  <2>4. \A q \in Procs : place'[q] = "set" /\ Head(todo'[q]).control = c =>
                           previous'[q] = Original[c] /\ ~Searching(c)
    BY <1>1, <1>2 DEF Promised, Writes
  <2> QED
    BY <1>1, <1>2, <1>5, <2>1, <2>2, <2>3, <2>4, PromisedFrame DEF files
<1> QED
  BY <1>7, <1>8

-----------------------------------------------------------------------------
(***************************************************************************)
(* The search, and the camera that powers down.                            *)
(***************************************************************************)

\* A step of the command line's search leaves the sessions where they are
LEMMA SessionsSame ==
  ASSUME EmitterTypeOK, UNCHANGED <<todo, previous, restore>>,
         NEW x, x # "set", place' = [place EXCEPT ![Cli] = x]
  PROVE  /\ place'[Cli] = x /\ \A q \in Procs : Held(q)' = Held(q)
         /\ \A q \in Procs : place'[q] = "set" => place[q] = "set"
BY DEF EmitterTypeOK, Procs, Held

\* What is written to a control is written by sessions, which mean it
LEMMA WritesKeeps ==
  ASSUME NEW c \in Controls, Writes(c), UNCHANGED <<todo, previous, restore>>, On(c)' = On(c),
         \A q \in Procs : place'[q] = "set" => place[q] = "set",
         \A q \in Procs : place[q] = "set" /\ Head(todo[q]).control = c => ~Searching(c)'
  PROVE  Writes(c)'
BY DEF Writes

\* A control that nothing lights is not in a session's hands
LEMMA Unused ==
  ASSUME EmitterTypeOK, Places, NEW c \in Controls, Promised(c), On(c) = {}
  PROVE  \A q \in Procs : /\ c \notin Held(q)
                          /\ \A w \in In(todo[q]) : w.control # c
                          /\ place[q] = "set" => Head(todo[q]).control # c
<1> TAKE q \in Procs
<1>1. \A w \in In(todo[q]) \cup In(restore[q]) : w.control # c
  BY DEF Promised, Writes
<1>2. c \notin Held(q)
  BY <1>1, HeldIs
<1>3. place[q] = "set" => Head(todo[q]).control # c
  <2>1. ASSUME place[q] = "set" PROVE Head(todo[q]) \in In(todo[q])
    BY <2>1, InTail DEF EmitterTypeOK, Places, At
  <2> QED
    BY <1>1, <2>1
<1> QED
  BY <1>1, <1>2, <1>3

LEMMA AnswersKeep ==
  ASSUME EmitterInv, Status \/ NoReader \/ NoMoreValues \/ NotLit \/ Interrupt \/ SearchEnds,
         NEW c \in Controls \ excused'
  PROVE  Promised(c)'
<1>1. PICK x \in {"asked", "idle", "undo", "try"} :
        /\ place' = [place EXCEPT ![Cli] = x]
        /\ UNCHANGED <<msxu, database, state, cur, todo, previous, restore, excused>>
        /\ \/ x \in {"asked", "idle"} /\ place[Cli] \in {"idle", "asked", "end"}
           \/ /\ x \in {"undo", "try"} /\ place[Cli] \in {"try", "look"}
              /\ search' = search \/ search' = [search EXCEPT !.ended = TRUE]
  BY DEF Status, NoReader, NoMoreValues, NotLit, Interrupt, SearchEnds, files
<1>2. EmitterTypeOK /\ Promised(c) /\ x # "set"
  BY <1>1 DEF EmitterInv
<1>3. /\ place'[Cli] = x /\ \A q \in Procs : Held(q)' = Held(q)
      /\ \A q \in Procs : place'[q] = "set" => place[q] = "set"
  BY <1>1, <1>2, SessionsSame
<1>4. x \in {"undo", "try"} => /\ search'.at = search.at /\ search'.saved = search.saved
                               /\ ~search'.ended => ~search.ended
  BY <1>1, <1>2 DEF EmitterTypeOK, SearchAt
<1>5. Searching(c)' <=> Searching(c)
  <2>1. CASE x \in {"asked", "idle"} /\ place[Cli] \in {"idle", "asked", "end"}
    BY <1>3, <2>1 DEF Searching
  <2>2. CASE x \in {"undo", "try"} /\ place[Cli] \in {"try", "look"}
    <3>1. place'[Cli] \in {"try", "look", "undo"} /\ place[Cli] \in {"try", "look", "undo"}
      BY <1>3, <2>2
    <3>2. Current' = Current
      BY <1>4, <2>2 DEF Current
    <3> QED
      BY <3>1, <3>2 DEF Searching
  <2> QED
    BY <1>1, <2>1, <2>2
<1>6. place'[Cli] \in SearchPlaces => /\ place[Cli] \in SearchPlaces
                                      /\ search'.saved = search.saved /\ (~search'.ended => ~search.ended)
  <2>1. CASE x \in {"asked", "idle"}
    BY <1>3, <2>1 DEF SearchPlaces
  <2>2. CASE x \in {"undo", "try"} /\ place[Cli] \in {"try", "look"}
    <3>1. place[Cli] \in SearchPlaces
      BY <2>2 DEF SearchPlaces
    <3> QED
      BY <1>4, <2>2, <3>1
  <2> QED
    BY <1>1, <2>1, <2>2
<1>7. \A q \in Procs : place'[q] = "set" /\ Head(todo'[q]).control = c =>
                         previous'[q] = Original[c] /\ ~Searching(c)
  BY <1>1, <1>2, <1>3 DEF Promised, Writes
<1>8. On(c)' = On(c)
  BY <1>1, OnSame
<1> QED
  BY <1>1, <1>2, <1>3, <1>5, <1>6, <1>7, <1>8, PromisedFrame

LEMMA StartSearchKeeps ==
  ASSUME EmitterInv, StartSearch, NEW c \in Controls \ excused'
  PROVE  Promised(c)'
<1>1. /\ place[Cli] = "asked" /\ place' = [place EXCEPT ![Cli] = "next"]
      /\ search' = [at |-> 0, tried |-> 0, saved |-> cur, ended |-> FALSE]
      /\ stored_controls = <<>> /\ excused' = excused
      /\ UNCHANGED <<msxu, database, state, cur, todo, previous, restore>>
  BY DEF StartSearch
<1>2. EmitterTypeOK /\ Promised(c)
  BY <1>1 DEF EmitterInv
<1>3. /\ place'[Cli] = "next" /\ \A q \in Procs : Held(q)' = Held(q)
      /\ \A q \in Procs : place'[q] = "set" => place[q] = "set"
  BY <1>1, <1>2, SessionsSame
<1>4. ~Searching(c) /\ ~Searching(c)' /\ On(c)' = On(c)
  BY <1>1, <1>3, OnSame DEF Searching
<1>5. Writes(c)'
  BY <1>1, <1>2, <1>3, <1>4, WritesKeeps DEF Promised
<1>6. c \in VendorSet => On(c) = {} /\ search'.saved[c] = Original[c]
  <2>1. c \in VendorSet => On(c) = {}
    BY <1>1, InEmpty, EmitterAssumption DEF On
  <2> QED
    BY <1>1, <1>2, <1>4, <2>1 DEF Promised, Lit
<1>7. Searched(c)'
  BY <1>4, <1>6 DEF Searched
<1>8. Lit(c)'
  BY <1>1, <1>2, <1>3, <1>4 DEF Promised, Lit
<1> QED
  BY <1>5, <1>7, <1>8 DEF Promised

LEMMA NextControlKeeps ==
  ASSUME EmitterInv, NextControl, NEW c \in Controls \ excused'
  PROVE  Promised(c)'
<1>1. /\ place[Cli] = "next"
      /\ UNCHANGED <<msxu, database, state, cur, handle, stream, todo, previous, restore, excused>>
      /\ \/ place' = [place EXCEPT ![Cli] = "end"] /\ search' = search
         \/ /\ ~search.ended /\ place' = [place EXCEPT ![Cli] = "try"]
            /\ \E j \in next_control(search.at) : search' = [search EXCEPT !.at = j, !.tried = 0]
  BY DEF NextControl
<1>2. EmitterTypeOK /\ Places /\ Promised(c) /\ ~Searching(c) /\ On(c)' = On(c)
  BY <1>1, OnSame DEF EmitterInv, Searching
<1>3. \A q \in Procs : Held(q)' = Held(q)
  <2>1. restore' = restore
    BY <1>1
  <2> QED
    BY <2>1 DEF Held
<1>4. CASE place' = [place EXCEPT ![Cli] = "end"] /\ search' = search
  <2>1. place'[Cli] = "end" /\ \A q \in Procs : place'[q] = "set" => place[q] = "set"
    BY <1>1, <1>2, <1>4, SessionsSame
  <2>2. ~Searching(c)'
    BY <2>1 DEF Searching
  <2>3. Writes(c)'
    BY <1>1, <1>2, <2>1, <2>2, WritesKeeps DEF Promised
  <2>4. Searched(c)' /\ Lit(c)'
    BY <1>1, <1>2, <1>3, <1>4, <2>2 DEF Promised, Searched, Lit, SearchPlaces
  <2> QED
    BY <2>3, <2>4 DEF Promised
<1>5. CASE /\ ~search.ended /\ place' = [place EXCEPT ![Cli] = "try"]
           /\ \E j \in next_control(search.at) : search' = [search EXCEPT !.at = j, !.tried = 0]
  <2>1. place'[Cli] = "try" /\ \A q \in Procs : place'[q] = "set" => place[q] = "set"
    BY <1>1, <1>2, <1>5, SessionsSame
  <2>2. /\ search'.at \in DOMAIN Vendor
        /\ search'.saved = search.saved /\ search'.ended = search.ended
    BY <1>2, <1>5 DEF EmitterTypeOK, SearchAt, next_control
  <2>3. c \in VendorSet => search.saved[c] = Original[c] /\ On(c) = {}
    BY <1>1, <1>2, <1>5 DEF Promised, Searched, SearchPlaces
  <2>4. Searching(c)' => c \in VendorSet
    BY <2>2 DEF Searching, Current, VendorSet
  <2>5. Searching(c)' => \A q \in Procs : c \notin Held(q) /\ (place[q] = "set" => Head(todo[q]).control # c)
    BY <1>2, <2>3, <2>4, Unused
  <2>6. Writes(c)'
    BY <1>1, <1>2, <2>1, <2>5, WritesKeeps DEF Promised
  <2>7. Searched(c)'
    BY <1>2, <1>3, <2>2, <2>3, <2>4, <2>5 DEF Searched
  <2>8. /\ cur'[c] = cur[c] /\ cur[c] \in {Original[c]} \cup On(c)
        /\ cur[c] = Original[c] \/ \E q \in Procs : c \in Held(q)
    BY <1>1, <1>2 DEF Promised, Lit
  <2>9. Lit(c)'
    BY <1>2, <1>3, <2>8 DEF Lit
  <2> QED
    BY <2>6, <2>7, <2>9 DEF Promised
<1> QED
  BY <1>1, <1>4, <1>5

LEMMA TryNextKeeps ==
  ASSUME EmitterInv, TryNext, NEW c \in Controls \ excused'
  PROVE  Promised(c)'
<1>1. /\ place[Cli] = "try" /\ place' = [place EXCEPT ![Cli] = "look"]
      /\ \E v : cur' = [cur EXCEPT ![Current] = v]
      /\ \E n : search' = [search EXCEPT !.tried = n]
      /\ UNCHANGED <<msxu, database, state, handle, stream, todo, previous, restore, excused>>
  BY DEF TryNext
<1>2. EmitterTypeOK /\ Places /\ Promised(c) /\ On(c)' = On(c) /\ Current \in VendorSet /\ ~search.ended
  BY <1>1, OnSame DEF EmitterInv, Places, Current, VendorSet
<1>3. /\ place'[Cli] = "look" /\ \A q \in Procs : Held(q)' = Held(q)
      /\ \A q \in Procs : place'[q] = "set" => place[q] = "set"
  BY <1>1, <1>2, SessionsSame
<1>4. search'.at = search.at /\ search'.saved = search.saved /\ search'.ended = search.ended
  BY <1>1, <1>2 DEF EmitterTypeOK, SearchAt
<1>5. (Searching(c) <=> Current = c) /\ (Searching(c)' <=> Current = c)
  BY <1>1, <1>3, <1>4 DEF Searching, Current
<1>6. c \in VendorSet => search.saved[c] = Original[c] /\ On(c) = {}
  BY <1>1, <1>2 DEF Promised, Searched, SearchPlaces
<1>7. Writes(c)'
  BY <1>1, <1>2, <1>3, <1>5, WritesKeeps DEF Promised, Writes
<1>8. Searched(c)'
  <2>1. Current = c => \A q \in Procs : c \notin Held(q)
    BY <1>2, <1>5 DEF Promised, Searched
  <2> QED
    BY <1>2, <1>3, <1>4, <1>5, <1>6, <2>1 DEF Searched
<1>9. Lit(c)'
  <2>1. CASE Current = c
    BY <1>5, <2>1 DEF Lit
  <2>2. CASE Current # c
    <3>1. cur'[c] = cur[c]
      BY <1>1, <1>2, <2>2 DEF EmitterTypeOK
    <3>2. /\ cur[c] \in {Original[c]} \cup On(c)
          /\ cur[c] = Original[c] \/ \E q \in Procs : c \in Held(q)
      BY <1>2, <1>5, <2>2 DEF Promised, Lit
    <3> QED
      BY <1>2, <1>3, <3>1, <3>2 DEF Lit
  <2> QED
    BY <2>1, <2>2
<1> QED
  BY <1>7, <1>8, <1>9 DEF Promised

LEMMA RememberKeeps ==
  ASSUME EmitterInv, Remember, NEW c \in Controls \ excused'
  PROVE  Promised(c)'
<1> DEFINE found == [control |-> Current, value |-> cur[Current]]
<1>1. /\ place[Cli] = "look" /\ place' = [place EXCEPT ![Cli] = "undo"]
      /\ state' = [state EXCEPT !.controls = <<found>>]
      /\ search' = [search EXCEPT !.ended = TRUE]
      /\ UNCHANGED <<msxu, database, cur, handle, stream, todo, previous, restore, excused>>
  BY DEF Remember
<1>2. EmitterTypeOK /\ Places /\ Promised(c) /\ Current \in VendorSet /\ ~search.ended
  BY <1>1 DEF EmitterInv, Places, Current, VendorSet
<1>3. /\ place'[Cli] = "undo" /\ \A q \in Procs : Held(q)' = Held(q)
      /\ \A q \in Procs : place'[q] = "set" => place[q] = "set"
  BY <1>1, <1>2, SessionsSame
<1>4. search'.at = search.at /\ search'.saved = search.saved /\ search'.ended
  BY <1>1, <1>2 DEF EmitterTypeOK, SearchAt
<1>5. (Searching(c) <=> Current = c) /\ (Searching(c)' <=> Current = c)
  BY <1>1, <1>3, <1>4 DEF Searching, Current
<1>6. c \in VendorSet => search.saved[c] = Original[c] /\ On(c) = {}
  BY <1>1, <1>2 DEF Promised, Searched, SearchPlaces
<1>7. In(stored_controls)' = {found}
  <2>1. state'.controls = <<found>>
    BY <1>1, <1>2 DEF EmitterTypeOK
  <2>2. stored_controls' = <<found>>
    BY <2>1 DEF stored_controls
  <2> QED
    BY <2>2 DEF In
<1>8. On(c)' = IF Current = c THEN {cur[c]} ELSE On(c)
  <2>1. CASE c = FaceAuth
    <3>1. Current # c
      BY <1>2, <2>1, EmitterAssumption
    <3> QED
      BY <2>1, <3>1 DEF On, face_auth_target
  <2>2. CASE c # FaceAuth
    <3>1. c \in VendorSet
      BY <2>2 DEF Controls
    <3>2. On(c)' = {w.value : w \in {v \in {found} : v.control = c}}
      BY <1>7, <2>2 DEF On
    <3>3. found.control = Current /\ found.value = cur[Current]
      OBVIOUS
    <3> HIDE DEF found
    <3>4. CASE Current = c
      BY <3>2, <3>3, <3>4
    <3>5. CASE Current # c
      <4>1. On(c)' = {}
        BY <3>2, <3>3, <3>5
      <4> QED
        BY <1>2, <1>6, <3>1, <3>5, <4>1
    <3> QED
      BY <3>4, <3>5
  <2> QED
    BY <2>1, <2>2
<1>9. Current = c => On(c) = {}
  BY <1>2, <1>6
<1>10. Current = c => \A q \in Procs : /\ c \notin Held(q)
                                       /\ \A w \in In(todo[q]) : w.control # c
                                       /\ place[q] = "set" => Head(todo[q]).control # c
  BY <1>2, <1>9, Unused
<1>11. Writes(c)'
  <2>1. CASE Current = c
    <3>1. \A q \in Procs : \A w \in In(restore[q]) : w.control # c
      BY <1>10, <2>1, HeldIs
    <3>2. todo' = todo /\ restore' = restore
      BY <1>1
    <3>3. \A q \in Procs : place'[q] = "set" => Head(todo[q]).control # c
      BY <1>3, <1>10, <2>1
    <3> QED
      BY <1>10, <2>1, <3>1, <3>2, <3>3 DEF Writes
  <2>2. CASE Current # c
    BY <1>1, <1>2, <1>3, <1>5, <1>8, <2>2, WritesKeeps DEF Promised
  <2> QED
    BY <2>1, <2>2
<1>12. Searched(c)'
  BY <1>1, <1>3, <1>4, <1>5, <1>6, <1>8, <1>10 DEF Searched
<1>13. Lit(c)'
  <2>1. CASE Current = c
    BY <1>5, <2>1 DEF Lit
  <2>2. CASE Current # c
    BY <1>1, <1>2, <1>3, <1>5, <1>8, <2>2 DEF Promised, Lit
  <2> QED
    BY <2>1, <2>2
<1> QED
  BY <1>11, <1>12, <1>13 DEF Promised

LEMMA UndoKeeps ==
  ASSUME EmitterInv, Undo, NEW c \in Controls \ excused'
  PROVE  Promised(c)'
<1>1. /\ place[Cli] = "undo" /\ place' = [place EXCEPT ![Cli] = "next"]
      /\ UNCHANGED <<msxu, database, handle, stream, todo, previous, restore>>
      /\ \/ /\ cur' = [cur EXCEPT ![Current] = search.saved[Current]]
            /\ UNCHANGED <<state, excused, search>>
         \/ /\ state' = [state EXCEPT !.blacklist = @ \cup {Current}]
            /\ excused' = excused \cup {Current}
            /\ search' = [search EXCEPT !.ended = TRUE]
            /\ UNCHANGED cur
  BY DEF Undo
<1>2. EmitterTypeOK /\ Places /\ Promised(c) /\ Current \in VendorSet
  BY <1>1 DEF EmitterInv, Places, Current, VendorSet
<1>3. /\ place'[Cli] = "next" /\ \A q \in Procs : Held(q)' = Held(q)
      /\ \A q \in Procs : place'[q] = "set" => place[q] = "set"
  BY <1>1, <1>2, SessionsSame
<1>4. (Searching(c) <=> Current = c) /\ ~Searching(c)'
  BY <1>1, <1>3 DEF Searching
<1>5. On(c)' = On(c)
  <2>1. state'.controls = state.controls /\ database' = database
    BY <1>1, <1>2 DEF EmitterTypeOK
  <2> QED
    BY <2>1 DEF On, stored_controls, face_auth_target, In
<1>6. search'.saved = search.saved /\ (~search'.ended => ~search.ended)
  BY <1>1, <1>2 DEF EmitterTypeOK, SearchAt
<1>7. c \in VendorSet => search.saved[c] = Original[c] /\ (~search.ended => On(c) = {})
  BY <1>1, <1>2 DEF Promised, Searched, SearchPlaces
<1>8. Writes(c)'
  BY <1>1, <1>2, <1>3, <1>4, <1>5, WritesKeeps DEF Promised
<1>9. Searched(c)'
  BY <1>4, <1>5, <1>6, <1>7 DEF Searched
<1>10. Lit(c)'
  <2>1. CASE Current = c
    <3>1. cur'[c] = Original[c]
      BY <1>1, <1>2, <1>7, <2>1 DEF EmitterTypeOK
    <3> QED
      BY <3>1 DEF Lit
  <2>2. CASE Current # c
    <3>1. cur'[c] = cur[c]
      BY <1>1, <1>2, <2>2 DEF EmitterTypeOK
    <3>2. /\ cur[c] \in {Original[c]} \cup On(c)
          /\ cur[c] = Original[c] \/ \E q \in Procs : c \in Held(q)
      BY <1>2, <1>4, <2>2 DEF Promised, Lit
    <3> QED
      BY <1>3, <1>5, <3>1, <3>2 DEF Lit
  <2> QED
    BY <2>1, <2>2
<1> QED
  BY <1>8, <1>9, <1>10 DEF Promised

LEMMA ForgetKeeps ==
  ASSUME EmitterInv, Forget, NEW c \in Controls \ excused'
  PROVE  Promised(c)'
<1>1. /\ place[Cli] = "idle" /\ handle = {} /\ excused' = excused
      /\ UNCHANGED <<msxu, database, cur, handle, stream, place, todo, previous, restore, search>>
  BY DEF Forget
<1>2. EmitterTypeOK /\ Places /\ Promised(c)
  BY <1>1 DEF EmitterInv
<1>3. \A q \in Procs : place[q] # "set" /\ todo[q] = <<>> /\ restore[q] = <<>> /\ Held(q) = {}
  <2>1. \A q \in Procs : place[q] # "set" /\ todo[q] = <<>> /\ restore[q] = <<>>
    BY <1>1, <1>2 DEF Places, At
  <2> QED
    BY <2>1, HeldIs, InEmpty
<1>4. ~Searching(c) /\ ~Searching(c)'
  BY <1>1 DEF Searching
<1>5. cur[c] = Original[c]
  BY <1>2, <1>3, <1>4 DEF Promised, Lit
<1>6. Writes(c)'
  <2>1. place' = place /\ todo' = todo /\ restore' = restore
    BY <1>1
  <2> QED
    BY <1>3, <2>1, InEmpty DEF Writes
<1>7. Searched(c)' /\ Lit(c)'
  BY <1>1, <1>4, <1>5 DEF Searched, Lit, SearchPlaces
<1> QED
  BY <1>6, <1>7 DEF Promised

LEMMA PowerDownKeeps ==
  ASSUME EmitterInv, PowerDown, NEW c \in Controls \ excused'
  PROVE  Promised(c)'
<1>1. /\ handle = {} /\ stream = {} /\ cur' = Original
      /\ place' = place /\ todo' = todo /\ restore' = restore
  BY DEF PowerDown
<1>2. Places /\ Cli \in Procs
  BY DEF EmitterInv, Procs
<1>3. \A q \in Procs : place[q] # "set" /\ todo[q] = <<>> /\ restore[q] = <<>>
  BY <1>1, <1>2 DEF Places, At
<1>4. place[Cli] \notin SearchPlaces
  BY <1>1, <1>2 DEF Places, At
<1>5. ~Searching(c)'
  BY <1>1, <1>4 DEF Searching, SearchPlaces
<1>6. Writes(c)'
  BY <1>1, <1>3, InEmpty DEF Writes
<1>7. Searched(c)' /\ Lit(c)'
  BY <1>1, <1>4, <1>5 DEF Searched, Lit
<1> QED
  BY <1>6, <1>7 DEF Promised

LEMMA StutterKeeps ==
  ASSUME EmitterInv, UNCHANGED emitter_vars, NEW c \in Controls \ excused'
  PROVE  Promised(c)'
<1>1. Promised(c) /\ On(c)' = On(c)
  BY OnSame DEF emitter_vars, EmitterInv
<1>2. \A q \in Procs : Held(q)' = Held(q)
  BY DEF emitter_vars, Held
<1>3. Searching(c)' <=> Searching(c)
  BY DEF emitter_vars, Searching, Current
<1>4. Writes(c)'
  BY <1>1, <1>3 DEF Promised, Writes, emitter_vars
<1>5. Searched(c)' /\ Lit(c)'
  BY <1>1, <1>2, <1>3 DEF Promised, Searched, Lit, emitter_vars
<1> QED
  BY <1>4, <1>5 DEF Promised

-----------------------------------------------------------------------------
(***************************************************************************)
(* The theorems.                                                           *)
(***************************************************************************)

LEMMA EmitterBegins ==
  ASSUME EmitterInit
  PROVE  EmitterInv
<1>1. /\ state = [controls |-> <<>>, blacklist |-> {}] /\ cur = Original /\ handle = {} /\ stream = {}
      /\ excused = {}
      /\ \A p \in Procs : place[p] = "idle" /\ todo[p] = <<>> /\ restore[p] = <<>>
  BY DEF EmitterInit
<1>2. Cli \in Procs /\ Original[FaceAuth] \in Value /\ Original \in [Controls -> Value]
  BY EmitterAssumption DEF Procs, Controls
<1>3. EmitterTypeOK
  <2>1. state \in [controls : Seq([control : VendorSet, value : Value]), blacklist : SUBSET VendorSet]
    BY <1>1
  <2>2. search \in SearchAt
    BY <1>2, EmitterAssumption DEF EmitterInit, NoSearch, SearchAt
  <2>3. todo \in [Procs -> Seq(Write)] /\ restore \in [Procs -> Seq(Write)] /\ previous \in [Procs -> Value]
    BY <1>2 DEF EmitterInit
  <2> QED
    BY <1>1, <1>2, <2>1, <2>2, <2>3 DEF EmitterInit, EmitterTypeOK
<1>4. Places
  BY <1>1, <1>2 DEF Places, At, SearchPlaces
<1>5. ASSUME NEW c \in Controls PROVE Promised(c)
  <2>1. ~Searching(c)
    BY <1>1, <1>2 DEF Searching
  <2>2. Writes(c)
    BY <1>1, InEmpty DEF Writes
  <2>3. Searched(c) /\ Lit(c)
    BY <1>1, <1>2, <2>1 DEF Searched, Lit, SearchPlaces
  <2> QED
    BY <2>2, <2>3 DEF Promised
<1> QED
  BY <1>3, <1>4, <1>5 DEF EmitterInv

LEMMA EmitterSteps ==
  ASSUME EmitterInv, [EmitterNext]_emitter_vars
  PROVE  EmitterInv'
<1>0. EmitterTypeOK /\ Places
  BY DEF EmitterInv
<1>1. CASE \E p \in Procs : Activate(p) \/ Capture(p) \/ Kill(p)
  <2>1. PICK p \in Procs : Activate(p) \/ Capture(p) \/ Kill(p)
    BY <1>1
  <2>2. EmitterTypeOK' /\ Places'
    BY <1>0, <2>1, CaptureTypes, CapturePlaces
  <2>3. ASSUME NEW c \in Controls \ excused' PROVE Promised(c)'
    BY <2>1, QuietKeeps, PlanKeeps, GetPreviousKeeps, SetOnKeeps, ActivateFailsKeeps, RestoreKeeps,
       KillKeeps DEF Capture
  <2> QED
    BY <2>2, <2>3 DEF EmitterInv
<1>2. CASE Search \/ PowerDown \/ UNCHANGED emitter_vars
  <2>1. EmitterTypeOK' /\ Places'
    BY <1>0, <1>2, SearchTypes, SearchKeepsPlaces
  <2>2. ASSUME NEW c \in Controls \ excused' PROVE Promised(c)'
    BY <1>2, AnswersKeep, StartSearchKeeps, NextControlKeeps, TryNextKeeps, RememberKeeps, UndoKeeps,
       ForgetKeeps, PowerDownKeeps, StutterKeeps DEF Search
  <2> QED
    BY <2>1, <2>2 DEF EmitterInv
<1> QED
  BY <1>1, <1>2 DEF EmitterNext

\* The variables of Emitter keep their types: a session's lists hold writes
\* of the camera's controls (Session._restore, emitter.py), each value one
\* number per byte.
THEOREM EmitterTypes ==
  EmitterSpec => []EmitterTypeOK
<1>1. EmitterInit => EmitterInv
  BY EmitterBegins
<1>2. EmitterInv /\ [EmitterNext]_emitter_vars => EmitterInv'
  BY EmitterSteps
<1>3. EmitterInv => EmitterTypeOK
  BY DEF EmitterInv
<1> QED
  BY <1>1, <1>2, <1>3, PTL DEF EmitterSpec

\* Whatever captures, tests and searches do at the same time, a control has
\* the camera's own value, or a session or the search still has to put it
\* back (emitter.py activate, Session.close, search): none of them takes
\* another's value for the camera's own.
THEOREM ControlsHandedBack ==
  EmitterSpec => []HandedBack
<1>1. EmitterInit => EmitterInv
  BY EmitterBegins
<1>2. EmitterInv /\ [EmitterNext]_emitter_vars => EmitterInv'
  BY EmitterSteps
<1>3. EmitterInv => HandedBack
  BY DEF EmitterInv, Promised, Lit, HandedBack
<1> QED
  BY <1>1, <1>2, <1>3, PTL DEF EmitterSpec
=============================================================================
