--------------------------- MODULE ElevationProofs ---------------------------
(***************************************************************************)
(* Proofs about Elevation, for every number of users, requests, misses and *)
(* every length of the pauses.                                             *)
(***************************************************************************)
EXTENDS Elevation, FiniteSetTheorems, TLAPS

\* A pause lasts a whole number of seconds and at most
\* CONFIRM_PAUSE_MAX_SECONDS, however many came before it (_confirm_missed).
LEMMA PauseSecondsBound ==
  ASSUME NEW n \in Nat
  PROVE  /\ PauseSeconds(n) \in Int
         /\ PauseSeconds(n) <= CONFIRM_PAUSE_MAX_SECONDS
<1> DEFINE seconds == CONFIRM_PAUSE_SECONDS * 2 ^ n
<1>1. 2 ^ n \in Int
  BY Z3
<1>2. seconds \in Int
  BY <1>1, ConstantsAssumption
<1> HIDE DEF seconds
<1>3. PauseSeconds(n) = IF seconds < CONFIRM_PAUSE_MAX_SECONDS
                          THEN seconds ELSE CONFIRM_PAUSE_MAX_SECONDS
  BY DEF PauseSeconds, seconds
<1> QED
  BY <1>2, <1>3, ConstantsAssumption

\* Adding a miss keeps a finite set of misses one (_confirm_missed).
LEMMA WithMissNowType ==
  ASSUME NEW S \in SUBSET Miss, IsFiniteSet(S), now \in Nat
  PROVE  WithMissNow(S) \in SUBSET Miss /\ IsFiniteSet(WithMissNow(S))
<1> DEFINE same == {m \in S : m.at = now}
           miss == [at |-> now, nr |-> Cardinality(same)]
<1>1. Cardinality(same) \in Nat
  BY FS_Subset, FS_CardinalityType
<1>2. miss \in Miss
  BY <1>1 DEF Miss
<1>3. IsFiniteSet(S \cup {miss})
  BY FS_AddElement
<1>4. WithMissNow(S) = S \cup {miss}
  BY DEF WithMissNow
<1> QED
  BY <1>2, <1>3, <1>4

\* Dropping the misses that are too old keeps the set finite (_confirm_missed).
LEMMA RecentType ==
  ASSUME NEW S \in SUBSET Miss, IsFiniteSet(S)
  PROVE  Recent(S) \in SUBSET Miss /\ IsFiniteSet(Recent(S))
BY FS_Subset DEF Recent

\* The pause of u is remembered, promised and declared as it was
SamePause(u) ==
  /\ promised'[u] = promised[u]
  /\ declared'[u] = declared[u]
  /\ confirm_paused'[u] = confirm_paused[u]
  /\ u \in forgotten' <=> u \in forgotten

\* A pause of u is declared at this moment, and remembered as it is promised
NewPause(u) ==
  /\ promised'[u] = confirm_paused'[u]
  /\ declared'[u] = now
  /\ u \notin forgotten'

\* What _confirm_missed does to the counts: types are kept, and a pause is
\* remembered and promised alike.
LEMMA MissedEffect ==
  ASSUME TypeOK, FiniteInv, NEW u \in User, Missed(u)
  PROVE  /\ confirm_misses' \in [User -> SUBSET Miss]
         /\ \A v \in User : IsFiniteSet(confirm_misses'[v])
         /\ confirm_pauses' \in [User -> Nat]
         /\ confirm_paused' \in [User -> Int]
         /\ promised' \in [User -> Int]
         /\ declared' \in [User -> Nat]
         /\ forgotten' \in SUBSET User
         /\ \A v \in User : SamePause(v) \/ NewPause(v)
<1> DEFINE misses == WithMissNow(Recent(confirm_misses[u]))
           until == now + PauseSeconds(confirm_pauses[u])
<1>1. misses \in SUBSET Miss /\ IsFiniteSet(misses)
  BY WithMissNowType, RecentType DEF TypeOK, FiniteInv
<1>2. until \in Int
  <2>1. confirm_pauses[u] \in Nat /\ now \in Nat
    BY DEF TypeOK
  <2>2. PauseSeconds(confirm_pauses[u]) \in Int
    BY <2>1, PauseSecondsBound
  <2> QED
    BY <2>1, <2>2, ConstantsAssumption
<1>3. IsFiniteSet({})
  BY FS_EmptySet
<1> DEFINE Counted == /\ confirm_misses' = [confirm_misses EXCEPT ![u] = misses]
                      /\ UNCHANGED <<confirm_pauses, confirm_paused, pause_vars>>
           Pausing == /\ confirm_misses' = [confirm_misses EXCEPT ![u] = {}]
                      /\ confirm_pauses' = [confirm_pauses EXCEPT ![u] = @ + 1]
                      /\ confirm_paused' = [confirm_paused EXCEPT ![u] = until]
                      /\ promised' = [promised EXCEPT ![u] = until]
                      /\ declared' = [declared EXCEPT ![u] = now]
                      /\ forgotten' = forgotten \ {u}
<1> HIDE DEF misses, until
<1>4. Counted \/ Pausing
  BY DEF Missed, TooMany, misses, until
<1>5. CASE Counted
  BY <1>1, <1>5 DEF TypeOK, FiniteInv, SamePause, pause_vars
<1>6. CASE Pausing
  <2>1. \A v \in User \ {u} : SamePause(v)
    BY <1>6 DEF TypeOK, SamePause
  <2>2. NewPause(u)
    BY <1>6 DEF TypeOK, NewPause
  <2>3. /\ confirm_misses' \in [User -> SUBSET Miss]
        /\ \A v \in User : IsFiniteSet(confirm_misses'[v])
    BY <1>3, <1>6 DEF TypeOK, FiniteInv
  <2>4. /\ confirm_pauses' \in [User -> Nat]
        /\ confirm_paused' \in [User -> Int]
    BY <1>2, <1>6 DEF TypeOK
  <2>5. /\ promised' \in [User -> Int]
        /\ declared' \in [User -> Nat]
        /\ forgotten' \in SUBSET User
    BY <1>2, <1>6 DEF TypeOK
  <2> QED
    BY <2>1, <2>2, <2>3, <2>4, <2>5
<1> QED
  BY <1>4, <1>5, <1>6
-----------------------------------------------------------------------------
(* The invariant, one lemma for each of its parts *)

\* The end of a request keeps the types of what it resets.
LEMMA AnswerType ==
  ASSUME TypeOK, NEW r \in Request, Answer(r)
  PROVE  /\ pc' \in [Request -> {"idle", "asked", "window", "scanning"}]
         /\ cancel' \in [Request -> BOOLEAN]
         /\ pressed' \in [Request -> {"WAITING", "ENTER", "SKIP", "TYPING", "NOTHING"}]
         /\ other_keys' \in [Request -> Nat]
         /\ deadline' \in [Request -> Nat]
         /\ enter' \in [Request -> 0..MaxEnters]
         /\ last_activity' \in Nat
BY ConstantsAssumption DEF Answer, TypeOK

\* Every step keeps the types of the variables and the sets of misses finite.
LEMMA TypeStep ==
  ASSUME TypeOK, FiniteInv, [Next]_vars
  PROVE  TypeOK' /\ FiniteInv'
<1>1. ASSUME NEW r \in Request, NEW u \in User, VerifyConfirmed(r, u)
      PROVE  TypeOK' /\ FiniteInv'
  BY <1>1, ConstantsAssumption
     DEF VerifyConfirmed, TypeOK, FiniteInv, request_vars, thread_vars,
         miss_vars, pause_vars, enter_vars
<1>2. ASSUME NEW r \in Request, Refuse(r)
      PROVE  TypeOK' /\ FiniteInv'
  BY <1>2, AnswerType DEF Refuse, TypeOK, FiniteInv, miss_vars, pause_vars
<1>3. ASSUME NEW r \in Request, AnswerPaused(r)
      PROVE  TypeOK' /\ FiniteInv'
  BY <1>3, AnswerType DEF AnswerPaused, TypeOK, FiniteInv, miss_vars, pause_vars
<1>4. ASSUME NEW r \in Request, Conflict(r)
      PROVE  TypeOK' /\ FiniteInv'
  <2>1. Missed(user[r]) /\ user[r] \in User
    BY <1>4 DEF Conflict, NoWindow, Overlap, TypeOK
  <2>2. /\ confirm_misses' \in [User -> SUBSET Miss]
        /\ \A v \in User : IsFiniteSet(confirm_misses'[v])
        /\ confirm_pauses' \in [User -> Nat]
        /\ confirm_paused' \in [User -> Int]
        /\ promised' \in [User -> Int]
        /\ declared' \in [User -> Nat]
        /\ forgotten' \in SUBSET User
    BY <2>1, MissedEffect
  <2>3. /\ overlapped' \in [Request -> BOOLEAN]
        /\ contested' \in [Request -> BOOLEAN]
    BY <1>4 DEF Conflict, NoWindow, Overlap, TypeOK
  <2>4. FiniteInv'
    BY <1>4, <2>2 DEF Conflict, NoWindow, Overlap, FiniteInv
  <2>5. TypeOK'
    BY <1>4, <2>2, <2>3, AnswerType DEF Conflict, NoWindow, Overlap, TypeOK
  <2> QED
    BY <2>4, <2>5
<1>5. ASSUME NEW r \in Request, OpenWindow(r)
      PROVE  TypeOK' /\ FiniteInv'
  <2>1. deadline' \in [Request -> Nat]
    <3>1. now \in Nat /\ now + WINDOW_SECONDS \in Nat /\ deadline \in [Request -> Nat]
      BY ConstantsAssumption DEF TypeOK
    <3> QED
      BY <1>5, <3>1 DEF OpenWindow, Deadline
  <2>2. /\ pc' \in [Request -> {"idle", "asked", "window", "scanning"}]
        /\ overlapped' \in [Request -> BOOLEAN]
        /\ contested' \in [Request -> BOOLEAN]
        /\ confirm_window' \in Request \cup {NoRequest}
    BY <1>5 DEF OpenWindow, TypeOK
  <2> QED
    BY <1>5, <2>1, <2>2 DEF OpenWindow, TypeOK, FiniteInv, miss_vars, pause_vars
<1>6. ASSUME NEW r \in Request, CloseConflict(r)
      PROVE  TypeOK' /\ FiniteInv'
  <2>1. Missed(user[r]) /\ user[r] \in User
    BY <1>6 DEF CloseConflict, TypeOK
  <2>2. /\ confirm_misses' \in [User -> SUBSET Miss]
        /\ \A v \in User : IsFiniteSet(confirm_misses'[v])
        /\ confirm_pauses' \in [User -> Nat]
        /\ confirm_paused' \in [User -> Int]
        /\ promised' \in [User -> Int]
        /\ declared' \in [User -> Nat]
        /\ forgotten' \in SUBSET User
    BY <2>1, MissedEffect
  <2>3. /\ lapsed' \in [User -> SUBSET Miss]
        /\ \A v \in User : IsFiniteSet(lapsed'[v])
    BY <1>6, <2>1, WithMissNowType DEF CloseConflict, Lapse, TypeOK, FiniteInv
  <2>4. FiniteInv'
    BY <2>2, <2>3 DEF FiniteInv
  <2>5. TypeOK'
    BY <1>6, <2>2, <2>3, AnswerType DEF CloseConflict, Closing, TypeOK
  <2> QED
    BY <2>4, <2>5
<1>7. ASSUME NEW r \in Request, CloseSkipped(r)
      PROVE  TypeOK' /\ FiniteInv'
  <2>1. confirm_window' \in Request \cup {NoRequest}
    BY <1>7 DEF CloseSkipped, Closing
  <2> QED
    BY <1>7, <2>1, AnswerType
       DEF CloseSkipped, TypeOK, FiniteInv, miss_vars, pause_vars
<1>8. ASSUME NEW r \in Request, CloseUnconfirmed(r)
      PROVE  TypeOK' /\ FiniteInv'
  <2>1. Missed(user[r]) /\ user[r] \in User
    BY <1>8 DEF CloseUnconfirmed, TypeOK
  <2>2. /\ confirm_misses' \in [User -> SUBSET Miss]
        /\ \A v \in User : IsFiniteSet(confirm_misses'[v])
        /\ confirm_pauses' \in [User -> Nat]
        /\ confirm_paused' \in [User -> Int]
        /\ promised' \in [User -> Int]
        /\ declared' \in [User -> Nat]
        /\ forgotten' \in SUBSET User
    BY <2>1, MissedEffect
  <2>3. /\ lapsed' \in [User -> SUBSET Miss]
        /\ \A v \in User : IsFiniteSet(lapsed'[v])
    BY <1>8, <2>1, WithMissNowType
       DEF CloseUnconfirmed, Lapse, TypeOK, FiniteInv
  <2>4. FiniteInv'
    BY <2>2, <2>3 DEF FiniteInv
  <2>5. TypeOK'
    BY <1>8, <2>2, <2>3, AnswerType DEF CloseUnconfirmed, Closing, TypeOK
  <2> QED
    BY <2>4, <2>5
<1>9. ASSUME NEW r \in Request, CloseCancelled(r)
      PROVE  TypeOK' /\ FiniteInv'
  <2>1. confirm_window' \in Request \cup {NoRequest}
    BY <1>9 DEF CloseCancelled, Closing
  <2> QED
    BY <1>9, <2>1, AnswerType
       DEF CloseCancelled, TypeOK, FiniteInv, miss_vars, pause_vars
<1>10. ASSUME NEW r \in Request, CloseConfirmed(r)
      PROVE  TypeOK' /\ FiniteInv'
  <2>1. scans' \in [1..MaxEnters -> Nat]
    <3> DEFINE p == enter[r]
    <3>1. scans' = [scans EXCEPT ![p] = scans[p] + 1]
      BY <1>10 DEF CloseConfirmed
    <3>2. scans \in [1..MaxEnters -> Nat] /\ p \in 0..MaxEnters
      BY DEF TypeOK
    <3> HIDE DEF p
    <3>3. \A q \in 1..MaxEnters : scans'[q] \in Nat
      BY <3>1, <3>2
    <3> QED
      BY <3>1, <3>2, <3>3
  <2>2. /\ lapsed' \in [User -> SUBSET Miss]
        /\ confirm_misses' \in [User -> SUBSET Miss]
        /\ confirm_pauses' \in [User -> Nat]
        /\ pc' \in [Request -> {"idle", "asked", "window", "scanning"}]
        /\ confirm_window' \in Request \cup {NoRequest}
    BY <1>10 DEF CloseConfirmed, Closing, TypeOK
  <2>3. TypeOK'
    BY <1>10, <2>1, <2>2 DEF CloseConfirmed, TypeOK, thread_vars, pause_vars
  <2>4. FiniteInv'
    BY <1>10, FS_EmptySet DEF CloseConfirmed, TypeOK, FiniteInv
  <2> QED
    BY <2>3, <2>4
<1>11. ASSUME NEW r \in Request, VerifyEnds(r)
      PROVE  TypeOK' /\ FiniteInv'
  BY <1>11, AnswerType DEF VerifyEnds, TypeOK, FiniteInv, miss_vars, pause_vars
<1>12. ASSUME NEW r \in Request, WaitEnds(r)
      PROVE  TypeOK' /\ FiniteInv'
  BY <1>12, ConstantsAssumption
     DEF WaitEnds, Reading, TypeOK, FiniteInv, request_vars, thread_vars,
         miss_vars, pause_vars, enter_vars
<1>13. ASSUME NEW r \in Request, NoKeyboards(r)
      PROVE  TypeOK' /\ FiniteInv'
  BY <1>13, ConstantsAssumption
     DEF NoKeyboards, Reading, TypeOK, FiniteInv, request_vars,
         thread_vars, miss_vars, pause_vars, enter_vars
<1>14. ASSUME NEW r \in Request, Cancel(r)
      PROVE  TypeOK' /\ FiniteInv'
  BY <1>14, ConstantsAssumption
     DEF Cancel, TypeOK, FiniteInv, request_vars, thread_vars, miss_vars, pause_vars,
         enter_vars
<1>15. CASE PressEnter
  <2>1. presses' \in 1..MaxEnters
    BY <1>15, ConstantsAssumption DEF PressEnter, TypeOK
  <2>2. enter' \in [Request -> 0..MaxEnters]
    BY <1>15, <2>1, ConstantsAssumption DEF PressEnter, TypeOK
  <2>3. pressed' \in [Request -> {"WAITING", "ENTER", "SKIP", "TYPING", "NOTHING"}]
    BY <1>15 DEF PressEnter, Seen, TypeOK
  <2> QED
    BY <1>15, <2>1, <2>2, <2>3, ConstantsAssumption
       DEF PressEnter, TypeOK, FiniteInv, request_vars, miss_vars, pause_vars
<1>16. CASE PressEsc
  BY <1>16, ConstantsAssumption
     DEF PressEsc, Reading, Seen, TypeOK, FiniteInv, request_vars,
         thread_vars, miss_vars, pause_vars, enter_vars
<1>17. CASE PressOther
  <2>1. other_keys' \in [Request -> Nat]
    <3>1. other_keys \in [Request -> Nat]
      BY DEF TypeOK
    <3> QED
      BY <1>17, <3>1 DEF PressOther
  <2>2. pressed' \in [Request -> {"WAITING", "ENTER", "SKIP", "TYPING", "NOTHING"}]
    BY <1>17 DEF PressOther, Seen, TypeOK
  <2> QED
    BY <1>17, <2>1, <2>2
       DEF PressOther, TypeOK, FiniteInv, request_vars, miss_vars, pause_vars, enter_vars
<1>18. CASE Tick
  <2>1. \A u \in User : IsFiniteSet(lapsed'[u])
    BY <1>18, FS_Subset DEF Tick, TypeOK, FiniteInv
  <2>2. now' \in Nat /\ lapsed' \in [User -> SUBSET Miss]
    <3>1. now \in Nat /\ lapsed \in [User -> SUBSET Miss]
      BY DEF TypeOK
    <3> QED
      BY <1>18, <3>1 DEF Tick
  <2>3. TypeOK'
    BY <1>18, <2>2
       DEF Tick, TypeOK, request_vars, thread_vars, miss_vars, pause_vars, enter_vars
  <2> QED
    BY <1>18, <2>1, <2>3 DEF Tick, FiniteInv, miss_vars
<1>19. CASE IdleExit
  BY <1>19, FS_EmptySet
     DEF IdleExit, TypeOK, FiniteInv, request_vars, thread_vars,
         enter_vars
<1>20. CASE UNCHANGED vars
  BY <1>20
     DEF vars, TypeOK, FiniteInv, request_vars, thread_vars, miss_vars, pause_vars,
         enter_vars
<1> QED
  BY <1>1, <1>2, <1>3, <1>4, <1>5, <1>6, <1>7, <1>8, <1>9, <1>10,
     <1>11, <1>12, <1>13, <1>14, <1>15, <1>16, <1>17, <1>18, <1>19, <1>20 DEF Next, Coroutine

\* Only the request that owns confirm_window waits for Enter.
LEMMA WindowStep ==
  ASSUME TypeOK, WindowInv, [Next]_vars
  PROVE  WindowInv'
<1>1. ASSUME NEW r \in Request, NEW u \in User, VerifyConfirmed(r, u)
      PROVE  WindowInv'
  BY <1>1, ConstantsAssumption
     DEF VerifyConfirmed, TypeOK, WindowInv, thread_vars, miss_vars, pause_vars,
         enter_vars
<1>2. ASSUME NEW r \in Request, Refuse(r)
      PROVE  WindowInv'
  BY <1>2, ConstantsAssumption
     DEF Refuse, Answer, TypeOK, WindowInv, miss_vars, pause_vars
<1>3. ASSUME NEW r \in Request, AnswerPaused(r)
      PROVE  WindowInv'
  BY <1>3, ConstantsAssumption
     DEF AnswerPaused, Answer, TypeOK, WindowInv, miss_vars, pause_vars
<1>4. ASSUME NEW r \in Request, Conflict(r)
      PROVE  WindowInv'
  BY <1>4, ConstantsAssumption DEF Conflict, NoWindow, Overlap, Answer, TypeOK, WindowInv
<1>5. ASSUME NEW r \in Request, OpenWindow(r)
      PROVE  WindowInv'
  BY <1>5, ConstantsAssumption DEF OpenWindow, NoWindow, Deadline, TypeOK, WindowInv, miss_vars, pause_vars
<1>6. ASSUME NEW r \in Request, CloseConflict(r)
      PROVE  WindowInv'
  BY <1>6, ConstantsAssumption
     DEF CloseConflict, Closing, Answer, TypeOK, WindowInv
<1>7. ASSUME NEW r \in Request, CloseSkipped(r)
      PROVE  WindowInv'
  BY <1>7, ConstantsAssumption
     DEF CloseSkipped, Closing, Answer, TypeOK, WindowInv, miss_vars, pause_vars
<1>8. ASSUME NEW r \in Request, CloseUnconfirmed(r)
      PROVE  WindowInv'
  BY <1>8, ConstantsAssumption
     DEF CloseUnconfirmed, Closing, Answer, TypeOK, WindowInv
<1>9. ASSUME NEW r \in Request, CloseCancelled(r)
      PROVE  WindowInv'
  BY <1>9, ConstantsAssumption
     DEF CloseCancelled, Closing, Answer, TypeOK, WindowInv, miss_vars, pause_vars
<1>10. ASSUME NEW r \in Request, CloseConfirmed(r)
      PROVE  WindowInv'
  BY <1>10, ConstantsAssumption
     DEF CloseConfirmed, Closing, TypeOK, WindowInv, thread_vars
<1>11. ASSUME NEW r \in Request, VerifyEnds(r)
      PROVE  WindowInv'
  BY <1>11, ConstantsAssumption
     DEF VerifyEnds, Answer, TypeOK, WindowInv, miss_vars, pause_vars
<1>12. ASSUME NEW r \in Request, WaitEnds(r)
      PROVE  WindowInv'
  BY <1>12, ConstantsAssumption
     DEF WaitEnds, Reading, TypeOK, WindowInv, request_vars, miss_vars, pause_vars,
         enter_vars
<1>13. ASSUME NEW r \in Request, NoKeyboards(r)
      PROVE  WindowInv'
  BY <1>13, ConstantsAssumption
     DEF NoKeyboards, Reading, TypeOK, WindowInv, request_vars, miss_vars, pause_vars,
         enter_vars
<1>14. ASSUME NEW r \in Request, Cancel(r)
      PROVE  WindowInv'
  BY <1>14, ConstantsAssumption
     DEF Cancel, TypeOK, WindowInv, thread_vars, miss_vars, pause_vars, enter_vars
<1>15. CASE PressEnter
  BY <1>15, ConstantsAssumption
     DEF PressEnter, Reading, Seen, TypeOK, WindowInv, request_vars,
         miss_vars, pause_vars
<1>16. CASE PressEsc
  BY <1>16, ConstantsAssumption
     DEF PressEsc, Reading, Seen, TypeOK, WindowInv, request_vars, miss_vars, pause_vars,
         enter_vars
<1>17. CASE PressOther
  BY <1>17, ConstantsAssumption
     DEF PressOther, Reading, Seen, TypeOK, WindowInv, request_vars,
         miss_vars, pause_vars, enter_vars
<1>18. CASE Tick
  BY <1>18, ConstantsAssumption
     DEF Tick, TypeOK, WindowInv, request_vars, thread_vars, miss_vars, pause_vars,
         enter_vars
<1>19. CASE IdleExit
  BY <1>19, ConstantsAssumption
     DEF IdleExit, TypeOK, WindowInv, request_vars, thread_vars, enter_vars
<1>20. CASE UNCHANGED vars
  BY <1>20
     DEF vars, TypeOK, WindowInv, request_vars, thread_vars, miss_vars, pause_vars,
         enter_vars
<1> QED
  BY <1>1, <1>2, <1>3, <1>4, <1>5, <1>6, <1>7, <1>8, <1>9, <1>10,
     <1>11, <1>12, <1>13, <1>14, <1>15, <1>16, <1>17, <1>18, <1>19, <1>20
     DEF Next, Coroutine

\* A request whose window was contested is marked, and does not scan.
LEMMA OverlapStep ==
  ASSUME TypeOK, WindowInv, OverlapInv, OverlappedIsRefused, [Next]_vars
  PROVE  OverlapInv' /\ OverlappedIsRefused'
<1>1. ASSUME NEW r \in Request, NEW u \in User, VerifyConfirmed(r, u)
      PROVE  OverlapInv' /\ OverlappedIsRefused'
  BY <1>1, ConstantsAssumption
     DEF VerifyConfirmed, TypeOK, WindowInv, OverlapInv, OverlappedIsRefused,
         thread_vars, miss_vars, pause_vars, enter_vars
<1>2. ASSUME NEW r \in Request, Refuse(r)
      PROVE  OverlapInv' /\ OverlappedIsRefused'
  BY <1>2, ConstantsAssumption
     DEF Refuse, Answer, TypeOK, WindowInv, OverlapInv, OverlappedIsRefused,
         miss_vars, pause_vars
<1>3. ASSUME NEW r \in Request, AnswerPaused(r)
      PROVE  OverlapInv' /\ OverlappedIsRefused'
  BY <1>3, ConstantsAssumption
     DEF AnswerPaused, Answer, TypeOK, WindowInv, OverlapInv,
         OverlappedIsRefused, miss_vars, pause_vars
<1>4. ASSUME NEW r \in Request, Conflict(r)
      PROVE  OverlapInv' /\ OverlappedIsRefused'
  BY <1>4, ConstantsAssumption
     DEF Conflict, NoWindow, Overlap, Answer, TypeOK, WindowInv, OverlapInv, OverlappedIsRefused
<1>5. ASSUME NEW r \in Request, OpenWindow(r)
      PROVE  OverlapInv' /\ OverlappedIsRefused'
  BY <1>5, ConstantsAssumption
     DEF OpenWindow, NoWindow, Deadline, TypeOK, WindowInv, OverlapInv, OverlappedIsRefused,
         miss_vars, pause_vars
<1>6. ASSUME NEW r \in Request, CloseConflict(r)
      PROVE  OverlapInv' /\ OverlappedIsRefused'
  BY <1>6, ConstantsAssumption
     DEF CloseConflict, Closing, Answer, TypeOK, WindowInv, OverlapInv,
         OverlappedIsRefused
<1>7. ASSUME NEW r \in Request, CloseSkipped(r)
      PROVE  OverlapInv' /\ OverlappedIsRefused'
  BY <1>7, ConstantsAssumption
     DEF CloseSkipped, Closing, Answer, TypeOK, WindowInv, OverlapInv,
         OverlappedIsRefused, miss_vars, pause_vars
<1>8. ASSUME NEW r \in Request, CloseUnconfirmed(r)
      PROVE  OverlapInv' /\ OverlappedIsRefused'
  BY <1>8, ConstantsAssumption
     DEF CloseUnconfirmed, Closing, Answer, TypeOK, WindowInv, OverlapInv,
         OverlappedIsRefused
<1>9. ASSUME NEW r \in Request, CloseCancelled(r)
      PROVE  OverlapInv' /\ OverlappedIsRefused'
  BY <1>9, ConstantsAssumption
     DEF CloseCancelled, Closing, Answer, TypeOK, WindowInv, OverlapInv,
         OverlappedIsRefused, miss_vars, pause_vars
<1>10. ASSUME NEW r \in Request, CloseConfirmed(r)
      PROVE  OverlapInv' /\ OverlappedIsRefused'
  BY <1>10, ConstantsAssumption
     DEF CloseConfirmed, Closing, TypeOK, WindowInv, OverlapInv,
         OverlappedIsRefused, thread_vars
<1>11. ASSUME NEW r \in Request, VerifyEnds(r)
      PROVE  OverlapInv' /\ OverlappedIsRefused'
  BY <1>11, ConstantsAssumption
     DEF VerifyEnds, Answer, TypeOK, WindowInv, OverlapInv,
         OverlappedIsRefused, miss_vars, pause_vars
<1>12. ASSUME NEW r \in Request, WaitEnds(r)
      PROVE  OverlapInv' /\ OverlappedIsRefused'
  BY <1>12, ConstantsAssumption
     DEF WaitEnds, Reading, TypeOK, WindowInv, OverlapInv,
         OverlappedIsRefused, request_vars, miss_vars, pause_vars, enter_vars
<1>13. ASSUME NEW r \in Request, NoKeyboards(r)
      PROVE  OverlapInv' /\ OverlappedIsRefused'
  BY <1>13, ConstantsAssumption
     DEF NoKeyboards, Reading, TypeOK, WindowInv, OverlapInv,
         OverlappedIsRefused, request_vars, miss_vars, pause_vars, enter_vars
<1>14. ASSUME NEW r \in Request, Cancel(r)
      PROVE  OverlapInv' /\ OverlappedIsRefused'
  BY <1>14, ConstantsAssumption
     DEF Cancel, TypeOK, WindowInv, OverlapInv, OverlappedIsRefused,
         thread_vars, miss_vars, pause_vars, enter_vars
<1>15. CASE PressEnter
  BY <1>15, ConstantsAssumption
     DEF PressEnter, Reading, Seen, TypeOK, WindowInv, OverlapInv,
         OverlappedIsRefused, request_vars, miss_vars, pause_vars
<1>16. CASE PressEsc
  BY <1>16, ConstantsAssumption
     DEF PressEsc, Reading, Seen, TypeOK, WindowInv, OverlapInv,
         OverlappedIsRefused, request_vars, miss_vars, pause_vars, enter_vars
<1>17. CASE PressOther
  BY <1>17, ConstantsAssumption
     DEF PressOther, Reading, Seen, TypeOK, WindowInv, OverlapInv,
         OverlappedIsRefused, request_vars, miss_vars, pause_vars, enter_vars
<1>18. CASE Tick
  BY <1>18, ConstantsAssumption
     DEF Tick, TypeOK, WindowInv, OverlapInv, OverlappedIsRefused,
         request_vars, thread_vars, miss_vars, pause_vars, enter_vars
<1>19. CASE IdleExit
  BY <1>19, ConstantsAssumption
     DEF IdleExit, TypeOK, WindowInv, OverlapInv, OverlappedIsRefused,
         request_vars, thread_vars, enter_vars
<1>20. CASE UNCHANGED vars
  BY <1>20
     DEF vars, TypeOK, WindowInv, OverlapInv, OverlappedIsRefused,
         request_vars, thread_vars, miss_vars, pause_vars, enter_vars
<1> QED
  BY <1>1, <1>2, <1>3, <1>4, <1>5, <1>6, <1>7, <1>8, <1>9, <1>10,
     <1>11, <1>12, <1>13, <1>14, <1>15, <1>16, <1>17, <1>18, <1>19, <1>20
     DEF Next, Coroutine

\* A press of Enter leads to no second scan.
LEMMA EnterStep ==
  ASSUME TypeOK, WindowInv, EnterInv, OneScanPerEnter, [Next]_vars
  PROVE  EnterInv' /\ OneScanPerEnter'
<1>1. ASSUME NEW r \in Request, NEW u \in User, VerifyConfirmed(r, u)
      PROVE  EnterInv' /\ OneScanPerEnter'
  BY <1>1, ConstantsAssumption
     DEF VerifyConfirmed, TypeOK, WindowInv, EnterInv, OneScanPerEnter,
         thread_vars, miss_vars, pause_vars, enter_vars
<1>2. ASSUME NEW r \in Request, Refuse(r)
      PROVE  EnterInv' /\ OneScanPerEnter'
  BY <1>2, ConstantsAssumption
     DEF Refuse, Answer, TypeOK, WindowInv, EnterInv, OneScanPerEnter,
         miss_vars, pause_vars
<1>3. ASSUME NEW r \in Request, AnswerPaused(r)
      PROVE  EnterInv' /\ OneScanPerEnter'
  BY <1>3, ConstantsAssumption
     DEF AnswerPaused, Answer, TypeOK, WindowInv, EnterInv, OneScanPerEnter,
         miss_vars, pause_vars
<1>4. ASSUME NEW r \in Request, Conflict(r)
      PROVE  EnterInv' /\ OneScanPerEnter'
  BY <1>4, ConstantsAssumption
     DEF Conflict, NoWindow, Overlap, Answer, TypeOK, WindowInv, EnterInv, OneScanPerEnter
<1>5. ASSUME NEW r \in Request, OpenWindow(r)
      PROVE  EnterInv' /\ OneScanPerEnter'
  BY <1>5, ConstantsAssumption
     DEF OpenWindow, NoWindow, Deadline, TypeOK, WindowInv, EnterInv, OneScanPerEnter, miss_vars, pause_vars
<1>6. ASSUME NEW r \in Request, CloseConflict(r)
      PROVE  EnterInv' /\ OneScanPerEnter'
  BY <1>6, ConstantsAssumption
     DEF CloseConflict, Closing, Answer, TypeOK, WindowInv, EnterInv,
         OneScanPerEnter
<1>7. ASSUME NEW r \in Request, CloseSkipped(r)
      PROVE  EnterInv' /\ OneScanPerEnter'
  BY <1>7, ConstantsAssumption
     DEF CloseSkipped, Closing, Answer, TypeOK, WindowInv, EnterInv,
         OneScanPerEnter, miss_vars, pause_vars
<1>8. ASSUME NEW r \in Request, CloseUnconfirmed(r)
      PROVE  EnterInv' /\ OneScanPerEnter'
  BY <1>8, ConstantsAssumption
     DEF CloseUnconfirmed, Closing, Answer, TypeOK, WindowInv, EnterInv,
         OneScanPerEnter
<1>9. ASSUME NEW r \in Request, CloseCancelled(r)
      PROVE  EnterInv' /\ OneScanPerEnter'
  BY <1>9, ConstantsAssumption
     DEF CloseCancelled, Closing, Answer, TypeOK, WindowInv, EnterInv,
         OneScanPerEnter, miss_vars, pause_vars
<1>10. ASSUME NEW r \in Request, CloseConfirmed(r)
      PROVE  EnterInv' /\ OneScanPerEnter'
  <2> DEFINE p == enter[r]
  <2>1. p \in 1..presses /\ scans[p] = 0
    BY <1>10 DEF CloseConfirmed, Closing, EnterInv
  <2>2. scans' = [scans EXCEPT ![p] = scans[p] + 1] /\ UNCHANGED presses
    BY <1>10 DEF CloseConfirmed
  <2>3. p \in 1..MaxEnters
    BY <2>1, ConstantsAssumption DEF TypeOK
  <2> HIDE DEF p
  <2>4. scans'[p] = 1 /\ \A q \in 1..MaxEnters \ {p} : scans'[q] = scans[q]
    BY <2>1, <2>2, <2>3 DEF TypeOK
  <2>5. OneScanPerEnter'
    BY <2>4 DEF OneScanPerEnter
  <2>6. \A q \in 1..MaxEnters : q > presses' => scans'[q] = 0
    BY <2>1, <2>2, <2>3, <2>4 DEF EnterInv, TypeOK
  <2>7. \A t \in Request : pc'[t] # "window"
    BY <1>10 DEF CloseConfirmed, Closing, WindowInv, TypeOK
  <2> QED
    BY <2>5, <2>6, <2>7 DEF EnterInv
<1>11. ASSUME NEW r \in Request, VerifyEnds(r)
      PROVE  EnterInv' /\ OneScanPerEnter'
  BY <1>11, ConstantsAssumption
     DEF VerifyEnds, Answer, TypeOK, WindowInv, EnterInv, OneScanPerEnter,
         miss_vars, pause_vars
<1>12. ASSUME NEW r \in Request, WaitEnds(r)
      PROVE  EnterInv' /\ OneScanPerEnter'
  BY <1>12, ConstantsAssumption
     DEF WaitEnds, Reading, TypeOK, WindowInv, EnterInv, OneScanPerEnter,
         request_vars, miss_vars, pause_vars, enter_vars
<1>13. ASSUME NEW r \in Request, NoKeyboards(r)
      PROVE  EnterInv' /\ OneScanPerEnter'
  BY <1>13, ConstantsAssumption
     DEF NoKeyboards, Reading, TypeOK, WindowInv, EnterInv, OneScanPerEnter,
         request_vars, miss_vars, pause_vars, enter_vars
<1>14. ASSUME NEW r \in Request, Cancel(r)
      PROVE  EnterInv' /\ OneScanPerEnter'
  BY <1>14, ConstantsAssumption
     DEF Cancel, TypeOK, WindowInv, EnterInv, OneScanPerEnter, thread_vars,
         miss_vars, pause_vars, enter_vars
<1>15. CASE PressEnter
  <2>1. presses' = presses + 1 /\ presses' \in 1..MaxEnters
    BY <1>15, ConstantsAssumption DEF PressEnter, TypeOK
  <2>2. scans[presses'] = 0
    BY <2>1 DEF EnterInv, TypeOK
  <2>3. OneScanPerEnter'
    BY <1>15 DEF PressEnter, OneScanPerEnter
  <2>4. \A p \in 1..MaxEnters : p > presses' => scans'[p] = 0
    BY <1>15, <2>1 DEF PressEnter, EnterInv, TypeOK
  <2>5. ASSUME NEW t \in Request, pc'[t] = "window", pressed'[t] = "ENTER"
        PROVE  enter'[t] \in 1..presses' /\ scans'[enter'[t]] = 0
    <3>1. CASE t \in Reading
      <4>1. enter'[t] = presses'
        BY <1>15, <3>1 DEF PressEnter, TypeOK
      <4> QED
        BY <1>15, <2>1, <2>2, <4>1 DEF PressEnter
    <3>2. CASE t \notin Reading
      <4>1. enter'[t] = enter[t] /\ pressed[t] = "ENTER" /\ pc[t] = "window"
        BY <1>15, <2>5, <3>2 DEF PressEnter, Seen, request_vars
      <4>2. enter[t] \in 1..presses /\ scans[enter[t]] = 0
        BY <4>1 DEF EnterInv
      <4> QED
        BY <1>15, <2>1, <4>1, <4>2 DEF PressEnter, TypeOK
    <3> QED
      BY <3>1, <3>2
  <2> QED
    BY <2>3, <2>4, <2>5 DEF EnterInv
<1>16. CASE PressEsc
  BY <1>16, ConstantsAssumption
     DEF PressEsc, Reading, Seen, TypeOK, WindowInv, EnterInv,
         OneScanPerEnter, request_vars, miss_vars, pause_vars, enter_vars
<1>17. CASE PressOther
  BY <1>17, ConstantsAssumption
     DEF PressOther, Reading, Seen, TypeOK, WindowInv, EnterInv,
         OneScanPerEnter, request_vars, miss_vars, pause_vars, enter_vars
<1>18. CASE Tick
  BY <1>18, ConstantsAssumption
     DEF Tick, TypeOK, WindowInv, EnterInv, OneScanPerEnter, request_vars,
         thread_vars, miss_vars, pause_vars, enter_vars
<1>19. CASE IdleExit
  BY <1>19, ConstantsAssumption
     DEF IdleExit, TypeOK, WindowInv, EnterInv, OneScanPerEnter,
         request_vars, thread_vars, enter_vars
<1>20. CASE UNCHANGED vars
  BY <1>20
     DEF vars, TypeOK, WindowInv, EnterInv, OneScanPerEnter, request_vars,
         thread_vars, miss_vars, pause_vars, enter_vars
<1> QED
  BY <1>1, <1>2, <1>3, <1>4, <1>5, <1>6, <1>7, <1>8, <1>9, <1>10,
     <1>11, <1>12, <1>13, <1>14, <1>15, <1>16, <1>17, <1>18, <1>19, <1>20
     DEF Next, Coroutine
-----------------------------------------------------------------------------
(* The pause is kept, but for an idle exit of the service *)

\* A window opens only for a user whose pause is over or forgotten
\* (verify_confirmed).
LEMMA OpenWindowNotPaused ==
  ASSUME TypeOK, PauseInv, NEW r \in Request, OpenWindow(r)
  PROVE  PauseIsOver(user[r])
<1> DEFINE u == user[r]
<1>1. u \in User /\ promised[u] \in Int /\ confirm_paused[u] \in Int /\ now \in Nat
  BY DEF TypeOK
<1>2. u \notin forgotten /\ now < promised[u] => confirm_paused[u] = promised[u]
  BY <1>1 DEF PauseInv
<1>3. ~(confirm_paused[u] - now > 0)
  BY DEF OpenWindow, NoWindow, Deadline, Paused
<1>4. u \in forgotten => now > declared[u] + IDLE_TIMEOUT
  BY DEF PauseInv
<1> QED
  BY <1>1, <1>2, <1>3, <1>4 DEF PauseIsOver

\* An answer that counts no miss keeps what is known of the pauses
\* (verify_confirmed).
LEMMA AnswerKeepsPause ==
  ASSUME TypeOK, PauseInv, NEW r \in Request, Answer(r),
         UNCHANGED <<now, user, overlapped, confirm_paused, pause_vars>>
  PROVE  PauseInv'
<1>1. last_activity' = now
  BY DEF Answer
<1>2. \A u \in User : declared[u] <= now
  BY DEF PauseInv, TypeOK
<1>3. \A t \in Request : pc'[t] = "window" => pc[t] = "window"
  BY DEF Answer, TypeOK
<1>4. now <= now
  BY DEF TypeOK
<1> QED
  BY <1>1, <1>2, <1>3, <1>4 DEF PauseInv, PauseIsOver, pause_vars

\* So does a step that neither opens a window nor touches time and pauses.
LEMMA FrameKeepsPause ==
  ASSUME PauseInv,
         UNCHANGED <<now, last_activity, user, overlapped, confirm_paused, pause_vars>>,
         \A t \in Request : pc'[t] = "window" => pc[t] = "window"
  PROVE  PauseInv'
BY DEF PauseInv, PauseIsOver, pause_vars

\* A miss that is counted as its request is answered keeps it too: no window
\* stays open that is not overlapped.
LEMMA MissedKeepsPause ==
  ASSUME TypeOK, FiniteInv, PauseInv, NEW u \in User, Missed(u),
         now' = now, last_activity' = now,
         \A t \in Request : pc'[t] = "window" => overlapped'[t]
  PROVE  PauseInv'
<1>1. /\ forgotten' \in SUBSET User
      /\ \A v \in User : SamePause(v) \/ NewPause(v)
  BY MissedEffect
<1>2. last_activity' <= now'
  BY DEF TypeOK
<1>3. \A v \in User : declared'[v] <= last_activity'
  <2>1. now \in Nat /\ last_activity \in Nat /\ \A v \in User : declared[v] \in Nat
    BY DEF TypeOK
  <2>2. last_activity <= now /\ \A v \in User : declared[v] <= last_activity
    BY DEF PauseInv
  <2>3. \A v \in User : declared[v] <= now /\ now <= now
    BY <2>1, <2>2
  <2> QED
    BY <1>1, <2>3 DEF SamePause, NewPause
<1>4. \A v \in forgotten' : now' > declared'[v] + IDLE_TIMEOUT
  BY <1>1 DEF SamePause, NewPause, PauseInv
<1>5. \A v \in User \ forgotten' : now' < promised'[v] => confirm_paused'[v] = promised'[v]
  BY <1>1 DEF SamePause, NewPause, PauseInv
<1> QED
  BY <1>2, <1>3, <1>4, <1>5 DEF PauseInv

\* A pause is remembered, and no window that may lead to a scan outlives its
\* beginning.
LEMMA PauseStep ==
  ASSUME TypeOK, FiniteInv, WindowInv, PauseInv, [Next]_vars
  PROVE  PauseInv'
<1>1. ASSUME NEW r \in Request, NEW u \in User, VerifyConfirmed(r, u)
      PROVE  PauseInv'
  <2>1. now \in Nat /\ last_activity \in Nat /\ \A v \in User : declared[v] \in Nat
    BY DEF TypeOK
  <2>2. last_activity' = now /\ now' = now /\ UNCHANGED <<confirm_paused, pause_vars, overlapped>>
    BY <1>1 DEF VerifyConfirmed, miss_vars, pause_vars
  <2>3. \A v \in User : declared[v] <= now
    BY <2>1 DEF PauseInv
  <2>4. \A q \in Request : pc'[q] = "window" => pc[q] = "window" /\ user'[q] = user[q]
    BY <1>1 DEF VerifyConfirmed, TypeOK
  <2> QED
    BY <2>1, <2>2, <2>3, <2>4 DEF PauseInv, PauseIsOver, pause_vars
<1>2. ASSUME NEW r \in Request, Refuse(r)
      PROVE  PauseInv'
  BY <1>2, AnswerKeepsPause DEF Refuse, miss_vars, pause_vars
<1>3. ASSUME NEW r \in Request, AnswerPaused(r)
      PROVE  PauseInv'
  BY <1>3, AnswerKeepsPause DEF AnswerPaused, miss_vars, pause_vars
<1>4. ASSUME NEW r \in Request, Conflict(r)
      PROVE  PauseInv'
  <2>1. Missed(user[r]) /\ user[r] \in User
    BY <1>4 DEF Conflict, NoWindow, Overlap, TypeOK
  <2>2. now' = now /\ last_activity' = now
    BY <1>4 DEF Conflict, NoWindow, Overlap, Answer
  <2>3. \A t \in Request : pc'[t] = "window" => overlapped'[t]
    BY <1>4 DEF Conflict, NoWindow, Overlap, Answer, WindowInv, TypeOK
  <2> QED
    BY <2>1, <2>2, <2>3, MissedKeepsPause
<1>5. ASSUME NEW r \in Request, OpenWindow(r)
      PROVE  PauseInv'
  <2>1. PauseIsOver(user[r])
    BY <1>5, OpenWindowNotPaused
  <2>2. \A t \in Request : pc'[t] = "window" => t = r
    BY <1>5, ConstantsAssumption DEF OpenWindow, NoWindow, Deadline, WindowInv, TypeOK
  <2> QED
    BY <1>5, <2>1, <2>2
       DEF OpenWindow, NoWindow, Deadline, PauseInv, PauseIsOver, miss_vars, pause_vars
<1>6. ASSUME NEW r \in Request, CloseConflict(r)
      PROVE  PauseInv'
  <2>1. Missed(user[r]) /\ user[r] \in User
    BY <1>6 DEF CloseConflict, TypeOK
  <2>2. now' = now /\ last_activity' = now
    BY <1>6 DEF CloseConflict, Answer
  <2>3. \A t \in Request : pc'[t] # "window"
    BY <1>6 DEF CloseConflict, Closing, Answer, WindowInv, TypeOK
  <2> QED
    BY <2>1, <2>2, <2>3, MissedKeepsPause
<1>7. ASSUME NEW r \in Request, CloseSkipped(r)
      PROVE  PauseInv'
  BY <1>7, AnswerKeepsPause DEF CloseSkipped, miss_vars, pause_vars
<1>8. ASSUME NEW r \in Request, CloseUnconfirmed(r)
      PROVE  PauseInv'
  <2>1. Missed(user[r]) /\ user[r] \in User
    BY <1>8 DEF CloseUnconfirmed, TypeOK
  <2>2. now' = now /\ last_activity' = now
    BY <1>8 DEF CloseUnconfirmed, Answer
  <2>3. \A t \in Request : pc'[t] # "window"
    BY <1>8 DEF CloseUnconfirmed, Closing, Answer, WindowInv, TypeOK
  <2> QED
    BY <2>1, <2>2, <2>3, MissedKeepsPause
<1>9. ASSUME NEW r \in Request, CloseCancelled(r)
      PROVE  PauseInv'
  BY <1>9, AnswerKeepsPause DEF CloseCancelled, miss_vars, pause_vars
<1>10. ASSUME NEW r \in Request, CloseConfirmed(r)
      PROVE  PauseInv'
  BY <1>10, FrameKeepsPause DEF CloseConfirmed, TypeOK
<1>11. ASSUME NEW r \in Request, VerifyEnds(r)
      PROVE  PauseInv'
  BY <1>11, AnswerKeepsPause DEF VerifyEnds, miss_vars, pause_vars
<1>12. ASSUME NEW r \in Request, WaitEnds(r)
      PROVE  PauseInv'
  BY <1>12, FrameKeepsPause DEF WaitEnds, request_vars, miss_vars, pause_vars
<1>13. ASSUME NEW r \in Request, NoKeyboards(r)
      PROVE  PauseInv'
  BY <1>13, FrameKeepsPause DEF NoKeyboards, request_vars, miss_vars, pause_vars
<1>14. ASSUME NEW r \in Request, Cancel(r)
      PROVE  PauseInv'
  BY <1>14, FrameKeepsPause DEF Cancel, miss_vars, pause_vars
<1>15. CASE PressEnter
  BY <1>15, FrameKeepsPause DEF PressEnter, request_vars, miss_vars, pause_vars
<1>16. CASE PressEsc
  BY <1>16, FrameKeepsPause DEF PressEsc, request_vars, miss_vars, pause_vars
<1>17. CASE PressOther
  BY <1>17, FrameKeepsPause DEF PressOther, request_vars, miss_vars, pause_vars
<1>18. CASE Tick
  <2>1. /\ now \in Nat /\ last_activity \in Nat /\ forgotten \in SUBSET User
        /\ user \in [Request -> User]
        /\ \A v \in User : declared[v] \in Nat /\ promised[v] \in Int
    BY DEF TypeOK
  <2>2. /\ now' = now + 1 /\ last_activity' = last_activity
        /\ UNCHANGED <<pc, user, overlapped, confirm_paused, pause_vars>>
    BY <1>18 DEF Tick, request_vars, miss_vars, pause_vars
  <2>3. \A v \in User : PauseIsOver(v) => PauseIsOver(v)'
    BY <2>1, <2>2, ConstantsAssumption DEF PauseIsOver, pause_vars
  <2>4. \A v \in forgotten' : now' > declared'[v] + IDLE_TIMEOUT
    BY <2>1, <2>2, ConstantsAssumption DEF PauseInv, pause_vars
  <2>5. \A v \in User \ forgotten' : now' < promised'[v] => confirm_paused'[v] = promised'[v]
    BY <2>1, <2>2 DEF PauseInv, pause_vars
  <2>6. last_activity' <= now' /\ \A v \in User : declared'[v] <= last_activity'
    BY <2>1, <2>2 DEF PauseInv, pause_vars
  <2>7. \A q \in Request : pc'[q] = "window" /\ ~overlapped'[q] => PauseIsOver(user[q])'
    BY <2>1, <2>2, <2>3 DEF PauseInv
  <2> QED
    BY <2>4, <2>5, <2>6, <2>7 DEF PauseInv
<1>19. CASE IdleExit
  BY <1>19, ConstantsAssumption
     DEF IdleExit, TypeOK, WindowInv, PauseInv, PauseIsOver,
         request_vars, thread_vars, enter_vars
<1>20. CASE UNCHANGED vars
  BY <1>20, FrameKeepsPause DEF vars, request_vars, miss_vars, pause_vars
<1> QED
  BY <1>1, <1>2, <1>3, <1>4, <1>5, <1>6, <1>7, <1>8, <1>9, <1>10,
     <1>11, <1>12, <1>13, <1>14, <1>15, <1>16, <1>17, <1>18, <1>19, <1>20
     DEF Next, Coroutine
-----------------------------------------------------------------------------
(* The rate of windows that run out *)

\* The service stays until the misses it counts are too old to count
IdleOutlastsCount ==
  IDLE_TIMEOUT = 0 \/ IDLE_TIMEOUT >= CONFIRM_PAUSE_SECONDS

\* A power of two is positive: it is the number of subsets of some set.
LEMMA TwoExpPositive ==
  ASSUME NEW n \in Nat
  PROVE  2 ^ n \in Nat /\ 2 ^ n >= 1
<1>1. IsFiniteSet(1..n) /\ Cardinality(1..n) = n
  BY FS_Interval
<1>2. IsFiniteSet(SUBSET (1..n)) /\ Cardinality(SUBSET (1..n)) = 2 ^ n
  BY <1>1, FS_SUBSET
<1>3. Cardinality(SUBSET (1..n)) \in Nat
  BY <1>2, FS_CardinalityType
<1>4. Cardinality(SUBSET (1..n)) # 0
  <2>1. {} \in SUBSET (1..n)
    OBVIOUS
  <2> QED
    BY <1>2, <2>1, FS_EmptySet
<1> QED
  BY <1>2, <1>3, <1>4

\* No pause is shorter than the first one (_confirm_missed).
LEMMA PauseSecondsAtLeast ==
  ASSUME NEW n \in Nat
  PROVE  PauseSeconds(n) >= CONFIRM_PAUSE_SECONDS
<1> DEFINE factor == 2 ^ n
           seconds == CONFIRM_PAUSE_SECONDS * factor
<1>1. factor \in Nat /\ factor >= 1
  BY TwoExpPositive
<1>2. seconds \in Int /\ seconds >= CONFIRM_PAUSE_SECONDS
  <2> HIDE DEF factor
  <2>1. CONFIRM_PAUSE_SECONDS \in Nat
    BY ConstantsAssumption
  <2> QED
    BY <1>1, <2>1, Z3
<1> HIDE DEF seconds
<1>3. PauseSeconds(n) = IF seconds < CONFIRM_PAUSE_MAX_SECONDS
                          THEN seconds ELSE CONFIRM_PAUSE_MAX_SECONDS
  BY DEF PauseSeconds, seconds
<1> QED
  BY <1>2, <1>3, ConstantsAssumption

\* A miss of this moment is new to a numbered set and keeps it numbered
\* (_confirm_missed appends to a list, where two equal times stay two).
LEMMA FreshMiss ==
  ASSUME NEW S \in SUBSET Miss, IsFiniteSet(S), Numbered(S), now \in Nat
  PROVE  \E x \in Miss : /\ x.at = now /\ x \notin S
                         /\ WithMissNow(S) = S \cup {x}
                         /\ Numbered(S \cup {x})
<1> DEFINE same == {k \in S : k.at = now}
           x == [at |-> now, nr |-> Cardinality(same)]
<1>1. IsFiniteSet(same) /\ Cardinality(same) \in Nat
  BY FS_Subset, FS_CardinalityType
<1>2. x \in Miss /\ x.at = now /\ x.nr = Cardinality(same)
  BY <1>1 DEF Miss
<1>3. WithMissNow(S) = S \cup {x}
  BY DEF WithMissNow
<1>4. x \notin S
  <2> SUFFICES ASSUME x \in S PROVE FALSE
    OBVIOUS
  <2>1. x.nr < Cardinality({k \in S : k.at = x.at})
    BY DEF Numbered
  <2>2. {k \in S : k.at = x.at} = same
    BY <1>2
  <2> HIDE DEF x, same
  <2> QED
    BY <1>1, <1>2, <2>1, <2>2
<1>5. Numbered(S \cup {x})
  <2> SUFFICES ASSUME NEW m \in S \cup {x}
               PROVE  m.nr < Cardinality({k \in S \cup {x} : k.at = m.at})
    BY DEF Numbered
  <2> DEFINE before == {k \in S : k.at = m.at}
             after == {k \in S \cup {x} : k.at = m.at}
  <2>1. IsFiniteSet(S \cup {x})
    BY FS_AddElement
  <2>2. IsFiniteSet(after) /\ before \in SUBSET after
    BY <2>1, FS_Subset
  <2>3. Cardinality(before) <= Cardinality(after)
    BY <2>2, FS_Subset
  <2>4. Cardinality(before) \in Nat /\ Cardinality(after) \in Nat
    BY <2>2, FS_Subset, FS_CardinalityType
  <2>5. CASE m \in S
    <3>1. m.nr < Cardinality(before) /\ m.nr \in Nat
      BY <2>5 DEF Numbered, Miss
    <3> QED
      BY <2>3, <2>4, <3>1
  <2>6. CASE m = x
    <3>1. after = same \cup {x}
      BY <1>2, <2>6
    <3>2. x \notin same
      BY <1>4
    <3>3. Cardinality(same \cup {x}) = Cardinality(same) + 1
      <4> HIDE DEF x, same
      <4> QED
        BY <1>1, <3>2, FS_AddElement
    <3> HIDE DEF x, same, after
    <3>4. m.nr < Cardinality(after)
      BY <1>1, <1>2, <2>6, <3>1, <3>3
    <3> QED
      BY <3>4 DEF after
  <2> QED
    BY <2>5, <2>6
<1> HIDE DEF x
<1> QED
  BY <1>2, <1>3, <1>4, <1>5

\* One more miss is one more of those since t.
LEMMA SinceAdd ==
  ASSUME NEW S, IsFiniteSet(S), NEW x, NEW t \in Int, x.at >= t
  PROVE  /\ Cardinality(Since(S, t)) \in Nat
         /\ Cardinality(Since(S \cup {x}, t)) \in Nat
         /\ Cardinality(Since(S \cup {x}, t)) <= Cardinality(Since(S, t)) + 1
         /\ x \notin S
              => Cardinality(Since(S \cup {x}, t)) = Cardinality(Since(S, t)) + 1
<1>1. Since(S \cup {x}, t) = Since(S, t) \cup {x}
  BY DEF Since
<1>2. IsFiniteSet(Since(S, t))
  BY FS_Subset DEF Since
<1>3. x \notin S => x \notin Since(S, t)
  BY DEF Since
<1>4. Cardinality(Since(S, t)) \in Nat
  BY <1>2, FS_CardinalityType
<1>5. Cardinality(Since(S, t) \cup {x}) =
        IF x \in Since(S, t) THEN Cardinality(Since(S, t)) ELSE Cardinality(Since(S, t)) + 1
  BY <1>2, FS_AddElement
<1> QED
  BY <1>1, <1>3, <1>4, <1>5

\* _confirm_missed: a pause begins that outlasts every window that ran out so
\* far, or each of the recent counts grows by the one miss.
LEMMA MissedCounts ==
  ASSUME TypeOK, FiniteInv, RateInv, NEW u \in User, Missed(u)
  PROVE  /\ \A v \in User : /\ Numbered(confirm_misses'[v])
                            /\ Cardinality(confirm_misses'[v]) < CONFIRM_MISSES
         /\ \A v \in User \ {u} : /\ confirm_misses'[v] = confirm_misses[v]
                                  /\ confirm_paused'[v] = confirm_paused[v]
         /\ \/ confirm_paused'[u] - CONFIRM_PAUSE_SECONDS >= now
            \/ /\ confirm_paused'[u] = confirm_paused[u]
               /\ \A t \in LastTimes :
                    Cardinality(Since(confirm_misses'[u], t)) =
                      Cardinality(Since(confirm_misses[u], t)) + 1
<1> DEFINE S == confirm_misses[u]
           R == Recent(S)
           misses == WithMissNow(R)
           until == now + PauseSeconds(confirm_pauses[u])
<1>1. now \in Nat /\ S \in SUBSET Miss /\ IsFiniteSet(S) /\ Numbered(S)
  BY DEF TypeOK, FiniteInv, RateInv
<1>2. R \in SUBSET Miss /\ IsFiniteSet(R)
  BY <1>1, RecentType
<1>3. Numbered(R)
  <2> SUFFICES ASSUME NEW m \in R
               PROVE  m.nr < Cardinality({k \in R : k.at = m.at})
    BY DEF Numbered
  <2>1. {k \in R : k.at = m.at} = {k \in S : k.at = m.at}
    BY DEF Recent
  <2>2. m \in S
    BY DEF Recent
  <2> QED
    BY <1>1, <2>1, <2>2 DEF Numbered
<1>4. PICK x \in Miss : x.at = now /\ x \notin R /\ misses = R \cup {x} /\ Numbered(R \cup {x})
  BY <1>1, <1>2, <1>3, FreshMiss
<1>5. until - CONFIRM_PAUSE_SECONDS >= now
  <2>1. confirm_pauses[u] \in Nat
    BY DEF TypeOK
  <2>2. PauseSeconds(confirm_pauses[u]) \in Int
    BY <2>1, PauseSecondsBound
  <2>3. PauseSeconds(confirm_pauses[u]) >= CONFIRM_PAUSE_SECONDS
    BY <2>1, PauseSecondsAtLeast
  <2> QED
    BY <1>1, <2>2, <2>3, ConstantsAssumption
<1>6. ASSUME NEW t \in LastTimes
      PROVE  Cardinality(Since(misses, t)) = Cardinality(Since(S, t)) + 1
  <2>1. t \in Int /\ t <= now /\ t > now - CONFIRM_PAUSE_SECONDS
    BY <1>1, ConstantsAssumption DEF LastTimes
  <2>2. Since(R, t) = Since(S, t)
    <3>1. \A m \in S : m.at \in Nat
      BY <1>1 DEF Miss
    <3> HIDE DEF S
    <3> QED
      BY <1>1, <2>1, <3>1, ConstantsAssumption DEF Since, Recent
  <2>3. x.at >= t
    BY <1>1, <1>4, <2>1
  <2> HIDE DEF R, S, misses
  <2>4. Cardinality(Since(R \cup {x}, t)) = Cardinality(Since(R, t)) + 1
    BY <1>2, <1>4, <2>1, <2>3, SinceAdd
  <2> QED
    BY <1>4, <2>2, <2>4
<1>7. Cardinality({}) < CONFIRM_MISSES /\ Numbered({})
  BY FS_EmptySet, ConstantsAssumption DEF Numbered
<1>8. Cardinality(misses) \in Nat
  BY <1>2, <1>4, FS_AddElement, FS_CardinalityType
<1>9. \A v \in User : /\ Numbered(confirm_misses[v])
                      /\ Cardinality(confirm_misses[v]) < CONFIRM_MISSES
  BY DEF RateInv
<1>10. Numbered(misses)
  BY <1>4
<1>11. \/ /\ ~TooMany(misses)
          /\ confirm_misses' = [confirm_misses EXCEPT ![u] = misses]
          /\ UNCHANGED confirm_paused
       \/ /\ confirm_misses' = [confirm_misses EXCEPT ![u] = {}]
          /\ confirm_paused' = [confirm_paused EXCEPT ![u] = until]
  BY DEF Missed
<1>12. confirm_misses \in [User -> SUBSET Miss] /\ confirm_paused \in [User -> Int]
  BY DEF TypeOK
<1>13. ~TooMany(misses) => Cardinality(misses) < CONFIRM_MISSES
  BY <1>8, ConstantsAssumption DEF TooMany
<1> HIDE DEF misses, until, R
<1>14. CASE /\ ~TooMany(misses)
            /\ confirm_misses' = [confirm_misses EXCEPT ![u] = misses]
            /\ UNCHANGED confirm_paused
  BY <1>6, <1>9, <1>10, <1>12, <1>13, <1>14
<1>15. CASE /\ confirm_misses' = [confirm_misses EXCEPT ![u] = {}]
            /\ confirm_paused' = [confirm_paused EXCEPT ![u] = until]
  BY <1>5, <1>7, <1>9, <1>12, <1>15
<1> QED
  BY <1>11, <1>14, <1>15

\* A step that counts nothing and opens no window keeps the rate.
LEMMA FrameKeepsRate ==
  ASSUME TypeOK, RateInv, RateLimited,
         UNCHANGED <<now, confirm_misses, confirm_paused, lapsed>>,
         last_activity' \in {last_activity, now},
         \A t \in Request : pc'[t] = "window" => pc[t] = "window" /\ user'[t] = user[t]
  PROVE  RateInv' /\ RateLimited'
<1>1. last_activity \in Nat /\ now \in Nat /\ last_activity <= now
  BY DEF TypeOK, RateInv
<1>2. last_activity' <= now' /\ last_activity <= last_activity'
  BY <1>1
<1>3. \A u \in User : \A m \in lapsed[u] : m.at \in Nat
  BY DEF TypeOK, Miss
<1>4. \A u \in User : \A m \in lapsed'[u] :
        m.at <= last_activity' /\ now' - m.at < CONFIRM_PAUSE_SECONDS
  BY <1>1, <1>2, <1>3 DEF RateInv
<1>5. \A u \in User : CountedSince(u)'
  BY DEF RateInv, CountedSince, LastTimes
<1>6. \A r \in Request : pc'[r] = "window" => Cardinality(lapsed'[user'[r]]) < CONFIRM_MISSES
  BY DEF RateInv
<1>7. \A u \in User : /\ Numbered(confirm_misses'[u])
                      /\ Cardinality(confirm_misses'[u]) < CONFIRM_MISSES
  BY DEF RateInv
<1>8. RateLimited'
  BY DEF RateLimited
<1> QED
  BY <1>2, <1>4, <1>5, <1>6, <1>7, <1>8 DEF RateInv

\* A user who is not paused has fewer windows behind them than the limit
\* (verify_confirmed, _confirm_missed).
LEMMA NotPausedMayMiss ==
  ASSUME TypeOK, FiniteInv, RateInv, NEW u \in User, ~Paused(u)
  PROVE  Cardinality(lapsed[u]) < CONFIRM_MISSES
<1> DEFINE t == now - CONFIRM_PAUSE_SECONDS + 1
<1>1. now \in Nat /\ confirm_paused[u] \in Int /\ confirm_paused[u] <= now
  BY DEF TypeOK, Paused
<1>2. t \in LastTimes /\ t \in Int /\ t > confirm_paused[u] - CONFIRM_PAUSE_SECONDS
  BY <1>1, ConstantsAssumption DEF LastTimes
<1>3. Cardinality(Since(lapsed[u], t)) <= Cardinality(Since(confirm_misses[u], t))
  BY <1>2 DEF RateInv, CountedSince, LastTimes
<1>4. \A m \in lapsed[u] : m.at \in Nat /\ now - m.at < CONFIRM_PAUSE_SECONDS
  BY DEF TypeOK, Miss, RateInv
<1>5. Since(lapsed[u], t) = lapsed[u]
  BY <1>1, <1>4, ConstantsAssumption DEF Since
<1>6. Cardinality(Since(confirm_misses[u], t)) <= Cardinality(confirm_misses[u])
  BY FS_Subset DEF FiniteInv, Since
<1>7. /\ Cardinality(confirm_misses[u]) \in Nat
      /\ Cardinality(Since(confirm_misses[u], t)) \in Nat
      /\ Cardinality(lapsed[u]) \in Nat
  BY FS_Subset, FS_CardinalityType DEF FiniteInv, Since
<1>8. Cardinality(confirm_misses[u]) < CONFIRM_MISSES
  BY DEF RateInv
<1> HIDE DEF t
<1> QED
  BY <1>3, <1>5, <1>6, <1>7, <1>8, ConstantsAssumption

\* A window that runs out is a miss as well: it was counted on when it opened
\* (verify_confirmed after wait_for_enter).
LEMMA LapseKeepsRate ==
  ASSUME TypeOK, FiniteInv, WindowInv, RateInv, RateLimited, NEW r \in Request,
         Closing(r), Missed(user[r]), Lapse(user[r]), Answer(r), UNCHANGED <<now, user>>
  PROVE  RateInv' /\ RateLimited'
<1> DEFINE u == user[r]
           y == [at |-> now, nr |-> Cardinality({m \in lapsed[u] : m.at = now})]
<1>1. u \in User /\ now \in Nat /\ IsFiniteSet(lapsed[u])
  BY DEF TypeOK, FiniteInv
<1>2. lapsed' = [lapsed EXCEPT ![u] = lapsed[u] \cup {y}] /\ lapsed \in [User -> SUBSET Miss]
  BY DEF Lapse, WithMissNow, TypeOK
<1>3. /\ lapsed'[u] = lapsed[u] \cup {y}
      /\ \A v \in User \ {u} : lapsed'[v] = lapsed[v]
  BY <1>1, <1>2
<1>4. y.at = now
  OBVIOUS
<1>5. last_activity' = now
  BY DEF Answer
<1>6. \A t \in Request : pc'[t] # "window"
  BY DEF Closing, Answer, WindowInv, TypeOK
<1>7. /\ \A v \in User : /\ Numbered(confirm_misses'[v])
                         /\ Cardinality(confirm_misses'[v]) < CONFIRM_MISSES
      /\ \A v \in User \ {u} : /\ confirm_misses'[v] = confirm_misses[v]
                               /\ confirm_paused'[v] = confirm_paused[v]
      /\ \/ confirm_paused'[u] - CONFIRM_PAUSE_SECONDS >= now
         \/ /\ confirm_paused'[u] = confirm_paused[u]
            /\ \A t \in LastTimes :
                 Cardinality(Since(confirm_misses'[u], t)) =
                   Cardinality(Since(confirm_misses[u], t)) + 1
  BY <1>1, MissedCounts
<1>8. confirm_paused'[u] \in Int /\ IsFiniteSet(confirm_misses[u])
  BY <1>1, MissedEffect DEF FiniteInv
<1> HIDE DEF u, y
<1>9. \A v \in User : \A m \in lapsed'[v] :
        m.at <= last_activity' /\ now' - m.at < CONFIRM_PAUSE_SECONDS
  <2> SUFFICES ASSUME NEW v \in User, NEW m \in lapsed'[v]
               PROVE  m.at <= now /\ now - m.at < CONFIRM_PAUSE_SECONDS
    BY <1>5
  <2>1. CASE m \in lapsed[v]
    <3>1. m.at \in Nat /\ last_activity \in Nat
      BY <2>1 DEF TypeOK, Miss
    <3> QED
      BY <1>1, <2>1, <3>1 DEF RateInv
  <2>2. CASE m = y
    BY <1>1, <1>4, <2>2, ConstantsAssumption
  <2> QED
    BY <1>3, <2>1, <2>2
<1>10. \A v \in User : CountedSince(v)'
  <2> SUFFICES ASSUME NEW v \in User, NEW t \in LastTimes,
                      t > confirm_paused'[v] - CONFIRM_PAUSE_SECONDS
               PROVE  Cardinality(Since(lapsed'[v], t)) <= Cardinality(Since(confirm_misses'[v], t))
    BY DEF CountedSince, LastTimes
  <2>1. t \in Int /\ t <= now
    BY <1>1, ConstantsAssumption DEF LastTimes
  <2>2. CASE v # u
    BY <1>3, <1>7, <2>2 DEF RateInv, CountedSince
  <2>3. CASE v = u
    <3>1. /\ confirm_paused'[u] = confirm_paused[u]
          /\ Cardinality(Since(confirm_misses'[u], t)) =
               Cardinality(Since(confirm_misses[u], t)) + 1
      BY <1>1, <1>7, <1>8, <2>1, <2>3, ConstantsAssumption
    <3>2. Cardinality(Since(lapsed[u], t)) <= Cardinality(Since(confirm_misses[u], t))
      BY <1>1, <2>3, <3>1 DEF RateInv, CountedSince
    <3>3. /\ Cardinality(Since(lapsed'[u], t)) <= Cardinality(Since(lapsed[u], t)) + 1
          /\ Cardinality(Since(lapsed'[u], t)) \in Nat
          /\ Cardinality(Since(lapsed[u], t)) \in Nat
      BY <1>1, <1>3, <1>4, <2>1, SinceAdd
    <3>4. Cardinality(Since(confirm_misses[u], t)) \in Nat
      BY <1>8, FS_Subset, FS_CardinalityType DEF Since
    <3> QED
      BY <2>3, <3>1, <3>2, <3>3, <3>4
  <2> QED
    BY <2>2, <2>3
<1>11. RateLimited'
  <2>1. Cardinality(lapsed[u]) < CONFIRM_MISSES /\ Cardinality(lapsed[u]) \in Nat
    BY <1>1, FS_CardinalityType DEF RateInv, Closing, u
  <2>2. Cardinality(lapsed[u] \cup {y}) =
          IF y \in lapsed[u] THEN Cardinality(lapsed[u]) ELSE Cardinality(lapsed[u]) + 1
    BY <1>1, FS_AddElement
  <2>3. Cardinality(lapsed'[u]) <= CONFIRM_MISSES
    BY <1>3, <2>1, <2>2, ConstantsAssumption
  <2> QED
    BY <1>3, <2>3 DEF RateLimited
<1>12. last_activity' <= now'
  BY <1>1, <1>5
<1> QED
  BY <1>6, <1>7, <1>9, <1>10, <1>11, <1>12 DEF RateInv

\* A request that meets an open window is a miss without a window
\* (verify_confirmed, CONFIRM_CONFLICT).
LEMMA ConflictKeepsRate ==
  ASSUME TypeOK, FiniteInv, RateInv, RateLimited, NEW r \in Request, Conflict(r)
  PROVE  RateInv' /\ RateLimited'
<1> DEFINE u == user[r]
<1>1. u \in User /\ now \in Nat /\ last_activity \in Nat /\ IsFiniteSet(confirm_misses[u])
  BY DEF TypeOK, FiniteInv
<1>2. UNCHANGED <<now, user, lapsed>> /\ last_activity' = now
  BY DEF Conflict, Answer
<1>3. \A t \in Request : pc'[t] = "window" => pc[t] = "window"
  BY DEF Conflict, Answer, TypeOK
<1>4. /\ \A v \in User : /\ Numbered(confirm_misses'[v])
                         /\ Cardinality(confirm_misses'[v]) < CONFIRM_MISSES
      /\ \A v \in User \ {u} : /\ confirm_misses'[v] = confirm_misses[v]
                               /\ confirm_paused'[v] = confirm_paused[v]
      /\ \/ confirm_paused'[u] - CONFIRM_PAUSE_SECONDS >= now
         \/ /\ confirm_paused'[u] = confirm_paused[u]
            /\ \A t \in LastTimes :
                 Cardinality(Since(confirm_misses'[u], t)) =
                   Cardinality(Since(confirm_misses[u], t)) + 1
  BY <1>1, MissedCounts DEF Conflict
<1>5. confirm_paused'[u] \in Int
  BY <1>1, MissedEffect DEF Conflict
<1> HIDE DEF u
<1>6. \A v \in User : \A m \in lapsed'[v] :
        m.at <= last_activity' /\ now' - m.at < CONFIRM_PAUSE_SECONDS
  <2>1. \A v \in User : \A m \in lapsed[v] : m.at \in Nat
    BY DEF TypeOK, Miss
  <2> QED
    BY <1>1, <1>2, <2>1 DEF RateInv
<1>7. \A v \in User : CountedSince(v)'
  <2> SUFFICES ASSUME NEW v \in User, NEW t \in LastTimes,
                      t > confirm_paused'[v] - CONFIRM_PAUSE_SECONDS
               PROVE  Cardinality(Since(lapsed[v], t)) <= Cardinality(Since(confirm_misses'[v], t))
    BY <1>2 DEF CountedSince, LastTimes
  <2>1. t \in Int /\ t <= now
    BY <1>1, ConstantsAssumption DEF LastTimes
  <2>2. CASE v # u
    BY <1>4, <2>2 DEF RateInv, CountedSince
  <2>3. CASE v = u
    <3>1. /\ confirm_paused'[u] = confirm_paused[u]
          /\ Cardinality(Since(confirm_misses'[u], t)) =
               Cardinality(Since(confirm_misses[u], t)) + 1
      BY <1>1, <1>4, <1>5, <2>1, <2>3, ConstantsAssumption
    <3>2. Cardinality(Since(lapsed[u], t)) <= Cardinality(Since(confirm_misses[u], t))
      BY <1>1, <2>3, <3>1 DEF RateInv, CountedSince
    <3>3. /\ Cardinality(Since(confirm_misses[u], t)) \in Nat
          /\ Cardinality(Since(lapsed[u], t)) \in Nat
      BY <1>1, FS_Subset, FS_CardinalityType DEF Since, FiniteInv
    <3> QED
      BY <2>3, <3>1, <3>2, <3>3
  <2> QED
    BY <2>2, <2>3
<1>8. RateLimited' /\ last_activity' <= now'
  BY <1>1, <1>2 DEF RateLimited
<1> QED
  BY <1>2, <1>3, <1>4, <1>6, <1>7, <1>8 DEF RateInv

\* Time passes: windows and misses grow old together.
LEMMA TickKeepsRate ==
  ASSUME TypeOK, FiniteInv, RateInv, RateLimited, Tick
  PROVE  RateInv' /\ RateLimited'
<1> DEFINE left(u) == {m \in lapsed[u] : now' - m.at < CONFIRM_PAUSE_SECONDS}
<1>1. /\ now \in Nat /\ now' = now + 1 /\ lapsed' = [u \in User |-> left(u)]
      /\ UNCHANGED <<pc, user, confirm_misses, confirm_paused, last_activity>>
  <2>1. now \in Nat /\ now' = now + 1
    BY DEF TypeOK, Tick
  <2>2. lapsed' = [u \in User |-> left(u)]
    BY DEF Tick
  <2> QED
    BY <2>1, <2>2 DEF Tick, request_vars, miss_vars, pause_vars
<1>2. \A u \in User : /\ lapsed'[u] = left(u)
                      /\ left(u) \in SUBSET lapsed[u]
                      /\ IsFiniteSet(lapsed[u])
                      /\ \A m \in lapsed[u] : m.at \in Nat
  BY <1>1 DEF TypeOK, FiniteInv, Miss
<1>3. \A u \in User : /\ Cardinality(left(u)) \in Nat
                      /\ Cardinality(lapsed[u]) \in Nat
                      /\ Cardinality(left(u)) <= Cardinality(lapsed[u])
  BY <1>2, FS_Subset, FS_CardinalityType
<1>4. \A u \in User : CountedSince(u)'
  <2> SUFFICES ASSUME NEW u \in User, NEW t \in LastTimes',
                      t > confirm_paused[u] - CONFIRM_PAUSE_SECONDS
               PROVE  Cardinality(Since(left(u), t)) <= Cardinality(Since(confirm_misses[u], t))
    BY <1>1, <1>2 DEF CountedSince, LastTimes
  <2>1. t \in Int /\ t <= now + 1 /\ t > now + 1 - CONFIRM_PAUSE_SECONDS
    BY <1>1, ConstantsAssumption DEF LastTimes
  <2>2. IsFiniteSet(Since(lapsed[u], t)) /\ Since(left(u), t) \in SUBSET Since(lapsed[u], t)
    BY <1>2, FS_Subset DEF Since
  <2>3. /\ Cardinality(Since(left(u), t)) \in Nat
        /\ Cardinality(Since(lapsed[u], t)) \in Nat
        /\ Cardinality(Since(left(u), t)) <= Cardinality(Since(lapsed[u], t))
    BY <2>2, FS_Subset, FS_CardinalityType
  <2>4. Cardinality(Since(confirm_misses[u], t)) \in Nat
    BY FS_Subset, FS_CardinalityType DEF Since, FiniteInv
  <2>5. CASE t <= now
    <3>1. t \in LastTimes
      BY <1>1, <2>1, <2>5, ConstantsAssumption DEF LastTimes
    <3>2. Cardinality(Since(lapsed[u], t)) <= Cardinality(Since(confirm_misses[u], t))
      BY <3>1 DEF RateInv, CountedSince
    <3> QED
      BY <2>3, <2>4, <3>2
  <2>6. CASE t = now + 1
    <3>1. \A m \in lapsed[u] : m.at <= now
      <4>1. \A m \in lapsed[u] : m.at \in Nat /\ m.at <= last_activity
        BY <1>1, <1>2 DEF RateInv, TypeOK, Miss
      <4>2. now \in Nat /\ last_activity \in Nat /\ last_activity <= now
        BY DEF RateInv, TypeOK
      <4> QED
        BY <4>1, <4>2
    <3>2. Since(lapsed[u], t) = {}
      BY <1>1, <1>2, <2>6, <3>1 DEF Since
    <3>3. Cardinality(Since(lapsed[u], t)) = 0
      BY <3>2, FS_EmptySet
    <3> QED
      BY <2>3, <2>4, <3>3
  <2> QED
    BY <1>1, <2>1, <2>5, <2>6
<1>5. RateLimited'
  BY <1>2, <1>3, ConstantsAssumption DEF RateLimited
<1>6. \A r \in Request : pc'[r] = "window" => Cardinality(lapsed'[user'[r]]) < CONFIRM_MISSES
  <2>1. \A r \in Request : user[r] \in User
    BY DEF TypeOK
  <2> HIDE DEF left
  <2>2. \A r \in Request : pc[r] = "window" => Cardinality(left(user[r])) < CONFIRM_MISSES
    BY <1>3, <2>1, ConstantsAssumption DEF RateInv
  <2> QED
    BY <1>1, <1>2, <2>1, <2>2
<1>7. \A u \in User : \A m \in lapsed'[u] :
        m.at <= last_activity' /\ now' - m.at < CONFIRM_PAUSE_SECONDS
  BY <1>1, <1>2 DEF RateInv
<1>8. last_activity' <= now'
  BY <1>1 DEF RateInv, TypeOK
<1> QED
  BY <1>1, <1>4, <1>5, <1>6, <1>7, <1>8 DEF RateInv

\* When the service exits, no window counts any more.
LEMMA IdleExitKeepsRate ==
  ASSUME IdleOutlastsCount, TypeOK, RateInv, RateLimited, IdleExit
  PROVE  RateInv' /\ RateLimited'
<1>1. now \in Nat /\ last_activity \in Nat /\ now - last_activity > CONFIRM_PAUSE_SECONDS
  BY ConstantsAssumption DEF TypeOK, IdleExit, IdleOutlastsCount
<1>2. \A u \in User : \A m \in lapsed[u] : m.at \in Nat
  BY DEF TypeOK, Miss
<1>3. \A u \in User : lapsed[u] = {}
  BY <1>1, <1>2, ConstantsAssumption DEF RateInv
<1>4. /\ UNCHANGED <<now, pc, user, lapsed>> /\ last_activity' = now
      /\ confirm_misses' = [u \in User |-> {}]
  BY DEF IdleExit, request_vars
<1>5. \A u \in User : CountedSince(u)'
  <2>1. \A u \in User, t \in Int : Since(lapsed'[u], t) = {} /\ Since(confirm_misses'[u], t) = {}
    BY <1>3, <1>4 DEF Since
  <2>2. \A t \in LastTimes' : t \in Int
    BY <1>1, <1>4, ConstantsAssumption DEF LastTimes
  <2>3. Cardinality({}) <= Cardinality({})
    BY FS_EmptySet
  <2> QED
    BY <2>1, <2>2, <2>3 DEF CountedSince
<1>6. \A u \in User : Numbered(confirm_misses'[u]) /\ Cardinality(confirm_misses'[u]) < CONFIRM_MISSES
  BY <1>4, FS_EmptySet, ConstantsAssumption DEF Numbered
<1>7. RateLimited' /\ last_activity' <= now'
  BY <1>1, <1>4 DEF RateLimited
<1>8. \A u \in User : \A m \in lapsed'[u] :
        m.at <= last_activity' /\ now' - m.at < CONFIRM_PAUSE_SECONDS
  BY <1>3, <1>4
<1>9. \A r \in Request : pc'[r] = "window" => Cardinality(lapsed'[user'[r]]) < CONFIRM_MISSES
  BY <1>4 DEF RateInv
<1> QED
  BY <1>5, <1>6, <1>7, <1>8, <1>9 DEF RateInv

\* Enter forgives what went before (verify_confirmed).
LEMMA ConfirmedKeepsRate ==
  ASSUME TypeOK, FiniteInv, WindowInv, RateInv, RateLimited,
         NEW r \in Request, CloseConfirmed(r)
  PROVE  RateInv' /\ RateLimited'
<1> DEFINE u == user[r]
<1>1. /\ u \in User
      /\ UNCHANGED <<now, user, confirm_paused, last_activity>>
      /\ confirm_misses' = [confirm_misses EXCEPT ![u] = {}]
      /\ lapsed' = [lapsed EXCEPT ![u] = {}]
  BY DEF CloseConfirmed, TypeOK
<1>2. /\ confirm_misses'[u] = {} /\ lapsed'[u] = {}
      /\ \A v \in User \ {u} : confirm_misses'[v] = confirm_misses[v] /\ lapsed'[v] = lapsed[v]
  BY <1>1 DEF TypeOK
<1>3. \A t \in Request : pc'[t] # "window"
  BY DEF CloseConfirmed, Closing, WindowInv, TypeOK
<1>4. Cardinality({}) = 0
  BY FS_EmptySet
<1> HIDE DEF u
<1>5. \A v \in User : CountedSince(v)'
  <2>1. \A t : Since(lapsed'[u], t) = {} /\ Since(confirm_misses'[u], t) = {}
    BY <1>2 DEF Since
  <2>2. ASSUME NEW v \in User, v = u PROVE CountedSince(v)'
    <3>1. 0 <= 0
      OBVIOUS
    <3> QED
      BY <1>4, <2>1, <2>2, <3>1 DEF CountedSince
  <2>3. ASSUME NEW v \in User, v # u PROVE CountedSince(v)'
    BY <1>1, <1>2, <2>3 DEF RateInv, CountedSince, LastTimes
  <2>4. ASSUME NEW v \in User PROVE CountedSince(v)'
    <3>1. CASE v = u
      BY <2>2, <3>1
    <3>2. CASE v # u
      BY <2>3, <3>2
    <3> QED
      BY <3>1, <3>2
  <2> QED
    BY <2>4
<1>6. \A v \in User : Numbered(confirm_misses'[v]) /\ Cardinality(confirm_misses'[v]) < CONFIRM_MISSES
  <2>1. Numbered({}) /\ Cardinality({}) < CONFIRM_MISSES
    BY <1>4, ConstantsAssumption DEF Numbered
  <2> QED
    BY <1>2, <2>1 DEF RateInv
<1>7. RateLimited'
  BY <1>2, <1>4, ConstantsAssumption DEF RateLimited
<1>8. \A v \in User : \A m \in lapsed'[v] :
        m.at <= last_activity' /\ now' - m.at < CONFIRM_PAUSE_SECONDS
  BY <1>1, <1>2 DEF RateInv
<1>9. last_activity' <= now'
  BY <1>1 DEF RateInv
<1> QED
  BY <1>3, <1>5, <1>6, <1>7, <1>8, <1>9 DEF RateInv

\* Every step keeps the count of the windows behind that of the misses.
LEMMA RateStep ==
  ASSUME IdleOutlastsCount, TypeOK, FiniteInv, WindowInv, RateInv, RateLimited, [Next]_vars
  PROVE  RateInv' /\ RateLimited'
<1>1. ASSUME NEW r \in Request, NEW u \in User, VerifyConfirmed(r, u)
      PROVE  RateInv' /\ RateLimited'
  <2>1. \A t \in Request : pc'[t] = "window" => pc[t] = "window" /\ user'[t] = user[t]
    BY <1>1 DEF VerifyConfirmed, TypeOK
  <2> QED
    BY <1>1, <2>1, FrameKeepsRate DEF VerifyConfirmed, miss_vars, pause_vars
<1>2. ASSUME NEW r \in Request,
             Answer(r), UNCHANGED <<now, user, confirm_misses, confirm_paused, lapsed>>
      PROVE  RateInv' /\ RateLimited'
  <2>1. \A t \in Request : pc'[t] = "window" => pc[t] = "window" /\ user'[t] = user[t]
    BY <1>2 DEF Answer, TypeOK
  <2>2. last_activity' = now
    BY <1>2 DEF Answer
  <2> QED
    BY <1>2, <2>1, <2>2, FrameKeepsRate
<1>3. ASSUME NEW r \in Request,
             Refuse(r) \/ AnswerPaused(r) \/ CloseSkipped(r) \/ CloseCancelled(r) \/ VerifyEnds(r)
      PROVE  RateInv' /\ RateLimited'
  <2>1. Answer(r) /\ UNCHANGED <<now, user, confirm_misses, confirm_paused, lapsed>>
    BY <1>3 DEF Refuse, AnswerPaused, CloseSkipped, CloseCancelled, VerifyEnds, miss_vars, pause_vars
  <2> QED
    BY <1>2, <2>1
<1>4. ASSUME NEW r \in Request, Conflict(r)
      PROVE  RateInv' /\ RateLimited'
  BY <1>4, ConflictKeepsRate
<1>5. ASSUME NEW r \in Request, OpenWindow(r)
      PROVE  RateInv' /\ RateLimited'
  <2>1. user[r] \in User /\ ~Paused(user[r])
    BY <1>5 DEF OpenWindow, TypeOK
  <2>2. Cardinality(lapsed[user[r]]) < CONFIRM_MISSES
    BY <2>1, NotPausedMayMiss
  <2>3. /\ UNCHANGED <<now, user, confirm_misses, confirm_paused, lapsed, last_activity>>
        /\ pc' = [pc EXCEPT ![r] = "window"]
    BY <1>5 DEF OpenWindow, miss_vars, pause_vars
  <2>4. \A t \in Request : pc'[t] = "window" => Cardinality(lapsed[user[t]]) < CONFIRM_MISSES
    BY <2>2, <2>3 DEF TypeOK, RateInv
  <2>5. \A u \in User : CountedSince(u)'
    BY <2>3 DEF RateInv, CountedSince, LastTimes
  <2> QED
    BY <2>3, <2>4, <2>5 DEF RateInv, RateLimited
<1>6. ASSUME NEW r \in Request, CloseConflict(r) \/ CloseUnconfirmed(r)
      PROVE  RateInv' /\ RateLimited'
  BY <1>6, LapseKeepsRate DEF CloseConflict, CloseUnconfirmed
<1>7. ASSUME NEW r \in Request, CloseConfirmed(r)
      PROVE  RateInv' /\ RateLimited'
  BY <1>7, ConfirmedKeepsRate
<1>8. ASSUME UNCHANGED <<now, pc, user, last_activity, confirm_misses, confirm_paused, lapsed>>
      PROVE  RateInv' /\ RateLimited'
  BY <1>8, FrameKeepsRate
<1>9. ASSUME \/ \E r \in Request : WaitEnds(r) \/ NoKeyboards(r) \/ Cancel(r)
             \/ PressEnter \/ PressEsc \/ PressOther \/ UNCHANGED vars
      PROVE  RateInv' /\ RateLimited'
  BY <1>8, <1>9 DEF WaitEnds, NoKeyboards, Cancel, PressEnter, PressEsc, PressOther,
     vars, request_vars, miss_vars, pause_vars
<1> QED
  BY <1>1, <1>3, <1>4, <1>5, <1>6, <1>7, <1>9, TickKeepsRate, IdleExitKeepsRate
     DEF Next, Coroutine
-----------------------------------------------------------------------------
(* The theorems *)

\* IInv holds in every reachable state: the parts above, one step at a time.
LEMMA Invariance == Spec => []IInv
<1>1. Init => IInv
  <2> SUFFICES ASSUME Init PROVE IInv
    OBVIOUS
  <2>1. TypeOK
    BY ConstantsAssumption DEF Init, TypeOK
  <2>2. FiniteInv
    BY FS_EmptySet DEF Init, FiniteInv
  <2>3. WindowInv
    BY ConstantsAssumption DEF Init, WindowInv
  <2>4. EnterInv /\ OneScanPerEnter
    BY DEF Init, EnterInv, OneScanPerEnter
  <2>5. OverlapInv /\ OverlappedIsRefused
    BY DEF Init, OverlapInv, OverlappedIsRefused
  <2> QED
    BY <2>1, <2>2, <2>3, <2>4, <2>5 DEF IInv
<1>2. IInv /\ [Next]_vars => IInv'
  BY TypeStep, WindowStep, EnterStep, OverlapStep DEF IInv
<1> QED
  BY <1>1, <1>2, PTL DEF Spec

\* The variables keep their types, for every number of users and requests.
THEOREM TypeCorrect == Spec => []TypeOK
<1>1. IInv => TypeOK
  BY DEF IInv
<1> QED
  BY <1>1, Invariance, PTL

\* No press of Enter leads to two scans (verify_confirmed).
THEOREM EnterIsUsedOnce == Spec => []OneScanPerEnter
<1>1. IInv => OneScanPerEnter
  BY DEF IInv
<1> QED
  BY <1>1, Invariance, PTL

\* A request whose window another one met never gets a scan (verify_confirmed).
THEOREM BothAreRefused == Spec => []OverlappedIsRefused
<1>1. IInv => OverlappedIsRefused
  BY DEF IInv
<1> QED
  BY <1>1, Invariance, PTL

\* While face is paused for a user no window opens and no scan starts for
\* them; only an idle exit of the service ends a pause before its time, and not
\* before IDLE_TIMEOUT has gone by since it was declared (verify_confirmed,
\* _confirm_missed, serve).
THEOREM PauseIsHonoured == Spec => PauseHonoured
<1>1. Init => PauseInv
  BY ConstantsAssumption DEF Init, PauseInv
<1>2. IInv /\ PauseInv /\ [Next]_vars => PauseInv'
  BY PauseStep DEF IInv
<1>3. IInv /\ PauseInv /\ [Next]_vars
        => [\A r \in Request :
              pc[r] # pc'[r] /\ pc'[r] \in {"window", "scanning"}
                => PauseIsOver(user[r])]_vars
  <2> SUFFICES ASSUME IInv, PauseInv, [Next]_vars, NEW r \in Request,
                      pc[r] # pc'[r], pc'[r] \in {"window", "scanning"}
               PROVE  PauseIsOver(user[r])
    OBVIOUS
  <2>1. OpenWindow(r) \/ CloseConfirmed(r)
    <3>1. TypeOK
      BY DEF IInv
    <3>2. ASSUME NEW t \in Request, Coroutine(t)
          PROVE  t = r /\ (OpenWindow(t) \/ CloseConfirmed(t))
      BY <3>1, <3>2 DEF TypeOK, Coroutine, Refuse, AnswerPaused, Conflict, NoWindow, Overlap,
         OpenWindow, NoWindow, Deadline, CloseConflict, CloseSkipped, CloseUnconfirmed,
         CloseCancelled, CloseConfirmed, VerifyEnds, Answer
    <3>3. ~(\E t \in Request, u \in User : VerifyConfirmed(t, u))
      BY <3>1 DEF TypeOK, VerifyConfirmed
    <3>4. UNCHANGED pc \/ \E t \in Request : Coroutine(t)
      BY <3>3 DEF Next, WaitEnds, NoKeyboards, Cancel, PressEnter, PressEsc,
         PressOther, Tick, IdleExit, vars, request_vars
    <3> QED
      BY <3>2, <3>4
  <2>2. CASE OpenWindow(r)
    BY <2>2, OpenWindowNotPaused DEF IInv, TypeOK
  <2>3. CASE CloseConfirmed(r)
    BY <2>3 DEF CloseConfirmed, Closing, IInv, TypeOK, PauseInv
  <2> QED
    BY <2>1, <2>2, <2>3
<1> QED
  BY <1>1, <1>2, <1>3, Invariance, PTL DEF Spec, PauseHonoured

\* Without an Enter in between, at most CONFIRM_MISSES windows run out for one
\* user within CONFIRM_PAUSE_SECONDS, however requests overlap and even when a
\* pause begins while a window is open, provided that the service does not
\* exit while it counts (_confirm_missed, verify_confirmed, serve).
THEOREM RateIsLimited ==
  ASSUME IdleOutlastsCount
  PROVE  Spec => []RateLimited
<1>1. Init => RateInv /\ RateLimited
  <2> SUFFICES ASSUME Init PROVE RateInv /\ RateLimited
    OBVIOUS
  <2>1. \A u \in User : confirm_misses[u] = {} /\ lapsed[u] = {}
    BY DEF Init
  <2>2. Cardinality({}) = 0
    BY FS_EmptySet
  <2>3. \A u \in User : CountedSince(u)
    <3>1. \A u \in User : \A t : Since(lapsed[u], t) = {} /\ Since(confirm_misses[u], t) = {}
      BY <2>1 DEF Since
    <3> QED
      BY <2>2, <3>1 DEF CountedSince
  <2>4. \A r \in Request : pc[r] # "window"
    BY DEF Init
  <2>5. last_activity <= now
    BY DEF Init
  <2>6. Numbered({}) /\ Cardinality({}) < CONFIRM_MISSES /\ Cardinality({}) <= CONFIRM_MISSES
    BY <2>2, ConstantsAssumption DEF Numbered
  <2> QED
    BY <2>1, <2>3, <2>4, <2>5, <2>6 DEF RateInv, RateLimited
<1>2. IInv /\ RateInv /\ RateLimited /\ [Next]_vars => RateInv' /\ RateLimited'
  BY RateStep DEF IInv
<1> QED
  BY <1>1, <1>2, Invariance, PTL DEF Spec
=============================================================================
